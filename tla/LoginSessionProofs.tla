------------------------- MODULE LoginSessionProofs -------------------------
(***************************************************************************)
(* What the recovery lock, the pending jar and the login budget guarantee, *)
(* for any number of tasks, URLs, sessions and logins.                     *)
(***************************************************************************)
EXTENDS LoginSession, FiniteSetTheorems, TLAPS

\* Who holds the lock is exactly who is recovering.
LockIsRecovery == \A t \in Tasks : Recovering(t) <=> lock = t

\* The pending jar collects exactly while a login is under way, and what a login
\* that was accepted finds there is the session it was given.
JarIsTheLogin ==
  /\ pending # None => \E t \in Tasks : req[t].at \in {"login", "accepted"}
  /\ \A t \in Tasks : req[t].at = "accepted" => pending = issued

\* A login is begun within the budget.
WithinBudget == \A t \in Tasks : req[t].at \in {"ask", "asked"} => relogins < MaxRelogins

\* A request that is not idle has a URL.
Named == \A t \in Tasks : req[t].at # "idle" => req[t].url \in Urls

IInv == TypeOK /\ Named /\ LockIsRecovery /\ JarIsTheLogin /\ WithinBudget /\ CapRespected

USE SessionAssumption DEF SessionAssumption

-----------------------------------------------------------------------------
(* The states of a request.                                                *)

Frame(t) == /\ req' \in [Tasks -> RequestStates]
            /\ \A u \in Tasks \ {t} : req'[u] = req[u]

\* A step of t's that leaves alone what t's request was sent under, and one that
\* leaves alone what was answered to it.
SameSession(t) == /\ req'[t].seen = req[t].seen /\ req'[t].token = req[t].token
                  /\ req'[t].retry <=> req[t].retry
SameAnswer(t) == /\ req'[t].dropped <=> req[t].dropped
                 /\ req'[t].replaces <=> req[t].replaces

LEMMA StateTyped == ASSUME TypeOK, NEW t \in Tasks PROVE req[t] \in RequestStates
  BY DEF TypeOK

LEMMA FrameOfOne ==
  ASSUME NEW t \in Tasks, TypeOK, NEW r \in RequestStates, req' = [req EXCEPT ![t] = r]
  PROVE  Frame(t) /\ req'[t] = r
  BY DEF TypeOK, Frame

LEMMA BeginTyped ==
  ASSUME NEW a \in Places, NEW u \in Urls \union {None}, NEW n \in Nat, NEW k \in Nat \union {None}
  PROVE  /\ Request(a, u, n, k) \in RequestStates
         /\ Request(a, u, n, k).at = a /\ Request(a, u, n, k).url = u
         /\ Request(a, u, n, k).seen = n /\ Request(a, u, n, k).token = k
         /\ ~Request(a, u, n, k).retry /\ ~Request(a, u, n, k).dropped
         /\ ~Request(a, u, n, k).replaces
  <1> DEFINE no == FALSE
             r == [at |-> a, url |-> u, seen |-> n, token |-> k,
                   retry |-> no, dropped |-> no, replaces |-> no]
  <1>1. no \in BOOLEAN
    OBVIOUS
  <1> HIDE DEF no
  <1>2. r \in RequestStates
    BY <1>1 DEF RequestStates
  <1>3. /\ r \in RequestStates /\ r.at = a /\ r.url = u /\ r.seen = n /\ r.token = k
        /\ r.retry = no /\ r.dropped = no /\ r.replaces = no
    BY <1>2
  <1>4. ~no
    BY DEF no
  <1>5. ~r.retry /\ ~r.dropped /\ ~r.replaces
    BY <1>3, <1>4, Zenon
  <1>6. r = Request(a, u, n, k)
    BY Zenon DEF no, Request
  <1> HIDE DEF r
  <1> QED
    BY <1>3, <1>5, <1>6, Zenon

\* A request that begins, or is dropped by an exception.
LEMMA BeginShape ==
  ASSUME NEW t \in Tasks, TypeOK, NEW a \in Places, NEW u \in Urls \union {None}, NEW n \in Nat,
         NEW k \in Nat \union {None}, req' = [req EXCEPT ![t] = Request(a, u, n, k)]
  PROVE  /\ Frame(t) /\ req'[t].at = a /\ req'[t].url = u
         /\ req'[t].seen = n /\ req'[t].token = k
         /\ ~req'[t].retry /\ ~req'[t].dropped /\ ~req'[t].replaces
  <1> DEFINE r == Request(a, u, n, k)
  <1>1. /\ r \in RequestStates /\ r.at = a /\ r.url = u /\ r.seen = n /\ r.token = k
        /\ ~r.retry /\ ~r.dropped /\ ~r.replaces
    BY BeginTyped
  <1>2. req' = [req EXCEPT ![t] = r]
    OBVIOUS
  <1> HIDE DEF r
  <1>3. Frame(t) /\ req'[t] = r
    BY <1>1, <1>2, FrameOfOne
  <1> QED
    BY <1>1, <1>3, Zenon

\* A request that moves on.
LEMMA MovedShape ==
  ASSUME NEW t \in Tasks, TypeOK, NEW a \in Places, req' = [req EXCEPT ![t].at = a]
  PROVE  /\ Frame(t) /\ req'[t].at = a /\ req'[t].url = req[t].url
         /\ SameSession(t) /\ SameAnswer(t)
  <1> DEFINE r == [req[t] EXCEPT !.at = a]
  <1>1. /\ r \in RequestStates /\ r.at = a /\ r.url = req[t].url
        /\ r.seen = req[t].seen /\ r.token = req[t].token /\ r.retry = req[t].retry
        /\ r.dropped = req[t].dropped /\ r.replaces = req[t].replaces
    BY StateTyped DEF RequestStates
  <1>2. req' = [req EXCEPT ![t] = r]
    BY DEF TypeOK
  <1> HIDE DEF r
  <1> QED
    BY <1>1, <1>2, FrameOfOne DEF SameSession, SameAnswer

LEMMA AskShape ==
  ASSUME NEW t \in Tasks, TypeOK, NEW a \in Places, NEW k \in Nat,
         req' = [req EXCEPT ![t].at = a, ![t].token = k]
  PROVE  /\ Frame(t) /\ req'[t].at = a /\ req'[t].url = req[t].url
         /\ req'[t].seen = req[t].seen /\ req'[t].token = k
         /\ req'[t].retry <=> req[t].retry
         /\ SameAnswer(t)
  <1> DEFINE r == [req[t] EXCEPT !.at = a, !.token = k]
  <1>1. /\ r \in RequestStates /\ r.at = a /\ r.url = req[t].url
        /\ r.seen = req[t].seen /\ r.token = k /\ r.retry = req[t].retry
        /\ r.dropped = req[t].dropped /\ r.replaces = req[t].replaces
    BY StateTyped DEF RequestStates
  <1>2. req' = [req EXCEPT ![t] = r]
    BY DEF TypeOK
  <1> HIDE DEF r
  <1> QED
    BY <1>1, <1>2, FrameOfOne DEF SameAnswer

LEMMA AnsweredShape ==
  ASSUME NEW t \in Tasks, TypeOK, NEW a \in Places, NEW d \in BOOLEAN, NEW p \in BOOLEAN,
         req' = [req EXCEPT ![t].at = a, ![t].dropped = d, ![t].replaces = p]
  PROVE  /\ Frame(t) /\ req'[t].at = a /\ req'[t].url = req[t].url
         /\ SameSession(t) /\ (req'[t].dropped <=> d) /\ (req'[t].replaces <=> p)
  <1> DEFINE r == [req[t] EXCEPT !.at = a, !.dropped = d, !.replaces = p]
  <1>1. /\ r \in RequestStates /\ r.at = a /\ r.url = req[t].url
        /\ r.seen = req[t].seen /\ r.token = req[t].token /\ r.retry = req[t].retry
        /\ r.dropped = d /\ r.replaces = p
    BY StateTyped DEF RequestStates
  <1>2. req' = [req EXCEPT ![t] = r]
    BY DEF TypeOK
  <1> HIDE DEF r
  <1> QED
    BY <1>1, <1>2, FrameOfOne DEF SameSession

LEMMA ResentShape ==
  ASSUME NEW t \in Tasks, TypeOK, NEW k \in Nat, req' = Resent(t, k)
  PROVE  /\ Frame(t) /\ req'[t].at = "sent" /\ req'[t].url = req[t].url
         /\ req'[t].seen = req[t].seen /\ req'[t].token = k /\ req'[t].retry
         /\ SameAnswer(t)
  <1> DEFINE yes == TRUE
             r == [req[t] EXCEPT !.at = "sent", !.retry = yes, !.token = k]
  <1>1. yes \in BOOLEAN /\ "sent" \in Places
    BY DEF Places
  <1>2. req' = [req EXCEPT ![t] = r]
    BY DEF TypeOK, Resent
  <1> HIDE DEF yes
  <1>3. /\ r \in RequestStates /\ r.at = "sent" /\ r.url = req[t].url
        /\ r.seen = req[t].seen /\ r.token = k /\ r.retry = yes
        /\ r.dropped = req[t].dropped /\ r.replaces = req[t].replaces
    BY <1>1, StateTyped DEF RequestStates
  <1>4. r.retry
    BY <1>3, Zenon DEF yes
  <1> HIDE DEF r
  <1> QED
    BY <1>2, <1>3, <1>4, FrameOfOne DEF SameAnswer

LEMMA NotADropShape ==
  ASSUME NEW t \in Tasks, TypeOK, NotADrop(t)
  PROVE  /\ Frame(t) /\ req'[t].at = "done" /\ req'[t].url = req[t].url
         /\ SameSession(t) /\ req'[t].dropped /\ (req'[t].replaces <=> req[t].replaces)
  <1> DEFINE yes == TRUE
             r == [req[t] EXCEPT !.at = "done", !.dropped = yes]
  <1>1. yes \in BOOLEAN /\ "done" \in Places
    BY DEF Places
  <1>2. req' = [req EXCEPT ![t] = r]
    BY DEF TypeOK, NotADrop
  <1> HIDE DEF yes
  <1>3. /\ r \in RequestStates /\ r.at = "done" /\ r.url = req[t].url
        /\ r.seen = req[t].seen /\ r.token = req[t].token /\ r.retry = req[t].retry
        /\ r.dropped = yes /\ r.replaces = req[t].replaces
    BY <1>1, StateTyped DEF RequestStates
  <1>4. r.dropped
    BY <1>3, Zenon DEF yes
  <1> HIDE DEF r
  <1> QED
    BY <1>2, <1>3, <1>4, FrameOfOne DEF SameSession

LEMMA EndedShape ==
  ASSUME NEW t \in Tasks, TypeOK, req' = Ended(t)
  PROVE  /\ Frame(t) /\ req'[t].at = "done" /\ req'[t].url = req[t].url
         /\ SameSession(t) /\ SameAnswer(t)
  BY MovedShape DEF Ended, Places

-----------------------------------------------------------------------------
(* The inductive invariant.                                                *)

LEMMA InitEstablishes == ASSUME Init PROVE IInv
  <1>1. Idle \in RequestStates /\ Idle.at = "idle"
    <2> DEFINE start == "idle"
               nowhere == None
               zero == 0
               nothing == None
    <2>1. /\ start \in Places /\ nowhere \in Urls \union {None}
          /\ zero \in Nat /\ nothing \in Nat \union {None}
      BY DEF Places
    <2> HIDE DEF start, nowhere, zero, nothing
    <2>2. /\ Request(start, nowhere, zero, nothing) \in RequestStates
          /\ Request(start, nowhere, zero, nothing).at = start
      BY <2>1, BeginTyped
    <2> QED
      BY <2>2, Zenon DEF Idle, start, nowhere, zero, nothing
  <1>2. req = [t \in Tasks |-> Idle]
    BY DEF Init
  <1>3. req \in [Tasks -> RequestStates] /\ \A t \in Tasks : req[t].at = "idle"
    BY <1>1, <1>2
  <1>4. TypeOK
    <2>1. live \in Nat /\ pending \in Nat \union {None} /\ issued \in Nat /\ valid \subseteq Nat
      BY DEF Init
    <2>2. /\ generation \in Nat /\ relogins \in Nat /\ failedRelogins \in Nat
          /\ requests \in Nat /\ drops \in Nat /\ faults \in Nat
      BY DEF Init
    <2>3. /\ lost \in BOOLEAN /\ closed \in BOOLEAN /\ known \subseteq Urls
          /\ lock \in Tasks \union {"free"} /\ check \in CheckUrls /\ landing \in Landings /\ blind \in Nat
      BY DEF Init
    <2> QED
      BY <1>3, <2>1, <2>2, <2>3 DEF TypeOK
  <1>5. Named /\ LockIsRecovery /\ JarIsTheLogin /\ WithinBudget /\ CapRespected
    BY <1>3 DEF Init, Named, LockIsRecovery, JarIsTheLogin, WithinBudget, CapRespected, Recovering
  <1> QED
    BY <1>4, <1>5 DEF IInv

\* A task outside a recovery that stays outside disturbs neither lock, jar nor budget.
LEMMA StaysOutside ==
  ASSUME IInv, NEW t \in Tasks, Frame(t), ~Recovering(t), ~Recovering(t)',
         UNCHANGED <<lock, pending, issued, relogins>>
  PROVE  LockIsRecovery' /\ JarIsTheLogin' /\ WithinBudget'
  BY DEF IInv, LockIsRecovery, JarIsTheLogin, WithinBudget, Frame, Recovering

LEMMA SendPreserves == ASSUME IInv, NEW t \in Tasks, Send(t) PROVE IInv'
  <1>1. PICK u \in Urls : req' = [req EXCEPT ![t] = Request("sent", u, generation, live)]
    BY DEF Send
  <1>2. Frame(t) /\ req'[t].at = "sent" /\ req'[t].url = u
    BY <1>1, BeginShape DEF IInv, TypeOK, Places
  <1>3. ~Recovering(t) /\ ~Recovering(t)'
    BY <1>2 DEF Send, Recovering
  <1>4. LockIsRecovery' /\ JarIsTheLogin' /\ WithinBudget'
    BY <1>2, <1>3, StaysOutside DEF Send, session, server, auth
  <1>5. TypeOK' /\ CapRespected' /\ Named'
    BY <1>2 DEF Send, session, server, auth, IInv, TypeOK, CapRespected, Frame, Named
  <1> QED
    BY <1>4, <1>5 DEF IInv

LEMMA RequestFailsPreserves == ASSUME IInv, NEW t \in Tasks, RequestFails(t) PROVE IInv'
  <1>1. Frame(t) /\ req'[t].at = "idle"
    <2>1. req' = [req EXCEPT ![t] = Request("idle", None, 0, None)]
      BY DEF RequestFails, Idle
    <2> QED
      BY <2>1, BeginShape DEF IInv, Places
  <1>2. ~Recovering(t) /\ ~Recovering(t)'
    BY <1>1 DEF RequestFails, Recovering
  <1>3. LockIsRecovery' /\ JarIsTheLogin' /\ WithinBudget'
    BY <1>1, <1>2, StaysOutside DEF RequestFails, session, server, auth
  <1>4. TypeOK' /\ CapRespected' /\ Named'
    BY <1>1 DEF RequestFails, Fault, session, server, auth, IInv, TypeOK, CapRespected, Frame, Named
  <1> QED
    BY <1>3, <1>4 DEF IInv

LEMMA ServePreserves == ASSUME IInv, NEW t \in Tasks, Serve(t) PROVE IInv'
  <1>1. ASSUME NEW url, NEW a \in Places, Answered(t, url, a)
        PROVE  Frame(t) /\ req'[t].at = a /\ req'[t].url = req[t].url
    <2>1. PICK x \in Answers(req[t].token, url) :
            req' = [req EXCEPT ![t].at = a, ![t].dropped = x.dropped, ![t].replaces = x.replaces]
      BY <1>1 DEF Answered
    <2>2. x.dropped \in BOOLEAN /\ x.replaces \in BOOLEAN
      <3>1. PICK r \in (IF ReplacesCookie /\ req[t].token \notin valid THEN {TRUE, FALSE} ELSE {FALSE}) :
              x = [dropped |-> url \in Bouncers \/ req[t].token \notin valid, replaces |-> r]
        BY DEF Answers
      <3>2. x.replaces = r /\ r \in BOOLEAN
        BY <3>1
      <3>3. x.dropped = (url \in Bouncers \/ req[t].token \notin valid)
        BY <3>1
      <3> QED
        BY <3>2, <3>3
    <2> QED
      BY <2>1, <2>2, AnsweredShape DEF IInv
  <1>2. CASE req[t].at = "sent" /\ Answered(t, req[t].url, "answered")
    <2>1. Frame(t) /\ req'[t].at = "answered" /\ req'[t].url = req[t].url
      BY <1>1, <1>2 DEF Places
    <2>2. LockIsRecovery' /\ JarIsTheLogin' /\ WithinBudget'
      BY <1>2, <2>1, StaysOutside DEF Serve, session, server, auth, Recovering
    <2> QED
      BY <2>1, <2>2 DEF Serve, session, server, auth, IInv, TypeOK, CapRespected, Frame, Named
  <1>3. CASE req[t].at = "ask" /\ Answered(t, Reference, "asked")
    <2>1. Frame(t) /\ req'[t].at = "asked" /\ req'[t].url = req[t].url
      BY <1>1, <1>3 DEF Places
    <2>2. LockIsRecovery' /\ JarIsTheLogin' /\ WithinBudget'
      BY <1>3, <2>1 DEF Serve, session, server, auth, IInv, LockIsRecovery, JarIsTheLogin, WithinBudget,
         Frame, Recovering
    <2> QED
      BY <2>1, <2>2 DEF Serve, session, server, auth, IInv, TypeOK, CapRespected, Frame, Named
  <1> QED
    BY <1>2, <1>3 DEF Serve

LEMMA ReceivePreserves == ASSUME IInv, NEW t \in Tasks, Receive(t) PROVE IInv'
  <1>1. Frame(t) /\ req'[t].at \in {"drop", "done"} /\ req'[t].url = req[t].url
    <2>1. CASE req' = [req EXCEPT ![t].at = "drop"]
      BY <2>1, MovedShape DEF IInv, Places
    <2>2. CASE req' = Ended(t)
      BY <2>2, EndedShape DEF IInv
    <2> QED
      BY <2>1, <2>2 DEF Receive
  <1>2. LockIsRecovery' /\ JarIsTheLogin' /\ WithinBudget'
    BY <1>1, StaysOutside DEF Receive, Absorb, server, auth, Recovering
  <1>3. live' \in Nat
    BY DEF Receive, Absorb, Anonymous, IInv, TypeOK
  <1>4. known' \subseteq Urls
    BY DEF Receive, IInv, Named, TypeOK
  <1>5. TypeOK' /\ CapRespected' /\ Named'
    BY <1>1, <1>3, <1>4 DEF Receive, Absorb, server, auth, IInv, TypeOK, CapRespected, Frame, Named
  <1> QED
    BY <1>2, <1>5 DEF IInv

LEMMA AlreadyRecoveredPreserves ==
  ASSUME IInv, NEW t \in Tasks, AlreadyRecovered(t) PROVE IInv'
  <1>1. Frame(t) /\ req'[t].at = "sent" /\ req'[t].url = req[t].url
    BY ResentShape DEF AlreadyRecovered, IInv, TypeOK
  <1>2. LockIsRecovery' /\ JarIsTheLogin' /\ WithinBudget'
    BY <1>1, StaysOutside DEF AlreadyRecovered, LockTaken, session, server, auth, Recovering
  <1>3. TypeOK' /\ CapRespected' /\ Named'
    BY <1>1 DEF AlreadyRecovered, LockTaken, session, server, auth, IInv, TypeOK, CapRespected, Frame, Named
  <1> QED
    BY <1>2, <1>3 DEF IInv

LEMMA NotRecoveredPreserves ==
  ASSUME IInv, NEW t \in Tasks, NotRecovered(t) PROVE IInv'
  <1>1. Frame(t) /\ req'[t].at = "done" /\ req'[t].url = req[t].url
    BY EndedShape DEF NotRecovered, IInv
  <1>2. LockIsRecovery' /\ JarIsTheLogin' /\ WithinBudget'
    BY <1>1, StaysOutside DEF NotRecovered, LockTaken, server, auth, Recovering
  <1>3. lost' \in BOOLEAN
    BY DEF NotRecovered, IInv, TypeOK
  <1>4. CapRespected'
    BY DEF NotRecovered, IInv, TypeOK, CapRespected
  <1>5. TypeOK' /\ Named'
    BY <1>1, <1>3 DEF NotRecovered, LockTaken, server, auth, IInv, TypeOK, Frame, Named
  <1> QED
    BY <1>2, <1>4, <1>5 DEF IInv

LEMMA AskPreserves == ASSUME IInv, NEW t \in Tasks, Ask(t) PROVE IInv'
  <1>1. Frame(t) /\ req'[t].at = "ask" /\ req'[t].url = req[t].url
    BY AskShape DEF Ask, IInv, TypeOK, Places
  <1>2. lock = "free" /\ req[t].at = "drop" /\ relogins < MaxRelogins /\ lock' = t
    BY DEF Ask, MayRelogin, LockTaken
  <1>3. LockIsRecovery' /\ JarIsTheLogin' /\ WithinBudget'
    BY <1>1, <1>2 DEF Ask, server, auth, IInv, LockIsRecovery, JarIsTheLogin, WithinBudget, Frame, Recovering
  <1>4. TypeOK' /\ CapRespected' /\ Named'
    BY <1>1, <1>2 DEF Ask, server, auth, IInv, TypeOK, CapRespected, Frame, Named
  <1> QED
    BY <1>3, <1>4 DEF IInv

\* Beginning a login, by a task that holds the lock and has the budget for it.
LEMMA LoginPreserves ==
  ASSUME IInv, NEW t \in Tasks, Login(t), relogins < MaxRelogins, live' \in Nat,
         ~(\E u \in Tasks \ {t} : Recovering(u)), lock' = t,
         req[t].at \in {"drop", "asked"}, blind' \in {blind, blind + 1},
         UNCHANGED <<generation, failedRelogins, lost, closed, known, server, check, landing,
                     requests, faults>>
  PROVE  IInv'
  <1>1. Frame(t) /\ req'[t].at = "login" /\ req'[t].url = req[t].url
    BY MovedShape DEF Login, IInv, Places
  <1>2. relogins' = relogins + 1 /\ pending' = 0
    BY DEF Login, Anonymous
  <1>3. LockIsRecovery' /\ WithinBudget'
    BY <1>1 DEF LockIsRecovery, WithinBudget, Frame, Recovering
  <1>4. JarIsTheLogin'
    BY <1>1 DEF JarIsTheLogin, Frame, Recovering
  <1>5. CapRespected' /\ Named'
    BY <1>1, <1>2 DEF IInv, TypeOK, CapRespected, Named, Frame
  <1>6. TypeOK'
    BY <1>1, <1>2 DEF server, auth, IInv, TypeOK, Frame
  <1> QED
    BY <1>3, <1>4, <1>5, <1>6 DEF IInv

LEMMA LoginAtOncePreserves == ASSUME IInv, NEW t \in Tasks, LoginAtOnce(t) PROVE IInv'
  <1>1. /\ lock = "free" /\ req[t].at = "drop" /\ relogins < MaxRelogins
        /\ lock' = t /\ live' = live /\ Login(t)
    BY DEF LoginAtOnce, MayRelogin, LockTaken
  <1>2. \A u \in Tasks : ~Recovering(u)
    BY <1>1 DEF IInv, LockIsRecovery
  <1>3. live' \in Nat /\ blind' \in {blind, blind + 1}
    BY <1>1 DEF LoginAtOnce, IInv, TypeOK
  <1> QED
    BY <1>1, <1>2, <1>3, LoginPreserves DEF LoginAtOnce

\* Giving up the lock: the task leaves the recovery and no jar is collecting.
LEMMA LeavesRecovery ==
  ASSUME IInv, NEW t \in Tasks, Recovering(t), Frame(t), ~Recovering(t)', lock' = "free",
         pending' = None, UNCHANGED <<relogins, lost>>
  PROVE  LockIsRecovery' /\ JarIsTheLogin' /\ WithinBudget' /\ CapRespected'
  <1>1. lock = t /\ \A u \in Tasks \ {t} : ~Recovering(u)
    BY DEF IInv, LockIsRecovery
  <1>2. \A u \in Tasks : ~Recovering(u)'
    BY <1>1 DEF Frame, Recovering
  <1> QED
    BY <1>2 DEF IInv, LockIsRecovery, JarIsTheLogin, WithinBudget, CapRespected, Recovering

\* While the reference page is asked, no jar is collecting.
LEMMA AskingHasNoJar ==
  ASSUME IInv, NEW t \in Tasks, req[t].at \in {"ask", "asked"}
  PROVE  lock = t /\ pending = None /\ \A u \in Tasks \ {t} : ~Recovering(u)
  BY DEF IInv, LockIsRecovery, JarIsTheLogin, Recovering

LEMMA NotADropPreserves ==
  ASSUME IInv, NEW t \in Tasks, req[t].at \in {"ask", "asked"}, NotADrop(t), live' \in Nat,
         faults' \in Nat,
         UNCHANGED <<pending, generation, relogins, failedRelogins, lost, closed, server, auth, requests>>
  PROVE  IInv'
  <1>1. Frame(t) /\ req'[t].at = "done" /\ req'[t].url = req[t].url
    BY NotADropShape DEF IInv
  <1>2. LockIsRecovery' /\ JarIsTheLogin' /\ WithinBudget' /\ CapRespected'
    BY <1>1, AskingHasNoJar, LeavesRecovery DEF NotADrop, Recovering
  <1>3. known' \subseteq Urls /\ lock' = "free"
    BY DEF NotADrop, IInv, Named, TypeOK
  <1>4. TypeOK' /\ Named'
    BY <1>1, <1>3 DEF server, auth, IInv, TypeOK, Named, Frame
  <1> QED
    BY <1>2, <1>4 DEF IInv

LEMMA AskedPreserves == ASSUME IInv, NEW t \in Tasks, Asked(t) PROVE IInv'
  <1>1. req[t].at = "asked" /\ relogins < MaxRelogins
    BY DEF Asked, IInv, WithinBudget
  <1>2. live' \in Nat /\ blind' \in {blind, blind + 1}
    BY DEF Asked, auth, Anonymous, IInv, TypeOK
  <1>3. CASE Login(t) /\ UNCHANGED <<known, lock>>
    BY <1>1, <1>2, <1>3, AskingHasNoJar, LoginPreserves DEF Asked, auth
  <1>4. CASE NotADrop(t) /\ UNCHANGED <<relogins, pending>>
    <2>1. faults' \in Nat
      BY DEF Asked, IInv, TypeOK
    <2> QED
      BY <1>1, <1>2, <1>4, <2>1, NotADropPreserves DEF Asked
  <1> QED
    BY <1>3, <1>4 DEF Asked

LEMMA AskFailsPreserves == ASSUME IInv, NEW t \in Tasks, AskFails(t) PROVE IInv'
  <1>1. live' \in Nat /\ faults' \in Nat
    BY DEF AskFails, Fault, IInv, TypeOK
  <1> QED
    BY <1>1, NotADropPreserves DEF AskFails

LEMMA LoginServedPreserves == ASSUME IInv, NEW t \in Tasks, LoginServed(t) PROVE IInv'
  <1>1. Frame(t) /\ req'[t].at = "accepted" /\ req'[t].url = req[t].url
    BY MovedShape DEF LoginServed, IInv, Places
  <1>2. lock = t /\ \A u \in Tasks \ {t} : ~Recovering(u)
    BY DEF LoginServed, IInv, LockIsRecovery, Recovering
  <1>3. LockIsRecovery' /\ JarIsTheLogin' /\ WithinBudget'
    BY <1>1, <1>2 DEF LoginServed, session, LockIsRecovery, JarIsTheLogin, WithinBudget, Frame, Recovering
  <1>4. TypeOK' /\ CapRespected' /\ Named'
    BY <1>1 DEF LoginServed, session, auth, IInv, TypeOK, CapRespected, Named, Frame
  <1> QED
    BY <1>3, <1>4 DEF IInv

LEMMA CommitPreserves == ASSUME IInv, NEW t \in Tasks, Commit(t) PROVE IInv' /\ live' = issued
  <1>1. req[t].at = "accepted" /\ pending = issued /\ live' = issued /\ pending' = None
    BY DEF Commit, IInv, JarIsTheLogin
  <1>2. pending \in Nat
    BY <1>1 DEF IInv, TypeOK
  <1>3. Frame(t) /\ req'[t].at = "sent" /\ req'[t].url = req[t].url
    BY <1>2, ResentShape DEF Commit, IInv
  <1>4. LockIsRecovery' /\ JarIsTheLogin' /\ WithinBudget' /\ CapRespected'
    BY <1>1, <1>3, LeavesRecovery DEF Commit, Recovering
  <1>5. TypeOK' /\ Named'
    BY <1>1, <1>2, <1>3 DEF Commit, server, auth, IInv, TypeOK, Named, Frame
  <1> QED
    BY <1>1, <1>4, <1>5 DEF IInv

LEMMA LoginFailsPreserves == ASSUME IInv, NEW t \in Tasks, LoginFails(t) PROVE IInv'
  <1>1. Frame(t) /\ req'[t].at = "done" /\ req'[t].url = req[t].url
    BY EndedShape DEF LoginFails, IInv
  <1>2. LockIsRecovery' /\ JarIsTheLogin' /\ WithinBudget' /\ CapRespected'
    BY <1>1, LeavesRecovery DEF LoginFails, Recovering
  <1>3. TypeOK' /\ Named'
    BY <1>1 DEF LoginFails, Fault, server, auth, IInv, TypeOK, Named, Frame
  <1> QED
    BY <1>2, <1>3 DEF IInv

\* Every step keeps the invariant, and the only one that commits a session commits
\* the last one the server created.
LEMMA StepPreserves ==
  ASSUME IInv, [Next]_vars
  PROVE  IInv' /\ (generation' # generation => live' = issued)
  <1>1. CASE UNCHANGED vars
    BY <1>1 DEF vars, session, server, auth, IInv, TypeOK, Named, LockIsRecovery, JarIsTheLogin,
       WithinBudget, CapRespected, Recovering
  <1>2. CASE Drop
    BY <1>2 DEF Drop, session, auth, IInv, TypeOK, Named, LockIsRecovery, JarIsTheLogin,
       WithinBudget, CapRespected, Recovering
  <1>3. CASE Close
    BY <1>3 DEF Close, server, auth, IInv, TypeOK, Named, LockIsRecovery, JarIsTheLogin,
       WithinBudget, CapRespected, Recovering
  <1>4. ASSUME NEW t \in Tasks, Commit(t) PROVE IInv' /\ live' = issued
    BY <1>4, CommitPreserves
  <1>5. ASSUME NEW t \in Tasks,
               \/ Send(t) \/ Serve(t) \/ Receive(t) \/ Asked(t) \/ LoginServed(t)
               \/ EnterRecovery(t) \/ RequestFails(t) \/ AskFails(t) \/ LoginFails(t)
        PROVE  IInv' /\ generation' = generation
    <2>1. IInv'
      BY <1>5, SendPreserves, ServePreserves, ReceivePreserves, AskedPreserves,
         LoginServedPreserves, AlreadyRecoveredPreserves, NotRecoveredPreserves, AskPreserves,
         LoginAtOncePreserves, RequestFailsPreserves, AskFailsPreserves, LoginFailsPreserves
      DEF EnterRecovery
    <2>2. generation' = generation
      BY <1>5 DEF Send, Serve, Receive, Asked, LoginServed, EnterRecovery, AlreadyRecovered,
         NotRecovered, Ask, LoginAtOnce, RequestFails, AskFails, LoginFails, session
    <2> QED
      BY <2>1, <2>2
  <1> QED
    BY <1>1, <1>2, <1>3, <1>4, <1>5 DEF Next, Progress, vars, session, Drop, Close

-----------------------------------------------------------------------------

\* The invariant holds in every reachable state.
THEOREM Invariance == Spec => []IInv
  BY InitEstablishes, StepPreserves, PTL DEF Spec

\* Every reachable state is well typed.
THEOREM TypeCorrectness == Spec => []TypeOK
  BY Invariance, PTL DEF IInv

\* Two tasks never recover the session at once, and the jar a login collects in is
\* never left behind, however logins and reference requests end.
THEOREM RecoveriesAreSerial == Spec => []RecoveryIsSerial
  <1>1. IInv => RecoveryIsSerial
    BY DEF IInv, LockIsRecovery, JarIsTheLogin, RecoveryIsSerial
  <1> QED
    BY <1>1, Invariance, PTL

\* No more logins than max_relogins, and "lost" only after that many.
THEOREM LoginsAreCapped == Spec => []CapRespected
  BY Invariance, PTL DEF IInv

\* What a login commits is the session the server created for it.
THEOREM LoginsAreCommitted == Spec => CommitsTheLogin
  <1>1. IInv /\ [Next]_vars => [generation' # generation => live' = issued]_vars
    BY StepPreserves
  <1> QED
    BY <1>1, Invariance, PTL DEF Spec, CommitsTheLogin

\* Both together: recoveries do not overlap and their logins are capped.
THEOREM RecoveriesAreOrderly == Spec => []RecoveryIsOrderly
  BY RecoveriesAreSerial, LoginsAreCapped, PTL DEF RecoveryIsOrderly

-----------------------------------------------------------------------------
(* One login per ended session.                                            *)

\* The two things the property rests on besides the program: the server leaves the
\* cookie of a dead session alone, and a page that is asked whether the session is
\* alive answers differently when it is not (config.py:175, login.py:157).
CookiesKept == ~ReplacesCookie
ReferencesTell == (CheckUrls \union Landings) \cap Bouncers = {}

LoggingIn(t) == req[t].at \in {"login", "accepted"}

\* The sessions among the first n that have ended.
Dead(n) == (1..n) \ valid

Tokens == live \in 1..issued /\ valid \subseteq 1..issued /\ generation >= 1

\* What a request in progress was sent under: no session but a live one's has the
\* present generation, unless the request is a retry; and no retry recovers.
SentUnder(t) ==
  /\ ~req[t].replaces
  /\ req[t].at = "accepted" => live < issued
  /\ req[t].at # "idle" =>
       /\ req[t].token \in 1..issued /\ req[t].seen \in 1..generation
       /\ req[t].seen = generation /\ ~req[t].retry => req[t].token = live
  /\ req[t].at = "drop" \/ Recovering(t) => ~req[t].retry
  /\ Recovering(t) => req[t].seen = generation

\* A login under way is already accounted for, by one begun blind.
Accounted == blind >= 1 /\ generation <= Cardinality(Dead(live - 1)) + blind

\* What its answer tells: a logged-out answer to a page that does not always bounce
\* means that the session has ended, and a login begins only then or blind.
Told(t) ==
  /\ req[t].at = "drop" => req[t].dropped
  /\ req[t].at \in {"answered", "drop"} /\ req[t].dropped /\ req[t].url \notin Bouncers =>
       req[t].token \notin valid
  /\ req[t].at \in {"ask", "asked"} =>
       (req[t].url \notin Bouncers => live \notin valid)
  /\ req[t].at = "asked" =>
       (req[t].url \notin Bouncers => req[t].dropped) /\ (req[t].dropped => live \notin valid)
  /\ LoggingIn(t) => live \notin valid \/ Accounted

\* Every committed login has retired a session of its own or was begun blind, and every
\* session that ended was ended by the server.
Counts ==
  /\ Cardinality(Dead(issued)) <= drops
  /\ generation - 1 <= Cardinality(Dead(live - 1)) + blind

LInv == Tokens /\ (\A t \in Tasks : SentUnder(t) /\ Told(t)) /\ Counts

LEMMA DeadIsFinite ==
  ASSUME NEW n \in Int
  PROVE  IsFiniteSet(Dead(n)) /\ Cardinality(Dead(n)) \in Nat
  <1>1. IsFiniteSet(1..n)
    <2>1. 1 \in Int
      OBVIOUS
    <2> QED
      BY <2>1, FS_Interval
  <1>2. Dead(n) \in SUBSET (1..n)
    BY DEF Dead
  <1> QED
    BY <1>1, <1>2, FS_Subset, FS_CardinalityType

\* What is accounted for stays so while the session stays.
LEMMA StaysAccounted ==
  ASSUME TypeOK, Accounted, UNCHANGED <<live, generation, valid>>, blind' \in {blind, blind + 1}
  PROVE  Accounted'
  <1>1. Cardinality(Dead(live - 1)) \in Nat
    BY DeadIsFinite DEF TypeOK
  <1>2. Dead(live - 1)' = Dead(live - 1)
    BY DEF Dead
  <1> QED
    BY <1>1, <1>2 DEF Accounted, TypeOK

\* What is below the live session is among all of them.
LEMMA CountsBound == ASSUME TypeOK, LInv PROVE generation - 1 <= drops + blind
  <1>1. Dead(live - 1) \in SUBSET Dead(issued) /\ issued \in Nat /\ live \in Nat
    BY DEF LInv, Tokens, Dead, TypeOK
  <1>2. /\ IsFiniteSet(Dead(issued)) /\ Cardinality(Dead(issued)) \in Nat
        /\ Cardinality(Dead(live - 1)) \in Nat
    BY <1>1, DeadIsFinite
  <1>3. Cardinality(Dead(live - 1)) <= Cardinality(Dead(issued))
    BY <1>1, <1>2, FS_Subset
  <1> QED
    BY <1>2, <1>3 DEF LInv, Counts, TypeOK

\* A step of t's that leaves the sessions alone disturbs no other request.
LEMMA OthersKeep ==
  ASSUME IInv, LInv, NEW t \in Tasks, Frame(t), SentUnder(t)', Told(t)',
         UNCHANGED <<live, generation, valid, issued, drops>>, blind' \in {blind, blind + 1}
  PROVE  LInv'
  <1>1. \A u \in Tasks \ {t} : SentUnder(u)' /\ Told(u)'
    BY StaysAccounted DEF IInv, LInv, Frame, SentUnder, Told, Recovering, LoggingIn
  <1>2. Cardinality(Dead(live - 1)) \in Nat /\ blind \in Nat /\ generation \in Nat
    BY DeadIsFinite DEF IInv, TypeOK
  <1>3. Dead(live - 1)' = Dead(live - 1) /\ Dead(issued)' = Dead(issued)
    BY DEF Dead
  <1>4. Tokens' /\ Counts'
    BY <1>2, <1>3 DEF LInv, Tokens, Counts
  <1> QED
    BY <1>1, <1>4 DEF LInv

LEMMA LInitEstablishes == ASSUME Init PROVE LInv
  <1>1. Idle.at = "idle" /\ ~Idle.replaces
    BY DEF Idle, Request
  <1>2. \A t \in Tasks : req[t].at = "idle" /\ ~req[t].replaces
    BY <1>1 DEF Init
  <1>3. Tokens /\ \A t \in Tasks : SentUnder(t) /\ Told(t)
    BY <1>2 DEF Init, Tokens, SentUnder, Told, Recovering, LoggingIn
  <1>4. Dead(1) = {} /\ Dead(0) = {}
    BY DEF Dead, Init
  <1>5. Counts
    <2>1. Cardinality(Dead(live - 1)) = 0 /\ Cardinality(Dead(issued)) = 0
      BY <1>4, FS_EmptySet DEF Init
    <2> QED
      BY <2>1 DEF Init, Counts
  <1> QED
    BY <1>3, <1>5 DEF LInv

LEMMA SendCounts == ASSUME IInv, LInv, NEW t \in Tasks, Send(t) PROVE LInv'
  <1>1. PICK u \in Urls : req' = [req EXCEPT ![t] = Request("sent", u, generation, live)]
    BY DEF Send
  <1>2. /\ Frame(t) /\ req'[t].at = "sent" /\ req'[t].url = u
        /\ req'[t].seen = generation /\ req'[t].token = live
        /\ ~req'[t].retry /\ ~req'[t].dropped /\ ~req'[t].replaces
    BY <1>1, BeginShape DEF IInv, TypeOK, Places
  <1>3. UNCHANGED <<live, generation, valid, issued, drops, blind>>
    BY DEF Send, session, server, auth
  <1>4. SentUnder(t)' /\ Told(t)'
    BY <1>2, <1>3 DEF LInv, Tokens, IInv, TypeOK, SentUnder, Told, Recovering, LoggingIn
  <1> QED
    BY <1>2, <1>3, <1>4, OthersKeep

LEMMA RequestFailsCounts == ASSUME IInv, LInv, NEW t \in Tasks, RequestFails(t) PROVE LInv'
  <1>1. Frame(t) /\ req'[t].at = "idle" /\ ~req'[t].replaces
    <2>1. req' = [req EXCEPT ![t] = Request("idle", None, 0, None)]
      BY DEF RequestFails, Idle
    <2> QED
      BY <2>1, BeginShape DEF IInv, Places
  <1>2. UNCHANGED <<live, generation, valid, issued, drops, blind>>
    BY DEF RequestFails, session, server, auth
  <1>3. SentUnder(t)' /\ Told(t)'
    BY <1>1, <1>2 DEF SentUnder, Told, Recovering, LoggingIn
  <1> QED
    BY <1>1, <1>2, <1>3, OthersKeep

\* What the server says of a session: "logged out" exactly when it has ended or the
\* page bounces, and with CookiesKept nothing else.
LEMMA AnswersTell ==
  ASSUME IInv, CookiesKept, NEW t \in Tasks, NEW url, NEW a \in Places, Answered(t, url, a)
  PROVE  /\ Frame(t) /\ req'[t].at = a /\ req'[t].url = req[t].url /\ SameSession(t)
         /\ ~req'[t].replaces
         /\ req'[t].dropped <=> (url \in Bouncers \/ req[t].token \notin valid)
  <1>1. PICK x \in Answers(req[t].token, url) :
          req' = [req EXCEPT ![t].at = a, ![t].dropped = x.dropped, ![t].replaces = x.replaces]
    BY DEF Answered
  <1>2. PICK r \in {FALSE} :
          x = [dropped |-> url \in Bouncers \/ req[t].token \notin valid, replaces |-> r]
    BY DEF Answers, CookiesKept
  <1>3. x.replaces \in BOOLEAN /\ ~x.replaces
    BY <1>2
  <1>4. x.dropped \in BOOLEAN /\ (x.dropped <=> (url \in Bouncers \/ req[t].token \notin valid))
    BY <1>2
  <1> QED
    BY <1>1, <1>3, <1>4, AnsweredShape DEF IInv

LEMMA ServeCounts ==
  ASSUME IInv, LInv, CookiesKept, ReferencesTell, NEW t \in Tasks, Serve(t) PROVE LInv'
  <1>1. UNCHANGED <<live, generation, valid, issued, drops, blind>>
    BY DEF Serve, session, server, auth
  <1>2. CASE req[t].at = "sent" /\ Answered(t, req[t].url, "answered")
    <2>1. /\ Frame(t) /\ req'[t].at = "answered" /\ req'[t].url = req[t].url /\ SameSession(t)
          /\ ~req'[t].replaces
          /\ req'[t].dropped <=> (req[t].url \in Bouncers \/ req[t].token \notin valid)
      BY <1>2, AnswersTell DEF Places
    <2>2. SentUnder(t)' /\ Told(t)'
      BY <1>1, <1>2, <2>1 DEF LInv, SentUnder, Told, SameSession, Recovering, LoggingIn
    <2> QED
      BY <1>1, <2>1, <2>2, OthersKeep
  <1>3. CASE req[t].at = "ask" /\ Answered(t, Reference, "asked")
    <2>1. /\ Frame(t) /\ req'[t].at = "asked" /\ req'[t].url = req[t].url /\ SameSession(t)
          /\ ~req'[t].replaces
          /\ req'[t].dropped <=> (Reference \in Bouncers \/ req[t].token \notin valid)
      BY <1>3, AnswersTell DEF Places
    <2>2. Reference \notin Bouncers
      BY DEF IInv, TypeOK, ReferencesTell, Reference
    <2>3. req[t].token = live
      BY <1>3 DEF LInv, SentUnder, Recovering
    <2>4. SentUnder(t)' /\ Told(t)'
      BY <1>1, <1>3, <2>1, <2>2, <2>3 DEF LInv, SentUnder, Told, SameSession, Recovering, LoggingIn
    <2> QED
      BY <1>1, <2>1, <2>4, OthersKeep
  <1> QED
    BY <1>2, <1>3 DEF Serve

\* No answer carries a cookie, so none changes the live session.
LEMMA AbsorbsNothing ==
  ASSUME LInv, NEW t \in Tasks
  PROVE  live = (IF req[t].replaces THEN Anonymous ELSE live)
  BY DEF LInv, SentUnder

LEMMA ReceiveCounts == ASSUME IInv, LInv, NEW t \in Tasks, Receive(t) PROVE LInv'
  <1>1. UNCHANGED <<live, generation, valid, issued, drops, blind>>
    BY AbsorbsNothing DEF Receive, Absorb, server, auth
  <1>2. CASE LooksDropped(t, req[t].url) /\ ~req[t].retry /\ req' = [req EXCEPT ![t].at = "drop"]
    <2>1. /\ Frame(t) /\ req'[t].at = "drop" /\ req'[t].url = req[t].url
          /\ SameSession(t) /\ SameAnswer(t)
      BY <1>2, MovedShape DEF IInv, Places
    <2>2. SentUnder(t)' /\ Told(t)'
      BY <1>1, <1>2, <2>1 DEF Receive, LooksDropped, LInv, SentUnder, Told, SameSession, SameAnswer,
         Recovering, LoggingIn
    <2> QED
      BY <1>1, <2>1, <2>2, OthersKeep
  <1>3. CASE req' = Ended(t)
    <2>1. /\ Frame(t) /\ req'[t].at = "done" /\ req'[t].url = req[t].url
          /\ SameSession(t) /\ SameAnswer(t)
      BY <1>3, EndedShape DEF IInv
    <2>2. SentUnder(t)' /\ Told(t)'
      BY <1>1, <2>1 DEF Receive, LInv, SentUnder, Told, SameSession, SameAnswer, Recovering, LoggingIn
    <2> QED
      BY <1>1, <2>1, <2>2, OthersKeep
  <1> QED
    BY <1>2, <1>3 DEF Receive

LEMMA AlreadyRecoveredCounts ==
  ASSUME IInv, LInv, NEW t \in Tasks, AlreadyRecovered(t) PROVE LInv'
  <1>1. UNCHANGED <<live, generation, valid, issued, drops, blind>>
    BY DEF AlreadyRecovered, session, server, auth
  <1>2. /\ Frame(t) /\ req'[t].at = "sent" /\ req'[t].seen = req[t].seen
        /\ req'[t].token = live /\ req'[t].retry /\ SameAnswer(t)
    BY ResentShape DEF AlreadyRecovered, IInv, TypeOK
  <1>3. SentUnder(t)' /\ Told(t)'
    BY <1>1, <1>2 DEF AlreadyRecovered, LockTaken, LInv, Tokens, SentUnder, Told, SameAnswer,
       Recovering, LoggingIn
  <1> QED
    BY <1>1, <1>2, <1>3, OthersKeep

\* A request that ends is told nothing more.
LEMMA EndsCounts ==
  ASSUME IInv, LInv, NEW t \in Tasks, Frame(t), req'[t].at = "done", SameSession(t),
         req[t].at # "idle", ~req'[t].replaces,
         UNCHANGED <<live, generation, valid, issued, drops, blind>>
  PROVE  LInv'
  <1>1. SentUnder(t)' /\ Told(t)'
    BY DEF LInv, SentUnder, Told, SameSession, Recovering, LoggingIn
  <1> QED
    BY <1>1, OthersKeep

LEMMA NotRecoveredCounts == ASSUME IInv, LInv, NEW t \in Tasks, NotRecovered(t) PROVE LInv'
  <1>1. UNCHANGED <<live, generation, valid, issued, drops, blind>>
    BY DEF NotRecovered, server, auth
  <1>2. /\ Frame(t) /\ req'[t].at = "done" /\ SameSession(t) /\ SameAnswer(t)
    BY EndedShape DEF NotRecovered, IInv
  <1>3. req[t].at # "idle" /\ ~req'[t].replaces
    BY <1>2 DEF NotRecovered, LockTaken, SameAnswer, LInv, SentUnder
  <1> QED
    BY <1>1, <1>2, <1>3, EndsCounts

LEMMA AskCounts == ASSUME IInv, LInv, NEW t \in Tasks, Ask(t) PROVE LInv'
  <1>1. UNCHANGED <<live, generation, valid, issued, drops, blind>>
    BY DEF Ask, server, auth
  <1>2. /\ Frame(t) /\ req'[t].at = "ask" /\ req'[t].url = req[t].url
        /\ req'[t].seen = req[t].seen /\ req'[t].token = live
        /\ req'[t].retry <=> req[t].retry
        /\ SameAnswer(t)
    BY AskShape DEF Ask, IInv, TypeOK, Places
  <1>3. req[t].at = "drop" /\ req[t].seen = generation
    BY DEF Ask, MayRelogin, LockTaken
  <1>4. SentUnder(t)' /\ Told(t)'
    BY <1>1, <1>2, <1>3 DEF LInv, Tokens, SentUnder, Told, SameAnswer, Recovering, LoggingIn
  <1> QED
    BY <1>1, <1>2, <1>4, OthersKeep

\* A login begins once the session is known to have ended, or is accounted for.
LEMMA LoginCounts ==
  ASSUME IInv, LInv, NEW t \in Tasks, Login(t), req[t].at \in {"drop", "asked"},
         req[t].seen = generation, live \notin valid \/ Accounted',
         UNCHANGED <<live, generation, valid, issued, drops>>, blind' \in {blind, blind + 1}
  PROVE  LInv'
  <1>1. /\ Frame(t) /\ req'[t].at = "login" /\ SameSession(t) /\ SameAnswer(t)
    BY MovedShape DEF Login, IInv, Places
  <1>2. SentUnder(t)' /\ Told(t)'
    BY <1>1 DEF LInv, SentUnder, Told, SameSession, SameAnswer, Recovering, LoggingIn
  <1> QED
    BY <1>1, <1>2, OthersKeep

LEMMA LoginAtOnceCounts == ASSUME IInv, LInv, NEW t \in Tasks, LoginAtOnce(t) PROVE LInv'
  <1>1. /\ UNCHANGED <<live, generation, valid, issued, drops>>
        /\ blind' = blind + (IF req[t].url \in Bouncers THEN 1 ELSE 0)
    BY DEF LoginAtOnce, server
  <1>2. Login(t) /\ req[t].at = "drop" /\ req[t].seen = generation
    BY DEF LoginAtOnce, MayRelogin, LockTaken
  <1>3. req[t].token = live /\ req[t].dropped /\ (req[t].url \notin Bouncers => live \notin valid)
    BY <1>2 DEF LInv, SentUnder, Told
  <1>4. ASSUME req[t].url \in Bouncers PROVE Accounted'
    <2>1. blind' = blind + 1 /\ blind \in Nat /\ generation \in Nat
      BY <1>1, <1>4 DEF IInv, TypeOK
    <2>2. Cardinality(Dead(live - 1)) \in Nat
      BY DeadIsFinite DEF IInv, TypeOK
    <2>3. generation - 1 <= Cardinality(Dead(live - 1)) + blind
      BY DEF LInv, Counts
    <2>4. Dead(live - 1)' = Dead(live - 1)
      BY <1>1 DEF Dead
    <2> QED
      BY <1>1, <2>1, <2>2, <2>3, <2>4 DEF Accounted
  <1>5. blind' \in {blind, blind + 1}
    BY <1>1 DEF IInv, TypeOK
  <1> QED
    BY <1>1, <1>2, <1>3, <1>4, <1>5, LoginCounts

LEMMA AskedCounts == ASSUME IInv, LInv, NEW t \in Tasks, Asked(t) PROVE LInv'
  <1>1. UNCHANGED <<live, generation, valid, issued, drops, blind>>
    BY AbsorbsNothing DEF Asked, server, auth
  <1>2. req[t].at = "asked" /\ req[t].seen = generation
    BY DEF Asked, LInv, SentUnder, Recovering
  <1>3. CASE LooksDropped(t, Reference) /\ Login(t)
    <2>1. live \notin valid
      BY <1>2, <1>3 DEF LooksDropped, LInv, Told
    <2> QED
      BY <1>1, <1>2, <1>3, <2>1, LoginCounts
  <1>4. CASE NotADrop(t)
    <2>1. /\ Frame(t) /\ req'[t].at = "done" /\ SameSession(t)
          /\ req'[t].replaces <=> req[t].replaces
      BY <1>4, NotADropShape DEF IInv
    <2>2. req[t].at # "idle" /\ ~req'[t].replaces
      BY <1>2, <2>1 DEF LInv, SentUnder
    <2> QED
      BY <1>1, <2>1, <2>2, EndsCounts
  <1> QED
    BY <1>3, <1>4 DEF Asked

LEMMA AskFailsCounts == ASSUME IInv, LInv, NEW t \in Tasks, AskFails(t) PROVE LInv'
  <1>1. UNCHANGED <<live, generation, valid, issued, drops, blind>>
    BY DEF AskFails, server, auth
  <1>2. /\ Frame(t) /\ req'[t].at = "done" /\ SameSession(t)
        /\ req'[t].replaces <=> req[t].replaces
    BY NotADropShape DEF AskFails, IInv
  <1>3. req[t].at # "idle" /\ ~req'[t].replaces
    BY <1>2 DEF AskFails, LInv, SentUnder
  <1> QED
    BY <1>1, <1>2, <1>3, EndsCounts

LEMMA LoginFailsCounts == ASSUME IInv, LInv, NEW t \in Tasks, LoginFails(t) PROVE LInv'
  <1>1. UNCHANGED <<live, generation, valid, issued, drops, blind>>
    BY DEF LoginFails, server, auth
  <1>2. /\ Frame(t) /\ req'[t].at = "done" /\ SameSession(t) /\ SameAnswer(t)
    BY EndedShape DEF LoginFails, IInv
  <1>3. req[t].at # "idle" /\ ~req'[t].replaces
    BY <1>2 DEF LoginFails, SameAnswer, LInv, SentUnder
  <1> QED
    BY <1>1, <1>2, <1>3, EndsCounts

\* The server creates a session: none of those there were ends.
LEMMA LoginServedCounts == ASSUME IInv, LInv, NEW t \in Tasks, LoginServed(t) PROVE LInv'
  <1>1. /\ req[t].at = "login" /\ issued' = issued + 1 /\ valid' = valid \union {issued + 1}
        /\ UNCHANGED <<live, generation, drops, blind>>
    BY DEF LoginServed, session, auth
  <1>2. /\ Frame(t) /\ req'[t].at = "accepted" /\ SameSession(t) /\ SameAnswer(t)
    BY MovedShape DEF LoginServed, IInv, Places
  <1>3. /\ live \in 1..issued /\ issued \in Nat /\ valid \subseteq 1..issued
        /\ generation \in Nat
    BY DEF LInv, Tokens, IInv, TypeOK
  <1>4. Tokens'
    <2>1. live' \in 1..issued' /\ valid' \subseteq 1..issued'
      BY <1>1, <1>3
    <2> QED
      BY <1>1, <2>1 DEF LInv, Tokens
  <1>5. \A k \in 1..issued : k \in valid' <=> k \in valid
    BY <1>1, <1>3
  <1>8. Dead(live - 1)' = Dead(live - 1) /\ Dead(issued)' = Dead(issued)
    BY <1>1, <1>3, <1>5 DEF Dead
  <1>10. Accounted' <=> Accounted
    BY <1>1, <1>8 DEF Accounted
  <1>6. SentUnder(t)' /\ Told(t)'
    BY <1>1, <1>2, <1>3, <1>10 DEF LInv, SentUnder, Told, SameSession, SameAnswer, Recovering, LoggingIn
  <1>7. ASSUME NEW u \in Tasks \ {t} PROVE SentUnder(u)' /\ Told(u)'
    <2>1. req'[u] = req[u]
      BY <1>2 DEF Frame
    <2>2. SentUnder(u)'
      BY <1>1, <1>3, <2>1 DEF LInv, SentUnder, Recovering
    <2>3. Told(u)'
      <3>1. req[u].at # "idle" => req[u].token \in 1..issued
        BY DEF LInv, SentUnder
      <3> QED
        BY <1>1, <1>3, <1>5, <1>10, <2>1, <3>1 DEF LInv, Told, Recovering, LoggingIn
    <2> QED
      BY <2>2, <2>3
  <1>9. Counts'
    BY <1>1, <1>8 DEF LInv, Counts
  <1> QED
    BY <1>4, <1>6, <1>7, <1>9 DEF LInv

\* A session ends: one more is dead, and it was not before.
LEMMA DropCounts == ASSUME IInv, LInv, Drop PROVE LInv'
  <1>1. PICK k \in valid : valid' = valid \ {k}
    BY DEF Drop
  <1>2. drops' = drops + 1 /\ UNCHANGED <<live, generation, issued, blind, req>>
    BY DEF Drop, session, auth
  <1>3. live \in 1..issued /\ issued \in Nat /\ drops \in Nat
    BY DEF LInv, Tokens, IInv, TypeOK
  <1>4. Tokens'
    BY <1>1, <1>2 DEF LInv, Tokens
  <1>6. /\ IsFiniteSet(Dead(issued)) /\ Cardinality(Dead(issued)) \in Nat
        /\ Cardinality(Dead(live - 1)) \in Nat
        /\ IsFiniteSet(Dead(live - 1))
    BY <1>3, DeadIsFinite
  <1>7. Dead(issued)' \in SUBSET (Dead(issued) \union {k})
    BY <1>1, <1>2 DEF Dead
  <1>8. /\ IsFiniteSet(Dead(issued) \union {k})
        /\ Cardinality(Dead(issued) \union {k}) <= Cardinality(Dead(issued)) + 1
        /\ Cardinality(Dead(issued) \union {k}) \in Nat
    <2>1. /\ IsFiniteSet(Dead(issued) \union {k})
          /\ Cardinality(Dead(issued) \union {k}) =
               IF k \in Dead(issued) THEN Cardinality(Dead(issued)) ELSE Cardinality(Dead(issued)) + 1
      BY <1>6, FS_AddElement, Zenon
    <2> QED
      BY <1>6, <2>1
  <1>9. Cardinality(Dead(issued)') <= Cardinality(Dead(issued)) + 1
    <2>1. Cardinality(Dead(issued)') <= Cardinality(Dead(issued) \union {k})
      BY <1>7, <1>8, FS_Subset
    <2>2. Cardinality(Dead(issued)') \in Nat
      BY <1>7, <1>8, FS_Subset, FS_CardinalityType
    <2> QED
      BY <1>6, <1>8, <2>1, <2>2
  <1>10. Cardinality(Dead(live - 1)) <= Cardinality(Dead(live - 1)')
    <2>1. Dead(live - 1) \in SUBSET (Dead(live - 1)')
      BY <1>1, <1>2 DEF Dead
    <2>2. IsFiniteSet(Dead(live - 1)')
      <3>1. Dead(live - 1)' \in SUBSET (Dead(live - 1) \union {k})
        BY <1>1, <1>2 DEF Dead
      <3>2. IsFiniteSet(Dead(live - 1) \union {k})
        BY <1>6, FS_AddElement
      <3> QED
        BY <3>1, <3>2, FS_Subset
    <2> QED
      BY <2>1, <2>2, FS_Subset
  <1>11. /\ Cardinality(Dead(issued)') \in Nat /\ Cardinality(Dead(live - 1)') \in Nat
    <2>1. Dead(issued)' \in SUBSET (1..issued) /\ Dead(live - 1)' \in SUBSET (1..(live - 1))
      BY <1>2 DEF Dead
    <2>2. IsFiniteSet(1..issued) /\ IsFiniteSet(1..(live - 1))
      BY <1>3, FS_Interval
    <2> QED
      BY <2>1, <2>2, FS_Subset, FS_CardinalityType
  <1>13. Accounted => Accounted'
    BY <1>2, <1>6, <1>10, <1>11 DEF Accounted, IInv, TypeOK
  <1>5. \A u \in Tasks : SentUnder(u)' /\ Told(u)'
    BY <1>1, <1>2, <1>13 DEF LInv, SentUnder, Told, Recovering, LoggingIn
  <1>12. Counts'
    BY <1>2, <1>3, <1>6, <1>9, <1>10, <1>11 DEF LInv, Counts, IInv, TypeOK
  <1> QED
    BY <1>4, <1>5, <1>12 DEF LInv

\* A commit retires the session that was live, which had ended unless the login was begun blind.
LEMMA CommitCounts == ASSUME IInv, LInv, NEW t \in Tasks, Commit(t) PROVE LInv'
  <1>1. /\ req[t].at = "accepted" /\ pending = issued /\ live' = issued
        /\ generation' = generation + 1 /\ UNCHANGED <<valid, issued, drops, blind>>
    BY DEF Commit, server, auth, IInv, JarIsTheLogin
  <1>2. /\ live < issued /\ live \in 1..issued /\ issued \in Nat /\ generation \in Nat
        /\ generation >= 1 /\ blind \in Nat /\ (live \notin valid \/ Accounted)
    BY <1>1 DEF LInv, Tokens, SentUnder, Told, LoggingIn, IInv, TypeOK
  <1>3. /\ Frame(t) /\ req'[t].at = "sent" /\ req'[t].seen = req[t].seen /\ req'[t].token = issued
        /\ req'[t].retry /\ SameAnswer(t)
    BY <1>1, <1>2, ResentShape DEF Commit, IInv
  <1>4. \A u \in Tasks \ {t} : ~Recovering(u)
    BY <1>1 DEF IInv, LockIsRecovery, Recovering
  <1>5. SentUnder(t)' /\ Told(t)'
    BY <1>1, <1>2, <1>3 DEF LInv, SentUnder, Told, SameAnswer, Recovering, LoggingIn
  <1>6. ASSUME NEW u \in Tasks \ {t} PROVE SentUnder(u)' /\ Told(u)'
    <2>1. req'[u] = req[u] /\ ~Recovering(u)
      BY <1>3, <1>4 DEF Frame
    <2>2. SentUnder(u)'
      BY <1>1, <1>2, <2>1 DEF LInv, SentUnder, Recovering
    <2>3. Told(u)'
      BY <1>1, <2>1 DEF LInv, Told, Recovering, LoggingIn
    <2> QED
      BY <2>2, <2>3
  <1>7. Tokens'
    BY <1>1, <1>2 DEF LInv, Tokens
  <1>8. generation <= Cardinality(Dead(issued - 1)) + blind
    <2>1. /\ IsFiniteSet(Dead(live - 1)) /\ Cardinality(Dead(live - 1)) \in Nat
          /\ IsFiniteSet(Dead(issued - 1)) /\ Cardinality(Dead(issued - 1)) \in Nat
      BY <1>2, DeadIsFinite
    <2>2. CASE live \notin valid
      <3>1. (Dead(live - 1) \union {live}) \in SUBSET Dead(issued - 1) /\ live \notin Dead(live - 1)
        BY <1>2, <2>2 DEF Dead
      <3>2. Cardinality(Dead(live - 1) \union {live}) = Cardinality(Dead(live - 1)) + 1
        BY <2>1, <3>1, FS_AddElement
      <3>3. Cardinality(Dead(live - 1) \union {live}) <= Cardinality(Dead(issued - 1))
        BY <2>1, <3>1, FS_Subset
      <3>4. generation - 1 <= Cardinality(Dead(live - 1)) + blind
        BY DEF LInv, Counts
      <3> QED
        BY <1>2, <2>1, <3>2, <3>3, <3>4
    <2>3. CASE Accounted
      <3>1. Dead(live - 1) \in SUBSET Dead(issued - 1)
        BY <1>2 DEF Dead
      <3>2. Cardinality(Dead(live - 1)) <= Cardinality(Dead(issued - 1))
        BY <2>1, <3>1, FS_Subset
      <3> QED
        BY <1>2, <2>1, <2>3, <3>2 DEF Accounted
    <2> QED
      BY <1>2, <2>2, <2>3
  <1>9. Counts'
    <2>1. Dead(issued)' = Dead(issued) /\ Dead(live - 1)' = Dead(issued - 1)
      BY <1>1 DEF Dead
    <2> QED
      BY <1>1, <1>2, <1>8, <2>1 DEF LInv, Counts
  <1> QED
    BY <1>5, <1>6, <1>7, <1>9 DEF LInv

LEMMA StepCounts ==
  ASSUME IInv, LInv, [Next]_vars, CookiesKept, ReferencesTell PROVE LInv'
  <1>1. CASE UNCHANGED vars
    BY <1>1 DEF vars, session, server, auth, LInv, Tokens, SentUnder, Told, Accounted, Counts,
       Dead, Recovering, LoggingIn
  <1>2. CASE Close
    BY <1>2 DEF Close, server, auth, LInv, Tokens, SentUnder, Told, Accounted, Counts, Dead, Recovering,
       LoggingIn
  <1>3. CASE Drop
    BY <1>3, DropCounts
  <1>4. ASSUME NEW t \in Tasks,
               \/ Send(t) \/ Progress(t) \/ EnterRecovery(t)
               \/ RequestFails(t) \/ AskFails(t) \/ LoginFails(t)
        PROVE  LInv'
    BY <1>4, SendCounts, ServeCounts, ReceiveCounts, AskedCounts, LoginServedCounts, CommitCounts,
       AlreadyRecoveredCounts, NotRecoveredCounts, AskCounts, LoginAtOnceCounts,
       RequestFailsCounts, AskFailsCounts, LoginFailsCounts
    DEF Progress, EnterRecovery
  <1> QED
    BY <1>1, <1>2, <1>3, <1>4 DEF Next

-----------------------------------------------------------------------------
(* Authenticated answers, while the session has ended once at most.        *)

MayLogInAgain == MaxRelogins >= 1

OneDrop == drops <= 1 /\ faults = 0 /\ blind = 0

\* A retry is sent under a session that is not the scan's first, and what has ended
\* logged out is a page that always bounces.
Settled(t) ==
  /\ req[t].at # "idle" /\ req[t].retry => \E k \in 1..(req[t].token - 1) : k \notin valid
  /\ req[t].at = "done" /\ req[t].dropped => req[t].url \in Bouncers \/ closed

LoginsCommitted == relogins = IF \E t \in Tasks : LoggingIn(t) THEN generation ELSE generation - 1

\* While nothing has failed, every login is committed, and what is known to bounce does.
SInv == OneDrop => known \subseteq Bouncers /\ LoginsCommitted /\ \A t \in Tasks : Settled(t)

LEMMA TwoAreDead ==
  ASSUME IInv, LInv, NEW j \in 1..issued, NEW k \in 1..issued, j \notin valid, k \notin valid, j # k
  PROVE  drops >= 2
  <1>1. issued \in Nat /\ drops \in Nat
    BY DEF IInv, TypeOK
  <1>2. IsFiniteSet(Dead(issued)) /\ Cardinality(Dead(issued)) \in Nat
    BY <1>1, DeadIsFinite
  <1>3. IsFiniteSet({j}) /\ Cardinality({j}) = 1
    BY FS_Singleton
  <1>4. IsFiniteSet({j} \union {k}) /\ Cardinality({j} \union {k}) = 2
    <2>1. /\ IsFiniteSet({j} \union {k})
          /\ Cardinality({j} \union {k}) = IF k \in {j} THEN Cardinality({j}) ELSE Cardinality({j}) + 1
      BY <1>3, FS_AddElement, Zenon
    <2> QED
      BY <1>3, <2>1
  <1>5. ({j} \union {k}) \in SUBSET Dead(issued)
    BY DEF Dead
  <1>6. Cardinality({j} \union {k}) <= Cardinality(Dead(issued))
    BY <1>2, <1>5, FS_Subset
  <1>7. Cardinality(Dead(issued)) <= drops
    BY DEF LInv, Counts
  <1> QED
    BY <1>1, <1>2, <1>4, <1>6, <1>7

\* A scan in its second session has had another.
LEMMA HadAnother ==
  ASSUME IInv, LInv, blind = 0, generation >= 2
  PROVE  \E k \in 1..(live - 1) : k \notin valid
  <1>1. /\ IsFiniteSet(Dead(live - 1)) /\ Cardinality(Dead(live - 1)) \in Nat
    BY DeadIsFinite DEF IInv, TypeOK
  <1>2. Cardinality(Dead(live - 1)) # 0
    BY <1>1 DEF LInv, Counts, IInv, TypeOK
  <1>3. Dead(live - 1) # {}
    BY <1>2, FS_EmptySet
  <1> QED
    BY <1>3 DEF Dead

\* A request that is logged out on its first session, of two, makes two that ended.
LEMMA FirstDropOnly ==
  ASSUME IInv, LInv, OneDrop, NEW k \in 1..issued, k \notin valid, NEW j \in 1..(k - 1), j \notin valid
  PROVE  FALSE
  <1>1. j \in 1..issued /\ j # k
    BY DEF IInv, TypeOK
  <1>2. drops >= 2
    BY <1>1, TwoAreDead
  <1> QED
    BY <1>2 DEF OneDrop, IInv, TypeOK

\* A step of t's that ends no session and does not begin, end or commit a login.
LEMMA OthersSettled ==
  ASSUME LInv, SInv, NEW t \in Tasks, Frame(t), LoggingIn(t)' <=> LoggingIn(t),
         UNCHANGED <<valid, drops, faults, blind, relogins, generation, closed>>,
         OneDrop => known' \subseteq Bouncers /\ Settled(t)'
  PROVE  SInv'
  <1>1. SUFFICES ASSUME OneDrop'
                 PROVE  known' \subseteq Bouncers /\ LoginsCommitted' /\ \A u \in Tasks : Settled(u)'
    BY DEF SInv
  <1>2. OneDrop
    BY <1>1 DEF OneDrop
  <1>3. ASSUME NEW u \in Tasks \ {t} PROVE Settled(u)'
    BY <1>2 DEF SInv, Frame, Settled
  <1>4. \A u \in Tasks : LoggingIn(u)' <=> LoggingIn(u)
    BY DEF Frame, LoggingIn
  <1>5. LoginsCommitted'
    <2>1. (\E u \in Tasks : LoggingIn(u)') <=> (\E u \in Tasks : LoggingIn(u))
      BY <1>4
    <2> QED
      BY <1>2, <2>1 DEF SInv, LoginsCommitted
  <1> QED
    BY <1>2, <1>3, <1>5

LEMMA SInitEstablishes == ASSUME Init PROVE SInv
  <1>1. Idle.at = "idle"
    BY DEF Idle, Request
  <1>2. \A t \in Tasks : req[t].at = "idle"
    BY <1>1 DEF Init
  <1>3. \A t \in Tasks : Settled(t) /\ ~LoggingIn(t)
    BY <1>2 DEF Settled, LoggingIn
  <1>4. LoginsCommitted
    BY <1>3 DEF Init, LoginsCommitted
  <1> QED
    BY <1>3, <1>4 DEF Init, SInv

LEMMA SendSettles == ASSUME IInv, LInv, SInv, NEW t \in Tasks, Send(t) PROVE SInv'
  <1>1. PICK u \in Urls : req' = [req EXCEPT ![t] = Request("sent", u, generation, live)]
    BY DEF Send
  <1>2. Frame(t) /\ req'[t].at = "sent" /\ ~req'[t].retry
    BY <1>1, BeginShape DEF IInv, TypeOK, Places
  <1>3. Settled(t)' /\ (LoggingIn(t)' <=> LoggingIn(t))
    BY <1>2 DEF Send, Settled, LoggingIn
  <1>4. UNCHANGED <<valid, drops, faults, blind, relogins, generation, closed, known>>
    BY DEF Send, session, server, auth
  <1> QED
    BY <1>2, <1>3, <1>4, OthersSettled DEF SInv

LEMMA ServeSettles ==
  ASSUME IInv, LInv, SInv, CookiesKept, NEW t \in Tasks, Serve(t) PROVE SInv'
  <1>1. PICK a \in {"answered", "asked"} :
          /\ req[t].at = (IF a = "answered" THEN "sent" ELSE "ask")
          /\ \E url : Answered(t, url, a)
    BY DEF Serve
  <1>2. Frame(t) /\ req'[t].at = a /\ SameSession(t)
    BY <1>1, AnswersTell DEF Places
  <1>3. UNCHANGED <<valid, drops, faults, blind, relogins, generation, closed, known>>
    BY DEF Serve, session, server, auth
  <1>4. OneDrop => Settled(t)'
    BY <1>1, <1>2, <1>3 DEF SInv, Settled, SameSession
  <1>5. LoggingIn(t)' <=> LoggingIn(t)
    BY <1>1, <1>2 DEF LoggingIn
  <1> QED
    BY <1>2, <1>3, <1>4, <1>5, OthersSettled DEF SInv

\* A retry that is logged out, too, went to a page that always bounces: its session
\* is not the first, so that two would have ended.
LEMMA ReceiveSettles == ASSUME IInv, LInv, SInv, NEW t \in Tasks, Receive(t) PROVE SInv'
  <1>1. UNCHANGED <<valid, drops, faults, blind, relogins, generation, closed>>
    BY DEF Receive, server, auth
  <1>2. req[t].at = "answered" /\ req[t].token \in 1..issued
    BY DEF Receive, LInv, SentUnder
  <1>3. CASE LooksDropped(t, req[t].url) /\ ~req[t].retry
             /\ req' = [req EXCEPT ![t].at = "drop"] /\ UNCHANGED known
    <2>1. Frame(t) /\ req'[t].at = "drop" /\ SameSession(t)
      BY <1>3, MovedShape DEF IInv, Places
    <2>2. (OneDrop => Settled(t)') /\ (LoggingIn(t)' <=> LoggingIn(t))
      BY <1>2, <1>3, <2>1 DEF Settled, SameSession, LoggingIn
    <2> QED
      BY <1>1, <1>3, <2>1, <2>2, OthersSettled DEF SInv
  <1>4. CASE req' = Ended(t) /\ \/ LooksDropped(t, req[t].url) /\ req[t].retry
                                    /\ known' = known \union {req[t].url}
                                \/ ~LooksDropped(t, req[t].url) /\ UNCHANGED known
    <2>1. /\ Frame(t) /\ req'[t].at = "done" /\ req'[t].url = req[t].url
          /\ SameSession(t) /\ SameAnswer(t)
      BY <1>4, EndedShape DEF IInv
    <2>2. OneDrop /\ req[t].dropped /\ req[t].retry => req[t].url \in Bouncers
      <3>1. SUFFICES ASSUME OneDrop, req[t].dropped, req[t].retry, req[t].url \notin Bouncers
                     PROVE  FALSE
        OBVIOUS
      <3>2. req[t].token \notin valid
        BY <1>2, <3>1 DEF LInv, Told
      <3>3. PICK j \in 1..(req[t].token - 1) : j \notin valid
        BY <1>2, <3>1 DEF SInv, Settled
      <3> QED
        BY <1>2, <3>1, <3>2, <3>3, FirstDropOnly
    <2>3. OneDrop /\ req[t].dropped => req[t].url \in Bouncers
      BY <1>4, <2>2 DEF LooksDropped, SInv
    <2>4. OneDrop => known' \subseteq Bouncers
      BY <1>4, <2>3 DEF LooksDropped, SInv
    <2>5. OneDrop => Settled(t)'
      BY <1>1, <1>2, <2>1, <2>3 DEF SInv, Settled, SameSession, SameAnswer
    <2>6. LoggingIn(t)' <=> LoggingIn(t)
      BY <1>2, <2>1 DEF LoggingIn
    <2> QED
      BY <1>1, <2>1, <2>4, <2>5, <2>6, OthersSettled
  <1> QED
    BY <1>3, <1>4 DEF Receive

LEMMA AlreadyRecoveredSettles ==
  ASSUME IInv, LInv, SInv, NEW t \in Tasks, AlreadyRecovered(t) PROVE SInv'
  <1>1. UNCHANGED <<valid, drops, faults, blind, relogins, generation, closed, known>>
    BY DEF AlreadyRecovered, session, server, auth
  <1>2. /\ Frame(t) /\ req'[t].at = "sent" /\ req'[t].token = live /\ req[t].at = "drop"
    BY ResentShape DEF AlreadyRecovered, LockTaken, IInv, TypeOK
  <1>3. generation >= 2
    <2>1. generation # req[t].seen /\ req[t].seen \in 1..generation
      BY DEF AlreadyRecovered, LockTaken, LInv, SentUnder
    <2>2. generation \in Nat
      BY DEF IInv, TypeOK
    <2> QED
      BY <2>1, <2>2
  <1>4. OneDrop => Settled(t)'
    BY <1>1, <1>2, <1>3, HadAnother DEF Settled, OneDrop
  <1>5. LoggingIn(t)' <=> LoggingIn(t)
    BY <1>2 DEF LoggingIn
  <1> QED
    BY <1>1, <1>2, <1>4, <1>5, OthersSettled DEF SInv

\* A drop of the only session that ended finds the budget untouched.
LEMMA NotRecoveredSettles ==
  ASSUME IInv, LInv, SInv, MayLogInAgain, NEW t \in Tasks, NotRecovered(t) PROVE SInv'
  <1>1. UNCHANGED <<valid, drops, faults, blind, relogins, generation, closed, known>>
    BY DEF NotRecovered, server, auth
  <1>2. /\ req[t].at = "drop" /\ lock = "free" /\ generation = req[t].seen
        /\ closed \/ relogins >= MaxRelogins
    BY DEF NotRecovered, LockTaken
  <1>3. /\ Frame(t) /\ req'[t].at = "done" /\ req'[t].url = req[t].url
        /\ SameSession(t) /\ SameAnswer(t)
    BY EndedShape DEF NotRecovered, IInv
  <1>4. OneDrop => req[t].url \in Bouncers \/ closed
    <2>1. SUFFICES ASSUME OneDrop, req[t].url \notin Bouncers, ~closed PROVE FALSE
      OBVIOUS
    <2>2. live \notin valid /\ live \in 1..issued
      BY <1>2, <2>1 DEF LInv, Tokens, SentUnder, Told
    <2>3. \A u \in Tasks : ~LoggingIn(u)
      BY <1>2 DEF IInv, LockIsRecovery, Recovering, LoggingIn
    <2>4. relogins = generation - 1
      BY <2>1, <2>3 DEF SInv, LoginsCommitted
    <2>5. generation >= 2
      BY <1>2, <2>1, <2>4 DEF MayLogInAgain, IInv, TypeOK
    <2>6. PICK j \in 1..(live - 1) : j \notin valid
      BY <2>1, <2>5, HadAnother DEF OneDrop
    <2> QED
      BY <2>1, <2>2, <2>6, FirstDropOnly
  <1>5. OneDrop => Settled(t)'
    BY <1>1, <1>2, <1>3, <1>4 DEF SInv, Settled, SameSession
  <1>6. LoggingIn(t)' <=> LoggingIn(t)
    BY <1>2, <1>3 DEF LoggingIn
  <1> QED
    BY <1>1, <1>3, <1>5, <1>6, OthersSettled DEF SInv

LEMMA AskSettles == ASSUME IInv, LInv, SInv, NEW t \in Tasks, Ask(t) PROVE SInv'
  <1>1. UNCHANGED <<valid, drops, faults, blind, relogins, generation, closed, known>>
    BY DEF Ask, server, auth
  <1>2. Frame(t) /\ req'[t].at = "ask" /\ (req'[t].retry <=> req[t].retry)
    BY AskShape DEF Ask, IInv, TypeOK, Places
  <1>3. req[t].at = "drop" /\ ~req[t].retry
    BY DEF Ask, MayRelogin, LockTaken, LInv, SentUnder
  <1>4. Settled(t)' /\ (LoggingIn(t)' <=> LoggingIn(t))
    BY <1>2, <1>3 DEF Settled, LoggingIn
  <1> QED
    BY <1>1, <1>2, <1>4, OthersSettled DEF SInv

LEMMA LoginSettles ==
  ASSUME IInv, LInv, SInv, NEW t \in Tasks, Login(t), req[t].at \in {"drop", "asked"},
         \A u \in Tasks : ~LoggingIn(u), blind' \in {blind, blind + 1},
         UNCHANGED <<valid, drops, faults, generation, closed, known>>
  PROVE  SInv'
  <1>1. Frame(t) /\ req'[t].at = "login" /\ SameSession(t) /\ relogins' = relogins + 1
    BY MovedShape DEF Login, IInv, Places
  <1>2. SUFFICES ASSUME OneDrop'
                 PROVE  known' \subseteq Bouncers /\ LoginsCommitted' /\ \A u \in Tasks : Settled(u)'
    BY DEF SInv
  <1>3. OneDrop
    BY <1>2 DEF OneDrop, IInv, TypeOK
  <1>4. relogins = generation - 1 /\ relogins \in Nat /\ generation \in Nat
    BY <1>3 DEF SInv, LoginsCommitted, IInv, TypeOK
  <1>5. LoggingIn(t)'
    BY <1>1 DEF LoggingIn
  <1>6. LoginsCommitted'
    BY <1>1, <1>4, <1>5 DEF LoginsCommitted
  <1>7. \A u \in Tasks : Settled(u)'
    BY <1>1, <1>3 DEF SInv, Frame, Settled, SameSession
  <1> QED
    BY <1>3, <1>6, <1>7 DEF SInv

LEMMA LoginAtOnceSettles ==
  ASSUME IInv, LInv, SInv, NEW t \in Tasks, LoginAtOnce(t) PROVE SInv'
  <1>1. /\ Login(t) /\ req[t].at = "drop" /\ lock = "free"
        /\ UNCHANGED <<valid, drops, faults, generation, closed, known>>
        /\ blind' \in {blind, blind + 1}
    BY DEF LoginAtOnce, MayRelogin, LockTaken, server, IInv, TypeOK
  <1>2. \A u \in Tasks : ~LoggingIn(u)
    BY <1>1 DEF IInv, LockIsRecovery, Recovering, LoggingIn
  <1> QED
    BY <1>1, <1>2, LoginSettles

\* The reference page is logged in only when the dropped page always bounces.
LEMMA AskedSettles ==
  ASSUME IInv, LInv, SInv, ReferencesTell, NEW t \in Tasks, Asked(t) PROVE SInv'
  <1>1. /\ req[t].at = "asked"
        /\ UNCHANGED <<valid, drops, faults, blind, generation, closed>>
    BY DEF Asked, server, auth
  <1>2. \A u \in Tasks : ~LoggingIn(u)
    BY <1>1, AskingHasNoJar DEF Recovering, LoggingIn
  <1>3. CASE Login(t) /\ UNCHANGED known
    BY <1>1, <1>2, <1>3, LoginSettles
  <1>4. CASE ~LooksDropped(t, Reference) /\ NotADrop(t) /\ UNCHANGED relogins
    <2>1. /\ Frame(t) /\ req'[t].at = "done" /\ req'[t].url = req[t].url /\ SameSession(t)
      BY <1>4, NotADropShape DEF IInv
    <2>2. Reference \notin Bouncers
      BY DEF IInv, TypeOK, ReferencesTell, Reference
    <2>3. OneDrop => req[t].url \in Bouncers
      BY <1>1, <1>4, <2>2 DEF LooksDropped, SInv, LInv, Told
    <2>4. OneDrop => known' \subseteq Bouncers
      BY <1>4, <2>3 DEF NotADrop, SInv
    <2>5. OneDrop => Settled(t)'
      BY <1>1, <2>1, <2>3 DEF SInv, Settled, SameSession
    <2>6. LoggingIn(t)' <=> LoggingIn(t)
      BY <1>1, <2>1 DEF LoggingIn
    <2> QED
      BY <1>1, <1>4, <2>1, <2>4, <2>5, <2>6, OthersSettled
  <1> QED
    BY <1>3, <1>4 DEF Asked

LEMMA LoginServedSettles ==
  ASSUME IInv, LInv, SInv, NEW t \in Tasks, LoginServed(t) PROVE SInv'
  <1>1. /\ req[t].at = "login" /\ issued' = issued + 1 /\ valid' = valid \union {issued + 1}
        /\ UNCHANGED <<drops, faults, blind, relogins, generation, closed, known>>
    BY DEF LoginServed, session, auth
  <1>2. /\ Frame(t) /\ req'[t].at = "accepted" /\ SameSession(t) /\ SameAnswer(t)
    BY MovedShape DEF LoginServed, IInv, Places
  <1>3. SUFFICES ASSUME OneDrop' PROVE LoginsCommitted' /\ \A u \in Tasks : Settled(u)'
    BY <1>1 DEF SInv, OneDrop
  <1>4. OneDrop
    BY <1>1, <1>3 DEF OneDrop
  <1>5. LoggingIn(t) /\ LoggingIn(t)'
    BY <1>1, <1>2 DEF LoggingIn
  <1>6. LoginsCommitted'
    BY <1>1, <1>4, <1>5 DEF SInv, LoginsCommitted
  <1>7. ASSUME NEW u \in Tasks PROVE Settled(u)'
    <2>1. /\ req'[u].url = req[u].url /\ req'[u].token = req[u].token
          /\ req'[u].retry <=> req[u].retry
          /\ req'[u].dropped <=> req[u].dropped
          /\ req'[u].at = req[u].at \/ (req[u].at = "login" /\ req'[u].at = "accepted")
      BY <1>1, <1>2, MovedShape DEF LoginServed, Frame, SameSession, SameAnswer, IInv, Places
    <2>2. req[u].at # "idle" => req[u].token \in 1..issued
      BY DEF LInv, SentUnder
    <2>3. Settled(u) /\ issued \in Nat
      BY <1>4 DEF SInv, IInv, TypeOK
    <2>4. req[u].at # "idle" => \A k \in 1..(req[u].token - 1) : k \notin valid => k \notin valid'
      BY <1>1, <2>2, <2>3
    <2> QED
      BY <1>1, <2>1, <2>3, <2>4 DEF Settled
  <1> QED
    BY <1>6, <1>7

\* The first session is the one a commit finds ended, and the retry is not sent under it.
LEMMA CommitSettles == ASSUME IInv, LInv, SInv, NEW t \in Tasks, Commit(t) PROVE SInv'
  <1>1. /\ req[t].at = "accepted" /\ pending = issued /\ generation' = generation + 1
        /\ UNCHANGED <<valid, drops, faults, blind, relogins, closed, known>>
    BY DEF Commit, server, auth, IInv, JarIsTheLogin
  <1>2. SUFFICES ASSUME OneDrop' PROVE LoginsCommitted' /\ \A u \in Tasks : Settled(u)'
    BY <1>1 DEF SInv, OneDrop
  <1>3. OneDrop
    BY <1>1, <1>2 DEF OneDrop
  <1>4. live \in 1..issued /\ live < issued /\ live \notin valid /\ issued \in Nat
    BY <1>1, <1>3 DEF LInv, Tokens, SentUnder, Told, Accounted, LoggingIn, OneDrop, IInv, TypeOK
  <1>5. /\ Frame(t) /\ req'[t].at = "sent" /\ req'[t].token = issued
    BY <1>1, <1>4, ResentShape DEF Commit, IInv
  <1>6. Settled(t)'
    <2>1. live \in 1..(issued - 1)
      BY <1>4
    <2> QED
      BY <1>1, <1>4, <1>5, <2>1 DEF Settled
  <1>7. \A u \in Tasks \ {t} : Settled(u)'
    BY <1>1, <1>3, <1>5 DEF SInv, Frame, Settled
  <1>8. LoginsCommitted'
    <2>1. relogins = generation /\ generation \in Nat
      BY <1>1, <1>3 DEF SInv, LoginsCommitted, LoggingIn, IInv, TypeOK
    <2>2. \A u \in Tasks : ~LoggingIn(u)'
      BY <1>1, <1>5 DEF IInv, LockIsRecovery, Recovering, LoggingIn, Frame
    <2> QED
      BY <1>1, <2>1, <2>2 DEF LoginsCommitted
  <1> QED
    BY <1>6, <1>7, <1>8

LEMMA StepSettles ==
  ASSUME IInv, LInv, SInv, [Next]_vars, CookiesKept, ReferencesTell, MayLogInAgain PROVE SInv'
  <1>1. CASE UNCHANGED vars
    BY <1>1 DEF vars, session, server, auth, SInv, OneDrop, LoginsCommitted, Settled,
       LoggingIn
  <1>2. CASE Close
    BY <1>2 DEF Close, server, auth, SInv, OneDrop, LoginsCommitted, Settled, LoggingIn
  <1>3. CASE Drop
    BY <1>3 DEF Drop, session, auth, SInv, OneDrop, LoginsCommitted, Settled, LoggingIn,
       IInv, TypeOK
  <1>4. ASSUME NEW t \in Tasks, RequestFails(t) \/ AskFails(t) \/ LoginFails(t) PROVE SInv'
    BY <1>4 DEF RequestFails, AskFails, LoginFails, Fault, SInv, OneDrop, IInv, TypeOK
  <1>5. ASSUME NEW t \in Tasks, Send(t) \/ Progress(t) \/ EnterRecovery(t) PROVE SInv'
    BY <1>5, SendSettles, ServeSettles, ReceiveSettles, AskedSettles, LoginServedSettles,
       CommitSettles, AlreadyRecoveredSettles, NotRecoveredSettles, AskSettles, LoginAtOnceSettles
    DEF Progress, EnterRecovery
  <1> QED
    BY <1>1, <1>2, <1>3, <1>4, <1>5 DEF Next

-----------------------------------------------------------------------------

\* No more logins are committed than sessions ended, however many requests noticed,
\* whatever fails, and however late an answer of an earlier session is received:
\* Session.recover compares generations and asks the reference page under the lock.
THEOREM LoginsMatchDrops ==
  ASSUME CookiesKept, ReferencesTell PROVE Spec => []OneLoginPerDrop
  <1>1. Init => IInv /\ LInv
    BY InitEstablishes, LInitEstablishes
  <1>2. IInv /\ LInv /\ [Next]_vars => (IInv /\ LInv)'
    BY StepPreserves, StepCounts
  <1>3. IInv /\ LInv => OneLoginPerDrop
    BY CountsBound DEF IInv, OneLoginPerDrop
  <1> QED
    BY <1>1, <1>2, <1>3, PTL DEF Spec

\* While the session has ended once at most and nothing has failed, a request ends
\* logged out only at a page that always bounces, or after the logout test: whoever
\* noticed the drop is retried, and no page is mistaken for one that bounces.
THEOREM RequestsAreAuthenticated ==
  ASSUME CookiesKept, ReferencesTell, MayLogInAgain PROVE Spec => []AnswersAreAuthenticated
  <1>1. Init => IInv /\ LInv /\ SInv
    BY InitEstablishes, LInitEstablishes, SInitEstablishes
  <1>2. IInv /\ LInv /\ SInv /\ [Next]_vars => (IInv /\ LInv /\ SInv)'
    BY StepPreserves, StepCounts, StepSettles
  <1>3. SInv => AnswersAreAuthenticated
    BY DEF SInv, OneDrop, Settled, AnswersAreAuthenticated
  <1> QED
    BY <1>1, <1>2, <1>3, PTL DEF Spec
=============================================================================
