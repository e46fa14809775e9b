------------------------- MODULE HttpExchangeProofs -------------------------
(***************************************************************************)
(* What the limiter, the scope guard and the retry rules guarantee, for any*)
(* number of tasks, hosts, attempts, hops and permits and any delay.       *)
(***************************************************************************)
EXTENDS HttpExchange, FiniteSetTheorems, TLAPS

\* What is in flight has passed the scope guard, at every hop.
Guarded == \A t \in Tasks : InFlight(t) => req[t].host \in InScope

Unsent == {t \in Tasks : req[t].at \in {"slot", "delay", "backoff"}}
Flying == {t \in Tasks : InFlight(t)}

\* Every exchange was begun for a request that is on its way out or has been counted
\* as sent, and a retry is one that was counted before; every failure ended a flight.
Ledger ==
  /\ stats.requests + Cardinality(Unsent) = exchanges + stats.retries
  /\ stats.failed + Cardinality(Flying) <= exchanges

IInv == TypeOK /\ PermitsAreConserved /\ ScopeKept /\ NoReplay /\ Guarded /\ Ledger

USE ExchangeAssumption DEF ExchangeAssumption

-----------------------------------------------------------------------------
(* Counting tasks.                                                         *)

One(S, t) == IF t \in S THEN 1 ELSE 0

\* Two finite sets that agree but for one element differ in size by that element.
LEMMA DifferByOne ==
  ASSUME NEW S, NEW T, NEW t, IsFiniteSet(S), T \ {t} = S \ {t}
  PROVE  /\ IsFiniteSet(T)
         /\ Cardinality(S) \in Nat /\ Cardinality(T) \in Nat
         /\ Cardinality(T) + One(S, t) = Cardinality(S) + One(T, t)
  <1> DEFINE R == S \ {t}
  <1>1. IsFiniteSet(R) /\ Cardinality(R) \in Nat
    BY FS_RemoveElement, FS_CardinalityType
  <1>2. /\ IsFiniteSet(R \union {t})
        /\ Cardinality(R \union {t}) = Cardinality(R) + 1
    BY <1>1, FS_AddElement
  <1>3. S = (IF t \in S THEN R \union {t} ELSE R)
    OBVIOUS
  <1>4. T = (IF t \in T THEN R \union {t} ELSE R)
    OBVIOUS
  <1> HIDE DEF R
  <1> QED
    BY <1>1, <1>2, <1>3, <1>4 DEF One

\* A step of task t changes the three counts by what it does to t.
LEMMA OneTaskMoves ==
  ASSUME NEW t \in Tasks, \A u \in Tasks \ {t} : req'[u] = req[u]
  PROVE  /\ Cardinality(Holding) \in Nat /\ Cardinality(Holding') \in Nat
         /\ Cardinality(Unsent) \in Nat /\ Cardinality(Unsent') \in Nat
         /\ Cardinality(Flying) \in Nat /\ Cardinality(Flying') \in Nat
         /\ Cardinality(Holding') + One(Holding, t) = Cardinality(Holding) + One(Holding', t)
         /\ Cardinality(Unsent') + One(Unsent, t) = Cardinality(Unsent) + One(Unsent', t)
         /\ Cardinality(Flying') + One(Flying, t) = Cardinality(Flying) + One(Flying', t)
  <1>1. IsFiniteSet(Holding) /\ IsFiniteSet(Unsent) /\ IsFiniteSet(Flying)
    BY FS_Subset DEF Holding, Unsent, Flying
  <1>2. Holding' \ {t} = Holding \ {t}
    BY DEF Holding
  <1>3. Unsent' \ {t} = Unsent \ {t}
    BY DEF Unsent
  <1>4. Flying' \ {t} = Flying \ {t}
    BY DEF Flying, InFlight
  <1> QED
    BY <1>1, <1>2, <1>3, <1>4, DifferByOne

-----------------------------------------------------------------------------
(* The shape of an outcome.                                                *)

\* A request that begins or ends is in a state a request can be in.
LEMMA RequestTyped ==
  ASSUME NEW a \in Places, NEW h \in Hosts \union {None}, NEW i \in BOOLEAN,
         NEW k \in 0..MaxHops, NEW r \in BOOLEAN
  PROVE  /\ Request(a, h, i, k, r) \in RequestStates
         /\ Request(a, h, i, k, r).at = a /\ Request(a, h, i, k, r).host = h
         /\ Request(a, h, i, k, r).reached = r
  BY DEF Request, RequestStates

LEMMA FreshTyped ==
  ASSUME NEW a \in Places, NEW h \in Hosts \union {None}, NEW i \in BOOLEAN
  PROVE  Request(a, h, i, 0, FALSE) \in RequestStates
  <1> DEFINE no == FALSE
  <1>1. no \in BOOLEAN /\ 0 \in 0..MaxHops
    OBVIOUS
  <1> HIDE DEF no
  <1>2. Request(a, h, i, 0, no) \in RequestStates
    BY <1>1, RequestTyped
  <1> QED
    BY <1>2, Zenon DEF no

LEMMA FieldsTyped ==
  ASSUME NEW x \in RequestStates
  PROVE  /\ x.at \in Places /\ x.host \in Hosts \union {None} /\ x.idempotent \in BOOLEAN
         /\ x.attempt \in 0..(MaxAttempts - 1) /\ x.hops \in 0..MaxHops
         /\ x.start \in Nat /\ x.reached \in BOOLEAN
  BY DEF RequestStates

Frame(t) == /\ req' \in [Tasks -> RequestStates]
            /\ \A u \in Tasks \ {t} : req'[u] = req[u]

LEMMA FrameOfOne ==
  ASSUME NEW t \in Tasks, TypeOK, NEW r \in RequestStates, req' = [req EXCEPT ![t] = r]
  PROVE  Frame(t) /\ req'[t] = r
  BY DEF TypeOK, Frame

\* A request that begins.
LEMMA AskedShape ==
  ASSUME NEW t \in Tasks, TypeOK, NEW h \in Hosts, NEW i \in BOOLEAN,
         req' = [req EXCEPT ![t] = Request("slot", h, i, 0, FALSE)]
  PROVE  Frame(t) /\ req'[t].at = "slot" /\ req'[t].host = h /\ ~req'[t].reached
  <1> DEFINE begun == Request("slot", h, i, 0, FALSE)
  <1>1. "slot" \in Places /\ h \in Hosts \union {None}
    BY DEF Places
  <1>2. begun \in RequestStates
    BY <1>1, FreshTyped, Zenon
  <1>3. begun.at = "slot" /\ begun.host = h /\ ~begun.reached
    BY DEF Request
  <1>4. req' = [req EXCEPT ![t] = begun]
    OBVIOUS
  <1> HIDE DEF begun
  <1> QED
    BY <1>2, <1>3, <1>4, FrameOfOne

\* A request that moves on within the limiter.
LEMMA MovedShape ==
  ASSUME NEW t \in Tasks, TypeOK, NEW a \in Places, NEW s \in Nat,
         req' = [req EXCEPT ![t].at = a, ![t].start = s]
  PROVE  /\ Frame(t) /\ req'[t].at = a /\ req'[t].start = s /\ req'[t].host = req[t].host
         /\ req'[t].idempotent = req[t].idempotent /\ req'[t].reached = req[t].reached
  <1> DEFINE moved == [req[t] EXCEPT !.at = a, !.start = s]
  <1>1. req[t] \in RequestStates
    BY DEF TypeOK
  <1>2. moved \in RequestStates
    BY <1>1 DEF RequestStates
  <1>3. req' = [req EXCEPT ![t] = moved]
    BY DEF TypeOK
  <1>4. /\ moved.at = a /\ moved.start = s /\ moved.host = req[t].host
        /\ moved.idempotent = req[t].idempotent /\ moved.reached = req[t].reached
    BY <1>1 DEF RequestStates
  <1> HIDE DEF moved
  <1> QED
    BY <1>2, <1>3, <1>4, FrameOfOne

LEMMA EndedShape ==
  ASSUME NEW t \in Tasks, TypeOK, NEW how \in Places, NEW r \in BOOLEAN, Ended(t, how, r)
  PROVE  Frame(t) /\ req'[t].at = how
  <1>1. req[t].idempotent \in BOOLEAN /\ 0 \in 0..MaxHops
    BY FieldsTyped DEF TypeOK
  <1>2. /\ Request(how, None, req[t].idempotent, 0, r) \in RequestStates
        /\ Request(how, None, req[t].idempotent, 0, r).at = how
    BY <1>1, RequestTyped
  <1> QED
    BY <1>2, FrameOfOne DEF Ended

\* An attempt that is over gives its permit back and is tried again, ended, or
\* followed elsewhere in the scope; only an idempotent request is tried again when it
\* may have been acted on.
LEMMA OutcomeShape ==
  ASSUME NEW t \in Tasks, TypeOK, Outcome(t)
  PROVE  /\ req[t].at = "sent" /\ free' = free + 1
         /\ UNCHANGED <<next, now, sent, asked>>
         /\ Frame(t)
         /\ \/ /\ req'[t].at = "backoff" /\ req'[t].host = req[t].host
               /\ req'[t].idempotent = req[t].idempotent
               /\ req'[t].reached => req[t].reached \/ req[t].idempotent
               /\ stats' = [stats EXCEPT !.retries = @ + 1] /\ exchanges' = exchanges
            \/ /\ req'[t].at \in {"response", "failed", "escaped"}
               /\ stats' = stats \/ stats' = [stats EXCEPT !.failed = @ + 1]
               /\ exchanges' = exchanges
            \/ /\ req'[t].at = "slot" /\ req'[t].host \in InScope
               /\ req'[t].reached = FALSE
               /\ stats' = stats /\ exchanges' = exchanges + 1
  <1>1. ASSUME NEW r \in BOOLEAN, ~LastAttempt(t), Retry(t, r)
        PROVE  /\ Frame(t) /\ req'[t].at = "backoff" /\ req'[t].host = req[t].host
               /\ req'[t].idempotent = req[t].idempotent /\ req'[t].reached = r
               /\ stats' = [stats EXCEPT !.retries = @ + 1]
    <2> DEFINE again == [req[t] EXCEPT !.at = "backoff", !.attempt = @ + 1, !.reached = r]
    <2>1. req[t] \in RequestStates
      BY DEF TypeOK
    <2>2. again \in RequestStates
      <3>1. req[t].attempt + 1 \in 0..(MaxAttempts - 1) /\ "backoff" \in Places
        BY <1>1, <2>1, FieldsTyped DEF LastAttempt, Places
      <3> QED
        BY <1>1, <2>1, <3>1 DEF RequestStates
    <2>3. req' = [req EXCEPT ![t] = again]
      BY <1>1, <2>1 DEF Retry, RequestStates, TypeOK
    <2>4. /\ again.at = "backoff" /\ again.host = req[t].host
          /\ again.idempotent = req[t].idempotent /\ again.reached = r
      BY <2>1 DEF RequestStates
    <2> HIDE DEF again
    <2> QED
      BY <1>1, <2>2, <2>3, <2>4, FrameOfOne DEF Retry
  <1>2. ASSUME NEW r \in BOOLEAN, Fail(t, r)
        PROVE  /\ Frame(t) /\ req'[t].at = "failed"
               /\ stats' = [stats EXCEPT !.failed = @ + 1]
    BY <1>2, EndedShape DEF Fail, Places
  <1>3. req[t].reached \in BOOLEAN /\ "response" \in Places /\ "escaped" \in Places
    BY FieldsTyped DEF TypeOK, Places
  <1>4. CASE ConnectError(t)
    BY <1>1, <1>2, <1>3, <1>4 DEF ConnectError, Release, RetryOrFail
  <1>5. CASE ReadError(t)
    BY <1>1, <1>2, <1>3, <1>5 DEF ReadError, Release, RetryOrFail
  <1>6. CASE DecodeError(t)
    BY <1>3, <1>6, EndedShape DEF DecodeError, Release
  <1>7. CASE ServerError(t)
    BY <1>1, <1>3, <1>7, EndedShape DEF ServerError, Release
  <1>8. CASE Answer(t)
    BY <1>3, <1>8, EndedShape DEF Answer, Release
  <1>9. CASE Redirect(t)
    <2> PICK h \in Hosts, keep \in BOOLEAN :
          IF req[t].hops < MaxHops /\ h \in InScope
          THEN Follow(t, h, keep)
          ELSE Ended(t, "response", TRUE) /\ UNCHANGED exchanges
      BY <1>9 DEF Redirect
    <2>1. CASE req[t].hops < MaxHops /\ h \in InScope
      <3>1. Follow(t, h, keep)
        BY <2>1
      <3>2. req'[t].at = "slot" /\ req'[t].host = h /\ req'[t].reached = FALSE
        BY <3>1 DEF Follow, Request, TypeOK
      <3>3. Frame(t)
        <4> DEFINE safe == req[t].idempotent \/ ~keep
        <4>1. /\ req[t].hops + 1 \in 0..MaxHops /\ "slot" \in Places
              /\ safe \in BOOLEAN /\ h \in Hosts \union {None}
          BY <2>1, FieldsTyped DEF TypeOK, Places
        <4>2. req' = [req EXCEPT ![t] = Request("slot", h, safe, req[t].hops + 1, FALSE)]
          BY <3>1 DEF Follow
        <4> HIDE DEF safe
        <4>3. Request("slot", h, safe, req[t].hops + 1, FALSE) \in RequestStates
          BY <4>1, RequestTyped
        <4> QED
          BY <4>2, <4>3, FrameOfOne
      <3> QED
        BY <1>9, <2>1, <3>1, <3>2, <3>3 DEF Redirect, Release, Follow
    <2>2. CASE ~(req[t].hops < MaxHops /\ h \in InScope)
      BY <1>3, <1>9, <2>2, EndedShape DEF Redirect, Release
    <2> QED
      BY <2>1, <2>2
  <1> QED
    BY <1>4, <1>5, <1>6, <1>7, <1>8, <1>9 DEF Outcome

-----------------------------------------------------------------------------
(* The inductive invariant.                                                *)

LEMMA InitEstablishes == ASSUME Init PROVE IInv
  <1>1. /\ Holding = {} /\ Unsent = {} /\ Flying = {}
    BY DEF Init, Request, Holding, Unsent, Flying, InFlight
  <1>2. Cardinality({}) = 0
    BY FS_EmptySet
  <1>3. TypeOK
    <2> DEFINE no == FALSE
    <2>1. "idle" \in Places /\ no \in BOOLEAN /\ None \in Hosts \union {None}
      BY DEF Places
    <2> HIDE DEF no
    <2>2. Request("idle", None, no, 0, FALSE) \in RequestStates
      BY <2>1, FreshTyped
    <2> DEFINE idle == Request("idle", None, FALSE, 0, FALSE)
    <2>3. idle \in RequestStates
      BY <2>2, Zenon DEF no
    <2>4. req = [u \in Tasks |-> idle]
      BY DEF Init
    <2> HIDE DEF idle
    <2>5. req \in [Tasks -> RequestStates]
      BY <2>3, <2>4
    <2>6. /\ free = Concurrency /\ next = [h \in Hosts |-> 0] /\ now = 0
          /\ stats = [requests |-> 0, retries |-> 0, blocked |-> 0, failed |-> 0]
          /\ sent = [h \in Hosts |-> 0] /\ exchanges = 0 /\ asked = 0
      BY DEF Init
    <2> QED
      BY <2>5, <2>6 DEF TypeOK
  <1>4. PermitsAreConserved /\ Ledger
    BY <1>1, <1>2 DEF Init, PermitsAreConserved, Ledger
  <1>5. ScopeKept /\ NoReplay /\ Guarded
    BY DEF Init, Request, ScopeKept, NoReplay, Guarded, InFlight
  <1> QED
    BY <1>3, <1>4, <1>5 DEF IInv

LEMMA AskShape ==
  ASSUME NEW t \in Tasks, TypeOK, Ask(t)
  PROVE  /\ Frame(t)
         /\ \/ /\ req'[t].at = "slot" /\ req'[t].host \in InScope /\ ~req'[t].reached
               /\ exchanges' = exchanges + 1 /\ stats' = stats
            \/ /\ req'[t].at = "blocked"
               /\ exchanges' = exchanges /\ stats' = [stats EXCEPT !.blocked = @ + 1]
  <1>1. PICK h \in Hosts, i \in BOOLEAN :
       IF h \in InScope
       THEN /\ req' = [req EXCEPT ![t] = Request("slot", h, i, 0, FALSE)]
            /\ exchanges' = exchanges + 1 /\ UNCHANGED stats
       ELSE /\ Ended(t, "blocked", FALSE)
            /\ stats' = [stats EXCEPT !.blocked = @ + 1] /\ UNCHANGED exchanges
    BY DEF Ask
  <1>2. CASE h \in InScope
    BY <1>1, <1>2, AskedShape
  <1>3. CASE h \notin InScope
    BY <1>1, <1>3, EndedShape DEF Places
  <1> QED
    BY <1>2, <1>3

LEMMA AskPreserves == ASSUME NEW t \in Tasks, IInv, Ask(t) PROVE IInv'
  <1>1. /\ Frame(t)
        /\ \/ /\ req'[t].at = "slot" /\ req'[t].host \in InScope /\ ~req'[t].reached
              /\ exchanges' = exchanges + 1 /\ stats' = stats
           \/ /\ req'[t].at = "blocked"
              /\ exchanges' = exchanges /\ stats' = [stats EXCEPT !.blocked = @ + 1]
    BY AskShape DEF IInv
  <1>2. req[t].at \notin {"slot", "delay", "sent", "backoff"}
    BY DEF Ask
  <1>3. /\ One(Holding, t) = 0 /\ One(Holding', t) = 0
        /\ One(Unsent, t) = 0 /\ One(Flying, t) = 0
        /\ One(Unsent', t) = One(Flying', t)
        /\ One(Flying', t) = IF req'[t].at = "slot" THEN 1 ELSE 0
    BY <1>1, <1>2 DEF One, Holding, Unsent, Flying, InFlight
  <1>4. TypeOK'
    BY <1>1 DEF IInv, TypeOK, Frame, Ask
  <1>5. PermitsAreConserved' /\ Ledger'
    BY <1>1, <1>3, OneTaskMoves DEF IInv, TypeOK, Frame, Ask, PermitsAreConserved, Ledger
  <1>6. ScopeKept' /\ NoReplay' /\ Guarded'
    BY <1>1 DEF IInv, Frame, Ask, ScopeKept, NoReplay, Guarded, InFlight
  <1> QED
    BY <1>4, <1>5, <1>6 DEF IInv

LEMMA AcquirePreserves == ASSUME NEW t \in Tasks, IInv, Acquire(t) PROVE IInv'
  <1>1. req[t].at = "slot" /\ req[t].host \in InScope
    BY DEF IInv, Guarded, Acquire, InFlight
  <1>2. Later(req[t].host) \in Nat
    BY <1>1 DEF IInv, TypeOK, Later
  <1>3. /\ Frame(t) /\ req'[t].at = "delay" /\ req'[t].host = req[t].host
        /\ req'[t].reached = req[t].reached /\ req'[t].idempotent = req[t].idempotent
    <2>1. req' = [req EXCEPT ![t].at = "delay", ![t].start = Later(req[t].host)]
      BY DEF Acquire, Grant
    <2> QED
      BY <1>2, <2>1, MovedShape DEF IInv, Places
  <1>4. /\ One(Holding, t) = 0 /\ One(Holding', t) = 1
        /\ One(Unsent, t) = 1 /\ One(Unsent', t) = 1
        /\ One(Flying, t) = 1 /\ One(Flying', t) = 1
    BY <1>1, <1>3 DEF One, Holding, Unsent, Flying, InFlight
  <1>5. TypeOK'
    BY <1>1, <1>2, <1>3 DEF IInv, TypeOK, Frame, Acquire, Grant
  <1>6. PermitsAreConserved' /\ Ledger'
    <2>1. /\ Cardinality(Holding) \in Nat /\ Cardinality(Holding') \in Nat
          /\ Cardinality(Unsent) \in Nat /\ Cardinality(Unsent') \in Nat
          /\ Cardinality(Flying) \in Nat /\ Cardinality(Flying') \in Nat
          /\ Cardinality(Holding') + One(Holding, t) = Cardinality(Holding) + One(Holding', t)
          /\ Cardinality(Unsent') + One(Unsent, t) = Cardinality(Unsent) + One(Unsent', t)
          /\ Cardinality(Flying') + One(Flying, t) = Cardinality(Flying) + One(Flying', t)
      BY <1>3, OneTaskMoves DEF Frame
    <2> QED
      BY <1>3, <1>4, <2>1 DEF IInv, TypeOK, Acquire, PermitsAreConserved, Ledger
  <1>7. ScopeKept' /\ NoReplay' /\ Guarded'
    BY <1>1, <1>3 DEF IInv, Frame, Acquire, ScopeKept, NoReplay, Guarded, InFlight
  <1> QED
    BY <1>5, <1>6, <1>7 DEF IInv

LEMMA TransmitPreserves == ASSUME NEW t \in Tasks, IInv, Transmit(t) PROVE IInv'
  <1>1. req[t].at = "delay" /\ req[t].host \in InScope
    BY DEF IInv, Guarded, Transmit, InFlight
  <1>2. /\ Frame(t) /\ req'[t].at = "sent" /\ req'[t].host = req[t].host
        /\ req'[t].reached = req[t].reached /\ req'[t].idempotent = req[t].idempotent
    <2>1. req' = [req EXCEPT ![t].at = "sent", ![t].start = 0]
      BY DEF Transmit
    <2> QED
      BY <2>1, MovedShape DEF IInv, Places
  <1>3. /\ One(Holding, t) = 1 /\ One(Holding', t) = 1
        /\ One(Unsent, t) = 1 /\ One(Unsent', t) = 0
        /\ One(Flying, t) = 1 /\ One(Flying', t) = 1
    BY <1>1, <1>2 DEF One, Holding, Unsent, Flying, InFlight
  <1>4. TypeOK'
    BY <1>1, <1>2 DEF IInv, TypeOK, Frame, Transmit
  <1>5. PermitsAreConserved' /\ Ledger'
    <2>1. /\ Cardinality(Holding) \in Nat /\ Cardinality(Holding') \in Nat
          /\ Cardinality(Unsent) \in Nat /\ Cardinality(Unsent') \in Nat
          /\ Cardinality(Flying) \in Nat /\ Cardinality(Flying') \in Nat
          /\ Cardinality(Holding') + One(Holding, t) = Cardinality(Holding) + One(Holding', t)
          /\ Cardinality(Unsent') + One(Unsent, t) = Cardinality(Unsent) + One(Unsent', t)
          /\ Cardinality(Flying') + One(Flying, t) = Cardinality(Flying) + One(Flying', t)
      BY <1>2, OneTaskMoves DEF Frame
    <2> QED
      BY <1>2, <1>3, <2>1 DEF IInv, TypeOK, Transmit, PermitsAreConserved, Ledger
  <1>6. ScopeKept' /\ NoReplay' /\ Guarded'
    BY <1>1, <1>2 DEF IInv, TypeOK, Frame, Transmit, ScopeKept, NoReplay, Guarded, InFlight
  <1> QED
    BY <1>4, <1>5, <1>6 DEF IInv

LEMMA BackedOffPreserves == ASSUME NEW t \in Tasks, IInv, BackedOff(t) PROVE IInv'
  <1>1. req[t].at = "backoff"
    BY DEF BackedOff
  <1>2. /\ Frame(t) /\ req'[t].at = "slot" /\ req'[t].host = req[t].host
        /\ req'[t].reached = req[t].reached /\ req'[t].idempotent = req[t].idempotent
    BY DEF IInv, TypeOK, BackedOff, Frame, RequestStates, Places
  <1>3. /\ One(Holding, t) = 0 /\ One(Holding', t) = 0
        /\ One(Unsent, t) = 1 /\ One(Unsent', t) = 1
        /\ One(Flying, t) = 1 /\ One(Flying', t) = 1
    BY <1>1, <1>2 DEF One, Holding, Unsent, Flying, InFlight
  <1>4. TypeOK'
    BY <1>2 DEF IInv, TypeOK, Frame, BackedOff
  <1>5. PermitsAreConserved' /\ Ledger'
    BY <1>2, <1>3, OneTaskMoves DEF IInv, TypeOK, Frame, BackedOff, PermitsAreConserved, Ledger
  <1>6. ScopeKept' /\ NoReplay' /\ Guarded'
    BY <1>1, <1>2 DEF IInv, Frame, BackedOff, ScopeKept, NoReplay, Guarded, InFlight
  <1> QED
    BY <1>4, <1>5, <1>6 DEF IInv

LEMMA OutcomePreserves == ASSUME NEW t \in Tasks, IInv, Outcome(t) PROVE IInv'
  <1> DEFINE again  == req'[t].at = "backoff"
             ended  == req'[t].at \in {"response", "failed", "escaped"}
             onward == req'[t].at = "slot"
  <1>1. /\ req[t].at = "sent" /\ free' = free + 1
        /\ UNCHANGED <<next, now, sent, asked>>
        /\ Frame(t)
        /\ \/ /\ again /\ req'[t].host = req[t].host
              /\ req'[t].idempotent = req[t].idempotent
              /\ req'[t].reached => req[t].reached \/ req[t].idempotent
              /\ stats' = [stats EXCEPT !.retries = @ + 1] /\ exchanges' = exchanges
           \/ /\ ended
              /\ stats' = stats \/ stats' = [stats EXCEPT !.failed = @ + 1]
              /\ exchanges' = exchanges
           \/ /\ onward /\ req'[t].host \in InScope /\ req'[t].reached = FALSE
              /\ stats' = stats /\ exchanges' = exchanges + 1
    BY OutcomeShape DEF IInv
  <1>2. /\ One(Holding, t) = 1 /\ One(Holding', t) = 0
        /\ One(Unsent, t) = 0 /\ One(Flying, t) = 1
        /\ One(Unsent', t) = One(Flying', t)
        /\ One(Flying', t) = IF ended THEN 0 ELSE 1
    BY <1>1 DEF One, Holding, Unsent, Flying, InFlight
  <1>3. PermitsAreConserved' /\ Ledger'
    <2>1. /\ Cardinality(Holding) \in Nat /\ Cardinality(Holding') \in Nat
          /\ Cardinality(Unsent) \in Nat /\ Cardinality(Unsent') \in Nat
          /\ Cardinality(Flying) \in Nat /\ Cardinality(Flying') \in Nat
          /\ Cardinality(Holding') + One(Holding, t) = Cardinality(Holding) + One(Holding', t)
          /\ Cardinality(Unsent') + One(Unsent, t) = Cardinality(Unsent) + One(Unsent', t)
          /\ Cardinality(Flying') + One(Flying, t) = Cardinality(Flying) + One(Flying', t)
      BY <1>1, OneTaskMoves DEF Frame
    <2> QED
      BY <1>1, <1>2, <2>1 DEF IInv, TypeOK, PermitsAreConserved, Ledger
  <1>4. TypeOK'
    <2>1. free' \in 0..Concurrency
      BY <1>1, <1>3, OneTaskMoves DEF IInv, TypeOK, Frame, PermitsAreConserved
    <2> QED
      BY <1>1, <2>1 DEF IInv, TypeOK, Frame
  <1>5. ScopeKept' /\ NoReplay' /\ Guarded'
    BY <1>1 DEF IInv, Frame, ScopeKept, NoReplay, Guarded, InFlight
  <1> QED
    BY <1>3, <1>4, <1>5 DEF IInv

LEMMA StepPreserves == ASSUME IInv, [Next]_vars PROVE IInv'
  <1>1. CASE UNCHANGED vars
    BY <1>1 DEF vars, IInv, TypeOK, PermitsAreConserved, ScopeKept, NoReplay, Guarded, Ledger,
       Holding, Unsent, Flying, InFlight
  <1>2. CASE Tick
    BY <1>2 DEF Tick, IInv, TypeOK, PermitsAreConserved, ScopeKept, NoReplay, Guarded, Ledger,
       Holding, Unsent, Flying, InFlight
  <1>3. ASSUME NEW t \in Tasks, Ask(t) \/ Acquire(t) \/ Advance(t) PROVE IInv'
    BY <1>3, AskPreserves, AcquirePreserves, TransmitPreserves, BackedOffPreserves, OutcomePreserves
    DEF Advance
  <1> QED
    BY <1>1, <1>2, <1>3 DEF Next

-----------------------------------------------------------------------------

\* The invariant holds in every reachable state.
THEOREM Invariance == Spec => []IInv
  BY InitEstablishes, StepPreserves, PTL DEF Spec

\* Every reachable state is well typed; attempts and hops stay within their caps.
THEOREM TypeCorrectness == Spec => []TypeOK
  BY Invariance, PTL DEF IInv

\* Permits are neither lost nor made, over every delay, retry, exception and redirect.
THEOREM PermitsConserved == Spec => []PermitsAreConserved
  BY Invariance, PTL DEF IInv

\* Some request in flight waits for nothing but its start time, its answer or its back-off, or
\* for a permit that is free: the guards of Transmit, Outcome, BackedOff and Acquire.
SomeoneGoesOn ==
  (\E t \in Tasks : InFlight(t)) =>
    \E t \in Tasks : \/ req[t].at \in {"delay", "sent", "backoff"}
                     \/ req[t].at = "slot" /\ free > 0

\* The tasks never all wait for one another's permits: a task that waits at the limiter finds a
\* permit free or another task that holds one and goes on to give it back.
THEOREM PermitsComeBack == Spec => []SomeoneGoesOn
  <1>1. IInv => SomeoneGoesOn
    <2> SUFFICES ASSUME IInv, NEW t \in Tasks, InFlight(t), ~(free > 0)
                 PROVE  \E u \in Tasks : req[u].at \in {"delay", "sent", "backoff"}
      BY DEF SomeoneGoesOn, InFlight
    <2>1. free = 0
      BY DEF IInv, PermitsAreConserved, TypeOK
    <2>2. Cardinality(Holding) = Concurrency /\ Concurrency # 0
      <3>1. Holding \subseteq Tasks
        BY DEF Holding
      <3>2. Cardinality(Holding) \in Nat
        BY <3>1, FS_Subset, FS_CardinalityType
      <3> QED
        BY <2>1, <3>2 DEF IInv, PermitsAreConserved
    <2>3. Holding # {}
      BY <2>2, FS_EmptySet
    <2> QED
      BY <2>3 DEF Holding
  <1> QED
    BY <1>1, Invariance, PTL

\* No host out of scope is ever sent a request, at no hop.
THEOREM NothingLeavesTheScope == Spec => []ScopeKept
  BY Invariance, PTL DEF IInv

\* A request that may have been acted on goes out again only when it is idempotent.
THEOREM NothingUnsafeIsReplayed == Spec => []NoReplay
  BY Invariance, PTL DEF IInv

\* With nothing in flight, the requests less the retries are the exchanges begun, and
\* no more than those have failed: what unreachable_warning divides.
THEOREM CountersAdd == Spec => []AccountsAdd
  <1>1. IInv => AccountsAdd
    <2> SUFFICES ASSUME IInv, \A t \in Tasks : ~InFlight(t)
                 PROVE  stats.requests - stats.retries = exchanges /\ stats.failed <= exchanges
      BY DEF AccountsAdd
    <2>1. Unsent = {} /\ Flying = {}
      BY DEF Unsent, Flying, InFlight
    <2> QED
      BY <2>1, FS_EmptySet DEF IInv, TypeOK, Ledger
  <1> QED
    BY <1>1, Invariance, PTL
-----------------------------------------------------------------------------
(* The rate.  A grant is a start time; it is spent when the request goes out.  *)
(* A late task may be overtaken, so what is counted is not the order of the    *)
(* starts but how many of them lie at or before a time.                        *)

Granted(h) == {t \in Tasks : req[t].at = "delay" /\ req[t].host = h}
Due(h, x) == {t \in Granted(h) : req[t].start <= x}

\* The next start leaves a delay for every grant there has been.
Spaced == \A h \in Hosts : (sent[h] + Cardinality(Granted(h))) * Delay <= next[h]

\* No time sees more starts than one per delay, those spent and those still due.
Paced == \A h \in Hosts, x \in Nat :
  x >= now => (sent[h] + Cardinality(Due(h, x))) * Delay <= x + Delay

RateInv == IInv /\ Spaced /\ Paced

LEMMA OneMore == ASSUME NEW n \in Nat, NEW m \in Nat, n * Delay <= m
                 PROVE  (n + 1) * Delay <= m + Delay
  <1>1. (n + 1) * Delay = n * Delay + Delay /\ n * Delay \in Nat
    OBVIOUS
  <1> QED
    BY <1>1

LEMMA GrantedCounts ==
  ASSUME NEW h
  PROVE  /\ IsFiniteSet(Granted(h)) /\ IsFiniteSet(Granted(h)')
         /\ Cardinality(Granted(h)) \in Nat /\ Cardinality(Granted(h)') \in Nat
  <1>1. Granted(h) \subseteq Tasks /\ Granted(h)' \subseteq Tasks
    BY DEF Granted
  <1> QED
    BY <1>1, FS_Subset, FS_CardinalityType

LEMMA DueCounts ==
  ASSUME NEW h, NEW x
  PROVE  /\ IsFiniteSet(Due(h, x)) /\ IsFiniteSet(Due(h, x)')
         /\ Cardinality(Due(h, x)) \in Nat /\ Cardinality(Due(h, x)') \in Nat
         /\ Cardinality(Due(h, x)) <= Cardinality(Granted(h))
  <1>1. Due(h, x) \subseteq Granted(h) /\ Due(h, x)' \subseteq Granted(h)'
    BY DEF Due
  <1> QED
    BY <1>1, GrantedCounts, FS_Subset, FS_CardinalityType

\* A task that neither had nor gets a start time changes no count.
LEMMA NoGrant ==
  ASSUME NEW t \in Tasks, Frame(t), req[t].at # "delay", req'[t].at # "delay", NEW h, NEW x
  PROVE  Granted(h)' = Granted(h) /\ Due(h, x)' = Due(h, x)
  BY DEF Frame, Granted, Due

LEMMA RateUnmoved ==
  ASSUME RateInv, UNCHANGED <<next, now, sent>>, NEW t \in Tasks, Frame(t),
         req[t].at # "delay", req'[t].at # "delay"
  PROVE  Spaced' /\ Paced'
  <1>1. \A h : Granted(h)' = Granted(h)
    BY NoGrant
  <1>2. \A h, x : Due(h, x)' = Due(h, x)
    BY NoGrant
  <1> QED
    BY <1>1, <1>2 DEF RateInv, Spaced, Paced

LEMMA AcquireKeepsRate == ASSUME NEW t \in Tasks, RateInv, Acquire(t) PROVE Spaced' /\ Paced'
  <1>0. PICK g \in Hosts : g = req[t].host
    BY DEF RateInv, IInv, Guarded, Acquire, InFlight
  <1>1. req[t].at = "slot"
    BY DEF Acquire
  <1>2. PICK s \in Nat : /\ s = Later(g) /\ s >= next[g] /\ s >= now
                        /\ next[g] \in Nat /\ now \in Nat
    BY DEF RateInv, IInv, TypeOK, Later
  <1>3. /\ Frame(t) /\ req'[t].at = "delay" /\ req'[t].host = g /\ req'[t].start = s
    <2>1. req' = [req EXCEPT ![t].at = "delay", ![t].start = s]
      BY <1>0, <1>2 DEF Acquire, Grant
    <2> QED
      BY <1>0, <2>1, MovedShape DEF RateInv, IInv, Places
  <1>4. next' = [next EXCEPT ![g] = s + Delay] /\ UNCHANGED <<now, sent>>
    BY <1>0, <1>2 DEF Acquire, Grant
  <1>5. /\ \A h \in Hosts \ {g} : Granted(h)' = Granted(h)
        /\ \A h \in Hosts \ {g}, x \in Nat : Due(h, x)' = Due(h, x)
        /\ \A x \in Nat : x < s => Due(g, x)' = Due(g, x)
    BY <1>0, <1>1, <1>2, <1>3 DEF Frame, Granted, Due
  <1>6. /\ Granted(g)' = Granted(g) \union {t} /\ t \notin Granted(g)
        /\ \A x \in Nat : x >= s => Due(g, x)' = Due(g, x) \union {t} /\ t \notin Due(g, x)
    BY <1>0, <1>1, <1>2, <1>3 DEF Frame, Granted, Due
  <1>7. Cardinality(Granted(g)') = Cardinality(Granted(g)) + 1
    BY <1>6, GrantedCounts, DueCounts, FS_AddElement
  <1>8. \A x \in Nat : x >= s => Cardinality(Due(g, x)') = Cardinality(Due(g, x)) + 1
    BY <1>6, GrantedCounts, DueCounts, FS_AddElement
  <1>9. \A h \in Hosts : sent[h] \in Nat /\ sent'[h] = sent[h] /\ next[h] \in Nat
    BY <1>4 DEF RateInv, IInv, TypeOK
  <1>10. Spaced'
    <2> SUFFICES ASSUME NEW h \in Hosts
                 PROVE  (sent'[h] + Cardinality(Granted(h)')) * Delay <= next'[h]
      BY DEF Spaced
    <2>1. CASE h = g
      <3> DEFINE n == sent[g] + Cardinality(Granted(g))
      <3>1. n \in Nat /\ n * Delay <= s
        <4>1. n * Delay <= next[g]
          BY <1>1 DEF RateInv, Spaced
        <4>2. n \in Nat
          BY <1>1, <1>9, GrantedCounts
        <4>3. n * Delay \in Nat
          BY <4>2
        <4> HIDE DEF n
        <4> QED
          BY <1>2, <4>1, <4>2, <4>3
      <3>2. sent'[g] + Cardinality(Granted(g)') = n + 1
        BY <1>1, <1>7, <1>9, GrantedCounts, DueCounts
      <3>3. next'[g] = s + Delay
        BY <1>1, <1>4 DEF RateInv, IInv, TypeOK
      <3> HIDE DEF n
      <3>4. (n + 1) * Delay <= s + Delay
        BY <1>2, <3>1, OneMore
      <3> QED
        BY <2>1, <3>2, <3>3, <3>4
    <2>2. CASE h # g
      BY <1>4, <1>5, <1>9, <2>2 DEF RateInv, Spaced, IInv, TypeOK
    <2> QED
      BY <2>1, <2>2
  <1>11. Paced'
    <2> SUFFICES ASSUME NEW h \in Hosts, NEW x \in Nat, x >= now
                 PROVE  (sent'[h] + Cardinality(Due(h, x)')) * Delay <= x + Delay
      BY <1>4 DEF Paced
    <2>1. CASE h = g /\ x >= s
      <3> DEFINE n == sent[g] + Cardinality(Due(g, x))
                 m == sent[g] + Cardinality(Granted(g))
      <3>1. n \in Nat /\ m \in Nat /\ n <= m /\ m * Delay <= next[g]
        <4>1. n \in Nat /\ m \in Nat /\ n <= m
          BY <1>1, <1>9, GrantedCounts, DueCounts
        <4>2. m * Delay <= next[g]
          BY <1>1 DEF RateInv, Spaced
        <4> QED
          BY <4>1, <4>2
      <3>2. sent'[g] + Cardinality(Due(g, x)') = n + 1
        BY <1>1, <1>8, <1>9, <2>1, GrantedCounts, DueCounts
      <3> HIDE DEF n, m
      <3>3. n * Delay <= m * Delay /\ n * Delay \in Nat /\ m * Delay \in Nat
        BY <3>1
      <3>4. n * Delay <= x
        BY <1>2, <2>1, <3>1, <3>3
      <3>5. (n + 1) * Delay <= x + Delay
        BY <3>1, <3>4, OneMore
      <3> QED
        BY <2>1, <3>2, <3>5
    <2>2. CASE h # g \/ x < s
      <3>1. Due(h, x)' = Due(h, x)
        <4>1. CASE h # g
          BY <1>5, <4>1
        <4>2. CASE h = g
          BY <1>5, <2>2, <4>2
        <4> QED
          BY <4>1, <4>2
      <3> QED
        BY <1>9, <3>1 DEF RateInv, Paced
    <2> QED
      BY <1>2, <2>1, <2>2
  <1> QED
    BY <1>10, <1>11

LEMMA TransmitKeepsRate == ASSUME NEW t \in Tasks, RateInv, Transmit(t) PROVE Spaced' /\ Paced'
  <1>0. PICK g \in Hosts : g = req[t].host
    BY DEF RateInv, IInv, Guarded, Transmit, InFlight
  <1>1. req[t].at = "delay" /\ req[t].start \in Nat /\ now \in Nat
    BY FieldsTyped DEF RateInv, IInv, TypeOK, Guarded, Transmit, InFlight
  <1>2. req[t].start <= now
    BY <1>1 DEF Transmit, Sleeping
  <1>3. Frame(t) /\ req'[t].at = "sent"
    <2>1. req' = [req EXCEPT ![t].at = "sent", ![t].start = 0]
      BY DEF Transmit
    <2> QED
      BY <2>1, MovedShape DEF RateInv, IInv, Places
  <1>4. UNCHANGED <<next, now>> /\ sent' = [sent EXCEPT ![g] = @ + 1]
    BY <1>0 DEF Transmit
  <1>5. /\ \A h \in Hosts \ {g} : Granted(h)' = Granted(h)
        /\ \A h \in Hosts \ {g}, x \in Nat : Due(h, x)' = Due(h, x)
    BY <1>0, <1>1, <1>3 DEF Frame, Granted, Due
  <1>6. Granted(g)' = Granted(g) \ {t} /\ t \in Granted(g)
    BY <1>0, <1>1, <1>3 DEF Frame, Granted
  <1>7. Cardinality(Granted(g)') = Cardinality(Granted(g)) - 1
    BY <1>6, GrantedCounts, FS_RemoveElement
  <1>8. ASSUME NEW x \in Nat, x >= now
        PROVE  Cardinality(Due(g, x)') = Cardinality(Due(g, x)) - 1
    <2>1. Due(g, x)' = Due(g, x) \ {t}
      BY <1>0, <1>1, <1>3 DEF Frame, Granted, Due
    <2>2. t \in Due(g, x)
      BY <1>1, <1>2, <1>6, <1>8 DEF Due
    <2>3. IsFiniteSet(Due(g, x))
      BY DueCounts
    <2> QED
      BY <2>1, <2>2, <2>3, FS_RemoveElement
  <1>9. /\ \A h \in Hosts : sent[h] \in Nat
        /\ \A h \in Hosts \ {g} : sent'[h] = sent[h]
        /\ sent'[g] = sent[g] + 1
    BY <1>1, <1>4 DEF RateInv, IInv, TypeOK
  <1>10. \A h \in Hosts : sent'[h] + Cardinality(Granted(h)') = sent[h] + Cardinality(Granted(h))
    <2> SUFFICES ASSUME NEW h \in Hosts
                 PROVE  sent'[h] + Cardinality(Granted(h)') = sent[h] + Cardinality(Granted(h))
      OBVIOUS
    <2>1. CASE h = g
      BY <1>1, <1>7, <1>9, <2>1, GrantedCounts
    <2>2. CASE h # g
      BY <1>5, <1>9, <2>2
    <2> QED
      BY <2>1, <2>2
  <1>11. \A h \in Hosts, x \in Nat :
           x >= now => sent'[h] + Cardinality(Due(h, x)') = sent[h] + Cardinality(Due(h, x))
    <2> SUFFICES ASSUME NEW h \in Hosts, NEW x \in Nat, x >= now
                 PROVE  sent'[h] + Cardinality(Due(h, x)') = sent[h] + Cardinality(Due(h, x))
      OBVIOUS
    <2>1. CASE h = g
      BY <1>1, <1>8, <1>9, <2>1, DueCounts
    <2>2. CASE h # g
      BY <1>5, <1>9, <2>2
    <2> QED
      BY <2>1, <2>2
  <1>12. Spaced'
    BY <1>4, <1>10 DEF RateInv, Spaced
  <1>13. Paced'
    BY <1>4, <1>11 DEF RateInv, Paced
  <1> QED
    BY <1>12, <1>13

LEMMA InitPaced == ASSUME Init PROVE Spaced /\ Paced
  <1>1. \A h : Granted(h) = {}
    BY DEF Init, Request, Granted
  <1>2. \A h, x : Due(h, x) = {}
    BY <1>1 DEF Due
  <1>3. Cardinality({}) = 0
    BY FS_EmptySet
  <1>4. (\A h \in Hosts : sent[h] = 0 /\ next[h] = 0) /\ now = 0
    BY DEF Init
  <1>5. \A h \in Hosts : sent[h] + Cardinality(Granted(h)) = 0
    BY <1>1, <1>3, <1>4
  <1>6. \A h \in Hosts, x \in Nat : sent[h] + Cardinality(Due(h, x)) = 0
    BY <1>2, <1>3, <1>4
  <1>7. 0 * Delay = 0 /\ \A x \in Nat : 0 <= x + Delay
    OBVIOUS
  <1>8. Spaced
    BY <1>4, <1>5, <1>7 DEF Spaced
  <1>9. Paced
    BY <1>6, <1>7 DEF Paced
  <1> QED
    BY <1>8, <1>9

LEMMA RatePreserved == ASSUME RateInv, [Next]_vars PROVE RateInv'
  <1>1. IInv'
    BY StepPreserves DEF RateInv
  <1>2. CASE UNCHANGED vars
    BY <1>1, <1>2 DEF vars, RateInv, Spaced, Paced, Granted, Due
  <1>3. CASE Tick
    <2>1. /\ \A h : Granted(h)' = Granted(h)
          /\ \A h, x : Due(h, x)' = Due(h, x)
      BY <1>3 DEF Tick, Granted, Due
    <2>2. next' = next /\ sent' = sent /\ now' = now + 1 /\ now \in Nat
      BY <1>3 DEF Tick, RateInv, IInv, TypeOK
    <2> QED
      BY <1>1, <2>1, <2>2 DEF RateInv, Spaced, Paced
  <1>4. ASSUME NEW t \in Tasks, Ask(t) PROVE RateInv'
    <2>1. UNCHANGED <<next, now, sent>> /\ req[t].at # "delay"
      BY <1>4 DEF Ask
    <2>2. Frame(t) /\ req'[t].at # "delay"
      BY <1>4, AskShape DEF RateInv, IInv
    <2> QED
      BY <1>1, <2>1, <2>2, RateUnmoved DEF RateInv
  <1>5. ASSUME NEW t \in Tasks, Acquire(t) PROVE RateInv'
    BY <1>1, <1>5, AcquireKeepsRate DEF RateInv
  <1>6. ASSUME NEW t \in Tasks, Transmit(t) PROVE RateInv'
    BY <1>1, <1>6, TransmitKeepsRate DEF RateInv
  <1>7. ASSUME NEW t \in Tasks, BackedOff(t) PROVE RateInv'
    <2>1. UNCHANGED <<next, now, sent>> /\ req[t].at # "delay"
      BY <1>7 DEF BackedOff
    <2>2. Frame(t) /\ req'[t].at # "delay"
      BY <1>7 DEF RateInv, IInv, TypeOK, BackedOff, Frame, RequestStates, Places
    <2> QED
      BY <1>1, <2>1, <2>2, RateUnmoved DEF RateInv
  <1>8. ASSUME NEW t \in Tasks, Outcome(t) PROVE RateInv'
    <2>1. /\ UNCHANGED <<next, now, sent>> /\ req[t].at # "delay"
          /\ Frame(t) /\ req'[t].at # "delay"
      BY <1>8, OutcomeShape DEF RateInv, IInv
    <2> QED
      BY <1>1, <2>1, RateUnmoved DEF RateInv
  <1> QED
    BY <1>2, <1>3, <1>4, <1>5, <1>6, <1>7, <1>8 DEF Next, Advance

\* RF-03 for any number of tasks, however late they wake up: over the whole scan a host
\* is sent no more requests than one per delay.
THEOREM HostsArePaced == Spec => []RateBounded
  <1>1. Init => RateInv
    BY InitEstablishes, InitPaced DEF RateInv
  <1>2. RateInv => RateBounded
    <2> SUFFICES ASSUME RateInv, NEW h \in Hosts PROVE sent[h] * Delay <= now + Delay
      BY DEF RateBounded
    <2> DEFINE n == sent[h] + Cardinality(Due(h, now))
    <2>1. now \in Nat /\ sent[h] \in Nat /\ n \in Nat /\ sent[h] <= n
      BY GrantedCounts, DueCounts DEF RateInv, IInv, TypeOK
    <2>2. n * Delay <= now + Delay
      BY <2>1 DEF RateInv, Paced
    <2> HIDE DEF n
    <2>3. sent[h] * Delay <= n * Delay /\ sent[h] * Delay \in Nat /\ n * Delay \in Nat
      BY <2>1
    <2> QED
      BY <2>1, <2>2, <2>3
  <1> QED
    BY <1>1, <1>2, RatePreserved, PTL DEF Spec

\* Both together: the load put on a target is bounded in rate and in number.
THEOREM TheLoadIsBounded == Spec => []LoadIsBounded
  BY HostsArePaced, PermitsConserved, PTL DEF LoadIsBounded
=============================================================================
