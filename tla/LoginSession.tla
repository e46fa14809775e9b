---------------------------- MODULE LoginSession ----------------------------
(***************************************************************************)
(* The login session of a scan: HttpClient.request, Session.recover and    *)
(* SessionJar of src/webvigil/http, and the re-login of                    *)
(* src/webvigil/auth/login.py.                                             *)
(*                                                                         *)
(* Many tasks of one event loop send requests that carry the session's     *)
(* cookie.  One that draws a logged-out answer asks for a recovery, under a*)
(* lock: at most one task at a time asks the reference page and logs in    *)
(* again, and every request that was waiting is then sent once more.  A    *)
(* step is what a task does between two awaits; the target server answers  *)
(* a request some time after it was sent, and the answer is received some  *)
(* time after that.                                                        *)
(*                                                                         *)
(* The session's cookies are one token.  Token 0 is the anonymous session  *)
(* many frameworks hand out, under the same cookie name, in place of one   *)
(* they no longer know.                                                    *)
(***************************************************************************)
EXTENDS Integers, FiniteSets

CONSTANTS
  Tasks,          \* the tasks that send requests
  Urls,           \* target-host URLs
  Bouncers,       \* the URLs that answer "log in" whatever the session
  CheckUrls,      \* what check_url may be, None when it is not configured
  Landings,       \* where a login may land, None when that is no page (an error, a login page)
  None,
  MaxRelogins,    \* [auth.login] max_relogins
  ReplacesCookie, \* whether the server sets the anonymous cookie on a dead session
  MaxRequests,    \* bound: requests the scan sends, retries excepted
  MaxDrops,       \* bound: sessions the server forgets
  MaxFaults       \* bound: requests and logins that fail

ASSUME SessionAssumption ==
  /\ MaxRelogins \in Nat /\ MaxRequests \in Nat /\ MaxDrops \in Nat /\ MaxFaults \in Nat
  /\ Bouncers \subseteq Urls
  /\ CheckUrls \subseteq Urls \union {None} /\ Landings \subseteq Urls \union {None}
  /\ ReplacesCookie \in BOOLEAN
  /\ None \notin Urls /\ None \notin Nat /\ "free" \notin Tasks

VARIABLES
  live,      \* the token in SessionJar._live
  pending,   \* the token in SessionJar._pending, None outside a handshake
  generation, relogins, failedRelogins, lost, closed,   \* Session's attributes
  known,     \* Session.known_login_redirects
  lock,      \* holder of Session._lock, or "free"
  req,       \* each task's request
  check,     \* the configured check_url, fixed for the scan
  landing,   \* Authenticator._landing: where the last committed login landed
  valid,     \* server: the tokens it knows
  issued,    \* server: the last token it issued
  requests, drops, faults,   \* the counters the bounds are on
  blind      \* history: logins begun with no page to ask, for a URL that bounces anyway

session == <<generation, relogins, failedRelogins, lost, closed, known, lock>>
server == <<valid, issued, drops>>
auth == <<check, landing, blind>>
vars == <<live, pending, session, req, server, auth, requests, faults>>

Anonymous == 0

Request(at, url, seen, token) ==
  [at |-> at, url |-> url, seen |-> seen, token |-> token,
   retry |-> FALSE, dropped |-> FALSE, replaces |-> FALSE]
Idle == Request("idle", None, 0, None)

\* The scan starts with a committed login.
Init ==
  /\ live = 1 /\ pending = None
  /\ generation = 1 /\ relogins = 0 /\ failedRelogins = 0
  /\ lost = FALSE /\ closed = FALSE
  /\ known = {}
  /\ lock = "free"
  /\ req = [t \in Tasks |-> Idle]
  /\ valid = {1} /\ issued = 1
  /\ check \in CheckUrls /\ landing \in Landings
  /\ requests = 0 /\ drops = 0 /\ faults = 0 /\ blind = 0

-----------------------------------------------------------------------------
(* The target server.                                                      *)

\* A session ends: it times out, the application restarts, a page logs it out.
Drop ==
  /\ drops < MaxDrops
  /\ \E k \in valid : valid' = valid \ {k}
  /\ drops' = drops + 1
  /\ UNCHANGED <<live, pending, session, req, issued, auth, requests, faults>>

\* Authenticator.reference_url: the page that tells whether the session is alive, None when
\* there is neither a check_url nor a landing page.
Reference == IF check # None THEN check ELSE landing

\* What the server says to token k at url: logged out or not, and whether it
\* replaces the cookie.
Answers(k, url) ==
  {[dropped |-> url \in Bouncers \/ k \notin valid, replaces |-> r] :
      r \in IF ReplacesCookie /\ k \notin valid THEN {TRUE, FALSE} ELSE {FALSE}}

Answered(t, url, at) ==
  \E a \in Answers(req[t].token, url) :
     req' = [req EXCEPT ![t].at = at, ![t].dropped = a.dropped, ![t].replaces = a.replaces]

Serve(t) ==
  /\ \/ req[t].at = "sent" /\ Answered(t, req[t].url, "answered")
     \/ req[t].at = "ask"  /\ Answered(t, Reference, "asked")
  /\ UNCHANGED <<live, pending, session, server, auth, requests, faults>>

Fault == faults < MaxFaults /\ faults' = faults + 1

-----------------------------------------------------------------------------
(* HttpClient.request.                                                     *)

\* The generation and the cookie are read in one step, before the first await.
Send(t) ==
  /\ req[t].at \in {"idle", "done"} /\ requests < MaxRequests
  /\ requests' = requests + 1
  /\ \E u \in Urls : req' = [req EXCEPT ![t] = Request("sent", u, generation, live)]
  /\ UNCHANGED <<live, pending, session, server, auth, faults>>

Resent(t, token) == [req EXCEPT ![t].at = "sent", ![t].retry = TRUE, ![t].token = token]
Ended(t) == [req EXCEPT ![t].at = "done"]

\* Variant: an answer goes into whichever jar is collecting.
AbsorbAnywhere(t) ==
  IF pending # None
  THEN pending' = (IF req[t].replaces THEN Anonymous ELSE pending) /\ UNCHANGED live
  ELSE live' = (IF req[t].replaces THEN Anonymous ELSE live) /\ UNCHANGED pending

\* SessionJar.absorb outside a handshake: a cookie of a name the session holds
\* overwrites the live one, whatever session the request was sent under.
Absorb(t) ==
  /\ live' = IF req[t].replaces THEN Anonymous ELSE live
  /\ UNCHANGED pending

LooksDropped(t, url) == req[t].dropped /\ url \notin known

\* Variant: the generation is read when the answer arrives.
ReceiveReadingLate(t) ==
  /\ req[t].at = "answered"
  /\ Absorb(t)
  /\ \/ LooksDropped(t, req[t].url) /\ ~req[t].retry
        /\ req' = [req EXCEPT ![t].at = "drop", ![t].seen = generation] /\ UNCHANGED known
     \/ LooksDropped(t, req[t].url) /\ req[t].retry
        /\ req' = Ended(t) /\ known' = known \union {req[t].url}
     \/ ~LooksDropped(t, req[t].url)
        /\ req' = Ended(t) /\ UNCHANGED known
  /\ UNCHANGED <<generation, relogins, failedRelogins, lost, closed, lock, server, auth, requests, faults>>

Receive(t) ==
  /\ req[t].at = "answered"
  /\ Absorb(t)
  /\ \/ LooksDropped(t, req[t].url) /\ ~req[t].retry
        /\ req' = [req EXCEPT ![t].at = "drop"] /\ UNCHANGED known
     \/ LooksDropped(t, req[t].url) /\ req[t].retry
        /\ req' = Ended(t) /\ known' = known \union {req[t].url}
     \/ ~LooksDropped(t, req[t].url)
        /\ req' = Ended(t) /\ UNCHANGED known
  /\ UNCHANGED <<generation, relogins, failedRelogins, lost, closed, lock, server, auth, requests, faults>>

\* RequestFailed: the caller gets the exception.
RequestFails(t) ==
  /\ req[t].at = "sent"
  /\ Fault
  /\ req' = [req EXCEPT ![t] = Idle]
  /\ UNCHANGED <<live, pending, session, server, auth, requests>>

-----------------------------------------------------------------------------
(* Session.recover.                                                        *)

LockTaken(t) == lock = "free" /\ req[t].at = "drop"

\* Another task has logged in since this request was sent.
AlreadyRecovered(t) ==
  /\ LockTaken(t)
  /\ generation # req[t].seen
  /\ req' = Resent(t, live)
  /\ UNCHANGED <<live, pending, session, server, auth, requests, faults>>

NotRecovered(t) ==
  /\ LockTaken(t)
  /\ generation = req[t].seen
  /\ closed \/ relogins >= MaxRelogins
  /\ lost' = (lost \/ ~closed)
  /\ req' = Ended(t)
  /\ UNCHANGED <<live, pending, generation, relogins, failedRelogins, closed, known, lock,
                 server, auth, requests, faults>>

\* Variant: one more login than allowed.
MayReloginOnceMore(t) ==
  LockTaken(t) /\ generation = req[t].seen /\ ~closed /\ relogins <= MaxRelogins

MayRelogin(t) ==
  LockTaken(t) /\ generation = req[t].seen /\ ~closed /\ relogins < MaxRelogins

\* Variant: the lock is taken for the login only.
AskUnlocked(t) ==
  /\ MayRelogin(t) /\ Reference # None
  /\ req' = [req EXCEPT ![t].at = "ask", ![t].token = live]
  /\ UNCHANGED <<live, pending, session, server, auth, requests, faults>>

\* Authenticator.confirm_dropped asks the reference page, without drop detection.
Ask(t) ==
  /\ MayRelogin(t) /\ Reference # None
  /\ lock' = t
  /\ req' = [req EXCEPT ![t].at = "ask", ![t].token = live]
  /\ UNCHANGED <<live, pending, generation, relogins, failedRelogins, lost, closed, known,
                 server, auth, requests, faults>>

Login(t) ==
  /\ relogins' = relogins + 1
  /\ pending' = Anonymous
  /\ req' = [req EXCEPT ![t].at = "login"]

LoginAtOnce(t) ==
  /\ MayRelogin(t) /\ Reference = None
  /\ lock' = t
  /\ Login(t)
  /\ blind' = blind + (IF req[t].url \in Bouncers THEN 1 ELSE 0)
  /\ UNCHANGED <<live, generation, failedRelogins, lost, closed, known, server, check, landing,
                 requests, faults>>

\* The reference page looks logged in, so the answer was the page's own: learn it,
\* and hand that answer, not the reference page's, to the caller.
NotADrop(t) ==
  /\ known' = known \union {req[t].url}
  /\ lock' = "free"
  /\ req' = [req EXCEPT ![t].at = "done", ![t].dropped = TRUE]

\* Variant: the reference page's answer is not looked at.
AskedTrusting(t) ==
  /\ req[t].at = "asked"
  /\ live' = IF req[t].replaces THEN Anonymous ELSE live
  /\ Login(t)
  /\ UNCHANGED <<generation, failedRelogins, lost, closed, known, lock, server, auth, requests, faults>>

Asked(t) ==
  /\ req[t].at = "asked"
  /\ live' = IF req[t].replaces THEN Anonymous ELSE live
  /\ \/ LooksDropped(t, Reference) /\ Login(t) /\ UNCHANGED <<known, lock>>
     \/ ~LooksDropped(t, Reference) /\ NotADrop(t) /\ UNCHANGED <<relogins, pending>>
  /\ UNCHANGED <<generation, failedRelogins, lost, closed, server, auth, requests, faults>>

\* "cannot tell: do not spend a login on it"
AskFails(t) ==
  /\ req[t].at = "ask"
  /\ Fault
  /\ NotADrop(t)
  /\ UNCHANGED <<live, pending, generation, relogins, failedRelogins, lost, closed,
                 server, auth, requests>>

-----------------------------------------------------------------------------
(* Authenticator.relogin.                                                  *)

\* The server accepts the form: its cookie goes to the pending jar.
LoginServed(t) ==
  /\ req[t].at = "login"
  /\ issued' = issued + 1
  /\ valid' = valid \union {issued'}
  /\ pending' = issued'
  /\ req' = [req EXCEPT ![t].at = "accepted"]
  /\ UNCHANGED <<live, session, drops, auth, requests, faults>>

\* The jar is committed and the generation bumped in one step, the page the login landed on
\* takes the place of the last one's, the lock is released, and the request goes out again.
Commit(t) ==
  /\ req[t].at = "accepted"
  /\ live' = pending /\ pending' = None
  /\ generation' = generation + 1
  /\ lock' = "free"
  /\ landing' \in Landings
  /\ req' = Resent(t, pending)
  /\ UNCHANGED <<relogins, failedRelogins, lost, closed, known, server, check, blind,
                 requests, faults>>

\* Variant: a failed login leaves the lock behind.
LoginFailsHolding(t) ==
  /\ req[t].at \in {"login", "accepted"}
  /\ Fault
  /\ pending' = None
  /\ failedRelogins' = failedRelogins + 1
  /\ req' = Ended(t)
  /\ UNCHANGED <<live, generation, relogins, lost, closed, known, lock, server, auth, requests>>

\* Any step of the handshake fails, or its outcome is verified as logged out: the
\* jar is rolled back and the live session stays as it was.
LoginFails(t) ==
  /\ req[t].at \in {"login", "accepted"}
  /\ Fault
  /\ pending' = None
  /\ failedRelogins' = failedRelogins + 1
  /\ lock' = "free"
  /\ req' = Ended(t)
  /\ UNCHANGED <<live, generation, relogins, lost, closed, known, server, auth, requests>>

\* The logout test ends the session on purpose; the pass that does it runs when
\* nothing else is in flight.
Close ==
  /\ ~closed /\ \A t \in Tasks : req[t].at \in {"idle", "done"}
  /\ closed' = TRUE
  /\ UNCHANGED <<live, pending, generation, relogins, failedRelogins, lost, known, lock,
                 req, server, auth, requests, faults>>

-----------------------------------------------------------------------------

Progress(t) ==
  \/ Serve(t) \/ Receive(t) \/ Asked(t) \/ LoginServed(t) \/ Commit(t)
EnterRecovery(t) ==
  \/ AlreadyRecovered(t) \/ NotRecovered(t) \/ Ask(t) \/ LoginAtOnce(t)

Next ==
  \/ Drop \/ Close
  \/ \E t \in Tasks : \/ Send(t) \/ Progress(t) \/ EnterRecovery(t)
                      \/ RequestFails(t) \/ AskFails(t) \/ LoginFails(t)

Spec == Init /\ [][Next]_vars

\* The server answers or the request times out; the lock serves its waiters in order.
FairSpec ==
  Spec /\ \A t \in Tasks : WF_vars(Progress(t)) /\ SF_vars(EnterRecovery(t))

-----------------------------------------------------------------------------
(* Properties.                                                             *)

Recovering(t) == req[t].at \in {"ask", "asked", "login", "accepted"}

Places == {"idle", "sent", "answered", "drop", "ask", "asked", "login", "accepted", "done"}
RequestStates == [at : Places, url : Urls \union {None}, seen : Nat, token : Nat \union {None},
                  retry : BOOLEAN, dropped : BOOLEAN, replaces : BOOLEAN]

TypeOK ==
  /\ live \in Nat /\ pending \in Nat \union {None}
  /\ generation \in Nat /\ relogins \in Nat /\ failedRelogins \in Nat
  /\ lost \in BOOLEAN /\ closed \in BOOLEAN
  /\ known \subseteq Urls
  /\ lock \in Tasks \union {"free"}
  /\ req \in [Tasks -> RequestStates]
  /\ valid \subseteq Nat /\ issued \in Nat
  /\ check \in CheckUrls /\ landing \in Landings
  /\ requests \in Nat /\ drops \in Nat /\ faults \in Nat /\ blind \in Nat

\* Recoveries never overlap, so two tasks never share the pending jar.
RecoveryIsSerial ==
  /\ \A t, u \in Tasks : Recovering(t) /\ Recovering(u) => t = u
  /\ pending # None => \E t \in Tasks : req[t].at \in {"login", "accepted"}

\* Failed logins included, the session logs in again at most max_relogins times, and
\* is reported lost only after that many.
CapRespected == relogins <= MaxRelogins /\ (lost => relogins = MaxRelogins)

\* Recovery is orderly: one at a time, and no more logins than allowed.
RecoveryIsOrderly == RecoveryIsSerial /\ CapRespected

\* What a login commits is the session the server has just created, whatever the
\* answers to other tasks' requests carried meanwhile.
CommitsTheLogin == [][generation' # generation => live' = issued]_vars

\* "Re-authenticate once, however many requests noticed the drop (RF-09)": whatever fails and
\* wherever each login lands, the logins committed are no more than the sessions ended, except
\* for those begun while there was no page to ask, for a URL that bounces whatever the session.
\* (Checked with a server that leaves a dead session's cookie alone.)
OneLoginPerDrop == generation - 1 <= drops + blind

\* As long as the session has ended once at most, nothing has failed and no login was spent on a
\* page that bounces anyway, every request ends with an authenticated answer, but for those pages.
AnswersAreAuthenticated ==
  drops <= 1 /\ faults = 0 /\ blind = 0 =>
    \A t \in Tasks : req[t].at = "done" /\ req[t].dropped => req[t].url \in Bouncers \/ closed

\* No request waits for ever: the recovery lock is always released.
RequestsEnd == \A t \in Tasks : req[t].at = "sent" ~> req[t].at \in {"idle", "done"}
=============================================================================
