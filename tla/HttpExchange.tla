---------------------------- MODULE HttpExchange ----------------------------
(***************************************************************************)
(* The HTTP exchange of a scan: the rate limiter of                        *)
(* src/webvigil/http/policy.py and the scope guard, retries and redirects  *)
(* of src/webvigil/http/client.py.                                         *)
(*                                                                         *)
(* The tasks of a scan share one limiter and one set of counters.  A step  *)
(* is what a task does between two awaits: the limiter's lock is never held*)
(* over an await, so a slot and a start time are granted in one step.  A   *)
(* URL is its host, a method is whether it is idempotent, and time is      *)
(* counted in ticks that pass at any moment, so a task may be late for its *)
(* start time but never early.                                             *)
(***************************************************************************)
EXTENDS Integers, FiniteSets

CONSTANTS
  Tasks,        \* the tasks that send requests
  Hosts,        \* the hosts URLs name
  InScope,      \* the hosts ScopeGuard allows
  None,
  Concurrency,  \* [http] concurrency, at least 1
  Delay,        \* [http] delay_ms, in ticks
  MaxAttempts,  \* _MAX_ATTEMPTS
  MaxHops,      \* _MAX_REDIRECT_HOPS
  MaxRequests,  \* bound: how many requests the scan makes
  MaxIdleTime   \* bound: how far the clock runs while nobody sleeps

ASSUME ExchangeAssumption ==
  /\ InScope \subseteq Hosts /\ None \notin Hosts
  /\ Concurrency \in Nat \ {0} /\ Delay \in Nat
  /\ MaxAttempts \in Nat \ {0} /\ MaxHops \in Nat
  /\ MaxRequests \in Nat /\ MaxIdleTime \in Nat
  /\ IsFiniteSet(Tasks)

VARIABLES
  free,     \* what is left of RateLimiter._semaphore
  next,     \* RateLimiter._next_allowed
  now,      \* the event loop's clock
  req,      \* each task's request
  stats,    \* HttpStats
  sent,     \* history: the requests each host was sent
  exchanges, \* history: the requests and redirect hops that were begun
  asked     \* the counter the bound is on

vars == <<free, next, now, req, stats, sent, exchanges, asked>>

Request(at, host, idempotent, hops, reached) ==
  [at |-> at, host |-> host, idempotent |-> idempotent, attempt |-> 0, hops |-> hops,
   start |-> 0, reached |-> reached]

Init ==
  /\ free = Concurrency
  /\ next = [h \in Hosts |-> 0]
  /\ now = 0
  /\ req = [t \in Tasks |-> Request("idle", None, FALSE, 0, FALSE)]
  /\ stats = [requests |-> 0, retries |-> 0, blocked |-> 0, failed |-> 0]
  /\ sent = [h \in Hosts |-> 0]
  /\ exchanges = 0
  /\ asked = 0

Sleeping(t) == req[t].at = "delay" /\ now < req[t].start

Tick ==
  /\ now < MaxIdleTime \/ \E t \in Tasks : Sleeping(t)
  /\ now' = now + 1
  /\ UNCHANGED <<free, next, req, stats, sent, exchanges, asked>>

-----------------------------------------------------------------------------
(* HttpClient.request: the scope guard comes before anything is sent.      *)

\* What is left of a request that has ended: how, and whether it was acted on.
Ended(t, how, reached) ==
  req' = [req EXCEPT ![t] = Request(how, None, req[t].idempotent, 0, reached)]

Ask(t) ==
  /\ req[t].at \notin {"slot", "delay", "sent", "backoff"} /\ asked < MaxRequests
  /\ asked' = asked + 1
  /\ \E h \in Hosts, i \in BOOLEAN :
       IF h \in InScope
       THEN /\ req' = [req EXCEPT ![t] = Request("slot", h, i, 0, FALSE)]
            /\ exchanges' = exchanges + 1 /\ UNCHANGED stats
       ELSE /\ Ended(t, "blocked", FALSE)
            /\ stats' = [stats EXCEPT !.blocked = @ + 1] /\ UNCHANGED exchanges
  /\ UNCHANGED <<free, next, now, sent>>

-----------------------------------------------------------------------------
(* RateLimiter.slot.                                                       *)

Later(h) == IF now < next[h] THEN next[h] ELSE now

\* Variant: the next start is counted from now, not from the start just granted.
GrantFromNow(t) ==
  /\ req' = [req EXCEPT ![t].at = "delay", ![t].start = Later(req[t].host)]
  /\ next' = [next EXCEPT ![req[t].host] = now + Delay]

Grant(t) ==
  /\ req' = [req EXCEPT ![t].at = "delay", ![t].start = Later(req[t].host)]
  /\ next' = [next EXCEPT ![req[t].host] = Later(req[t].host) + Delay]

\* Variant: the semaphore is taken after the delay, so not by the tasks that sleep.
AcquireUnbounded(t) ==
  /\ req[t].at = "slot"
  /\ free' = free - 1
  /\ Grant(t)
  /\ UNCHANGED <<now, stats, sent, exchanges, asked>>

\* A task keeps its permit while it sleeps until its start time.
Acquire(t) ==
  /\ req[t].at = "slot" /\ free > 0
  /\ free' = free - 1
  /\ Grant(t)
  /\ UNCHANGED <<now, stats, sent, exchanges, asked>>

Transmit(t) ==
  /\ req[t].at = "delay" /\ ~Sleeping(t)
  /\ req' = [req EXCEPT ![t].at = "sent", ![t].start = 0]
  /\ stats' = [stats EXCEPT !.requests = @ + 1]
  /\ sent' = [sent EXCEPT ![req[t].host] = @ + 1]
  /\ UNCHANGED <<free, next, now, exchanges, asked>>

-----------------------------------------------------------------------------
(* _request_with_retry: the outcomes of an attempt.                        *)

\* Variant: an exception leaves the slot behind.
ReleaseNever == UNCHANGED free

Release == free' = free + 1

LastAttempt(t) == req[t].attempt = MaxAttempts - 1

\* Variant: the failure is counted for every attempt.
RetryCounting(t, reached) ==
  /\ stats' = [stats EXCEPT !.retries = @ + 1, !.failed = @ + 1]
  /\ req' = [req EXCEPT ![t].at = "backoff", ![t].attempt = @ + 1, ![t].reached = reached]

\* The loop's "continue" and what the next attempt begins with.
Retry(t, reached) ==
  /\ stats' = [stats EXCEPT !.retries = @ + 1]
  /\ req' = [req EXCEPT ![t].at = "backoff", ![t].attempt = @ + 1, ![t].reached = reached]

Fail(t, reached) ==
  /\ stats' = [stats EXCEPT !.failed = @ + 1]
  /\ Ended(t, "failed", reached)

RetryOrFail(t, reached) == IF LastAttempt(t) THEN Fail(t, reached) ELSE Retry(t, reached)

\* The request never left: any method is tried again.
ConnectError(t) ==
  /\ req[t].at = "sent"
  /\ Release
  /\ RetryOrFail(t, req[t].reached)
  /\ UNCHANGED <<next, now, sent, exchanges, asked>>

\* Variant: any method is tried again after any transport error.
ReadErrorRetrying(t) ==
  /\ req[t].at = "sent"
  /\ Release
  /\ RetryOrFail(t, TRUE)
  /\ UNCHANGED <<next, now, sent, exchanges, asked>>

\* A timeout or a broken connection after the request may have been acted on.
ReadError(t) ==
  /\ req[t].at = "sent"
  /\ Release
  /\ IF req[t].idempotent THEN RetryOrFail(t, TRUE)
                          ELSE Fail(t, TRUE)
  /\ UNCHANGED <<next, now, sent, exchanges, asked>>

\* A body httpx cannot decode: the exception is neither a TransportError nor a
\* TimeoutException and leaves the client as it is.
DecodeError(t) ==
  /\ req[t].at = "sent"
  /\ Release
  /\ Ended(t, "escaped", TRUE)
  /\ UNCHANGED <<next, now, stats, sent, exchanges, asked>>

\* 500, 502, 503 or 504: the last attempt's is the answer.
ServerError(t) ==
  /\ req[t].at = "sent"
  /\ Release
  /\ IF req[t].idempotent /\ ~LastAttempt(t)
     THEN Retry(t, TRUE)
     ELSE Ended(t, "response", TRUE) /\ UNCHANGED stats
  /\ UNCHANGED <<next, now, sent, exchanges, asked>>

Answer(t) ==
  /\ req[t].at = "sent"
  /\ Release
  /\ Ended(t, "response", TRUE)
  /\ UNCHANGED <<next, now, stats, sent, exchanges, asked>>

BackedOff(t) ==
  /\ req[t].at = "backoff"
  /\ req' = [req EXCEPT ![t].at = "slot"]
  /\ UNCHANGED <<free, next, now, stats, sent, exchanges, asked>>

-----------------------------------------------------------------------------
(* _send_with_redirects.                                                   *)

Follow(t, h, keep) ==
  /\ exchanges' = exchanges + 1
  /\ req' = [req EXCEPT ![t] =
       Request("slot", h, req[t].idempotent \/ ~keep, req[t].hops + 1, FALSE)]

\* Variant: only the first URL is checked against the scope.
RedirectAnywhere(t) ==
  /\ req[t].at = "sent"
  /\ Release
  /\ \E h \in Hosts, keep \in BOOLEAN :
       IF req[t].hops < MaxHops
       THEN Follow(t, h, keep)
       ELSE Ended(t, "response", TRUE) /\ UNCHANGED exchanges
  /\ UNCHANGED <<next, now, stats, sent, asked>>

\* A redirect out of scope, or one too many, is returned as the answer.  301, 302
\* and 303 turn the request into a GET, 307 and 308 keep it.
Redirect(t) ==
  /\ req[t].at = "sent"
  /\ Release
  /\ \E h \in Hosts, keep \in BOOLEAN :
       IF req[t].hops < MaxHops /\ h \in InScope
       THEN Follow(t, h, keep)
       ELSE Ended(t, "response", TRUE) /\ UNCHANGED exchanges
  /\ UNCHANGED <<next, now, stats, sent, asked>>

-----------------------------------------------------------------------------

Outcome(t) ==
  \/ ConnectError(t) \/ ReadError(t) \/ DecodeError(t)
  \/ ServerError(t) \/ Answer(t) \/ Redirect(t)

Advance(t) == Transmit(t) \/ BackedOff(t) \/ Outcome(t)

Next == Tick \/ \E t \in Tasks : Ask(t) \/ Acquire(t) \/ Advance(t)

Spec == Init /\ [][Next]_vars

-----------------------------------------------------------------------------
(* Properties.                                                             *)

Places == {"idle", "slot", "delay", "sent", "backoff", "response", "failed", "blocked", "escaped"}
InFlight(t) == req[t].at \in {"slot", "delay", "sent", "backoff"}
Holding == {t \in Tasks : req[t].at \in {"delay", "sent"}}

RequestStates == [at : Places, host : Hosts \union {None}, idempotent : BOOLEAN,
                  attempt : 0..(MaxAttempts - 1), hops : 0..MaxHops, start : Nat, reached : BOOLEAN]

TypeOK ==
  /\ free \in 0..Concurrency
  /\ next \in [Hosts -> Nat] /\ now \in Nat
  /\ req \in [Tasks -> RequestStates]
  /\ stats \in [requests : Nat, retries : Nat, blocked : Nat, failed : Nat]
  /\ sent \in [Hosts -> Nat] /\ exchanges \in Nat /\ asked \in Nat

\* RF-03, whatever the tasks, retries and redirects: over the whole scan a host is
\* never sent more requests than one per delay, however late the tasks wake up.
RateBounded == \A h \in Hosts : sent[h] * Delay <= now + Delay

\* Permits are neither lost nor made: at most Concurrency tasks hold one, those that
\* sleep out their delay included, and every other one is free.
PermitsAreConserved == free >= 0 /\ free + Cardinality(Holding) = Concurrency

\* The target is spared: neither more requests in a time nor more at once than configured.
LoadIsBounded == RateBounded /\ PermitsAreConserved

\* Nothing out of scope is ever sent a request, at no hop of a redirect chain.
ScopeKept == \A h \in Hosts \ InScope : sent[h] = 0

\* A request that may have been acted on is not sent again unless its method is
\* idempotent, whatever went wrong with it and however often it had to connect.
NoReplay == \A t \in Tasks : InFlight(t) /\ req[t].reached => req[t].idempotent

\* What unreachable_warning reads at the end: requests less retries is the number of
\* exchanges, and no more of them failed than there were.
AccountsAdd ==
  (\A t \in Tasks : ~InFlight(t)) =>
    /\ stats.requests - stats.retries = exchanges
    /\ stats.failed <= exchanges

\* Nobody waits for ever: while a request is in flight, a task can move or time
\* bring one to its start (and attempts and hops are bounded, so every request ends).
NobodyIsStuck ==
  (\E t \in Tasks : InFlight(t)) => ENABLED (Tick \/ \E t \in Tasks : Acquire(t) \/ Advance(t))
=============================================================================
