----------------------------- MODULE ScanRunner -----------------------------
(***************************************************************************)
(* The web API's scan queue: the single-slot dispatcher of                 *)
(* src/webvigil/api/runner.py, the scan routes that create, cancel and     *)
(* delete rows, and the application's start and stop.                      *)
(*                                                                         *)
(* One asyncio event loop runs the dispatch loop, the current scan's task, *)
(* the cancel handlers and stop(); a step of the model is what one of them *)
(* does between two awaits.  Every database helper runs on a worker thread *)
(* and is a SELECT followed by an UPDATE and a commit: two steps, because  *)
(* SQLite's driver opens the transaction at the first write, so another    *)
(* connection can commit in between.  Cancelling a task that awaits such a *)
(* thread does not stop the thread: it goes on, unobserved, as a late call.*)
(***************************************************************************)
EXTENDS Integers, FiniteSets

CONSTANTS
  MaxId,        \* scan ids are 1..MaxId (the table's integer primary key)
  Cancellers,   \* concurrent POST /scans/{id}/cancel handlers
  Deleters,     \* concurrent DELETE /scans/{id} handlers
  None,         \* Python's None, no scan
  MaxCreates,   \* bound: how many scans are ever enqueued
  MaxStarts,    \* bound: how many times the process starts
  MaxFaults     \* bound: how many database calls raise

Ids == 1..MaxId

Terminal == {"completed", "failed", "cancelled", "interrupted"}
Statuses == {"absent", "queued", "running"} \union Terminal

Actors == {"loop"} \union Cancellers

ASSUME BoundsAssumption ==
  MaxId \in Nat /\ MaxCreates \in Nat /\ MaxStarts \in Nat /\ MaxFaults \in Nat

ASSUME NamesAssumption ==
  /\ None \notin Ids
  /\ Cancellers \intersect {"loop", "free"} = {}

VARIABLES
  rows,     \* the scan table: the status of each id, "absent" when there is no row
  found,    \* the ids that have finding rows
  proc,     \* the server process: "up" or "down"
  lock,     \* holder of ScanRunner._dispatch, or "free"
  event,    \* ScanRunner._event is set
  stopped,  \* ScanRunner._stopped
  current,  \* the scan of ScanRunner._current, or None
  task,     \* where the task of _current is
  call,     \* the database call that task awaits: its operation and its progress
  late,     \* calls whose awaiting task was cancelled
  loop,     \* where _loop is
  pick,     \* the row _claim_next_queued has read
  cancel,   \* each cancel handler: its step and its scan
  delete,   \* each delete handler: its step and its scan
  stopper,  \* where stop() is
  creates, starts, faults   \* the counters the bounds are on

vars == <<rows, found, proc, lock, event, stopped, current, task, call, late,
          loop, pick, cancel, delete, stopper, creates, starts, faults>>

-----------------------------------------------------------------------------

NoCall == [op |-> "none", at |-> "none"]
Calls  == {NoCall} \union [op : {"store", "fail"}, at : {"read", "write", "ok", "error"}]
LateCalls == [id : Ids, op : {"store", "fail"}, at : {"read", "write"}]

IdleHandler == [at |-> "idle", id |-> None]

Exists(s) == rows[s] # "absent"

\* store_result writes the outcome whatever the status is; _terminate only
\* moves a row that is not terminal yet.
Outcome(op) == IF op = "store" THEN "completed" ELSE "failed"
Applies(op, s) == Exists(s) /\ (op = "store" \/ rows[s] \notin Terminal)

Queued == {s \in Ids : rows[s] = "queued"}
\* Variant: newest first.
IsNewest(s) == s \in Queued /\ \A t \in Queued : t <= s

IsOldest(s) == s \in Queued /\ \A t \in Queued : s <= t

\* SQLite hands out one more than the largest id in the table, so the id of a
\* deleted newest row is used again.
IsNextId(s) == /\ \A t \in Ids : Exists(t) => t < s
               /\ s > 1 => Exists(s - 1)

UNCHANGED_DB == UNCHANGED <<rows, found>>

VolatileReset ==
  /\ lock' = "free"
  /\ current' = None
  /\ task' = "none"
  /\ call' = NoCall
  /\ late' = {}
  /\ pick' = None
  /\ cancel' = [c \in Cancellers |-> IdleHandler]
  /\ delete' = [d \in Deleters |-> IdleHandler]
  /\ stopper' = "idle"

Init ==
  /\ rows = [s \in Ids |-> "absent"]
  /\ found = {}
  /\ proc = "down"
  /\ lock = "free"
  /\ event = FALSE
  /\ stopped = FALSE
  /\ current = None
  /\ task = "none"
  /\ call = NoCall
  /\ late = {}
  /\ loop = "off"
  /\ pick = None
  /\ cancel = [c \in Cancellers |-> IdleHandler]
  /\ delete = [d \in Deleters |-> IdleHandler]
  /\ stopper = "idle"
  /\ creates = 0
  /\ starts = 0
  /\ faults = 0

-----------------------------------------------------------------------------
(* The application: app.py's lifespan, and the loss of the process.        *)

\* Start-up.  Recovery commits before the dispatch loop exists, so nothing
\* runs next to it; the wake() after start() sets the event.
RestartUnrecovered ==
  /\ proc = "down" /\ starts < MaxStarts
  /\ proc' = "up" /\ loop' = "check" /\ event' = TRUE /\ starts' = starts + 1
  /\ UNCHANGED <<rows, found, lock, stopped, current, task, call, late, pick,
                 cancel, delete, stopper, creates, faults>>

Restart ==
  /\ proc = "down" /\ starts < MaxStarts
  /\ rows' = [s \in Ids |-> IF rows[s] = "running" THEN "interrupted" ELSE rows[s]]
  /\ proc' = "up" /\ loop' = "check" /\ event' = TRUE /\ starts' = starts + 1
  /\ UNCHANGED <<found, lock, stopped, current, task, call, late, pick,
                 cancel, delete, stopper, creates, faults>>

Halt ==
  /\ proc' = "down" /\ loop' = "off" /\ event' = FALSE /\ stopped' = FALSE
  /\ VolatileReset
  /\ UNCHANGED <<rows, found, creates, starts, faults>>

\* Only what was committed survives.
Crash == proc = "up" /\ Halt

-----------------------------------------------------------------------------
(* A database call raises: the database is locked past its timeout, the    *)
(* disk is full, the row it updates is gone.                               *)

DatabaseFault == faults < MaxFaults /\ faults' = faults + 1

\* Cancelling the task of _current: CancelledError is raised at the await it is
\* in, even when the thread it awaits has already finished.  A call still in the
\* executor's queue is dropped, one that has begun goes on as a late call.  A
\* task that is over is not affected.  (Two equal late calls count as one.)
CancelTask ==
  LET begun == IF call.at \in {"read", "write"}
               THEN {[id |-> current, op |-> call.op, at |-> call.at]} ELSE {}
  IN  /\ task' = IF task \in {"loading", "scanning", "waiting"} THEN "cancelled" ELSE task
      /\ call' = NoCall
      /\ \/ late' = late \union begun
         \/ call.at = "read" /\ late' = late

-----------------------------------------------------------------------------
(* The routes.  The server takes no new request once it is shutting down.  *)

Serving == proc = "up" /\ ~stopped

Create ==
  /\ Serving /\ creates < MaxCreates
  /\ \E s \in Ids : IsNextId(s) /\ rows' = [rows EXCEPT ![s] = "queued"]
  /\ event' = TRUE
  /\ creates' = creates + 1
  /\ UNCHANGED <<found, proc, lock, stopped, current, task, call, late, loop,
                 pick, cancel, delete, stopper, starts, faults>>

HandlerVars == <<found, proc, event, stopped, loop, pick, delete, stopper, creates, starts>>

\* The handler answers 404 or 409 without waiting when the row is absent or
\* terminal; otherwise it calls ScanRunner.cancel, which waits for the lock.
CancelRequest(c) ==
  /\ Serving /\ cancel[c].at = "idle"
  /\ \E s \in Ids : /\ Exists(s) /\ rows[s] \notin Terminal
                    /\ cancel' = [cancel EXCEPT ![c] = [at |-> "lock", id |-> s]]
  /\ UNCHANGED <<rows, lock, current, task, call, late, faults, HandlerVars>>

CancelCurrent(c) ==
  /\ cancel[c].at = "lock" /\ lock = "free" /\ current = cancel[c].id
  /\ CancelTask
  /\ cancel' = [cancel EXCEPT ![c] = IdleHandler]
  /\ UNCHANGED <<rows, lock, current, faults, HandlerVars>>

\* Variant: the queued path does not hold the dispatch lock.
CancelOtherUnlocked(c) ==
  /\ cancel[c].at = "lock" /\ lock = "free" /\ current # cancel[c].id
  /\ cancel' = [cancel EXCEPT ![c].at = "read"]
  /\ UNCHANGED <<rows, lock, current, task, call, late, faults, HandlerVars>>

CancelOther(c) ==
  /\ cancel[c].at = "lock" /\ lock = "free" /\ current # cancel[c].id
  /\ lock' = c
  /\ cancel' = [cancel EXCEPT ![c].at = "read"]
  /\ UNCHANGED <<rows, current, task, call, late, faults, HandlerVars>>

CancelDone(c) == lock' = "free" /\ cancel' = [cancel EXCEPT ![c] = IdleHandler]

\* Variant: the helper relies on the status the route has checked.
CancelReadTrusting(c) ==
  /\ cancel[c].at = "read"
  /\ IF Exists(cancel[c].id)
     THEN cancel' = [cancel EXCEPT ![c].at = "write"] /\ UNCHANGED lock
     ELSE CancelDone(c)
  /\ UNCHANGED <<rows, current, task, call, late, faults, HandlerVars>>

CancelRead(c) ==
  /\ cancel[c].at = "read"
  /\ IF rows[cancel[c].id] = "queued"
     THEN cancel' = [cancel EXCEPT ![c].at = "write"] /\ UNCHANGED lock
     ELSE CancelDone(c)
  /\ UNCHANGED <<rows, current, task, call, late, faults, HandlerVars>>

\* An UPDATE of a row that is gone raises: the handler answers 500.
CancelWrite(c) ==
  /\ cancel[c].at = "write"
  /\ rows' = IF Exists(cancel[c].id) THEN [rows EXCEPT ![cancel[c].id] = "cancelled"] ELSE rows
  /\ CancelDone(c)
  /\ UNCHANGED <<current, task, call, late, faults, HandlerVars>>

CancelFault(c) ==
  /\ cancel[c].at \in {"read", "write"}
  /\ DatabaseFault
  /\ CancelDone(c)
  /\ UNCHANGED <<rows, current, task, call, late, HandlerVars>>

\* delete_scan runs on a thread of its own and takes no lock: the status it
\* checked may have changed when it deletes.  Findings go with the row.
DeleteRead(d) ==
  /\ Serving /\ delete[d].at = "idle"
  /\ \E s \in Ids : /\ rows[s] \in Terminal
                    /\ delete' = [delete EXCEPT ![d] = [at |-> "write", id |-> s]]
  /\ UNCHANGED <<rows, found, proc, lock, event, stopped, current, task, call, late,
                 loop, pick, cancel, stopper, creates, starts, faults>>

DeleteWrite(d) ==
  /\ delete[d].at = "write"
  /\ \/ /\ rows' = [rows EXCEPT ![delete[d].id] = "absent"]
        /\ found' = found \ {delete[d].id}
        /\ UNCHANGED faults
     \/ DatabaseFault /\ UNCHANGED_DB
  /\ delete' = [delete EXCEPT ![d] = IdleHandler]
  /\ UNCHANGED <<proc, lock, event, stopped, current, task, call, late,
                 loop, pick, cancel, stopper, creates, starts>>

-----------------------------------------------------------------------------
(* The dispatch loop.                                                      *)

LoopVars == <<proc, cancel, delete, stopper, creates, starts>>

\* "while not stopped", and the clear that precedes every look at the queue.
LoopCheck ==
  /\ loop = "check"
  /\ IF stopped THEN loop' = "exited" /\ UNCHANGED event
                ELSE loop' = "lock" /\ event' = FALSE
  /\ UNCHANGED <<rows, found, lock, stopped, current, task, call, late, pick, faults, LoopVars>>

\* Nothing is claimed once stop() has been called: _start_next returns None, and
\* _loop returns.
LoopAcquire ==
  /\ loop = "lock" /\ lock = "free"
  /\ IF stopped THEN loop' = "exited" /\ UNCHANGED lock
                ELSE loop' = "claimRead" /\ lock' = "loop"
  /\ UNCHANGED <<rows, found, event, stopped, current, task, call, late, pick, faults, LoopVars>>

ClaimRead ==
  /\ loop = "claimRead"
  /\ \/ Queued = {} /\ loop' = "empty" /\ UNCHANGED pick
     \/ \E s \in Ids : IsOldest(s) /\ loop' = "claimWrite" /\ pick' = s
  /\ UNCHANGED <<rows, found, lock, event, stopped, current, task, call, late, faults, LoopVars>>

LoopDies == loop' = "dead" /\ pick' = None

\* Variant: the lock covers the claim but not the registration.
ClaimWriteReleasing ==
  /\ loop = "claimWrite"
  /\ rows' = [rows EXCEPT ![pick] = "running"]
  /\ loop' = "claimed" /\ lock' = "free"
  /\ UNCHANGED <<found, event, stopped, current, task, call, late, pick, faults, LoopVars>>

\* The claim commits, on the worker thread; an UPDATE of a row that is gone raises.
ClaimWrite ==
  /\ loop = "claimWrite"
  /\ IF Exists(pick)
     THEN /\ rows' = [rows EXCEPT ![pick] = "running"]
          /\ loop' = "claimed" /\ UNCHANGED <<pick, lock>>
     ELSE LoopDies /\ lock' = "free" /\ UNCHANGED rows
  /\ UNCHANGED <<found, event, stopped, current, task, call, late, faults, LoopVars>>

\* The event loop resumes _start_next: _current is set, then the lock is released.
Register ==
  /\ loop = "claimed"
  /\ current' = pick /\ task' = "loading" /\ pick' = None
  /\ lock' = "free"
  /\ loop' = "await"
  /\ UNCHANGED <<rows, found, event, stopped, call, late, faults, LoopVars>>

\* Variant: the event is cleared here instead of before the claim.
NothingQueuedClearing ==
  /\ loop = "empty"
  /\ lock' = "free"
  /\ event' = FALSE
  /\ loop' = IF stopped THEN "exited" ELSE "idle"
  /\ UNCHANGED <<rows, found, stopped, current, task, call, late, pick, faults, LoopVars>>

NothingQueued ==
  /\ loop = "empty"
  /\ lock' = "free"
  /\ loop' = IF stopped THEN "exited" ELSE "idle"
  /\ UNCHANGED <<rows, found, event, stopped, current, task, call, late, pick, faults, LoopVars>>

\* event.wait() returns, at once if the event is already set.
Woken ==
  /\ loop = "idle" /\ event
  /\ loop' = "check"
  /\ UNCHANGED <<rows, found, lock, event, stopped, current, task, call, late, pick, faults, LoopVars>>

Unregister == current' = None /\ task' = "none"

\* The loop resumes from "await task".  An exception of the task, other than
\* CancelledError, leaves _loop after its finally clause.
TaskEnded ==
  /\ loop = "await"
  /\ \/ task = "returned"  /\ Unregister /\ loop' = "check"
     \/ task = "raised"    /\ Unregister /\ loop' = "dead"
     \/ task = "cancelled" /\ loop' = "markRead" /\ UNCHANGED <<current, task>>
  /\ UNCHANGED <<rows, found, lock, event, stopped, call, late, pick, faults, LoopVars>>

\* Variant: the loop goes on without marking the cancelled scan.
MarkReadSkipping ==
  /\ loop = "markRead"
  /\ Unregister /\ loop' = "check"
  /\ UNCHANGED <<rows, found, lock, event, stopped, call, late, pick, faults, LoopVars>>

\* _mark_cancelled, on a thread: _terminate without only_from.
MarkRead ==
  /\ loop = "markRead"
  /\ IF Exists(current) /\ rows[current] \notin Terminal
     THEN loop' = "markWrite" /\ UNCHANGED <<current, task>>
     ELSE loop' = "check" /\ Unregister
  /\ UNCHANGED <<rows, found, lock, event, stopped, call, late, pick, faults, LoopVars>>

MarkWrite ==
  /\ loop = "markWrite"
  /\ IF Exists(current)
     THEN rows' = [rows EXCEPT ![current] = "cancelled"] /\ loop' = "check"
     ELSE UNCHANGED rows /\ loop' = "dead"
  /\ Unregister
  /\ UNCHANGED <<found, lock, event, stopped, call, late, pick, faults, LoopVars>>

LoopFault ==
  /\ DatabaseFault
  /\ \/ /\ loop \in {"claimRead", "claimWrite"}
        /\ lock' = "free" /\ LoopDies /\ UNCHANGED <<current, task>>
     \/ /\ loop \in {"markRead", "markWrite"}
        /\ loop' = "dead" /\ Unregister /\ UNCHANGED <<lock, pick>>
  /\ UNCHANGED <<rows, found, event, stopped, call, late, LoopVars>>

-----------------------------------------------------------------------------
(* The scan's task: _run_scan.                                             *)

TaskVars == <<proc, lock, event, stopped, current, loop, pick, cancel, delete,
              stopper, creates, starts>>

\* _load_config stands outside the try: what it raises leaves the task.
LoadConfig ==
  /\ task = "loading"
  /\ \/ task' = (IF Exists(current) THEN "scanning" ELSE "raised") /\ UNCHANGED faults
     \/ DatabaseFault /\ task' = "raised"
  /\ UNCHANGED <<rows, found, call, late, TaskVars>>

\* Orchestrator.run returns a result, or raises a WebVigilError or any other
\* exception: the task then waits for the thread that records it.
ScanEnds ==
  /\ task = "scanning"
  /\ task' = "waiting"
  /\ \E op \in {"store", "fail"} : call' = [op |-> op, at |-> "read"]
  /\ UNCHANGED <<rows, found, late, faults, TaskVars>>

\* Variant: the findings are not part of the commit.
RecordStatusOnly(op, s) ==
  /\ rows' = [rows EXCEPT ![s] = Outcome(op)]
  /\ UNCHANGED found

\* The write of an outcome: findings are inserted in the commit that completes.
Record(op, s) ==
  /\ rows' = [rows EXCEPT ![s] = Outcome(op)]
  /\ found' = IF op = "store" THEN found \union {s} ELSE found

\* The thread of the call the task waits for.  store_result raises LookupError
\* when there is no row; _terminate then does nothing.
CallRead ==
  /\ call.at = "read"
  /\ call' = [call EXCEPT !.at = IF Applies(call.op, current) THEN "write"
                                 ELSE IF call.op = "store" THEN "error" ELSE "ok"]
  /\ UNCHANGED <<rows, found, task, late, faults, TaskVars>>

CallWrite ==
  /\ call.at = "write"
  /\ IF Exists(current)
     THEN Record(call.op, current) /\ call' = [call EXCEPT !.at = "ok"]
     ELSE UNCHANGED_DB /\ call' = [call EXCEPT !.at = "error"]
  /\ UNCHANGED <<task, late, faults, TaskVars>>

CallFault ==
  /\ call.at \in {"read", "write"}
  /\ DatabaseFault
  /\ call' = [call EXCEPT !.at = "error"]
  /\ UNCHANGED <<rows, found, task, late, TaskVars>>

CallDone ==
  /\ call.at \in {"ok", "error"}
  /\ task' = IF call.at = "ok" THEN "returned" ELSE "raised"
  /\ call' = NoCall
  /\ UNCHANGED <<rows, found, late, faults, TaskVars>>

\* The same thread when nobody waits for it any more: what it raises is lost.
LateRead ==
  /\ \E o \in late :
        /\ o.at = "read"
        /\ late' = (late \ {o}) \union
                     (IF Applies(o.op, o.id) THEN {[o EXCEPT !.at = "write"]} ELSE {})
  /\ UNCHANGED <<rows, found, task, call, faults, TaskVars>>

LateWrite ==
  /\ \E o \in late :
        /\ o.at = "write"
        /\ late' = late \ {o}
        /\ IF Exists(o.id) THEN Record(o.op, o.id) ELSE UNCHANGED_DB
  /\ UNCHANGED <<task, call, faults, TaskVars>>

LateFault ==
  /\ DatabaseFault
  /\ \E o \in late : late' = late \ {o}
  /\ UNCHANGED <<rows, found, task, call, TaskVars>>

-----------------------------------------------------------------------------
(* ScanRunner.stop, and the exit of the process after it.                  *)

StopVars == <<rows, found, loop, pick, cancel, delete, creates, starts, faults>>

Stop ==
  /\ proc = "up" /\ stopper = "idle"
  /\ stopped' = TRUE /\ event' = TRUE
  /\ stopper' = "lock"
  /\ UNCHANGED <<proc, lock, current, task, call, late, StopVars>>

\* Variant: stop() looks at _current without the dispatch lock.
StopCancelUnlocked ==
  /\ stopper = "lock"
  /\ stopper' = "join"
  /\ IF current # None THEN CancelTask ELSE UNCHANGED <<task, call, late>>
  /\ UNCHANGED <<proc, lock, event, stopped, current, StopVars>>

StopCancel ==
  /\ stopper = "lock" /\ lock = "free"
  /\ stopper' = "join"
  /\ IF current # None THEN CancelTask ELSE UNCHANGED <<task, call, late>>
  /\ UNCHANGED <<proc, lock, event, stopped, current, StopVars>>

\* The loop task is over; the event loop's shutdown waits for the threads that
\* are still running and for the handlers before the process ends.
Exit ==
  /\ stopper = "join" /\ loop \in {"exited", "dead"}
  /\ late = {}
  /\ \A c \in Cancellers : cancel[c].at = "idle"
  /\ \A d \in Deleters : delete[d].at = "idle"
  /\ Halt

-----------------------------------------------------------------------------

LoopStep ==
  \/ LoopCheck \/ LoopAcquire \/ ClaimRead \/ ClaimWrite \/ Register
  \/ NothingQueued \/ Woken \/ TaskEnded \/ MarkRead \/ MarkWrite

CallStep == CallRead \/ CallWrite \/ CallDone
LateStep == LateRead \/ LateWrite
CancelStep(c) == CancelCurrent(c) \/ CancelOther(c) \/ CancelRead(c) \/ CancelWrite(c)
StopStep == StopCancel \/ Exit

Next ==
  \/ Restart \/ Crash \/ Stop \/ StopStep
  \/ Create
  \/ \E c \in Cancellers : CancelRequest(c) \/ CancelStep(c) \/ CancelFault(c)
  \/ \E d \in Deleters : DeleteRead(d) \/ DeleteWrite(d)
  \/ LoopStep \/ LoopFault
  \/ LoadConfig \/ ScanEnds \/ CallStep \/ CallFault
  \/ LateStep \/ LateFault

Spec == Init /\ [][Next]_vars

-----------------------------------------------------------------------------
(* Fairness.  The event loop and the worker threads run what is ready; the *)
(* lock's waiters are served in arrival order, so one that waits gets it.  *)

RunnerFairness ==
  /\ WF_vars(LoopStep) /\ SF_vars(LoopAcquire)
  /\ WF_vars(LoadConfig) /\ WF_vars(CallStep) /\ WF_vars(LateStep)
  /\ \A c \in Cancellers : WF_vars(CancelStep(c)) /\ SF_vars(CancelCurrent(c) \/ CancelOther(c))
  /\ \A d \in Deleters : WF_vars(DeleteWrite(d))
  /\ SF_vars(StopCancel) /\ WF_vars(Exit)

\* Scans may last for ever: nothing is assumed of Orchestrator.run.
HangingSpec == Spec /\ RunnerFairness

-----------------------------------------------------------------------------
(* Properties.                                                             *)

TypeOK ==
  /\ rows \in [Ids -> Statuses]
  /\ found \subseteq Ids
  /\ proc \in {"up", "down"}
  /\ lock \in {"free"} \union Actors
  /\ event \in BOOLEAN /\ stopped \in BOOLEAN
  /\ current \in Ids \union {None}
  /\ task \in {"none", "loading", "scanning", "waiting", "returned", "raised", "cancelled"}
  /\ call \in Calls
  /\ late \subseteq LateCalls
  /\ loop \in {"off", "check", "lock", "claimRead", "claimWrite", "claimed", "empty",
               "idle", "await", "markRead", "markWrite", "dead", "exited"}
  /\ pick \in Ids \union {None}
  /\ cancel \in [Cancellers -> [at : {"idle", "lock", "read", "write"}, id : Ids \union {None}]]
  /\ delete \in [Deleters -> [at : {"idle", "write"}, id : Ids \union {None}]]
  /\ stopper \in {"idle", "lock", "join"}
  /\ creates \in Nat /\ starts \in Nat /\ faults \in Nat

\* The runner owns one execution slot: whatever is cancelled, deleted, crashed or
\* recovered, two rows are never RUNNING at once (a row the last process left
\* RUNNING is INTERRUPTED before the loop of the next one claims anything).
OneSlot == \A s, t \in Ids : rows[s] = "running" /\ rows[t] = "running" => s = t

\* While nobody holds the dispatch lock and the loop is alive, a row that is
\* RUNNING is the registered one, so cancel and stop cannot miss it (issue #89).
RunningIsRegistered ==
  proc = "up" /\ lock = "free" /\ loop # "dead" =>
    \A s \in Ids : rows[s] = "running" => current = s

\* A scan cancelled while it waits in the queue never runs: a claim that has
\* read it as QUEUED cannot commit RUNNING over the cancellation.
CancelledNeverRuns ==
  [][\A s \in Ids : rows[s] = "cancelled" => rows'[s] # "running"]_vars

\* A status that is terminal is overwritten only by one of the two calls that a
\* cancellation sets racing: the late call of the cancelled task, or the
\* _mark_cancelled that follows it.  (Checked without deletions, which let a
\* row's id be used again.)
SettledButForTheRace ==
  [][\A s \in Ids : rows[s] \in Terminal /\ rows'[s] # rows[s] =>
       \/ \E o \in late : o.id = s /\ o.at = "write"
       \/ loop = "markWrite" /\ current = s]_vars

\* COMPLETED is a promise about findings: a COMPLETED row's findings are stored
\* in the commit that completes it, and a row that has none of it has none
\* unless a cancellation raced that commit.
FindingsFollowCompletion ==
  \A s \in Ids : /\ rows[s] = "completed" => s \in found
                 /\ s \in found => rows[s] \in {"completed", "cancelled"}

\* No lost wake-up: as long as scans end, the server is up and its loop alive, a
\* queued scan leaves the queue, whatever is enqueued or cancelled while the loop
\* goes to sleep.
QueueDrains ==
  []<>(task # "scanning") =>
    \A s \in Ids : rows[s] = "queued" ~>
                     (rows[s] # "queued" \/ stopped \/ proc = "down" \/ loop = "dead")

\* A cancelled scan ends even when its engine never would.
CancelTakesEffect ==
  \A s \in Ids : current = s /\ task = "cancelled" ~>
                   (rows[s] # "running" \/ proc = "down" \/ loop = "dead")

\* stop() returns and the process ends, even when it is called between the
\* claim of a scan and its registration and the scan itself would never end.
StopReturns == stopped ~> (proc = "down")

\* ScanRunner._loop: "Runs until stop sets the flag and wakes it."
LoopRunsUntilStopped == loop # "dead"

-----------------------------------------------------------------------------
(* What a client is promised.                                              *)

Lifecycle == INSTANCE ScanLifecycle WITH rows <- rows, MaxId <- MaxId

\* Without deletions the runner keeps the lifecycle a client is promised: every change of the
\* scan table is one of the changes ScanLifecycle allows, whatever crashes, faults,
\* cancellations and late calls do.
RunnerRefinesLifecycle == Lifecycle!Spec
=============================================================================
