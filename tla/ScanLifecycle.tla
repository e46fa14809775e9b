--------------------------- MODULE ScanLifecycle ---------------------------
(***************************************************************************)
(* What a client of the API is promised about the status of a scan, as     *)
(* long as no scan is deleted: a queue served in order by one slot.        *)
(*                                                                         *)
(* The promise has one hole, which Resettle names: a scan that is cancelled*)
(* while it records its outcome can change its terminal status once more.  *)
(***************************************************************************)
EXTENDS Integers

CONSTANT MaxId   \* scan ids are 1..MaxId

VARIABLE rows    \* the status of each scan

Ids == 1..MaxId

Finished == {"completed", "failed", "cancelled"}

NoneRuns == \A s \in Ids : rows[s] # "running"

Init == rows = [s \in Ids |-> "absent"]

Enqueue(s) ==
  /\ rows[s] = "absent" /\ \A t \in Ids : t < s => rows[t] # "absent"
  /\ rows' = [rows EXCEPT ![s] = "queued"]

\* First come, first served, and one at a time.
Claim(s) ==
  /\ NoneRuns
  /\ rows[s] = "queued" /\ \A t \in Ids : t < s => rows[t] # "queued"
  /\ rows' = [rows EXCEPT ![s] = "running"]

CancelQueued(s) ==
  /\ rows[s] = "queued"
  /\ rows' = [rows EXCEPT ![s] = "cancelled"]

Finish(s) ==
  /\ rows[s] = "running"
  /\ \E t \in Finished : rows' = [rows EXCEPT ![s] = t]

\* Two calls race to record the outcome of a cancelled scan: one of them is
\* always the mark of the cancellation.
Resettle(s) ==
  /\ \/ rows[s] = "cancelled" /\ \E t \in {"completed", "failed"} : rows' = [rows EXCEPT ![s] = t]
     \/ rows[s] \in {"completed", "failed"} /\ rows' = [rows EXCEPT ![s] = "cancelled"]

\* A process starts: what the last one was running is interrupted, the queue stays.
Recover ==
  rows' = [s \in Ids |-> IF rows[s] = "running" THEN "interrupted" ELSE rows[s]]

Next ==
  \/ Recover
  \/ \E s \in Ids : Enqueue(s) \/ Claim(s) \/ CancelQueued(s) \/ Finish(s) \/ Resettle(s)

Spec == Init /\ [][Next]_rows
=============================================================================
