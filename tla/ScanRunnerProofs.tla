-------------------------- MODULE ScanRunnerProofs --------------------------
(***************************************************************************)
(* The dispatch loop, its one slot and its queue, for any number of rows,  *)
(* handlers, restarts and database faults; and, without deletions, that    *)
(* the runner implements ScanLifecycle.                                    *)
(***************************************************************************)
EXTENDS ScanRunner, TLAPS

\* The loop holds the lock from the claim to the registration of what it claimed,
\* a cancel handler while its helper runs.
LockDiscipline ==
  /\ lock = "loop" <=> loop \in {"claimRead", "claimWrite", "claimed", "empty"}
  /\ \A c \in Cancellers : cancel[c].at \in {"read", "write"} => lock = c

\* The loop's position says whether a scan is picked or registered, and a call is
\* awaited only by the task of the registered scan.
Registration ==
  /\ proc = "down" <=> loop = "off"
  /\ loop \in {"claimWrite", "claimed"} <=> pick # None
  /\ loop \in {"await", "markRead", "markWrite"} <=> current # None
  /\ task # "none" <=> current # None
  /\ loop \in {"markRead", "markWrite"} => task = "cancelled"
  /\ call.at # "none" <=> task = "waiting"

\* A row that has been read as QUEUED by the claim may since have been settled by
\* a late call or deleted, but neither cancelled nor claimed.
PickIsFree == loop = "claimWrite" => rows[pick] \notin {"running", "cancelled"}

\* A task returns only once its row has left RUNNING.
ReturnSettles == call.at = "ok" \/ task = "returned" => rows[current] # "running"

\* A RUNNING row is the one just claimed or the registered one, or nothing will be
\* claimed any more by this process.
Slot ==
  \A s \in Ids : rows[s] = "running" =>
     \/ loop \in {"off", "dead"}
     \/ loop = "claimed" /\ pick = s
     \/ loop \in {"await", "markRead", "markWrite"} /\ current = s

IInv == /\ TypeOK /\ LockDiscipline /\ Registration
        /\ PickIsFree /\ ReturnSettles /\ Slot /\ OneSlot

-----------------------------------------------------------------------------
(* The initial states, and the states a new process starts from.           *)

USE BoundsAssumption, NamesAssumption
    DEF Ids, Statuses, Terminal, Actors, Calls, NoCall, LateCalls

LEMMA InitEstablishes == ASSUME Init PROVE IInv
  <1>1. event \in BOOLEAN /\ stopped \in BOOLEAN
    BY Zenon DEF Init
  <1>2. TypeOK
    BY <1>1 DEF Init, TypeOK, IdleHandler
  <1>3. LockDiscipline /\ Registration
    BY DEF Init, LockDiscipline, Registration, IdleHandler
  <1>4. PickIsFree /\ ReturnSettles /\ Slot /\ OneSlot
    BY DEF Init, PickIsFree, ReturnSettles, Slot, OneSlot
  <1> QED
    BY <1>2, <1>3, <1>4 DEF IInv

LEMMA HaltPreserves == ASSUME IInv, Halt PROVE IInv'
  <1>1. (event \in BOOLEAN /\ stopped \in BOOLEAN)'
    BY Zenon DEF Halt
  <1>2. TypeOK'
    BY <1>1 DEF IInv, Halt, VolatileReset, TypeOK, IdleHandler
  <1>3. LockDiscipline' /\ Registration'
    BY DEF Halt, VolatileReset, LockDiscipline, Registration, IdleHandler
  <1>4. PickIsFree' /\ ReturnSettles' /\ Slot' /\ OneSlot'
    BY DEF IInv, Halt, VolatileReset, PickIsFree, ReturnSettles, Slot, OneSlot
  <1> QED
    BY <1>2, <1>3, <1>4 DEF IInv

LEMMA RestartPreserves ==
  ASSUME IInv, Restart PROVE IInv'
  BY SMTT(30) DEF IInv, TypeOK, LockDiscipline, Registration, PickIsFree, ReturnSettles, Slot, OneSlot,
     Restart

-----------------------------------------------------------------------------
(* The routes.                                                             *)

LEMMA CreatePreserves ==
  ASSUME IInv, Create PROVE IInv'
  BY SMTT(30) DEF IInv, TypeOK, LockDiscipline, Registration, PickIsFree, ReturnSettles, Slot, OneSlot,
     Create, Serving, IsNextId, Exists

LEMMA CancelRequestPreserves ==
  ASSUME NEW c \in Cancellers, IInv, CancelRequest(c) PROVE IInv'
  BY SMTT(30) DEF IInv, TypeOK, LockDiscipline, Registration, PickIsFree, ReturnSettles, Slot, OneSlot,
     CancelRequest, Serving, Exists, HandlerVars

LEMMA CancelCurrentPreserves ==
  ASSUME NEW c \in Cancellers, IInv, CancelCurrent(c) PROVE IInv'
  BY SMTT(30) DEF IInv, TypeOK, LockDiscipline, Registration, PickIsFree, ReturnSettles, Slot, OneSlot,
     CancelCurrent, CancelTask, HandlerVars, IdleHandler

LEMMA CancelOtherPreserves ==
  ASSUME NEW c \in Cancellers, IInv, CancelOther(c) PROVE IInv'
  BY SMTT(30) DEF IInv, TypeOK, LockDiscipline, Registration, PickIsFree, ReturnSettles, Slot, OneSlot,
     CancelOther, HandlerVars

LEMMA CancelReadPreserves ==
  ASSUME NEW c \in Cancellers, IInv, CancelRead(c) PROVE IInv'
  <1>1. TypeOK'
    BY DEF IInv, TypeOK, CancelRead, CancelDone, HandlerVars, IdleHandler
  <1>2. LockDiscipline'
    <2>1. lock = c /\ c # "loop" /\ loop \notin {"claimRead", "claimWrite", "claimed", "empty"}
      BY DEF IInv, LockDiscipline, CancelRead
    <2>2. CASE CancelDone(c)
      BY <2>1, <2>2 DEF IInv, TypeOK, LockDiscipline, CancelRead, CancelDone, HandlerVars, IdleHandler
    <2>3. CASE cancel' = [cancel EXCEPT ![c].at = "write"] /\ UNCHANGED lock
      BY <2>1, <2>3 DEF IInv, TypeOK, LockDiscipline, CancelRead, HandlerVars
    <2> QED
      BY <2>2, <2>3 DEF CancelRead
  <1>3. Registration' /\ PickIsFree' /\ ReturnSettles' /\ Slot' /\ OneSlot'
    BY DEF IInv, Registration, PickIsFree, ReturnSettles, Slot, OneSlot, CancelRead, HandlerVars
  <1> QED
    BY <1>1, <1>2, <1>3 DEF IInv

\* The handler holds the lock, so the loop is not between a claim and its
\* registration: the row it cancels is not the one picked.
LEMMA CancelWritePreserves ==
  ASSUME NEW c \in Cancellers, IInv, CancelWrite(c) PROVE IInv'
  <1>1. lock = c /\ c # "loop" /\ loop \notin {"claimRead", "claimWrite", "claimed", "empty"}
    BY DEF IInv, LockDiscipline, CancelWrite
  <1>2. rows' \in [Ids -> Statuses] /\ \A s \in Ids : rows'[s] \in {rows[s], "cancelled"}
    <2>1. CASE rows' = rows
      BY <2>1 DEF IInv, TypeOK
    <2>2. CASE rows' = [rows EXCEPT ![cancel[c].id] = "cancelled"]
      BY <2>2 DEF IInv, TypeOK
    <2> QED
      BY <2>1, <2>2 DEF CancelWrite
  <1>3. TypeOK'
    BY <1>2 DEF IInv, TypeOK, CancelWrite, CancelDone, HandlerVars, IdleHandler
  <1>4. LockDiscipline'
    BY <1>1 DEF IInv, TypeOK, LockDiscipline, CancelWrite, CancelDone, HandlerVars, IdleHandler
  <1>5. Registration' /\ PickIsFree'
    BY <1>1 DEF IInv, Registration, PickIsFree, CancelWrite, HandlerVars
  <1>6. ReturnSettles' /\ Slot' /\ OneSlot'
    BY <1>1, <1>2 DEF IInv, TypeOK, Registration, ReturnSettles, Slot, OneSlot, CancelWrite, HandlerVars
  <1> QED
    BY <1>3, <1>4, <1>5, <1>6 DEF IInv

LEMMA CancelFaultPreserves ==
  ASSUME NEW c \in Cancellers, IInv, CancelFault(c) PROVE IInv'
  BY SMTT(30) DEF IInv, TypeOK, LockDiscipline, Registration, PickIsFree, ReturnSettles, Slot, OneSlot,
     CancelFault, CancelDone, DatabaseFault, HandlerVars, IdleHandler

LEMMA DeleteReadPreserves ==
  ASSUME NEW d \in Deleters, IInv, DeleteRead(d) PROVE IInv'
  BY SMTT(30) DEF IInv, TypeOK, LockDiscipline, Registration, PickIsFree, ReturnSettles, Slot, OneSlot,
     DeleteRead, Serving

LEMMA DeleteWritePreserves ==
  ASSUME NEW d \in Deleters, IInv, DeleteWrite(d) PROVE IInv'
  <1>1. rows' \in [Ids -> Statuses] /\ \A s \in Ids : rows'[s] \in {rows[s], "absent"}
    BY DEF IInv, TypeOK, DeleteWrite, UNCHANGED_DB
  <1>2. found' \subseteq Ids
    <2>1. found' \subseteq found
      BY DEF DeleteWrite, UNCHANGED_DB
    <2> QED
      BY <2>1 DEF IInv, TypeOK
  <1>3. TypeOK'
    BY <1>1, <1>2 DEF IInv, TypeOK, DeleteWrite, DatabaseFault, IdleHandler
  <1>4. LockDiscipline' /\ Registration'
    BY DEF IInv, LockDiscipline, Registration, DeleteWrite
  <1>5. PickIsFree' /\ ReturnSettles' /\ Slot' /\ OneSlot'
    BY <1>1 DEF IInv, TypeOK, Registration, PickIsFree, ReturnSettles, Slot, OneSlot, DeleteWrite
  <1> QED
    BY <1>3, <1>4, <1>5 DEF IInv

-----------------------------------------------------------------------------
(* The dispatch loop.                                                      *)

LEMMA LoopCheckPreserves ==
  ASSUME IInv, LoopCheck PROVE IInv'
  <1>1. (event \in BOOLEAN)'
    BY Zenon DEF IInv, TypeOK, LoopCheck
  <1> QED
    BY <1>1, SMTT(30) DEF IInv, TypeOK, LockDiscipline, Registration, PickIsFree, ReturnSettles, Slot, OneSlot, LoopCheck, LoopVars

LEMMA LoopAcquirePreserves ==
  ASSUME IInv, LoopAcquire PROVE IInv'
  BY SMTT(30) DEF IInv, TypeOK, LockDiscipline, Registration, PickIsFree, ReturnSettles, Slot, OneSlot,
     LoopAcquire, LoopVars

LEMMA ClaimReadPreserves ==
  ASSUME IInv, ClaimRead PROVE IInv'
  BY SMTT(30) DEF IInv, TypeOK, LockDiscipline, Registration, PickIsFree, ReturnSettles, Slot, OneSlot,
     ClaimRead, Queued, IsOldest, LoopVars

LEMMA ClaimWritePreserves ==
  ASSUME IInv, ClaimWrite PROVE IInv'
  BY SMTT(30) DEF IInv, TypeOK, LockDiscipline, Registration, PickIsFree, ReturnSettles, Slot, OneSlot,
     ClaimWrite, LoopDies, Exists, LoopVars

LEMMA RegisterPreserves ==
  ASSUME IInv, Register PROVE IInv'
  BY SMTT(30) DEF IInv, TypeOK, LockDiscipline, Registration, PickIsFree, ReturnSettles, Slot, OneSlot,
     Register, LoopVars

LEMMA NothingQueuedPreserves ==
  ASSUME IInv, NothingQueued PROVE IInv'
  BY SMTT(30) DEF IInv, TypeOK, LockDiscipline, Registration, PickIsFree, ReturnSettles, Slot, OneSlot,
     NothingQueued, LoopVars

LEMMA WokenPreserves ==
  ASSUME IInv, Woken PROVE IInv'
  BY SMTT(30) DEF IInv, TypeOK, LockDiscipline, Registration, PickIsFree, ReturnSettles, Slot, OneSlot,
     Woken, LoopVars

LEMMA TaskEndedPreserves ==
  ASSUME IInv, TaskEnded PROVE IInv'
  BY SMTT(30) DEF IInv, TypeOK, LockDiscipline, Registration, PickIsFree, ReturnSettles, Slot, OneSlot,
     TaskEnded, Unregister, LoopVars

LEMMA MarkReadPreserves ==
  ASSUME IInv, MarkRead PROVE IInv'
  BY SMTT(30) DEF IInv, TypeOK, LockDiscipline, Registration, PickIsFree, ReturnSettles, Slot, OneSlot,
     MarkRead, Unregister, Exists, LoopVars

LEMMA MarkWritePreserves ==
  ASSUME IInv, MarkWrite PROVE IInv'
  BY SMTT(30) DEF IInv, TypeOK, LockDiscipline, Registration, PickIsFree, ReturnSettles, Slot, OneSlot,
     MarkWrite, Unregister, Exists, LoopVars

LEMMA LoopFaultPreserves ==
  ASSUME IInv, LoopFault PROVE IInv'
  BY SMTT(30) DEF IInv, TypeOK, LockDiscipline, Registration, PickIsFree, ReturnSettles, Slot, OneSlot,
     LoopFault, Unregister, LoopDies, DatabaseFault, LoopVars

-----------------------------------------------------------------------------
(* The scan's task and the threads it has left behind.                     *)

LEMMA LoadConfigPreserves ==
  ASSUME IInv, LoadConfig PROVE IInv'
  BY SMTT(30) DEF IInv, TypeOK, LockDiscipline, Registration, PickIsFree, ReturnSettles, Slot, OneSlot,
     LoadConfig, Exists, DatabaseFault, TaskVars

LEMMA ScanEndsPreserves ==
  ASSUME IInv, ScanEnds PROVE IInv'
  BY SMTT(30) DEF IInv, TypeOK, LockDiscipline, Registration, PickIsFree, ReturnSettles, Slot, OneSlot,
     ScanEnds, TaskVars

LEMMA CallReadPreserves ==
  ASSUME IInv, CallRead PROVE IInv'
  BY SMTT(30) DEF IInv, TypeOK, LockDiscipline, Registration, PickIsFree, ReturnSettles, Slot, OneSlot,
     CallRead, Applies, Exists, TaskVars

LEMMA CallWritePreserves ==
  ASSUME IInv, CallWrite PROVE IInv'
  <1>1. current \in Ids /\ task = "waiting" /\ call.op \in {"store", "fail"}
    BY DEF IInv, TypeOK, Registration, CallWrite
  <1>2. /\ rows' \in [Ids -> Statuses]
        /\ \A s \in Ids : rows'[s] \in {rows[s], "completed", "failed"}
        /\ rows'[current] # "running"
    BY <1>1 DEF IInv, TypeOK, CallWrite, Record, Outcome, Exists, UNCHANGED_DB
  <1>3. found' \subseteq Ids
    <2>1. found' \subseteq found \union {current}
      BY DEF CallWrite, Record, UNCHANGED_DB
    <2> QED
      BY <1>1, <2>1 DEF IInv, TypeOK
  <1>4. TypeOK' /\ Registration'
    BY <1>1, <1>2, <1>3 DEF IInv, TypeOK, Registration, CallWrite, TaskVars
  <1>5. LockDiscipline'
    BY DEF IInv, LockDiscipline, CallWrite, TaskVars
  <1>6. PickIsFree' /\ ReturnSettles' /\ Slot' /\ OneSlot'
    BY <1>1, <1>2 DEF IInv, TypeOK, Registration, PickIsFree, ReturnSettles, Slot, OneSlot,
                      CallWrite, TaskVars
  <1> QED
    BY <1>4, <1>5, <1>6 DEF IInv

LEMMA CallDonePreserves ==
  ASSUME IInv, CallDone PROVE IInv'
  BY SMTT(30) DEF IInv, TypeOK, LockDiscipline, Registration, PickIsFree, ReturnSettles, Slot, OneSlot,
     CallDone, TaskVars

LEMMA CallFaultPreserves ==
  ASSUME IInv, CallFault PROVE IInv'
  BY SMTT(30) DEF IInv, TypeOK, LockDiscipline, Registration, PickIsFree, ReturnSettles, Slot, OneSlot,
     CallFault, DatabaseFault, TaskVars

LEMMA LateReadPreserves ==
  ASSUME IInv, LateRead PROVE IInv'
  BY SMTT(30) DEF IInv, TypeOK, LockDiscipline, Registration, PickIsFree, ReturnSettles, Slot, OneSlot,
     LateRead, Applies, Exists, TaskVars

\* A late call may settle any row, but never makes one RUNNING or CANCELLED.
LEMMA LateWritePreserves ==
  ASSUME IInv, LateWrite PROVE IInv'
  <1>1. PICK o \in late : /\ o.at = "write" /\ late' = late \ {o}
                          /\ IF Exists(o.id) THEN Record(o.op, o.id) ELSE UNCHANGED_DB
    BY DEF LateWrite
  <1>2. o.id \in Ids /\ o.op \in {"store", "fail"}
    BY DEF IInv, TypeOK
  <1>3. /\ rows' \in [Ids -> Statuses]
        /\ \A s \in Ids : rows'[s] \in {rows[s], "completed", "failed"}
    BY <1>1, <1>2 DEF IInv, TypeOK, Record, Outcome, UNCHANGED_DB
  <1>4. found' \subseteq Ids
    <2>1. found' \subseteq found \union {o.id}
      BY <1>1 DEF Record, UNCHANGED_DB
    <2> QED
      BY <1>2, <2>1 DEF IInv, TypeOK
  <1>5. TypeOK'
    BY <1>1, <1>3, <1>4 DEF IInv, TypeOK, LateWrite, TaskVars
  <1>6. LockDiscipline' /\ Registration'
    BY DEF IInv, LockDiscipline, Registration, LateWrite, TaskVars
  <1>7. PickIsFree' /\ ReturnSettles' /\ Slot' /\ OneSlot'
    BY <1>3 DEF IInv, TypeOK, Registration, PickIsFree, ReturnSettles, Slot, OneSlot,
                LateWrite, TaskVars
  <1> QED
    BY <1>5, <1>6, <1>7 DEF IInv

LEMMA LateFaultPreserves ==
  ASSUME IInv, LateFault PROVE IInv'
  BY SMTT(30) DEF IInv, TypeOK, LockDiscipline, Registration, PickIsFree, ReturnSettles, Slot, OneSlot,
     LateFault, DatabaseFault, TaskVars

-----------------------------------------------------------------------------
(* stop().                                                                 *)

LEMMA StopPreserves ==
  ASSUME IInv, Stop PROVE IInv'
  BY SMTT(30) DEF IInv, TypeOK, LockDiscipline, Registration, PickIsFree, ReturnSettles, Slot, OneSlot,
     Stop, StopVars

LEMMA StopCancelPreserves ==
  ASSUME IInv, StopCancel PROVE IInv'
  BY SMTT(30) DEF IInv, TypeOK, LockDiscipline, Registration, PickIsFree, ReturnSettles, Slot, OneSlot,
     StopCancel, CancelTask, StopVars

-----------------------------------------------------------------------------
(* The theorems.                                                           *)

LEMMA StutterPreserves == ASSUME IInv, UNCHANGED vars PROVE IInv'
  BY DEF IInv, TypeOK, LockDiscipline, Registration, PickIsFree, ReturnSettles, Slot, OneSlot, vars

LEMMA NextPreserves == ASSUME IInv, [Next]_vars PROVE IInv'
  <1>1. CASE Restart
    BY <1>1, RestartPreserves
  <1>2. CASE Crash \/ Exit
    BY <1>2, HaltPreserves DEF Crash, Exit
  <1>3. CASE Stop \/ StopCancel
    BY <1>3, StopPreserves, StopCancelPreserves
  <1>4. CASE Create
    BY <1>4, CreatePreserves
  <1>5. CASE \E c \in Cancellers : CancelRequest(c) \/ CancelStep(c) \/ CancelFault(c)
    BY <1>5, CancelRequestPreserves, CancelCurrentPreserves, CancelOtherPreserves,
       CancelReadPreserves, CancelWritePreserves, CancelFaultPreserves DEF CancelStep
  <1>6. CASE \E d \in Deleters : DeleteRead(d) \/ DeleteWrite(d)
    BY <1>6, DeleteReadPreserves, DeleteWritePreserves
  <1>7. CASE LoopStep \/ LoopFault
    BY <1>7, LoopCheckPreserves, LoopAcquirePreserves, ClaimReadPreserves, ClaimWritePreserves,
       RegisterPreserves, NothingQueuedPreserves, WokenPreserves, TaskEndedPreserves,
       MarkReadPreserves, MarkWritePreserves, LoopFaultPreserves DEF LoopStep
  <1>8. CASE LoadConfig \/ ScanEnds \/ CallStep \/ CallFault
    BY <1>8, LoadConfigPreserves, ScanEndsPreserves, CallReadPreserves, CallWritePreserves,
       CallDonePreserves, CallFaultPreserves DEF CallStep
  <1>9. CASE LateStep \/ LateFault
    BY <1>9, LateReadPreserves, LateWritePreserves, LateFaultPreserves DEF LateStep
  <1>10. CASE UNCHANGED vars
    BY <1>10, StutterPreserves
  <1> QED
    BY <1>1, <1>2, <1>3, <1>4, <1>5, <1>6, <1>7, <1>8, <1>9, <1>10 DEF Next, StopStep

THEOREM Invariance == Spec => []IInv
  <1>1. Init => IInv
    BY InitEstablishes
  <1>2. IInv /\ [Next]_vars => IInv'
    BY NextPreserves
  <1> QED
    BY <1>1, <1>2, PTL DEF Spec

\* Every reachable state is a state of the types the module declares.
THEOREM TypeCorrectness == Spec => []TypeOK
  <1>1. IInv => TypeOK
    BY DEF IInv
  <1> QED
    BY <1>1, Invariance, PTL

\* For any number of rows, handlers, restarts and faults, two rows are never
\* RUNNING at once: the runner has one execution slot.
THEOREM SingleSlot == Spec => []OneSlot
  <1>1. IInv => OneSlot
    BY DEF IInv
  <1> QED
    BY <1>1, Invariance, PTL

\* Whoever gets the dispatch lock sees every RUNNING row registered, so cancel
\* and stop never miss one.
THEOREM NoUnregisteredRun == Spec => []RunningIsRegistered
  <1>1. IInv => RunningIsRegistered
    BY DEF IInv, TypeOK, LockDiscipline, Registration, Slot, RunningIsRegistered
  <1> QED
    BY <1>1, Invariance, PTL

\* Only the commit of a claim makes a row RUNNING.
LEMMA OnlyClaimRuns ==
  ASSUME IInv, [Next]_vars, NEW s \in Ids, rows[s] # "running", rows'[s] = "running"
  PROVE  ClaimWrite
  <1>1. rows # rows'
    OBVIOUS
  <1>2. ~Restart /\ ~Create
    BY DEF IInv, TypeOK, Restart, Create
  <1>3. ASSUME NEW c \in Cancellers PROVE ~CancelWrite(c)
    BY DEF IInv, TypeOK, CancelWrite
  <1>4. ASSUME NEW d \in Deleters PROVE ~DeleteWrite(d)
    BY DEF IInv, TypeOK, DeleteWrite, UNCHANGED_DB
  <1>5. ~MarkWrite
    BY DEF IInv, TypeOK, MarkWrite
  <1>6. ~CallWrite /\ ~LateWrite
    BY DEF IInv, TypeOK, CallWrite, LateWrite, Record, Outcome, UNCHANGED_DB
  <1>7. /\ ~Crash /\ ~Exit /\ ~Stop /\ ~StopCancel /\ ~LoopFault /\ ~(UNCHANGED vars)
        /\ ~LoadConfig /\ ~ScanEnds /\ ~CallRead /\ ~CallDone /\ ~CallFault
        /\ ~LateRead /\ ~LateFault
    BY <1>1, Zenon DEF Crash, Exit, Halt, Stop, StopCancel, StopVars, LoopFault, vars,
       LoadConfig, ScanEnds, CallRead, CallDone, CallFault, LateRead, LateFault
  <1>8. ASSUME NEW c \in Cancellers
        PROVE  /\ ~CancelRequest(c) /\ ~CancelCurrent(c) /\ ~CancelOther(c)
               /\ ~CancelRead(c) /\ ~CancelFault(c)
    BY <1>1, Zenon DEF CancelRequest, CancelCurrent, CancelOther, CancelRead, CancelFault
  <1>9. ASSUME NEW d \in Deleters PROVE ~DeleteRead(d)
    BY <1>1, Zenon DEF DeleteRead
  <1>10. /\ ~LoopCheck /\ ~LoopAcquire /\ ~ClaimRead /\ ~Register
         /\ ~NothingQueued /\ ~Woken /\ ~TaskEnded /\ ~MarkRead
    BY <1>1, Zenon DEF LoopCheck, LoopAcquire, ClaimRead, Register, NothingQueued, Woken,
       TaskEnded, MarkRead
  <1> QED
    BY <1>2, <1>3, <1>4, <1>5, <1>6, <1>7, <1>8, <1>9, <1>10
    DEF Next, LoopStep, CallStep, LateStep, StopStep, CancelStep

\* A step never takes a row from CANCELLED to RUNNING: what the claim has picked
\* is not cancelled while the loop holds the lock.
THEOREM CancellationIsFinalForTheQueue == Spec => CancelledNeverRuns
  <1>1. IInv /\ [Next]_vars =>
          [\A s \in Ids : rows[s] = "cancelled" => rows'[s] # "running"]_vars
    <2>1. ASSUME IInv, [Next]_vars, NEW s \in Ids, rows[s] = "cancelled", rows'[s] = "running"
          PROVE FALSE
      <3>1. ClaimWrite
        BY <2>1, OnlyClaimRuns
      <3> QED
        BY <2>1, <3>1 DEF IInv, TypeOK, PickIsFree, ClaimWrite
    <2> QED
      BY <2>1
  <1> QED
    BY <1>1, Invariance, PTL DEF Spec, CancelledNeverRuns

-----------------------------------------------------------------------------
(* The refinement: without deletions the runner implements ScanLifecycle.  *)

\* Ids are handed out without gaps.
Contiguous == \A s, t \in Ids : rows[s] # "absent" /\ t < s => rows[t] # "absent"

\* What the claim has read is still the oldest QUEUED row when it is written.
PickIsOldest == loop = "claimWrite" => IsOldest(pick)

\* What a cancel handler has read is still QUEUED when it is written.
CancelIsDue ==
  \A c \in Cancellers : /\ cancel[c].at # "idle" => cancel[c].id \in Ids
                        /\ cancel[c].at = "write" => rows[cancel[c].id] = "queued"

\* The claimed row runs until its own task settles it, or, once that is cancelled, the call it
\* has left behind.
CurrentRuns ==
  /\ loop = "claimed" => rows[pick] = "running"
  /\ current # None => rows[current] \in {"running", "completed", "failed", "cancelled"}
  /\ task \in {"loading", "scanning", "waiting"} /\ call.at \in {"none", "read", "write"} =>
       rows[current] = "running"

\* A cancelled task leaves one call behind at most, and it is the only one that may still
\* settle its row.
LateIsAlone ==
  /\ \A o \in late : /\ rows[o.id] \in {"running", "cancelled"}
                     /\ current = o.id => task = "cancelled"
                     /\ loop = "claimed" => pick # o.id
  /\ \A o, p \in late : o.id = p.id => o = p

\* A new process starts with nothing under way.
DownIsClean == loop = "off" => late = {} /\ \A c \in Cancellers : cancel[c].at = "idle"

More == Contiguous /\ PickIsOldest /\ CancelIsDue /\ CurrentRuns /\ LateIsAlone /\ DownIsClean

RInv == IInv /\ More

-----------------------------------------------------------------------------
(* The steps, one lemma each.                                              *)

USE BoundsAssumption, NamesAssumption
    DEF Ids, Statuses, Terminal, Actors, Calls, NoCall, LateCalls

LEMMA InitAdds == ASSUME Init PROVE More
  BY SMTT(30)
  DEF More, Contiguous, PickIsOldest, CancelIsDue, CurrentRuns, LateIsAlone, DownIsClean, Init,
      IdleHandler

LEMMA HaltKeeps ==
  ASSUME RInv, Halt PROVE More'
  BY SMTT(30)
  DEF RInv, More, Contiguous, PickIsOldest, CancelIsDue, CurrentRuns, LateIsAlone, DownIsClean,
      Halt, VolatileReset, IdleHandler

LEMMA RestartKeeps ==
  ASSUME RInv, Restart PROVE More'
  BY SMTT(30)
  DEF RInv, IInv, Registration, More, Contiguous, PickIsOldest, CancelIsDue, CurrentRuns,
      LateIsAlone, DownIsClean, Restart

LEMMA CreateKeeps ==
  ASSUME RInv, Create PROVE More'
  BY SMTT(30)
  DEF RInv, More, Contiguous, PickIsOldest, CancelIsDue, CurrentRuns, LateIsAlone, DownIsClean,
      IsOldest, Queued, Create, Serving, IsNextId, Exists

LEMMA CancelRequestKeeps ==
  ASSUME RInv, NEW c \in Cancellers, CancelRequest(c) PROVE More'
  BY SMTT(30)
  DEF RInv, IInv, Registration, More, Contiguous, PickIsOldest, CancelIsDue, CurrentRuns,
      LateIsAlone, DownIsClean, IsOldest, Queued, CancelRequest, Serving, HandlerVars

LEMMA CancelCurrentKeeps ==
  ASSUME RInv, NEW c \in Cancellers, CancelCurrent(c) PROVE More'
  BY SMTT(30)
  DEF RInv, IInv, Registration, More, Contiguous, PickIsOldest, CancelIsDue, CurrentRuns,
      LateIsAlone, DownIsClean, CancelCurrent, CancelTask, HandlerVars, IdleHandler

LEMMA CancelOtherKeeps ==
  ASSUME RInv, NEW c \in Cancellers, CancelOther(c) PROVE More'
  BY SMTT(30)
  DEF RInv, More, Contiguous, PickIsOldest, CancelIsDue, CurrentRuns, LateIsAlone, DownIsClean,
      IsOldest, Queued, CancelOther, HandlerVars

LEMMA CancelReadKeeps ==
  ASSUME RInv, NEW c \in Cancellers, CancelRead(c) PROVE More'
  BY SMTT(30)
  DEF RInv, IInv, TypeOK, PickIsFree, OneSlot, More, Contiguous, PickIsOldest, CancelIsDue,
      CurrentRuns, LateIsAlone, DownIsClean, IsOldest, Queued, CancelRead, CancelDone, HandlerVars,
      IdleHandler

LEMMA CancelWriteKeeps ==
  ASSUME RInv, NEW c \in Cancellers, CancelWrite(c) PROVE More'
  BY SMTT(30)
  DEF RInv, IInv, TypeOK, LockDiscipline, More, Contiguous, PickIsOldest, CancelIsDue, CurrentRuns,
      LateIsAlone, DownIsClean, CancelWrite, CancelDone, HandlerVars, IdleHandler

LEMMA CancelFaultKeeps ==
  ASSUME RInv, NEW c \in Cancellers, CancelFault(c) PROVE More'
  BY SMTT(30)
  DEF RInv, More, Contiguous, PickIsOldest, CancelIsDue, CurrentRuns, LateIsAlone, DownIsClean,
      IsOldest, Queued, CancelFault, CancelDone, HandlerVars, IdleHandler

LEMMA LoopCheckKeeps ==
  ASSUME RInv, LoopCheck PROVE More'
  BY SMTT(30)
  DEF RInv, More, Contiguous, PickIsOldest, CancelIsDue, CurrentRuns, LateIsAlone, DownIsClean,
      LoopCheck, LoopVars

LEMMA LoopAcquireKeeps ==
  ASSUME RInv, LoopAcquire PROVE More'
  BY SMTT(30)
  DEF RInv, More, Contiguous, PickIsOldest, CancelIsDue, CurrentRuns, LateIsAlone, DownIsClean,
      LoopAcquire, LoopVars

LEMMA ClaimReadKeeps ==
  ASSUME RInv, ClaimRead PROVE More'
  BY SMTT(30)
  DEF RInv, More, Contiguous, PickIsOldest, CancelIsDue, CurrentRuns, LateIsAlone, DownIsClean,
      IsOldest, Queued, ClaimRead, LoopVars

LEMMA ClaimWriteKeeps ==
  ASSUME RInv, ClaimWrite PROVE More'
  BY SMTT(30)
  DEF RInv, IInv, TypeOK, LockDiscipline, Registration, More, Contiguous, PickIsOldest, CancelIsDue,
      CurrentRuns, LateIsAlone, DownIsClean, IsOldest, Queued, ClaimWrite, LoopDies, LoopVars

LEMMA RegisterKeeps ==
  ASSUME RInv, Register PROVE More'
  BY SMTT(30)
  DEF RInv, More, Contiguous, PickIsOldest, CancelIsDue, CurrentRuns, LateIsAlone, DownIsClean,
      Register, LoopVars

LEMMA NothingQueuedKeeps ==
  ASSUME RInv, NothingQueued PROVE More'
  BY SMTT(30)
  DEF RInv, More, Contiguous, PickIsOldest, CancelIsDue, CurrentRuns, LateIsAlone, DownIsClean,
      NothingQueued, LoopVars

LEMMA WokenKeeps ==
  ASSUME RInv, Woken PROVE More'
  BY SMTT(30)
  DEF RInv, More, Contiguous, PickIsOldest, CancelIsDue, CurrentRuns, LateIsAlone, DownIsClean,
      Woken, LoopVars

LEMMA TaskEndedKeeps ==
  ASSUME RInv, TaskEnded PROVE More'
  BY SMTT(30)
  DEF RInv, IInv, TypeOK, More, Contiguous, PickIsOldest, CancelIsDue, CurrentRuns, LateIsAlone,
      DownIsClean, TaskEnded, Unregister, LoopVars

LEMMA MarkReadKeeps ==
  ASSUME RInv, MarkRead PROVE More'
  BY SMTT(30)
  DEF RInv, IInv, TypeOK, More, Contiguous, PickIsOldest, CancelIsDue, CurrentRuns, LateIsAlone,
      DownIsClean, MarkRead, Unregister, LoopVars

LEMMA MarkWriteKeeps ==
  ASSUME RInv, MarkWrite PROVE More'
  <1>1. /\ loop = "markWrite" /\ current \in Ids /\ pick = None
        /\ lock # "loop" /\ task = "cancelled"
        /\ rows[current] \in {"running", "completed", "failed", "cancelled"}
    BY DEF RInv, More, IInv, TypeOK, LockDiscipline, Registration, CurrentRuns, MarkWrite
  <1>2. /\ rows' = [rows EXCEPT ![current] = "cancelled"] /\ loop' = "check"
        /\ current' = None /\ task' = "none"
        /\ UNCHANGED <<late, pick, call, cancel>>
    BY <1>1 DEF MarkWrite, Exists, Unregister, LoopVars
  <1>3. \A s \in Ids : rows'[s] = (IF s = current THEN "cancelled" ELSE rows[s])
    BY <1>1, <1>2 DEF RInv, IInv, TypeOK
  <1>4. Contiguous'
    BY <1>1, <1>3 DEF RInv, More, Contiguous
  <1>5. PickIsOldest' /\ DownIsClean' /\ CurrentRuns'
    BY <1>1, <1>2 DEF PickIsOldest, DownIsClean, CurrentRuns
  <1>6. CancelIsDue'
    BY <1>1, <1>2, <1>3 DEF RInv, More, IInv, TypeOK, CancelIsDue
  <1>7. LateIsAlone'
    BY <1>1, <1>2, <1>3 DEF RInv, More, IInv, TypeOK, LateIsAlone
  <1> QED
    BY <1>4, <1>5, <1>6, <1>7 DEF More

LEMMA LoopFaultKeeps ==
  ASSUME RInv, LoopFault PROVE More'
  BY SMTT(30)
  DEF RInv, IInv, TypeOK, More, Contiguous, PickIsOldest, CancelIsDue, CurrentRuns, LateIsAlone,
      DownIsClean, LoopFault, Unregister, LoopDies, LoopVars

LEMMA LoadConfigKeeps ==
  ASSUME RInv, LoadConfig PROVE More'
  BY SMTT(30)
  DEF RInv, More, Contiguous, PickIsOldest, CancelIsDue, CurrentRuns, LateIsAlone, DownIsClean,
      IsOldest, Queued, LoadConfig, TaskVars

LEMMA ScanEndsKeeps ==
  ASSUME RInv, ScanEnds PROVE More'
  BY SMTT(30)
  DEF RInv, IInv, Registration, More, Contiguous, PickIsOldest, CancelIsDue, CurrentRuns,
      LateIsAlone, DownIsClean, ScanEnds, TaskVars

LEMMA CallReadKeeps ==
  ASSUME RInv, CallRead PROVE More'
  BY SMTT(30)
  DEF RInv, More, Contiguous, PickIsOldest, CancelIsDue, CurrentRuns, LateIsAlone, DownIsClean,
      IsOldest, Queued, CallRead, Applies, TaskVars

LEMMA CallWriteKeeps ==
  ASSUME RInv, CallWrite PROVE More'
  <1>1. /\ current \in Ids /\ task = "waiting" /\ rows[current] = "running"
        /\ loop \in {"await", "markRead", "markWrite"} /\ call.op \in {"store", "fail"}
    BY DEF RInv, More, IInv, TypeOK, Registration, CurrentRuns, CallWrite
  <1>2. /\ call' = [call EXCEPT !.at = "ok"]
        /\ rows' = [rows EXCEPT ![current] = Outcome(call.op)]
        /\ UNCHANGED <<late, pick, task, loop, current, cancel, lock>>
    BY <1>1 DEF CallWrite, Record, Exists, TaskVars
  <1>3. /\ Outcome(call.op) \in {"completed", "failed"} /\ call'.at = "ok"
        /\ \A s \in Ids : rows'[s] = (IF s = current THEN Outcome(call.op) ELSE rows[s])
    BY <1>1, <1>2 DEF RInv, IInv, TypeOK, Outcome
  <1>4. Contiguous'
    BY <1>1, <1>3 DEF RInv, More, Contiguous
  <1>5. PickIsOldest' /\ DownIsClean' /\ CurrentRuns'
    BY <1>1, <1>2, <1>3 DEF PickIsOldest, DownIsClean, CurrentRuns
  <1>6. CancelIsDue'
    BY <1>1, <1>2, <1>3 DEF RInv, More, IInv, TypeOK, CancelIsDue
  <1>7. LateIsAlone'
    BY <1>1, <1>2, <1>3 DEF RInv, More, IInv, TypeOK, LateIsAlone
  <1> QED
    BY <1>4, <1>5, <1>6, <1>7 DEF More

LEMMA CallDoneKeeps ==
  ASSUME RInv, CallDone PROVE More'
  BY SMTT(30)
  DEF RInv, IInv, Registration, More, Contiguous, PickIsOldest, CancelIsDue, CurrentRuns,
      LateIsAlone, DownIsClean, CallDone, TaskVars

LEMMA CallFaultKeeps ==
  ASSUME RInv, CallFault PROVE More'
  BY SMTT(30)
  DEF RInv, More, Contiguous, PickIsOldest, CancelIsDue, CurrentRuns, LateIsAlone, DownIsClean,
      IsOldest, Queued, CallFault, TaskVars

LEMMA LateReadKeeps ==
  ASSUME RInv, LateRead PROVE More'
  BY SMTT(30)
  DEF RInv, IInv, TypeOK, More, Contiguous, PickIsOldest, CancelIsDue, CurrentRuns, LateIsAlone,
      DownIsClean, IsOldest, Queued, LateRead, Applies, TaskVars

LEMMA LateWriteKeeps ==
  ASSUME RInv, LateWrite PROVE More'
  <1>1. PICK o \in late : /\ o.at = "write" /\ late' = late \ {o}
                          /\ IF Exists(o.id) THEN Record(o.op, o.id) ELSE UNCHANGED_DB
    BY DEF LateWrite
  <1>2. /\ o.id \in Ids /\ rows[o.id] \in {"running", "cancelled"} /\ Exists(o.id)
        /\ Outcome(o.op) \in {"completed", "failed"} /\ loop # "off"
        /\ current = o.id => task = "cancelled"
        /\ loop = "claimed" => pick # o.id
        /\ \A p \in late' : p \in late /\ p.id \in Ids /\ p.id # o.id
    BY <1>1 DEF RInv, More, IInv, TypeOK, LateIsAlone, DownIsClean, Exists, Outcome
  <1>3. UNCHANGED <<call, pick, task, loop, current, cancel, lock>>
    BY DEF LateWrite, TaskVars
  <1>4. \A s \in Ids : rows'[s] = (IF s = o.id THEN Outcome(o.op) ELSE rows[s])
    BY <1>1, <1>2 DEF RInv, IInv, TypeOK, Record
  <1>5. Contiguous'
    BY <1>2, <1>4 DEF RInv, More, Contiguous
  <1>6. PickIsOldest'
    BY <1>2, <1>3, <1>4 DEF RInv, More, IInv, TypeOK, Registration, PickIsOldest, IsOldest, Queued
  <1>7. CurrentRuns'
    BY <1>2, <1>3, <1>4 DEF RInv, More, IInv, TypeOK, Registration, CurrentRuns
  <1>8. CancelIsDue'
    BY <1>2, <1>3, <1>4 DEF RInv, More, IInv, TypeOK, CancelIsDue
  <1>9. \A p \in late' : rows'[p.id] = rows[p.id]
    BY <1>2, <1>4
  <1>10. LateIsAlone'
    BY <1>2, <1>3, <1>9 DEF RInv, More, LateIsAlone
  <1>11. DownIsClean'
    BY <1>2, <1>3 DEF DownIsClean
  <1> QED
    BY <1>5, <1>6, <1>7, <1>8, <1>10, <1>11 DEF More

LEMMA LateFaultKeeps ==
  ASSUME RInv, LateFault PROVE More'
  BY SMTT(30)
  DEF RInv, More, Contiguous, PickIsOldest, CancelIsDue, CurrentRuns, LateIsAlone, DownIsClean,
      IsOldest, Queued, LateFault, TaskVars

LEMMA StopKeeps ==
  ASSUME RInv, Stop PROVE More'
  BY SMTT(30)
  DEF RInv, More, Contiguous, PickIsOldest, CancelIsDue, CurrentRuns, LateIsAlone, DownIsClean,
      IsOldest, Queued, Stop, StopVars

LEMMA StopCancelKeeps ==
  ASSUME RInv, StopCancel PROVE More'
  BY SMTT(30)
  DEF RInv, IInv, Registration, More, Contiguous, PickIsOldest, CancelIsDue, CurrentRuns,
      LateIsAlone, DownIsClean, IsOldest, Queued, StopCancel, CancelTask, StopVars

-----------------------------------------------------------------------------
(* Nothing is deleted.                                                     *)

LEMMA NextKeeps ==
  ASSUME Deleters = {}, RInv, [Next]_vars PROVE RInv'
  <1>1. IInv'
    BY NextPreserves DEF RInv
  <1> SUFFICES More'
    BY <1>1 DEF RInv
  <1>2. CASE Restart \/ Create
    BY <1>2, RestartKeeps, CreateKeeps
  <1>3. CASE Crash \/ Exit
    BY <1>3, HaltKeeps DEF Crash, Exit
  <1>4. CASE Stop \/ StopCancel
    BY <1>4, StopKeeps, StopCancelKeeps
  <1>5. CASE \E c \in Cancellers : CancelRequest(c) \/ CancelStep(c) \/ CancelFault(c)
    BY <1>5, CancelRequestKeeps, CancelCurrentKeeps, CancelOtherKeeps, CancelReadKeeps,
       CancelWriteKeeps, CancelFaultKeeps DEF CancelStep
  <1>6. CASE LoopStep \/ LoopFault
    BY <1>6, LoopCheckKeeps, LoopAcquireKeeps, ClaimReadKeeps, ClaimWriteKeeps, RegisterKeeps,
       NothingQueuedKeeps, WokenKeeps, TaskEndedKeeps, MarkReadKeeps, MarkWriteKeeps,
       LoopFaultKeeps DEF LoopStep
  <1>7. CASE LoadConfig \/ ScanEnds \/ CallStep \/ CallFault
    BY <1>7, LoadConfigKeeps, ScanEndsKeeps, CallReadKeeps, CallWriteKeeps, CallDoneKeeps,
       CallFaultKeeps DEF CallStep
  <1>8. CASE LateStep \/ LateFault
    BY <1>8, LateReadKeeps, LateWriteKeeps, LateFaultKeeps DEF LateStep
  <1>9. CASE UNCHANGED vars
    BY <1>9 DEF RInv, More, Contiguous, PickIsOldest, CancelIsDue, CurrentRuns, LateIsAlone,
       DownIsClean, IsOldest, Queued, vars
  <1> QED
    BY <1>2, <1>3, <1>4, <1>5, <1>6, <1>7, <1>8, <1>9 DEF Next, StopStep

\* For any constants without deleters, RInv holds for ever: what a claim, a cancel handler or a
\* late call is about to write over is still what it has read.
THEOREM RefinementInvariance == ASSUME Deleters = {} PROVE Spec => []RInv
  <1>1. Init => RInv
    BY InitEstablishes, InitAdds DEF RInv
  <1>2. RInv /\ [Next]_vars => RInv'
    BY NextKeeps
  <1> QED
    BY <1>1, <1>2, PTL DEF Spec

-----------------------------------------------------------------------------
(* Every step is a step of the lifecycle, or changes no status.            *)

LEMMA RestartRecovers == ASSUME Restart PROVE Lifecycle!Recover
  BY DEF Restart, Lifecycle!Recover, Lifecycle!Ids

LEMMA CreateEnqueues == ASSUME RInv, Create PROVE \E s \in Lifecycle!Ids : Lifecycle!Enqueue(s)
  <1>1. PICK s \in Ids : IsNextId(s) /\ rows' = [rows EXCEPT ![s] = "queued"]
    BY DEF Create
  <1>2. rows[s] = "absent"
    BY <1>1 DEF IsNextId, Exists
  <1>3. \A t \in Ids : t < s => rows[t] # "absent"
    <2>1. ASSUME NEW t \in Ids, t < s PROVE rows[t] # "absent"
      <3>1. s > 1 /\ s - 1 \in Ids /\ Exists(s - 1)
        BY <1>1, <2>1 DEF IsNextId
      <3>2. t = s - 1 \/ t < s - 1
        BY <2>1
      <3> QED
        BY <3>1, <3>2 DEF RInv, More, Contiguous, Exists
    <2> QED
      BY <2>1
  <1> QED
    BY <1>1, <1>2, <1>3 DEF Lifecycle!Enqueue, Lifecycle!Ids

LEMMA CancelWriteCancels ==
  ASSUME RInv, NEW c \in Cancellers, CancelWrite(c)
  PROVE  \E s \in Lifecycle!Ids : Lifecycle!CancelQueued(s)
  <1>1. cancel[c].at = "write" /\ rows[cancel[c].id] = "queued"
    BY DEF CancelWrite, RInv, More, CancelIsDue
  <1>2. cancel[c].id \in Ids
    BY <1>1 DEF RInv, More, CancelIsDue
  <1>3. rows' = [rows EXCEPT ![cancel[c].id] = "cancelled"]
    BY <1>1 DEF CancelWrite, Exists
  <1> QED
    BY <1>1, <1>2, <1>3 DEF Lifecycle!CancelQueued, Lifecycle!Ids

LEMMA ClaimWriteClaims ==
  ASSUME RInv, ClaimWrite PROVE \E s \in Lifecycle!Ids : Lifecycle!Claim(s)
  <1>1. pick \in Ids /\ rows[pick] = "queued" /\ \A t \in Ids : t < pick => rows[t] # "queued"
    BY DEF RInv, More, IInv, TypeOK, Registration, PickIsOldest, IsOldest, Queued, ClaimWrite
  <1>2. \A s \in Ids : rows[s] # "running"
    BY DEF RInv, IInv, Registration, Slot, ClaimWrite
  <1>3. rows' = [rows EXCEPT ![pick] = "running"]
    BY <1>1 DEF ClaimWrite, Exists
  <1> QED
    BY <1>1, <1>2, <1>3 DEF Lifecycle!Claim, Lifecycle!NoneRuns, Lifecycle!Ids

LEMMA MarkWriteSettles ==
  ASSUME RInv, MarkWrite
  PROVE  \/ \E s \in Lifecycle!Ids : Lifecycle!Finish(s) \/ Lifecycle!Resettle(s)
         \/ rows' = rows
  <1>1. current \in Ids /\ rows[current] \in {"running", "completed", "failed", "cancelled"}
    BY DEF RInv, More, IInv, TypeOK, Registration, CurrentRuns, MarkWrite
  <1>2. rows' = [rows EXCEPT ![current] = "cancelled"]
    BY <1>1 DEF MarkWrite, Exists
  <1>3. CASE rows[current] = "cancelled"
    BY <1>1, <1>2, <1>3 DEF RInv, IInv, TypeOK
  <1>4. CASE rows[current] # "cancelled"
    BY <1>1, <1>2, <1>4 DEF Lifecycle!Finish, Lifecycle!Resettle, Lifecycle!Finished, Lifecycle!Ids
  <1> QED
    BY <1>3, <1>4

LEMMA CallWriteFinishes ==
  ASSUME RInv, CallWrite PROVE \E s \in Lifecycle!Ids : Lifecycle!Finish(s)
  <1>1. current \in Ids /\ rows[current] = "running" /\ call.op \in {"store", "fail"}
    BY DEF RInv, More, IInv, TypeOK, Registration, CurrentRuns, CallWrite
  <1>2. rows' = [rows EXCEPT ![current] = Outcome(call.op)]
    BY <1>1 DEF CallWrite, Record, Exists
  <1> QED
    BY <1>1, <1>2 DEF Outcome, Lifecycle!Finish, Lifecycle!Finished, Lifecycle!Ids

LEMMA LateWriteSettles ==
  ASSUME RInv, LateWrite
  PROVE  \E s \in Lifecycle!Ids : Lifecycle!Finish(s) \/ Lifecycle!Resettle(s)
  <1>1. PICK o \in late : /\ o.at = "write" /\ late' = late \ {o}
                          /\ IF Exists(o.id) THEN Record(o.op, o.id) ELSE UNCHANGED_DB
    BY DEF LateWrite
  <1>2. /\ o.id \in Ids /\ rows[o.id] \in {"running", "cancelled"}
        /\ Outcome(o.op) \in {"completed", "failed"}
    BY <1>1 DEF RInv, More, IInv, TypeOK, LateIsAlone, Outcome
  <1>3. rows' = [rows EXCEPT ![o.id] = Outcome(o.op)]
    BY <1>1, <1>2 DEF Record, Exists
  <1> QED
    BY <1>2, <1>3 DEF Lifecycle!Finish, Lifecycle!Resettle, Lifecycle!Finished, Lifecycle!Ids

\* The steps that write the status column.
Writes == \/ Restart \/ Create \/ ClaimWrite \/ MarkWrite \/ CallWrite \/ LateWrite
          \/ \E c \in Cancellers : CancelWrite(c)

LEMMA OthersKeepStatus ==
  ASSUME Deleters = {}, [Next]_vars, ~Writes PROVE rows' = rows
  <1>1. CASE Crash \/ Exit \/ Stop \/ StopCancel \/ LoopFault \/ UNCHANGED vars
    BY <1>1, Zenon DEF Crash, Exit, Halt, Stop, StopCancel, StopVars, LoopFault, vars
  <1>2. CASE LoadConfig \/ ScanEnds \/ CallRead \/ CallDone \/ CallFault \/ LateRead \/ LateFault
    BY <1>2, Zenon DEF LoadConfig, ScanEnds, CallRead, CallDone, CallFault, LateRead, LateFault
  <1>3. ASSUME NEW c \in Cancellers,
               \/ CancelRequest(c) \/ CancelCurrent(c) \/ CancelOther(c)
               \/ CancelRead(c) \/ CancelFault(c)
        PROVE  rows' = rows
    BY <1>3, Zenon DEF CancelRequest, CancelCurrent, CancelOther, CancelRead, CancelFault
  <1>4. CASE \/ LoopCheck \/ LoopAcquire \/ ClaimRead \/ Register
             \/ NothingQueued \/ Woken \/ TaskEnded \/ MarkRead
    BY <1>4, Zenon DEF LoopCheck, LoopAcquire, ClaimRead, Register, NothingQueued, Woken,
       TaskEnded, MarkRead
  <1> QED
    BY <1>1, <1>2, <1>3, <1>4
    DEF Next, Writes, LoopStep, CallStep, LateStep, StopStep, CancelStep

LEMMA StepImplements ==
  ASSUME Deleters = {}, RInv, [Next]_vars PROVE [Lifecycle!Next]_rows
  <1>1. CASE ~Writes
    BY <1>1, OthersKeepStatus
  <1>2. CASE Restart
    BY <1>2, RestartRecovers DEF Lifecycle!Next
  <1>3. CASE Create
    BY <1>3, CreateEnqueues DEF Lifecycle!Next
  <1>4. CASE ClaimWrite
    BY <1>4, ClaimWriteClaims DEF Lifecycle!Next
  <1>5. CASE MarkWrite
    BY <1>5, MarkWriteSettles DEF Lifecycle!Next
  <1>6. CASE CallWrite
    BY <1>6, CallWriteFinishes DEF Lifecycle!Next
  <1>7. CASE LateWrite
    BY <1>7, LateWriteSettles DEF Lifecycle!Next
  <1>8. CASE \E c \in Cancellers : CancelWrite(c)
    BY <1>8, CancelWriteCancels DEF Lifecycle!Next
  <1> QED
    BY <1>1, <1>2, <1>3, <1>4, <1>5, <1>6, <1>7, <1>8 DEF Writes

\* As long as nothing is deleted the runner implements ScanLifecycle: whatever crashes, faults,
\* cancellations and late calls do, for any number of rows, handlers, restarts and faults.
THEOREM RunnerImplementsLifecycle == ASSUME Deleters = {} PROVE Spec => RunnerRefinesLifecycle
  <1>1. Init => Lifecycle!Init
    BY DEF Init, Lifecycle!Init, Lifecycle!Ids
  <1>2. RInv /\ [Next]_vars => [Lifecycle!Next]_rows
    BY StepImplements
  <1> QED
    BY <1>1, <1>2, RefinementInvariance, PTL DEF Spec, RunnerRefinesLifecycle, Lifecycle!Spec

\* A terminal status is overwritten only by the late call of a cancelled task or by the
\* _mark_cancelled that follows it.
THEOREM OnlyTheRaceResettles == ASSUME Deleters = {} PROVE Spec => SettledButForTheRace
  <1>1. ASSUME RInv, [Next]_vars, NEW s \in Ids, rows[s] \in Terminal, rows'[s] # rows[s]
        PROVE  \/ \E o \in late : o.id = s /\ o.at = "write"
               \/ loop = "markWrite" /\ current = s
    <2>1. Writes
      BY <1>1, OthersKeepStatus
    <2>2. ~Restart /\ ~Create
      BY <1>1 DEF RInv, IInv, TypeOK, Restart, Create, IsNextId, Exists
    <2>3. ~ClaimWrite
      BY <1>1 DEF RInv, More, IInv, TypeOK, PickIsOldest, IsOldest, Queued, ClaimWrite
    <2>4. ~CallWrite
      BY <1>1 DEF RInv, More, IInv, TypeOK, Registration, CurrentRuns, CallWrite, Record, Exists
    <2>5. ASSUME NEW c \in Cancellers PROVE ~CancelWrite(c)
      BY <1>1 DEF RInv, More, IInv, TypeOK, CancelIsDue, CancelWrite, Exists
    <2>6. CASE MarkWrite
      BY <1>1, <2>6 DEF RInv, IInv, TypeOK, Registration, MarkWrite
    <2>7. CASE LateWrite
      <3>1. PICK o \in late : /\ o.at = "write" /\ late' = late \ {o}
                              /\ IF Exists(o.id) THEN Record(o.op, o.id) ELSE UNCHANGED_DB
        BY <2>7 DEF LateWrite
      <3>2. o.id = s
        BY <1>1, <3>1 DEF RInv, IInv, TypeOK, Record, UNCHANGED_DB
      <3> QED
        BY <3>1, <3>2
    <2> QED
      BY <2>1, <2>2, <2>3, <2>4, <2>5, <2>6, <2>7 DEF Writes
  <1>2. RInv /\ [Next]_vars =>
          [\A s \in Ids : rows[s] \in Terminal /\ rows'[s] # rows[s] =>
             \/ \E o \in late : o.id = s /\ o.at = "write"
             \/ loop = "markWrite" /\ current = s]_vars
    BY <1>1
  <1> QED
    BY <1>2, RefinementInvariance, PTL DEF Spec, SettledButForTheRace

-----------------------------------------------------------------------------
(* Findings.                                                               *)

\* The call a cancelled task has left behind has stored nothing yet.
Stored == FindingsFollowCompletion /\ \A o \in late : o.id \notin found
FInv == RInv /\ Stored

\* A call is left behind only by the task of the registered scan, before its write.
LEMMA LeftBehind ==
  ASSUME RInv, CancelTask, NEW o \in late'
  PROVE  \/ o \in late
         \/ o.id = current /\ current \in Ids /\ rows[current] = "running"
  <1>1. CASE o \in late
    BY <1>1
  <1>2. CASE o \notin late
    <2>1. call.at \in {"read", "write"} /\ o.id = current
      BY <1>2 DEF CancelTask
    <2>2. task = "waiting" /\ current # None /\ current \in Ids
      BY <2>1 DEF RInv, IInv, TypeOK, Registration
    <2> QED
      BY <2>1, <2>2 DEF RInv, More, CurrentRuns
  <1> QED
    BY <1>1, <1>2

LEMMA OthersStoreNothing ==
  ASSUME Deleters = {}, RInv, [Next]_vars, ~Writes
  PROVE  /\ found' = found
         /\ \A o \in late' : \/ \E p \in late : p.id = o.id
                             \/ o.id = current /\ current \in Ids /\ rows[current] = "running"
  <1>1. CASE LateRead
    BY <1>1 DEF LateRead, RInv, IInv, TypeOK, LateCalls
  <1>2. CASE LateFault
    BY <1>2 DEF LateFault
  <1>3. CASE Crash \/ Exit
    BY <1>3 DEF Crash, Exit, Halt, VolatileReset
  <1>4. CASE StopCancel \/ \E c \in Cancellers : CancelCurrent(c)
    <2>1. found' = found /\ (CancelTask \/ late' = late)
      BY <1>4, Zenon DEF StopCancel, StopVars, CancelCurrent, HandlerVars
    <2> QED
      BY <2>1, LeftBehind
  <1>5. CASE \/ Stop \/ LoopFault \/ UNCHANGED vars
             \/ LoadConfig \/ ScanEnds \/ CallRead \/ CallDone \/ CallFault
    <2>1. found' = found /\ late' = late
      BY <1>5, Zenon DEF Stop, StopVars, LoopFault, vars, LoadConfig, ScanEnds, CallRead, CallDone,
         CallFault
    <2> QED
      BY <2>1
  <1>6. CASE \E c \in Cancellers : CancelRequest(c) \/ CancelOther(c) \/ CancelRead(c)
                                   \/ CancelFault(c)
    <2>1. found' = found /\ late' = late
      BY <1>6, Zenon DEF CancelRequest, CancelOther, CancelRead, CancelFault, HandlerVars
    <2> QED
      BY <2>1
  <1>7. CASE \/ LoopCheck \/ LoopAcquire \/ ClaimRead \/ Register
             \/ NothingQueued \/ Woken \/ TaskEnded \/ MarkRead
    <2>1. found' = found /\ late' = late
      BY <1>7, Zenon DEF LoopCheck, LoopAcquire, ClaimRead, Register, NothingQueued, Woken,
         TaskEnded, MarkRead
    <2> QED
      BY <2>1
  <1> QED
    BY <1>1, <1>2, <1>3, <1>4, <1>5, <1>6, <1>7
    DEF Next, Writes, LoopStep, CallStep, LateStep, StopStep, CancelStep

LEMMA WritesKeepFindings == ASSUME FInv, Writes PROVE Stored'
  <1> USE DEF FInv, Stored, FindingsFollowCompletion
  <1>1. CASE Restart
    BY <1>1 DEF Restart, RInv, IInv, TypeOK
  <1>2. CASE Create
    BY <1>2 DEF Create, IsNextId, Exists, RInv, IInv, TypeOK
  <1>3. CASE ClaimWrite
    BY <1>3 DEF ClaimWrite, RInv, More, IInv, TypeOK, PickIsOldest, IsOldest, Queued
  <1>4. CASE MarkWrite
    BY <1>4 DEF MarkWrite, RInv, IInv, TypeOK, Registration
  <1>5. CASE CallWrite
    <2>1. /\ current \in Ids /\ rows[current] = "running" /\ late' = late
          /\ \A o \in late : o.id # current
      BY <1>5 DEF RInv, More, IInv, TypeOK, Registration, CurrentRuns, LateIsAlone, CallWrite
    <2>2. Record(call.op, current)
      BY <1>5, <2>1 DEF CallWrite, Exists
    <2> QED
      BY <2>1, <2>2 DEF Record, Outcome, RInv, IInv, TypeOK
  <1>6. CASE LateWrite
    <2>1. PICK o \in late : /\ o.at = "write" /\ late' = late \ {o}
                            /\ IF Exists(o.id) THEN Record(o.op, o.id) ELSE UNCHANGED_DB
      BY <1>6 DEF LateWrite
    <2>2. /\ o.id \in Ids /\ rows[o.id] \in {"running", "cancelled"} /\ o.id \notin found
          /\ \A p \in late' : p.id # o.id /\ p \in late
      BY <2>1 DEF RInv, More, IInv, TypeOK, LateIsAlone
    <2>3. Record(o.op, o.id)
      BY <2>1, <2>2 DEF Exists
    <2> QED
      BY <2>2, <2>3 DEF Record, Outcome, RInv, IInv, TypeOK
  <1>7. CASE \E c \in Cancellers : CancelWrite(c)
    BY <1>7 DEF CancelWrite, HandlerVars, RInv, More, IInv, TypeOK, CancelIsDue, Exists
  <1> QED
    BY <1>1, <1>2, <1>3, <1>4, <1>5, <1>6, <1>7 DEF Writes

\* store_result commits the findings with the status: without deletions a COMPLETED row has its
\* findings, and a row that has findings is COMPLETED or was cancelled in a race with the store.
THEOREM CompletionBringsFindings == ASSUME Deleters = {} PROVE Spec => []FindingsFollowCompletion
  <1>1. Init => FInv
    BY InitEstablishes, InitAdds DEF FInv, Stored, RInv, FindingsFollowCompletion, Init
  <1>2. FInv /\ [Next]_vars => FInv'
    <2> SUFFICES ASSUME FInv, [Next]_vars PROVE FInv'
      OBVIOUS
    <2>1. RInv'
      BY NextKeeps DEF FInv
    <2>2. CASE Writes
      BY <2>1, <2>2, WritesKeepFindings DEF FInv
    <2>3. CASE ~Writes
      <3>1. rows' = rows
        BY <2>3, OthersKeepStatus
      <3>2. /\ found' = found
            /\ \A o \in late' : \/ \E p \in late : p.id = o.id
                                \/ o.id = current /\ current \in Ids /\ rows[current] = "running"
        BY <2>3, OthersStoreNothing DEF FInv
      <3> QED
        BY <2>1, <3>1, <3>2 DEF FInv, Stored, FindingsFollowCompletion
    <2> QED
      BY <2>2, <2>3
  <1>3. FInv => FindingsFollowCompletion
    BY DEF FInv, Stored
  <1> QED
    BY <1>1, <1>2, <1>3, PTL DEF Spec
=============================================================================
