------------------------ MODULE InjectionPassProofs -------------------------
(***************************************************************************)
(* The three nested budgets of the injection pass, for every surface, any  *)
(* scripts of the detectors and any limits; and the turns of the detectors *)
(* on a point, for any base order and any heuristics.  And what a latency  *)
(* proves (Detectors!Time), for any site, dialects and delay; and that the *)
(* upload and the envelope pass keep their budgets (ActivePasses), for any *)
(* site.                                                                   *)
(***************************************************************************)
EXTENDS InjectionPass, Detectors, ActivePasses, ListProofs, TLAPS

Budgets == [spent : Nat, point : Nat, timed : Nat]
Typed == budget \in Budgets /\ i \in Nat /\ started \in Nat

\* Before the point in hand nothing has been spent but what each point may spend; before the
\* first one nothing has been spent at all.
Share ==
  phase = "inject" =>
    /\ started = i
    /\ started = 0 => AtRest /\ budget.spent = 0
    /\ started > 0 => budget.spent + PointLimit <= started * PointLimit + budget.point

\* The scan's limit refuses only when it has been reached, and it stays reached.
RefusedForGood == phase = "inject" /\ "requests" \in refused => Exhausted(budget)

\* The stored pass has nothing in hand before its first point.
SubmitAtRest == phase = "submit" /\ i = 0 => left = <<>>

Nested == Typed /\ BudgetsNest
IInv == Nested /\ Share /\ RefusedForGood /\ SubmitAtRest
        /\ EveryPointGetsItsShare /\ StopsAreTold

-----------------------------------------------------------------------------
(* The budget's operations.                                                *)

USE LimitsAssumption

\* The fields of a budget after a charge or at the start of a point.
LEMMA Charging ==
  ASSUME NEW b \in Budgets
  PROVE  /\ b.spent \in Nat /\ b.point \in Nat /\ b.timed \in Nat
         /\ Take(b) \in Budgets /\ TakeSleep(b) \in Budgets /\ TakeRecrawl(b) \in Budgets
         /\ StartPointOf(b) \in Budgets
         /\ Take(b).spent = b.spent + 1 /\ Take(b).point = b.point + 1
         /\ Take(b).timed = b.timed
         /\ TakeSleep(b).spent = b.spent + 1 /\ TakeSleep(b).point = b.point + 1
         /\ TakeSleep(b).timed = b.timed + 1
         /\ TakeRecrawl(b).spent = b.spent + 1 /\ TakeRecrawl(b).point = b.point
         /\ TakeRecrawl(b).timed = b.timed
         /\ StartPointOf(b).spent = b.spent /\ StartPointOf(b).point = 0
         /\ StartPointOf(b).timed = b.timed
  <1>1. PICK s, q, t \in Nat : b = [spent |-> s, point |-> q, timed |-> t]
    BY DEF Budgets
  <1>2. PICK n, m, k \in Nat : n = s + 1 /\ m = q + 1 /\ k = t + 1
    OBVIOUS
  <1>3. b.spent + 1 = n /\ b.point + 1 = m /\ b.timed + 1 = k
    BY <1>1, <1>2
  <1>4. Take(b) = [b EXCEPT !.spent = n, !.point = m]
    BY <1>3 DEF Take
  <1>5. Take(b) = [spent |-> n, point |-> m, timed |-> t]
    BY <1>1, <1>4
  <1>6. TakeSleep(b) = [spent |-> n, point |-> m, timed |-> k]
    BY <1>2, <1>5 DEF TakeSleep
  <1>7. TakeRecrawl(b) = [spent |-> n, point |-> q, timed |-> t]
    BY <1>1, <1>3 DEF TakeRecrawl
  <1>8. StartPointOf(b) = [spent |-> s, point |-> 0, timed |-> t]
    BY <1>1 DEF StartPointOf
  <1> QED
    BY <1>1, <1>2, <1>5, <1>6, <1>7, <1>8 DEF Budgets

LEMMA FreshIs ==
  Fresh \in Budgets /\ Fresh.spent = 0 /\ Fresh.point = 0 /\ Fresh.timed = 0
  BY DEF Fresh, Budgets

\* A request that is granted is counted by the scan and by the point, and stays within both.
LEMMA SpendCounts ==
  ASSUME Nested, NEW request, Spend(request)
  PROVE  /\ budget' \in Budgets /\ refused' = refused
         /\ budget'.spent = budget.spent + 1 /\ budget'.point = budget.point + 1
         /\ BudgetsNest'
  <1> budget \in Budgets
    BY DEF Nested, Typed
  <1>1. CASE request = "sleep"
    <2>1. CanTake(budget) /\ budget.timed < SleepLimit /\ budget' = TakeSleep(budget)
      BY <1>1 DEF Spend, Granted, Charge, CanSleep
    <2> QED
      BY <2>1, Charging DEF Spend, CanTake, Nested, BudgetsNest
  <1>2. CASE request # "sleep"
    <2>1. CanTake(budget) /\ budget' = Take(budget)
      BY <1>2 DEF Spend, Granted, Charge
    <2> QED
      BY <2>1, Charging DEF Spend, CanTake, Nested, BudgetsNest
  <1> QED
    BY <1>1, <1>2

\* A request that is refused costs nothing; the scan's limit is named only when reached.
LEMMA RefuseNames ==
  ASSUME Nested, NEW request, Refuse(request)
  PROVE  /\ budget' = budget
         /\ "requests" \in refused' => "requests" \in refused \/ Exhausted(budget)
  BY DEF Refuse, Refusal, Exhausted, Nested, Typed, Budgets

-----------------------------------------------------------------------------
(* The steps.                                                              *)

LEMMA InitEstablishes == ASSUME Init PROVE IInv
  BY FreshIs
  DEF Init, IInv, Nested, Typed, BudgetsNest, Share, RefusedForGood, SubmitAtRest, AtRest,
      EveryPointGetsItsShare, StopsAreTold, Exhausted

LEMMA NextPointPreserves == ASSUME IInv, NextPoint PROVE IInv'
  <1> /\ budget \in Budgets /\ budget.spent \in Nat /\ i \in Nat /\ started \in Nat
    BY DEF IInv, Nested, Typed, Budgets
  <1>1. /\ budget' \in Budgets /\ budget'.spent = budget.spent /\ budget'.point = 0
        /\ budget'.timed = budget.timed
        /\ i' = i + 1 /\ started' = started + 1 /\ phase = "inject" /\ phase' = "inject"
        /\ refused' = refused
    BY Charging DEF NextPoint
  <1>2. Nested'
    BY <1>1 DEF IInv, Nested, Typed, BudgetsNest, Budgets
  <1>3. budget.spent <= started * PointLimit
    <2>1. CASE started = 0
      BY <1>1, <2>1 DEF IInv, Share
    <2>2. CASE started > 0
      BY <1>1, <2>2 DEF IInv, Share, Nested, BudgetsNest, Budgets
    <2> QED
      BY <2>1, <2>2
  <1>4. (started + 1) * PointLimit = started * PointLimit + PointLimit
    OBVIOUS
  <1>5. Share'
    BY <1>1, <1>3, <1>4 DEF IInv, Share, Budgets
  <1> QED
    BY <1>1, <1>2, <1>5
    DEF IInv, RefusedForGood, SubmitAtRest, EveryPointGetsItsShare, StopsAreTold, Exhausted

\* A request of the injection pass, granted or refused.
InjectionRequest ==
  /\ phase = "inject" /\ ~AtRest
  /\ \E request : Spend(request) \/ Refuse(request)
  /\ UNCHANGED <<points, phase, i, started, warnings>>

LEMMA RequestPreserves == ASSUME IInv, InjectionRequest PROVE IInv'
  <1> PICK request : Spend(request) \/ Refuse(request)
    BY DEF InjectionRequest
  <1> /\ budget \in Budgets /\ i \in Nat /\ started \in Nat /\ Nested
      /\ phase = "inject" /\ phase' = "inject" /\ i' = i /\ started' = started
      /\ started > 0
    BY DEF IInv, Nested, Typed, InjectionRequest, Share
  <1>1. CASE Spend(request)
    <2>1. Nested'
      BY <1>1, SpendCounts DEF Nested, Typed
    <2>2. Share'
      BY <1>1, SpendCounts DEF IInv, Share, Budgets
    <2>3. RefusedForGood'
      BY <1>1, SpendCounts DEF IInv, RefusedForGood, Exhausted, Budgets
    <2> QED
      BY <2>1, <2>2, <2>3 DEF IInv, SubmitAtRest, EveryPointGetsItsShare, StopsAreTold
  <1>2. CASE Refuse(request)
    <2>1. Nested' /\ Share'
      BY <1>2, RefuseNames DEF IInv, Nested, Typed, BudgetsNest, Share
    <2>2. RefusedForGood'
      BY <1>2, RefuseNames DEF IInv, RefusedForGood, Exhausted
    <2> QED
      BY <2>1, <2>2 DEF IInv, SubmitAtRest, EveryPointGetsItsShare, StopsAreTold
  <1> QED
    BY <1>1, <1>2

LEMMA BaselineAndProbe == ASSUME Baseline \/ Probe PROVE InjectionRequest
  <1>1. CASE Baseline
    BY <1>1 DEF Baseline, InjectionRequest, AtRest
  <1>2. CASE Probe
    BY <1>2 DEF Probe, InjectionRequest, AtRest
  <1> QED
    BY <1>1, <1>2

LEMMA EndInjectionPreserves == ASSUME IInv, EndInjection PROVE IInv'
  <1> /\ budget \in Budgets /\ i \in Nat /\ started \in Nat
      /\ phase = "inject" /\ phase' = "submit" /\ i' = 0 /\ budget' = Fresh
      /\ started' = started /\ refused' = refused /\ points' = points
      /\ left = <<>> /\ left' = <<>>
    BY DEF IInv, Nested, Typed, EndInjection, AtRest
  <1>1. Nested'
    BY FreshIs DEF Nested, Typed, BudgetsNest
  <1>2. EveryPointGetsItsShare'
    <2>1. CASE started = Len(points)
      BY <2>1 DEF EveryPointGetsItsShare
    <2>2. CASE Exhausted(budget)
      <3>1. CASE started = 0
        BY <2>2, <3>1 DEF IInv, Share, Exhausted, EveryPointGetsItsShare
      <3>2. CASE started > 0
        BY <2>2, <3>2
        DEF IInv, Share, Exhausted, EveryPointGetsItsShare, Nested, BudgetsNest, Budgets
      <3> QED
        BY <3>1, <3>2
    <2> QED
      BY <2>1, <2>2 DEF EndInjection, IInv, Share
  <1>3. StopsAreTold'
    BY DEF EndInjection, IInv, Share, RefusedForGood, StopsAreTold
  <1> QED
    BY <1>1, <1>2, <1>3 DEF IInv, Share, RefusedForGood, SubmitAtRest

\* The stored pass keeps its own budget and does not look back.
LEMMA StoredPreserves ==
  ASSUME IInv, NextTarget \/ Submit \/ EndSubmission \/ Refetch \/ EndStored
  PROVE  IInv'
  <1> budget \in Budgets /\ i \in Nat /\ started \in Nat /\ Nested
    BY DEF IInv, Nested, Typed
  <1>1. /\ phase # "inject" /\ phase' # "inject" /\ started' = started /\ points' = points
        /\ i' \in Nat
    BY DEF NextTarget, Submit, EndSubmission, Refetch, EndStored
  <1>2. ~(phase' = "submit" /\ i' = 0)
    BY DEF NextTarget, Submit, EndSubmission, Refetch, EndStored, IInv, SubmitAtRest
  <1>3. Nested'
    <2>1. CASE NextTarget
      <3>1. budget' = StartPointOf(budget)
        BY <2>1 DEF NextTarget
      <3> QED
        BY <1>1, <3>1, Charging DEF Nested, Typed, BudgetsNest
    <2>2. CASE Submit
      <3>1. Spend("quick") \/ Refuse("quick")
        BY <2>2 DEF Submit
      <3> QED
        BY <1>1, <3>1, SpendCounts, RefuseNames DEF Nested, Typed, BudgetsNest
    <2>3. CASE Refetch
      <3>1. budget' = TakeRecrawl(budget) /\ CanRecrawl(budget)
        BY <2>3 DEF Refetch
      <3> QED
        BY <1>1, <3>1, Charging DEF CanRecrawl, Nested, Typed, BudgetsNest
    <2>4. CASE EndSubmission \/ EndStored
      BY <1>1, <2>4 DEF EndSubmission, EndStored, Nested, Typed, BudgetsNest
    <2> QED
      BY <2>1, <2>2, <2>3, <2>4
  <1> QED
    BY <1>1, <1>2, <1>3
    DEF IInv, Share, RefusedForGood, SubmitAtRest, EveryPointGetsItsShare, StopsAreTold

LEMMA NextPreserves == ASSUME IInv, [Next]_vars PROVE IInv'
  <1>1. CASE UNCHANGED vars
    BY <1>1
    DEF vars, IInv, Nested, Typed, BudgetsNest, Share, AtRest, RefusedForGood, SubmitAtRest,
        EveryPointGetsItsShare, StopsAreTold, Exhausted
  <1>2. CASE Next
    BY <1>2, NextPointPreserves, RequestPreserves, BaselineAndProbe, EndInjectionPreserves,
       StoredPreserves DEF Next
  <1> QED
    BY <1>1, <1>2

LEMMA Invariance == Spec => []IInv
  BY InitEstablishes, NextPreserves, PTL DEF Spec

\* ActiveBudget: the scan's, the point's and the sleeps' limits hold together, whatever
\* fails and whatever is refused.
THEOREM TheBudgetsNest == Spec => []BudgetsNest
  <1>1. IInv => BudgetsNest
    BY DEF IInv, Nested
  <1> QED
    BY <1>1, Invariance, PTL

\* ActiveScanner.run: what one point may spend bounds how many points go without a request.
THEOREM EveryPointIsReached == Spec => []EveryPointGetsItsShare
  BY Invariance, PTL DEF IInv

\* ActiveScanner.run: an injection pass that stopped for want of budget has said so.
THEOREM NoSilentStop == Spec => []StopsAreTold
  BY Invariance, PTL DEF IInv

\* Both together: the budgets nest and every point gets its share.
THEOREM TheBudgetsAreShared == Spec => []BudgetsAreShared
  BY TheBudgetsNest, EveryPointIsReached, PTL DEF BudgetsAreShared
-----------------------------------------------------------------------------
(* The order of the detectors on a point.                                  *)

\* A list of the kinds in S that names each of K once and no other.
Turns(S, s, K) == s \in Seq(S) /\ IsInjective(s) /\ Range(s) = K

\* What a comprehension keeps: the wanted kinds, and no kind more often than before.
LEMMA OnlyTurns ==
  ASSUME NEW S, NEW s \in Seq(S), IsInjective(s), NEW W
  PROVE  Turns(S, Only(s, W), Range(s) \intersect W)
  <1> DEFINE T == {n \in 1..Len(s) : s[n] \in W}
             r == At(s, T)
  <1>1. Only(s, W) = r
    BY DEF Only
  <1>2. r \in Seq(S)
    BY AtSelects
  <1>3. PICK order : Selects(s, T, Len(s), r, order)
    BY AtSelects
  <1>4. /\ DOMAIN r = 1..Len(r) /\ DOMAIN s = 1..Len(s) /\ Len(r) \in Nat /\ Len(s) \in Nat
    BY <1>2
  <1>5. T \subseteq 1..Len(s)
    OBVIOUS
  <1>6. \A n \in T : n \in 1..Len(s) /\ s[n] \in W
    OBVIOUS
  <1>7. \A n \in 1..Len(s) : s[n] \in W => n \in T
    OBVIOUS
  <1> HIDE DEF T, r
  <1>8. \A n \in 1..Len(r) : order[n] \in T /\ r[n] = s[order[n]]
    BY <1>3 DEF Selects
  <1>9. \A m \in T : \E n \in 1..Len(r) : order[n] = m
    BY <1>3, <1>5 DEF Selects
  <1>10. IsInjective(r)
    <2>1. SUFFICES ASSUME NEW a \in 1..Len(r), NEW b \in 1..Len(r), r[a] = r[b] PROVE a = b
      BY <1>4 DEF IsInjective
    <2>2. order[a] = order[b]
      <3>1. order[a] \in DOMAIN s /\ order[b] \in DOMAIN s
        BY <1>4, <1>5, <1>8, <2>1
      <3>2. s[order[a]] = s[order[b]]
        BY <1>8, <2>1
      <3> QED
        BY <3>1, <3>2 DEF IsInjective
    <2>3. order[a] \in Int /\ ~(order[a] < order[b]) /\ ~(order[b] < order[a])
      <3>1. order[a] \in 1..Len(s)
        BY <1>5, <1>8, <2>1
      <3> QED
        BY <2>2, <3>1
    <2>4. a < b => order[a] < order[b]
      BY <1>3, <2>1 DEF Selects
    <2>5. b < a => order[b] < order[a]
      BY <1>3, <2>1 DEF Selects
    <2> QED
      BY <1>4, <2>1, <2>3, <2>4, <2>5
  <1>11. Range(r) = Range(s) \intersect W
    <2>1. ASSUME NEW k \in Range(r) PROVE k \in Range(s) \intersect W
      <3>1. PICK n \in 1..Len(r) : k = r[n]
        BY <1>4 DEF Range
      <3> QED
        BY <1>4, <1>6, <1>8, <3>1 DEF Range
    <2>2. ASSUME NEW k \in Range(s) \intersect W PROVE k \in Range(r)
      <3>1. PICK m \in 1..Len(s) : k = s[m]
        BY <1>4 DEF Range
      <3>2. PICK n \in 1..Len(r) : order[n] = m
        BY <1>7, <1>9, <3>1
      <3> QED
        BY <1>4, <1>8, <3>1, <3>2 DEF Range
    <2> QED
      BY <2>1, <2>2
  <1> QED
    BY <1>1, <1>2, <1>10, <1>11 DEF Turns

\* A kind in front of a list that does not have it.
LEMMA InFront ==
  ASSUME NEW S, NEW k \in S, NEW K, NEW s, Turns(S, s, K), k \notin K
  PROVE  Turns(S, <<k>> \o s, K \union {k})
  <1> DEFINE t == <<k>> \o s
  <1>1. s \in Seq(S) /\ <<k>> \in Seq(S)
    BY DEF Turns
  <1>2. /\ t \in Seq(S) /\ DOMAIN t = 1..(Len(s) + 1) /\ DOMAIN s = 1..Len(s)
        /\ Len(s) \in Nat
    BY <1>1
  <1>3. t[1] = k
    BY <1>1
  <1>4. \A n \in 1..Len(s) : t[n + 1] = s[n]
    BY <1>1
  <1> HIDE DEF t
  <1>5. \A n \in 1..(Len(s) + 1) : n # 1 => n - 1 \in 1..Len(s) /\ t[n] = s[n - 1]
    <2> TAKE n \in 1..(Len(s) + 1)
    <2> HAVE n # 1
    <2>1. n - 1 \in 1..Len(s) /\ (n - 1) + 1 = n
      BY <1>2
    <2> QED
      BY <1>4, <2>1
  <1>6. \A n \in 1..Len(s) : s[n] # k /\ s[n] \in K
    BY <1>2 DEF Turns, Range
  <1>7. IsInjective(t)
    <2>1. SUFFICES ASSUME NEW a \in 1..(Len(s) + 1), NEW b \in 1..(Len(s) + 1), t[a] = t[b]
                   PROVE  a = b
      BY <1>2 DEF IsInjective
    <2>2. CASE a = 1 \/ b = 1
      BY <1>3, <1>5, <1>6, <2>1, <2>2
    <2>3. CASE a # 1 /\ b # 1
      <3>1. a - 1 = b - 1
        BY <1>2, <1>5, <2>1, <2>3 DEF Turns, IsInjective
      <3> QED
        BY <3>1, <1>2
    <2> QED
      BY <2>2, <2>3
  <1>8. Range(t) = K \union {k}
    <2>1. \A x \in Range(t) : x \in K \union {k}
      BY <1>2, <1>3, <1>5, <1>6 DEF Range
    <2>2. ASSUME NEW x \in K PROVE x \in Range(t)
      <3>1. PICK n \in 1..Len(s) : x = s[n]
        BY <1>2 DEF Turns, Range
      <3>2. n + 1 \in DOMAIN t /\ t[n + 1] = x
        BY <1>2, <1>4, <3>1
      <3> QED
        BY <3>2 DEF Range
    <2>3. k \in Range(t)
      <3>1. 1 \in DOMAIN t
        BY <1>2
      <3> QED
        BY <1>3, <3>1 DEF Range
    <2> QED
      BY <2>1, <2>2, <2>3
  <1> QED
    BY <1>2, <1>7, <1>8 DEF Turns, t

\* Moving a kind to the front changes the order only.
LEMMA ToFrontTurns ==
  ASSUME NEW S, NEW s, NEW K, Turns(S, s, K), NEW k \in K
  PROVE  Turns(S, ToFront(s, k), K)
  <1>1. s \in Seq(S) /\ IsInjective(s) /\ Range(s) = K
    BY DEF Turns
  <1>2. k \in S
    <2>1. PICK n \in DOMAIN s : k = s[n]
      BY <1>1 DEF Range
    <2> QED
      BY <1>1, <2>1
  <1>3. Turns(S, Only(s, K \ {k}), K \intersect (K \ {k}))
    BY <1>1, OnlyTurns
  <1>4. K \intersect (K \ {k}) = K \ {k} /\ (K \ {k}) \union {k} = K
    OBVIOUS
  <1>5. Turns(S, <<k>> \o Only(s, K \ {k}), (K \ {k}) \union {k})
    BY <1>2, <1>3, <1>4, InFront
  <1> QED
    BY <1>1, <1>4, <1>5 DEF ToFront

\* The kinds once the two template languages share an entry.
Merged(K) ==
  IF {"ssti", "el"} \subseteq K THEN (K \ {"ssti", "el"}) \union {"ssti+el"} ELSE K

\* The merged entry takes the earlier place of the two, and the other one is gone.
LEMMA MergeElTurns ==
  ASSUME NEW S, "ssti+el" \in S, NEW s, NEW K, Turns(S, s, K), "ssti+el" \notin K
  PROVE  Turns(S, MergeEl(s), Merged(K))
  <1>1. s \in Seq(S) /\ IsInjective(s) /\ Range(s) = K
    BY DEF Turns
  <1>2. CASE ~({"ssti", "el"} \subseteq K)
    BY <1>1, <1>2 DEF MergeEl, Merged, Turns
  <1>3. CASE {"ssti", "el"} \subseteq K
    <2> DEFINE IsFirst(n) == /\ s[n] \in {"ssti", "el"}
                             /\ \A j \in 1..(n - 1) : s[j] \notin {"ssti", "el"}
               first == CHOOSE n \in 1..Len(s) : IsFirst(n)
               merged == [s EXCEPT ![first] = "ssti+el"]
               W == Range(merged) \ {"ssti", "el"}
    <2>1. MergeEl(s) = Only(merged, W)
      BY <1>1, <1>3 DEF MergeEl
    <2>2. DOMAIN s = 1..Len(s) /\ Len(s) \in Nat
      BY <1>1
    <2>3. \E n \in 1..Len(s) : IsFirst(n)
      <3> DEFINE N == {n \in 1..Len(s) : s[n] \in {"ssti", "el"}}
      <3>1. "ssti" \in Range(s)
        BY <1>1, <1>3
      <3>2. PICK n \in 1..Len(s) : s[n] = "ssti"
        BY <2>2, <3>1 DEF Range
      <3>3. N \subseteq Nat /\ n \in N
        BY <3>2
      <3> HIDE DEF N
      <3>4. PICK m \in N : \A k \in N : m <= k
        BY <3>3, LeastNumber
      <3>5. m \in 1..Len(s) /\ s[m] \in {"ssti", "el"}
        BY <3>4 DEF N
      <3>6. \A j \in 1..(m - 1) : j \in 1..Len(s) /\ ~(m <= j)
        BY <2>2, <3>5
      <3>7. \A j \in 1..(m - 1) : s[j] \notin {"ssti", "el"}
        BY <3>4, <3>6 DEF N
      <3> QED
        BY <3>5, <3>7
    <2>4. first \in 1..Len(s) /\ s[first] \in {"ssti", "el"}
      BY <2>3
    <2> HIDE DEF first, IsFirst
    <2>5. merged \in Seq(S) /\ DOMAIN merged = 1..Len(s) /\ merged[first] = "ssti+el"
      BY <1>1, <2>2, <2>4
    <2>6. \A n \in 1..Len(s) : n # first => merged[n] = s[n]
      BY <2>2
    <2> HIDE DEF merged
    <2>7. \A n \in 1..Len(s) : s[n] \in K
      BY <1>1, <2>2 DEF Range
    <2>8. IsInjective(merged)
      <3>1. SUFFICES ASSUME NEW a \in 1..Len(s), NEW b \in 1..Len(s), merged[a] = merged[b]
                     PROVE  a = b
        BY <2>5 DEF IsInjective
      <3>2. CASE a = first \/ b = first
        BY <2>5, <2>6, <2>7, <3>1, <3>2
      <3>3. CASE a # first /\ b # first
        BY <1>1, <2>2, <2>6, <3>1, <3>3 DEF IsInjective
      <3> QED
        BY <3>2, <3>3
    <2>9. Turns(S, Only(merged, W), Range(merged) \intersect W)
      <3> HIDE DEF W
      <3> QED
        BY <2>5, <2>8, OnlyTurns
    <2>10. Range(merged) \intersect W = Merged(K)
      <3>1. ASSUME NEW x \in Range(merged), x \notin {"ssti", "el"} PROVE x \in Merged(K)
        <4>1. PICK n \in 1..Len(s) : x = merged[n]
          BY <2>5 DEF Range
        <4> QED
          BY <1>3, <2>5, <2>6, <2>7, <3>1, <4>1 DEF Merged
      <3>2. ASSUME NEW x \in Merged(K) PROVE x \in Range(merged) /\ x \notin {"ssti", "el"}
        <4>1. CASE x = "ssti+el"
          BY <2>4, <2>5, <4>1 DEF Range
        <4>2. CASE x # "ssti+el"
          <5>1. x \in K /\ x \notin {"ssti", "el"}
            BY <1>3, <3>2, <4>2 DEF Merged
          <5>2. PICK n \in 1..Len(s) : x = s[n]
            BY <1>1, <2>2, <5>1 DEF Range
          <5>3. n # first /\ merged[n] = x
            BY <2>4, <2>6, <5>1, <5>2
          <5> QED
            BY <2>5, <5>1, <5>3 DEF Range
        <4> QED
          BY <4>1, <4>2
      <3> QED
        BY <3>1, <3>2
    <2> QED
      BY <2>1, <2>9, <2>10
  <1> QED
    BY <1>2, <1>3

Kinds == Range(BaseOrder) \union {"ssti+el"}
Wanted == Selected \intersect Range(BaseOrder)

\* One heuristic of _ordered_kinds.
Fronted(p, q, k) == IF Suggests(p, k) /\ k \in Range(q) THEN ToFront(q, k) ELSE q

\* The detectors of a point are the selected ones, each once, whatever its heuristics are.
LEMMA OrderedTurns ==
  ASSUME NEW p
  PROVE  Turns(Kinds, OrderedKinds(p), Merged(Wanted))
  <1> DEFINE n == Len(Likes)
             base == Only(BaseOrder, Selected)
             Orders == {q \in Seq(Kinds) : Turns(Kinds, q, Wanted)}
             Turn(f, m) == IF m = 0 THEN base ELSE Fronted(p, f[m - 1], Likes[m])
             order == CHOOSE f : f = [m \in 0..n |-> Turn(f, m)]
             turn == [m \in 1..n |-> [q \in Orders |-> Fronted(p, q, Likes[m])]]
  <1>1. OrderedKinds(p) = MergeEl(order[n])
    BY DEF OrderedKinds, Fronted
  <1>2. n \in Nat
    BY KindsAssumption
  <1>3. base \in Orders
    <2>1. BaseOrder \in Seq(Kinds)
      <3>1. DOMAIN BaseOrder = 1..Len(BaseOrder) /\ Len(BaseOrder) \in Nat
        BY KindsAssumption
      <3>2. BaseOrder \in [1..Len(BaseOrder) -> Kinds]
        <4>1. BaseOrder = [m \in 1..Len(BaseOrder) |-> BaseOrder[m]]
          BY KindsAssumption, <3>1
        <4>2. \A m \in 1..Len(BaseOrder) : BaseOrder[m] \in Kinds
          BY <3>1 DEF Kinds, Range
        <4> QED
          BY <4>1, <4>2
      <3> QED
        BY <3>1, <3>2
    <2>2. Turns(Kinds, base, Range(BaseOrder) \intersect Selected)
      BY <2>1, KindsAssumption, OnlyTurns
    <2>3. Range(BaseOrder) \intersect Selected = Wanted
      BY DEF Wanted
    <2> HIDE DEF base
    <2> QED
      BY <2>2, <2>3 DEF Turns
  <1>4. \A q \in Orders : \A k : Fronted(p, q, k) \in Orders
    <2> SUFFICES ASSUME NEW q \in Orders, NEW k PROVE Fronted(p, q, k) \in Orders
      OBVIOUS
    <2>1. CASE Suggests(p, k) /\ k \in Range(q)
      <3>1. Turns(Kinds, q, Wanted) /\ k \in Wanted
        BY <2>1 DEF Turns
      <3>2. Turns(Kinds, ToFront(q, k), Wanted)
        BY <3>1, ToFrontTurns
      <3> QED
        BY <2>1, <3>2 DEF Fronted, Turns
    <2>2. CASE ~(Suggests(p, k) /\ k \in Range(q))
      BY <2>2 DEF Fronted
    <2> QED
      BY <2>1, <2>2
  <1> HIDE DEF Orders, base
  <1>5. IsStep(n, Orders, turn)
    BY <1>4 DEF IsStep
  <1>6. PICK g : IsRecursive(n, Orders, base, turn, g)
    <2> HIDE DEF turn, n
    <2> QED
      BY <1>2, <1>3, <1>5, Recursion
  <1>7. /\ g \in [0..n -> Orders] /\ g[0] = base
        /\ \A m \in 1..n : g[m - 1] \in Orders /\ g[m] = Fronted(p, g[m - 1], Likes[m])
    <2>1. \A m \in 1..n : g[m - 1] \in Orders
      BY <1>2, <1>6 DEF IsRecursive
    <2> QED
      BY <1>6, <2>1 DEF IsRecursive
  <1>8. g = [m \in 0..n |-> Turn(g, m)]
    <2>1. \A m \in 0..n : g[m] = Turn(g, m)
      BY <1>2, <1>7
    <2> QED
      BY <1>7, <2>1
  <1>9. order = [m \in 0..n |-> Turn(order, m)]
    BY <1>8
  <1>10. \A m \in 0..n : order[m] = Turn(order, m)
    <2> HIDE DEF order, Turn
    <2> QED
      BY <1>9
  <1>11. order[0] = base /\ \A m \in 1..n : order[m] = Fronted(p, order[m - 1], Likes[m])
    <2> HIDE DEF order
    <2> QED
      BY <1>2, <1>10
  <1> HIDE DEF order, Turn, turn
  <1> DEFINE Ns == {m \in 0..n : order[m] \in Orders}
  <1>12. n \in Ns
    <2>1. 0 \in Ns
      BY <1>2, <1>3, <1>11
    <2>2. \A m \in 1..n : m - 1 \in Ns => m \in Ns
      BY <1>2, <1>4, <1>11
    <2> HIDE DEF Ns, n
    <2>3. 0..n \subseteq Ns
      BY <1>2, <2>1, <2>2, Upto
    <2> QED
      BY <1>2, <2>3
  <1>13. Turns(Kinds, order[n], Wanted)
    BY <1>12 DEF Orders
  <1>14. "ssti+el" \in Kinds /\ "ssti+el" \notin Wanted
    BY KindsAssumption DEF Kinds, Wanted
  <1> QED
    BY <1>1, <1>13, <1>14, MergeElTurns

-----------------------------------------------------------------------------
(* The turns on the point in hand.                                         *)

\* The detectors that have run and those left are together the whole order of the point;
\* while the baseline is out none has run.
TurnsInv ==
  /\ ran \in Seq(Kinds) /\ kinds \in Seq(Kinds)
  /\ phase = "inject" /\ kinds = <<>> /\ left # <<>> => ran = <<>>
  /\ kinds # <<>> => Turns(Kinds, ran \o kinds, Merged(Wanted))

\* A detector that is through moves from the front of those left to the end of those that
\* have run, or the point is over.
LEMMA DetectorEnds ==
  ASSUME TurnsInv, kinds # <<>>, NEW b, EndDetector(b)
  PROVE  /\ ran' \in Seq(Kinds) /\ kinds' \in Seq(Kinds)
         /\ kinds' = <<>> => left' = <<>>
         /\ kinds' # <<>> => ran' \o kinds' = ran \o kinds
  <1>1. /\ ran \in Seq(Kinds) /\ kinds \in Seq(Kinds) /\ kinds # <<>>
        /\ ran' = Append(ran, Head(kinds))
        /\ kinds' = <<>> \/ kinds' = Tail(kinds)
    BY DEF TurnsInv, EndDetector
  <1>2. Head(kinds) \in Kinds /\ Tail(kinds) \in Seq(Kinds)
    BY <1>1
  <1>3. Append(ran, Head(kinds)) \o Tail(kinds) = ran \o kinds
    BY <1>1
  <1>4. Append(ran, Head(kinds)) \in Seq(Kinds) /\ <<>> \in Seq(Kinds)
    BY <1>1, <1>2
  <1> QED
    BY <1>1, <1>2, <1>3, <1>4 DEF EndDetector

LEMMA TurnsInit == ASSUME Init PROVE TurnsInv
  BY DEF Init, TurnsInv

\* Only Baseline and Probe touch the order; Baseline lays it out on a point none has run on.
LEMMA TurnsNext == ASSUME TurnsInv, [Next]_vars PROVE TurnsInv'
  <1> <<>> \in Seq(Kinds)
    OBVIOUS
  <1>1. CASE NextPoint
    BY <1>1 DEF NextPoint, AtRest, TurnsInv
  <1>2. CASE Baseline
    <2>1. /\ ran = <<>> /\ ran' = ran
          /\ (kinds' = <<>> /\ left' = <<>>) \/ kinds' = OrderedKinds(points[i])
      BY <1>2 DEF Baseline, TurnsInv
    <2>2. CASE kinds' = <<>> /\ left' = <<>>
      BY <2>1, <2>2 DEF TurnsInv
    <2>3. CASE kinds' = OrderedKinds(points[i])
      <3>1. Turns(Kinds, kinds', Merged(Wanted))
        BY <2>3, OrderedTurns
      <3>2. kinds' \in Seq(Kinds)
        BY <3>1 DEF Turns
      <3>3. ran' \o kinds' = kinds'
        BY <2>1, <3>2
      <3> QED
        BY <2>1, <3>1, <3>2, <3>3 DEF TurnsInv
    <2> QED
      BY <2>1, <2>2, <2>3
  <1>3. CASE Probe
    <2>1. kinds # <<>> /\ (\/ EndDetector(budget') \/ EndDetector(budget)
                          \/ UNCHANGED <<ran, kinds>>)
      BY <1>3 DEF Probe, EndStage
    <2>2. CASE UNCHANGED <<ran, kinds>>
      BY <2>1, <2>2 DEF TurnsInv
    <2>3. CASE EndDetector(budget') \/ EndDetector(budget)
      <3>1. /\ ran' \in Seq(Kinds) /\ kinds' \in Seq(Kinds)
            /\ kinds' = <<>> => left' = <<>>
            /\ kinds' # <<>> => ran' \o kinds' = ran \o kinds
        BY <2>1, <2>3, DetectorEnds
      <3> QED
        BY <2>1, <3>1 DEF TurnsInv
    <2> QED
      BY <2>1, <2>2, <2>3
  <1>4. CASE EndInjection \/ NextTarget \/ Submit \/ EndSubmission \/ Refetch \/ EndStored
    <2>1. ran' = ran /\ kinds' = kinds /\ phase' # "inject"
      BY <1>4
      DEF EndInjection, NextTarget, Submit, EndSubmission, Refetch, EndStored, pointVars
    <2> QED
      BY <2>1 DEF TurnsInv
  <1>5. CASE UNCHANGED vars
    BY <1>5 DEF vars, TurnsInv
  <1> QED
    BY <1>1, <1>2, <1>3, <1>4, <1>5 DEF Next

\* InjectionScanner._ordered_kinds and run: on every point each selected detector has its
\* turn exactly once, whatever the heuristics move to the front.
THEOREM EveryKindHasItsTurn == Spec => []EachKindOnce
  <1>1. TurnsInv => EachKindOnce
    BY DEF TurnsInv, EachKindOnce, Turns, Merged, Wanted
  <1> QED
    BY <1>1, TurnsInit, TurnsNext, PTL DEF Spec

-----------------------------------------------------------------------------
(* Latency.  The requests of Time, and what it goes through dialect by     *)
(* dialect.                                                                *)

Sleeps(D) == [d : D, delay : Nat]
\* The latency of an answer is a number of milliseconds.
Timed(page, D) ==
  \A m \in Nat, q \in Sleeps(D) : Ask(page, m, q).ok \in BOOLEAN /\ Ask(page, m, q).ms \in Nat
\* Every request is answered; all but one are answered within a second of the base; and a
\* dialect makes the site sleep as long as it is told, within a second.
Reliable(page, D) == \A m \in Nat, q \in Sleeps(D) : Ask(page, m, q).ok
PromptBut(page, D, base, spike) ==
  \A m \in Nat \ {spike}, q \in Sleeps(D) : Ask(page, m, q).ms < base.ms + 1000
SleepsOn(page, s, usual) ==
  \A m \in Nat, x \in Nat :
    Ask(page, m, [d |-> s, delay |-> x]).ms \in (usual + 1000 * x) .. (usual + 1000 * x + 999)

Control(page, m, d) == Ask(page, m + 1, [d |-> d, delay |-> 0])
Slow(page, m, d, delay) == Ask(page, m + 2, [d |-> d, delay |-> delay])
Confirmation(page, m, d, delay) == Ask(page, m + 3, [d |-> d, delay |-> Half(delay)])
Floor(page, base, m, d) == Larger(Control(page, m, d).ms, base.ms)
IsLate(page, base, delay, m, d) ==
  Late(Slow(page, m, d, delay).ms - Floor(page, base, m, d), delay)
Scales(page, base, delay, m, d) ==
  Confirms(Confirmation(page, m, d, delay).ms - Floor(page, base, m, d), Half(delay))

\* How a dialect ends whose requests are those after the m-th: without two answers, dismissed
\* by them, or with a hit of confidence c.
Unanswered(page, delay, m, d) == ~Control(page, m, d).ok \/ ~Slow(page, m, d, delay).ok
Dismissed(page, base, delay, m, d) ==
  \/ ~IsLate(page, base, delay, m, d)
  \/ Confirmation(page, m, d, delay).ok /\ ~Scales(page, base, delay, m, d)
Suspected(page, base, delay, m, d, c) ==
  /\ Control(page, m, d).ok /\ Slow(page, m, d, delay).ok
  /\ IsLate(page, base, delay, m, d)
  /\ \/ c = "MEDIUM" /\ ~Confirmation(page, m, d, delay).ok
     \/ c = "HIGH" /\ Confirmation(page, m, d, delay).ok /\ Scales(page, base, delay, m, d)

LEMMA HalfIsADelay ==
  ASSUME NEW delay \in Nat
  PROVE  Half(delay) \in Nat /\ Half(delay) >= 1 /\ (delay >= 4 => Half(delay) >= 2)
  BY DEF Half, Larger

LEMMA HitIsSomething ==
  ASSUME NEW k, NEW c, NEW p
  PROVE  Hit(k, c, p) # Nothing /\ Hit(k, c, p).confidence = c
  <1>1. "confidence" \in DOMAIN Hit(k, c, p) /\ "confidence" \notin DOMAIN Nothing
    BY DEF Hit, Nothing
  <1> QED
    BY <1>1 DEF Hit

LEMMA OneDialect ==
  ASSUME NEW acc, NEW kind, NEW d, NEW page, NEW base, NEW delay
  PROVE  \/ /\ Unanswered(page, delay, acc.n, d)
            /\ AskDialect(acc, kind, d, page, base, delay) = [acc EXCEPT !.over = TRUE]
         \/ /\ Dismissed(page, base, delay, acc.n, d)
            /\ \E k \in {2, 3} : AskDialect(acc, kind, d, page, base, delay) = [acc EXCEPT !.n = @ + k]
         \/ \E c \in {"MEDIUM", "HIGH"} :
              /\ Suspected(page, base, delay, acc.n, d, c)
              /\ AskDialect(acc, kind, d, page, base, delay) = [acc EXCEPT !.hit = Hit(kind, c, d)]
  <1> DEFINE control == Control(page, acc.n, d)
             slow == Slow(page, acc.n, d, delay)
             confirm == Confirmation(page, acc.n, d, delay)
             late == IsLate(page, base, delay, acc.n, d)
             scales == Scales(page, base, delay, acc.n, d)
             new == AskDialect(acc, kind, d, page, base, delay)
  <1>1. new = IF ~control.ok \/ ~slow.ok THEN [acc EXCEPT !.over = TRUE]
              ELSE IF ~late THEN [acc EXCEPT !.n = @ + 2]
              ELSE IF ~confirm.ok THEN [acc EXCEPT !.hit = Hit(kind, "MEDIUM", d)]
              ELSE IF scales THEN [acc EXCEPT !.hit = Hit(kind, "HIGH", d)]
              ELSE [acc EXCEPT !.n = @ + 3]
    BY DEF AskDialect, Control, Slow, Confirmation, Floor, IsLate, Scales
  <1>2. Unanswered(page, delay, acc.n, d) <=> ~control.ok \/ ~slow.ok
    BY DEF Unanswered
  <1>3. Dismissed(page, base, delay, acc.n, d) <=> ~late \/ (confirm.ok /\ ~scales)
    BY DEF Dismissed
  <1>4. Suspected(page, base, delay, acc.n, d, "MEDIUM") <=> control.ok /\ slow.ok /\ late /\ ~confirm.ok
    BY DEF Suspected
  <1>5. Suspected(page, base, delay, acc.n, d, "HIGH") <=> control.ok /\ slow.ok /\ late /\ confirm.ok /\ scales
    BY DEF Suspected
  <1> HIDE DEF control, slow, confirm, late, scales, new
  <1>6. \/ /\ Unanswered(page, delay, acc.n, d)
           /\ new = [acc EXCEPT !.over = TRUE]
        \/ /\ Dismissed(page, base, delay, acc.n, d)
           /\ \E k \in {2, 3} : new = [acc EXCEPT !.n = @ + k]
        \/ \E c \in {"MEDIUM", "HIGH"} :
             /\ Suspected(page, base, delay, acc.n, d, c)
             /\ new = [acc EXCEPT !.hit = Hit(kind, c, d)]
    BY <1>1, <1>2, <1>3, <1>4, <1>5
  <1> QED
    BY <1>6 DEF new

\* The states the dialects are asked in, and the state after one more.
Timings(kind, D) ==
  [n : Nat, over : BOOLEAN,
   hit : {Nothing} \union {Hit(kind, c, d) : c \in {"MEDIUM", "HIGH"}, d \in D}]
Unasked(n) == [n |-> n, over |-> FALSE, hit |-> Nothing]
AfterDialect(acc, kind, d, page, base, delay) ==
  IF acc.over \/ acc.hit # Nothing THEN acc ELSE AskDialect(acc, kind, d, page, base, delay)

LEMMA DialectIsTimed ==
  ASSUME NEW D, NEW d \in D, NEW kind, NEW page, NEW base, NEW delay, NEW acc \in Timings(kind, D)
  PROVE  AfterDialect(acc, kind, d, page, base, delay) \in Timings(kind, D)
  <1> DEFINE some == {Hit(kind, c, x) : c \in {"MEDIUM", "HIGH"}, x \in D}
             new == AskDialect(acc, kind, d, page, base, delay)
  <1>1. Timings(kind, D) = [n : Nat, over : BOOLEAN, hit : {Nothing} \union some]
    BY DEF Timings
  <1>2. \A c \in {"MEDIUM", "HIGH"} : Hit(kind, c, d) \in some
    OBVIOUS
  <1>3. \/ new = [acc EXCEPT !.over = TRUE]
        \/ \E k \in {2, 3} : new = [acc EXCEPT !.n = @ + k]
        \/ \E c \in {"MEDIUM", "HIGH"} : new = [acc EXCEPT !.hit = Hit(kind, c, d)]
    BY OneDialect
  <1> HIDE DEF some, new
  <1> DEFINE S == {Nothing} \union some
  <1>4. acc \in [n : Nat, over : BOOLEAN, hit : S] /\ \A c \in {"MEDIUM", "HIGH"} : Hit(kind, c, d) \in S
    BY <1>1, <1>2
  <1> HIDE DEF S
  <1>5. \A h \in S : [acc EXCEPT !.hit = h] \in [n : Nat, over : BOOLEAN, hit : S]
    BY <1>4
  <1>6. new \in [n : Nat, over : BOOLEAN, hit : S]
    <2>1. CASE new = [acc EXCEPT !.over = TRUE]
      BY <1>4, <2>1
    <2>2. CASE \E k \in {2, 3} : new = [acc EXCEPT !.n = @ + k]
      BY <1>4, <2>2
    <2>3. CASE \E c \in {"MEDIUM", "HIGH"} : new = [acc EXCEPT !.hit = Hit(kind, c, d)]
      BY <1>4, <1>5, <2>3
    <2> QED
      BY <1>3, <2>1, <2>2, <2>3
  <1> QED
    BY <1>1, <1>6 DEF AfterDialect, new, S

\* Time is the last of its steps: the recursive function of its definition exists.
IsAsked(kind, D, dialects, n, page, base, delay, asked) ==
  /\ asked \in [0..Len(dialects) -> Timings(kind, D)]
  /\ asked[0] = Unasked(n)
  /\ \A k \in 1..Len(dialects) :
       asked[k] = AfterDialect(asked[k - 1], kind, dialects[k], page, base, delay)
  /\ Time(kind, dialects, n, page, base, delay) = asked[Len(dialects)].hit

LEMMA TimeIsAsked ==
  ASSUME NEW D, NEW dialects \in Seq(D), NEW n \in Nat, NEW kind, NEW page, NEW base, NEW delay
  PROVE  \E asked : IsAsked(kind, D, dialects, n, page, base, delay, asked)
  <1> DEFINE S == Timings(kind, D)
             After(k, acc) == AfterDialect(acc, kind, dialects[k], page, base, delay)
             Step(f, k) == IF k = 0 THEN [n |-> n, over |-> FALSE, hit |-> Nothing]
                           ELSE IF f[k - 1].over \/ f[k - 1].hit # Nothing THEN f[k - 1]
                           ELSE AskDialect(f[k - 1], kind, dialects[k], page, base, delay)
             asked == CHOOSE f : f = [k \in 0..Len(dialects) |-> Step(f, k)]
             step == [k \in 1..Len(dialects) |-> [acc \in S |-> After(k, acc)]]
  <1>1. Time(kind, dialects, n, page, base, delay) = asked[Len(dialects)].hit
    BY DEF Time
  <1>2. Len(dialects) \in Nat /\ \A k \in 1..Len(dialects) : dialects[k] \in D
    OBVIOUS
  <1>3. Unasked(n) \in S
    BY DEF Unasked, Timings
  <1>4. \A k \in 1..Len(dialects) : \A acc \in S : After(k, acc) \in S
    BY <1>2, DialectIsTimed
  <1>5. \A f, k : Step(f, k) = IF k = 0 THEN Unasked(n) ELSE After(k, f[k - 1])
    BY DEF Unasked, AfterDialect
  <1> HIDE DEF S, After, Step
  <1>6. IsStep(Len(dialects), S, step)
    BY <1>4 DEF IsStep
  <1>7. PICK g : IsRecursive(Len(dialects), S, Unasked(n), step, g)
    <2> HIDE DEF step
    <2> QED
      BY <1>2, <1>3, <1>6, Recursion
  <1>8. \A k \in 0..Len(dialects) : k = 0 \/ (k # 0 /\ k \in 1..Len(dialects))
    BY <1>2
  <1>9. \A k \in 0..Len(dialects) : g[k] = Step(g, k)
    <2>1. \A k \in 1..Len(dialects) : g[k - 1] \in S
      BY <1>2, <1>7 DEF IsRecursive
    <2> QED
      BY <1>5, <1>7, <1>8, <2>1 DEF IsRecursive
  <1>10. g = [k \in 0..Len(dialects) |-> Step(g, k)]
    BY <1>7, <1>9 DEF IsRecursive
  <1>11. asked = [k \in 0..Len(dialects) |-> Step(asked, k)]
    BY <1>10
  <1> HIDE DEF asked
  <1>12. asked[0] = Unasked(n) /\ \A k \in 1..Len(dialects) : asked[k] = After(k, asked[k - 1])
    <2>1. 0 \in 0..Len(dialects) /\ \A k \in 1..Len(dialects) : k # 0 /\ k \in 0..Len(dialects)
      BY <1>2
    <2>2. \A k \in 0..Len(dialects) : asked[k] = Step(asked, k)
      BY <1>11
    <2> QED
      BY <1>5, <2>1, <2>2
  <1> DEFINE Ns == {k \in 0..Len(dialects) : asked[k] \in S}
  <1>13. 0 \in Ns /\ \A k \in 1..Len(dialects) : k - 1 \in Ns => k \in Ns
    BY <1>2, <1>3, <1>4, <1>12
  <1> HIDE DEF Ns
  <1>14. 0..Len(dialects) \subseteq Ns
    BY <1>2, <1>13, Upto
  <1>15. asked \in [0..Len(dialects) -> S]
    BY <1>11, <1>14 DEF Ns
  <1> QED
    BY <1>1, <1>12, <1>15 DEF IsAsked, After, S

\* A hit rests on the answers to three requests in a row.
LEMMA AHitIsSuspected ==
  ASSUME NEW D, NEW dialects \in Seq(D), NEW n \in Nat, NEW kind, NEW page, NEW base, NEW delay,
         Time(kind, dialects, n, page, base, delay) # Nothing
  PROVE  \E m \in Nat, d \in D, c \in {"MEDIUM", "HIGH"} :
           /\ Suspected(page, base, delay, m, d, c)
           /\ Time(kind, dialects, n, page, base, delay) = Hit(kind, c, d)
  <1> DEFINE Founded(acc) ==
               acc.hit # Nothing => \E m \in Nat, d \in D, c \in {"MEDIUM", "HIGH"} :
                 Suspected(page, base, delay, m, d, c) /\ acc.hit = Hit(kind, c, d)
  <1>1. PICK asked : IsAsked(kind, D, dialects, n, page, base, delay, asked)
    BY TimeIsAsked
  <1>2. ASSUME NEW acc \in Timings(kind, D), Founded(acc), NEW d \in D
        PROVE  Founded(AfterDialect(acc, kind, d, page, base, delay))
    <2> DEFINE new == AskDialect(acc, kind, d, page, base, delay)
    <2>1. acc.n \in Nat /\ "hit" \in DOMAIN acc
      BY DEF Timings
    <2>2. CASE acc.over \/ acc.hit # Nothing
      BY <1>2, <2>2 DEF AfterDialect
    <2>3. CASE ~(acc.over \/ acc.hit # Nothing)
      <3>1. \/ new = [acc EXCEPT !.over = TRUE]
            \/ \E k \in {2, 3} : new = [acc EXCEPT !.n = @ + k]
            \/ \E c \in {"MEDIUM", "HIGH"} :
                 Suspected(page, base, delay, acc.n, d, c) /\ new = [acc EXCEPT !.hit = Hit(kind, c, d)]
        BY OneDialect
      <3> HIDE DEF new
      <3>2. \/ new.hit = Nothing
            \/ \E c \in {"MEDIUM", "HIGH"} :
                 Suspected(page, base, delay, acc.n, d, c) /\ new.hit = Hit(kind, c, d)
        BY <2>1, <2>3, <3>1 DEF Timings
      <3>3. Founded(new)
        BY <2>1, <3>2
      <3> QED
        BY <2>3, <3>3 DEF AfterDialect, new
    <2> QED
      BY <2>2, <2>3
  <1>3. Founded(asked[0])
    BY <1>1 DEF IsAsked, Unasked
  <1>4. Len(dialects) \in Nat /\ \A k \in 1..Len(dialects) : dialects[k] \in D
    OBVIOUS
  <1> DEFINE Ns == {k \in 0..Len(dialects) : Founded(asked[k])}
  <1> HIDE DEF Founded
  <1>5. 0 \in Ns /\ \A k \in 1..Len(dialects) : k - 1 \in Ns => k \in Ns
    BY <1>1, <1>2, <1>3, <1>4 DEF IsAsked
  <1> HIDE DEF Ns
  <1>6. 0..Len(dialects) \subseteq Ns
    BY <1>4, <1>5, Upto
  <1>7. Founded(asked[Len(dialects)])
    BY <1>4, <1>6 DEF Ns
  <1> QED
    BY <1>1, <1>7 DEF IsAsked, Founded

\* checks/injection/detect (detect_time, _time): whatever the site, one request that is answered
\* late proves nothing at a delay of four seconds or more.  The half of it is two seconds at
\* least, so that a HIGH hit takes a second answer more than a second late; a MEDIUM one takes
\* a confirmation that went unanswered.
THEOREM OneSpikeProvesNothing ==
  ASSUME NEW D, NEW dialects \in Seq(D), NEW n \in Nat, NEW kind, NEW page, Timed(page, D),
         NEW base, base.ms \in Nat, NEW delay \in Nat, delay >= 4,
         NEW spike \in Nat, PromptBut(page, D, base, spike)
  PROVE  \/ Time(kind, dialects, n, page, base, delay) = Nothing
         \/ /\ Time(kind, dialects, n, page, base, delay).confidence = "MEDIUM"
            /\ ~Reliable(page, D)
  <1> DEFINE result == Time(kind, dialects, n, page, base, delay)
  <1>1. SUFFICES ASSUME result # Nothing
                 PROVE  result.confidence = "MEDIUM" /\ ~Reliable(page, D)
    OBVIOUS
  <1>2. PICK m \in Nat, d \in D, c \in {"MEDIUM", "HIGH"} :
          Suspected(page, base, delay, m, d, c) /\ result = Hit(kind, c, d)
    BY <1>1, AHitIsSuspected
  <1> HIDE DEF result
  <1> DEFINE half == Half(delay)
             q1 == [d |-> d, delay |-> 0]
             q2 == [d |-> d, delay |-> delay]
             q3 == [d |-> d, delay |-> half]
             floor == Floor(page, base, m, d)
  <1>3. half \in Nat /\ half >= 2
    BY HalfIsADelay
  <1>4. q1 \in Sleeps(D) /\ q2 \in Sleeps(D) /\ q3 \in Sleeps(D) /\ m + 1 \in Nat /\ m + 2 \in Nat /\ m + 3 \in Nat
    BY <1>3 DEF Sleeps
  <1>5. floor \in Nat /\ floor >= base.ms
    <2>1. Ask(page, m + 1, q1).ms \in Nat
      BY <1>4 DEF Timed
    <2> QED
      BY <2>1 DEF Floor, Control, Larger
  <1> HIDE DEF half, floor
  <1>6. CASE c = "MEDIUM"
    <2>1. ~Ask(page, m + 3, q3).ok
      BY <1>2, <1>6 DEF Suspected, Confirmation, half
    <2> QED
      BY <1>2, <1>4, <1>6, <2>1, HitIsSomething DEF Reliable
  <1>7. CASE c = "HIGH"
    <2>1. Ask(page, m + 2, q2).ms \in Nat /\ Ask(page, m + 3, q3).ms \in Nat
      BY <1>4 DEF Timed
    <2>2. Ask(page, m + 2, q2).ms - floor >= (delay - 1) * 1000
      BY <1>2 DEF Suspected, IsLate, Late, Slow, floor
    <2>3. Ask(page, m + 3, q3).ms - floor \in (half - 1) * 1000 .. (half + 2) * 1000
      BY <1>2, <1>7 DEF Suspected, Scales, Confirms, Confirmation, half, floor
    <2> DEFINE ms2 == Ask(page, m + 2, q2).ms
               ms3 == Ask(page, m + 3, q3).ms
    <2> HIDE DEF q2, q3
    <2>4. ms2 >= base.ms + 1000 /\ ms3 >= base.ms + 1000
      <3> HIDE DEF ms2, ms3
      <3>1. ms2 \in Nat /\ ms3 \in Nat /\ ms2 - floor >= (delay - 1) * 1000
            /\ ms3 - floor >= (half - 1) * 1000
        BY <1>3, <2>1, <2>2, <2>3 DEF ms2, ms3
      <3> QED
        BY <1>3, <1>5, <3>1
    <2>5. m + 2 = spike /\ m + 3 = spike
      <3>1. ~(Ask(page, m + 2, q2).ms < base.ms + 1000) /\ ~(Ask(page, m + 3, q3).ms < base.ms + 1000)
        BY <2>1, <2>4
      <3> QED
        BY <1>4, <3>1 DEF PromptBut
    <2> QED
      BY <2>5
  <1> QED
    BY <1>6, <1>7

\* checks/injection/detect (detect_time, _time): a dialect that makes the site sleep as long as it
\* is told, within a second, is found with HIGH confidence, whatever the delay and whatever the
\* site does to the dialects asked before it, as long as every request is answered.
THEOREM SleepersAreFound ==
  ASSUME NEW D, NEW dialects \in Seq(D), NEW n \in Nat, NEW kind, NEW page, Timed(page, D),
         NEW base, NEW delay \in Nat \ {0}, NEW usual \in Nat, base.ms \in usual .. (usual + 999),
         NEW sleeper \in 1..Len(dialects), SleepsOn(page, dialects[sleeper], usual),
         Reliable(page, D)
  PROVE  /\ Time(kind, dialects, n, page, base, delay) # Nothing
         /\ Time(kind, dialects, n, page, base, delay).confidence = "HIGH"
  <1> DEFINE s == dialects[sleeper]
             Going(acc) == ~acc.over /\ (acc.hit # Nothing => acc.hit.confidence = "HIGH")
  <1>1. PICK asked : IsAsked(kind, D, dialects, n, page, base, delay, asked)
    BY TimeIsAsked
  <1>2. Len(dialects) \in Nat /\ s \in D /\ \A k \in 1..Len(dialects) : dialects[k] \in D
    OBVIOUS
  <1>3. Half(delay) \in Nat /\ Half(delay) >= 1
    BY HalfIsADelay
  <1>4. \A m \in Nat, d \in D :
          Control(page, m, d).ok /\ Slow(page, m, d, delay).ok /\ Confirmation(page, m, d, delay).ok
    <2> SUFFICES ASSUME NEW m \in Nat, NEW d \in D
                 PROVE  Control(page, m, d).ok /\ Slow(page, m, d, delay).ok /\ Confirmation(page, m, d, delay).ok
      OBVIOUS
    <2>1. \A x \in Nat : [d |-> d, delay |-> x] \in Sleeps(D)
      BY DEF Sleeps
    <2> QED
      BY <1>3, <2>1 DEF Control, Slow, Confirmation, Reliable
  <1>5. \A m \in Nat : ~Dismissed(page, base, delay, m, s)
    <2> SUFFICES ASSUME NEW m \in Nat
                 PROVE  IsLate(page, base, delay, m, s) /\ Scales(page, base, delay, m, s)
      BY DEF Dismissed
    <2> DEFINE half == Half(delay)
               control == Control(page, m, s).ms
               slow == Slow(page, m, s, delay).ms
               confirm == Confirmation(page, m, s, delay).ms
               floor == Floor(page, base, m, s)
    <2>1. control \in usual .. (usual + 999)
      BY DEF Control, SleepsOn
    <2>2. slow \in (usual + 1000 * delay) .. (usual + 1000 * delay + 999)
      BY DEF Slow, SleepsOn
    <2>3. confirm \in (usual + 1000 * half) .. (usual + 1000 * half + 999)
      BY <1>3 DEF Confirmation, SleepsOn
    <2>4. floor \in usual .. (usual + 999)
      BY <2>1 DEF Floor, Larger
    <2> HIDE DEF half, control, slow, confirm, floor
    <2>5. half \in Nat /\ half >= 1
      BY <1>3 DEF half
    <2>6. slow - floor >= (delay - 1) * 1000
      BY <2>2, <2>4
    <2>7. confirm - floor \in (half - 1) * 1000 .. (half + 2) * 1000
      BY <2>3, <2>4, <2>5
    <2> QED
      BY <2>6, <2>7 DEF IsLate, Scales, Late, Confirms, half, slow, confirm, floor
  <1>6. ASSUME NEW acc \in Timings(kind, D), Going(acc), NEW d \in D
        PROVE  /\ Going(AfterDialect(acc, kind, d, page, base, delay))
               /\ d = s \/ acc.hit # Nothing => AfterDialect(acc, kind, d, page, base, delay).hit # Nothing
    <2> DEFINE new == AskDialect(acc, kind, d, page, base, delay)
    <2>1. acc.n \in Nat
      BY DEF Timings
    <2>2. CASE acc.hit # Nothing
      BY <1>6, <2>2 DEF AfterDialect
    <2>3. CASE acc.hit = Nothing
      <3>1. ~Unanswered(page, delay, acc.n, d) /\ (d = s => ~Dismissed(page, base, delay, acc.n, d))
            /\ ~Suspected(page, base, delay, acc.n, d, "MEDIUM")
        BY <1>4, <1>5, <2>1 DEF Unanswered, Suspected
      <3>2. \/ d # s /\ \E k \in {2, 3} : new = [acc EXCEPT !.n = @ + k]
            \/ new = [acc EXCEPT !.hit = Hit(kind, "HIGH", d)]
        BY <3>1, OneDialect
      <3>3. Hit(kind, "HIGH", d) # Nothing /\ Hit(kind, "HIGH", d).confidence = "HIGH"
        BY HitIsSomething
      <3> HIDE DEF new
      <3>4. Going(new) /\ (d = s => new.hit # Nothing)
        <4>1. CASE d # s /\ \E k \in {2, 3} : new = [acc EXCEPT !.n = @ + k]
          <5>1. new.hit = acc.hit /\ new.over = acc.over
            BY <4>1 DEF Timings
          <5> QED
            BY <1>6, <2>3, <4>1, <5>1
        <4>2. CASE new = [acc EXCEPT !.hit = Hit(kind, "HIGH", d)]
          <5>1. new.hit = Hit(kind, "HIGH", d) /\ new.over = acc.over
            BY <4>2 DEF Timings
          <5> QED
            BY <1>6, <3>3, <5>1
        <4> QED
          BY <3>2, <4>1, <4>2
      <3>5. AfterDialect(acc, kind, d, page, base, delay) = new
        BY <1>6, <2>3 DEF AfterDialect, new
      <3> QED
        BY <2>3, <3>4, <3>5
    <2> QED
      BY <2>2, <2>3
  <1> DEFINE Ns == {k \in 0..Len(dialects) : Going(asked[k]) /\ (k >= sleeper => asked[k].hit # Nothing)}
  <1>7. 0 \in Ns
    BY <1>1, <1>2 DEF IsAsked, Unasked
  <1> HIDE DEF s, Going
  <1>8. ASSUME NEW k \in 1..Len(dialects), k - 1 \in Ns PROVE k \in Ns
    <2>1. k - 1 \in 0..Len(dialects) /\ asked[k - 1] \in Timings(kind, D) /\ dialects[k] \in D
          /\ asked[k] = AfterDialect(asked[k - 1], kind, dialects[k], page, base, delay)
      <3> HIDE DEF Ns
      <3>1. k - 1 \in 0..Len(dialects) /\ dialects[k] \in D
        BY <1>2
      <3>2. asked \in [0..Len(dialects) -> Timings(kind, D)]
        BY <1>1 DEF IsAsked
      <3>3. asked[k] = AfterDialect(asked[k - 1], kind, dialects[k], page, base, delay)
        BY <1>1 DEF IsAsked
      <3> QED
        BY <3>1, <3>2, <3>3
    <2>2. Going(asked[k - 1]) /\ (k - 1 >= sleeper => asked[k - 1].hit # Nothing)
      BY <1>8
    <2>3. /\ Going(asked[k])
          /\ dialects[k] = s \/ asked[k - 1].hit # Nothing => asked[k].hit # Nothing
      BY <1>6, <2>1, <2>2
    <2>4. k >= sleeper => k = sleeper \/ k - 1 >= sleeper
      OBVIOUS
    <2> QED
      BY <2>2, <2>3, <2>4 DEF s
  <1> HIDE DEF Ns
  <1>9. 0..Len(dialects) \subseteq Ns
    BY <1>2, <1>7, <1>8, Upto
  <1>10. Going(asked[Len(dialects)]) /\ asked[Len(dialects)].hit # Nothing
    BY <1>2, <1>9 DEF Ns
  <1> QED
    BY <1>1, <1>10 DEF IsAsked, Going

-----------------------------------------------------------------------------
(* The passes after the injection pass.  What a pass carries, whatever the *)
(* site answers: R its answers, P the places a file may be at, H the hits, *)
(* b the budget.                                                           *)

Carried(R, P, H, b) ==
  {st \in [spent : 0..b, budget : {b}, cut : BOOLEAN, r : R \union {Refused}, at : P,
           hits : SUBSET H, stored : {"unknown", "no", "yes"}, started : 0..b] :
     st.cut => st.spent = b}
Answers(site, R) == \A n, q : Ask(site, n, q) \in R
\* Where an upload's answer says the file is, when there was one.
Linked(r, L) == r.ok => r.links \in Seq(L)
UploadsAreLinked(site, L) == \A n, p : Linked(Ask(site, n, [op |-> "upload", payload |-> p]), L)
Spots(L) ==
  L \union {"uploads", "files", "media", "upload", "static/uploads", "img", "assets", "beside",
            "root", "static", "nowhere", "refused", "taken"}

LEMMA Carrying ==
  ASSUME NEW R, NEW P, NEW H, NEW b \in Nat, NEW st \in Carried(R, P, H, b)
  PROVE  /\ st.spent \in 0..b /\ st.budget = b /\ st.cut \in BOOLEAN /\ st.r \in R \union {Refused}
         /\ st.at \in P /\ st.hits \in SUBSET H /\ st.started \in 0..b
         /\ st.cut => st.spent = b
         /\ Over(st) <=> st.spent = b
         /\ \A a \in P : [st EXCEPT !.at = a] \in Carried(R, P, H, b)
         /\ \A h \in SUBSET H : [st EXCEPT !.hits = h] \in Carried(R, P, H, b)
         /\ \A a \in P, h \in SUBSET H : [st EXCEPT !.at = a, !.hits = h] \in Carried(R, P, H, b)
         /\ \A x \in {"unknown", "no", "yes"} : [st EXCEPT !.stored = x] \in Carried(R, P, H, b)
         /\ \A n \in 0..b, x \in {"unknown", "no", "yes"}, h \in SUBSET H :
              [st EXCEPT !.started = n, !.stored = x, !.hits = h] \in Carried(R, P, H, b)
         /\ st.spent = b => [st EXCEPT !.cut = TRUE] \in Carried(R, P, H, b)
  <1> DEFINE K == Carried(R, P, H, b)
             M == {"unknown", "no", "yes"}
  <1>1. /\ st.spent \in 0..b /\ st.budget = b /\ st.cut \in BOOLEAN /\ st.r \in R \union {Refused}
        /\ st.at \in P /\ st.hits \in SUBSET H /\ st.started \in 0..b /\ st.stored \in M
        /\ st.cut => st.spent = b
    BY DEF Carried
  <1>2. Over(st) <=> st.spent = b
    BY <1>1 DEF Over
  <1>3. \A a \in P : [st EXCEPT !.at = a] \in K
    BY DEF Carried
  <1>4. \A h \in SUBSET H : [st EXCEPT !.hits = h] \in K
    BY DEF Carried
  <1>5. \A a \in P, h \in SUBSET H : [st EXCEPT !.at = a, !.hits = h] \in K
    BY DEF Carried
  <1>6. \A x \in M : [st EXCEPT !.stored = x] \in K
    BY DEF Carried
  <1>7. \A n \in 0..b, x \in M, h \in SUBSET H :
          [st EXCEPT !.started = n, !.stored = x, !.hits = h] \in K
    BY DEF Carried
  <1>8. st.spent = b => [st EXCEPT !.cut = TRUE] \in K
    BY DEF Carried
  <1> HIDE DEF K, M
  <1>9. /\ \A x \in {"unknown", "no", "yes"} : [st EXCEPT !.stored = x] \in K
        /\ \A n \in 0..b, x \in {"unknown", "no", "yes"}, h \in SUBSET H :
              [st EXCEPT !.started = n, !.stored = x, !.hits = h] \in K
    BY <1>6, <1>7 DEF M
  <1> QED
    BY <1>1, <1>2, <1>3, <1>4, <1>5, <1>8, <1>9 DEF K

\* A request is sent within the budget, or is not and that is recorded.
LEMMA Sending ==
  ASSUME NEW R, NEW P, NEW H, NEW b \in Nat, NEW st \in Carried(R, P, H, b), NEW q, NEW site,
         Answers(site, R)
  PROVE  /\ Send(st, q, site) \in Carried(R, P, H, b)
         /\ Send(st, q, site).r \in {Refused, Ask(site, st.spent + 1, q)}
         /\ Send(st, q, site).hits = st.hits
  <1>1. CASE Over(st)
    <2>1. st.spent = b
      BY <1>1 DEF Carried, Over
    <2> QED
      BY <1>1, <2>1 DEF Carried, Send
  <1>2. CASE ~Over(st)
    <2>1. st.spent < b /\ ~st.cut
      BY <1>2 DEF Carried, Over
    <2>2. Ask(site, st.spent + 1, q) \in R
      BY DEF Answers
    <2> DEFINE a == Ask(site, st.spent + 1, q)
               new == [st EXCEPT !.spent = @ + 1, !.r = a]
    <2>3. Send(st, q, site) = new
      BY <1>2 DEF Send, SendAnyway
    <2>4. a \in R
      BY <2>2
    <2> HIDE DEF a
    <2>5. st.spent + 1 \in 0..b
      BY <2>1 DEF Carried
    <2>6. new \in Carried(R, P, H, b)
      BY <2>1, <2>4, <2>5 DEF Carried
    <2>7. new.r = a /\ new.hits = st.hits
      BY DEF Carried
    <2> QED
      BY <2>3, <2>6, <2>7 DEF a
  <1> QED
    BY <1>1, <1>2

LEMMA Looking ==
  ASSUME NEW R, NEW P, NEW H, NEW b \in Nat, NEW st \in Carried(R, P, H, b), NEW site,
         Answers(site, R), NEW place \in P, NEW p
  PROVE  Look(st, place, p, site) \in Carried(R, P, H, b)
  <1> DEFINE got == Send(st, [op |-> "get", place |-> place, payload |-> p], site)
  <1>1. got \in Carried(R, P, H, b)
    BY Sending
  <1>2. [got EXCEPT !.at = place] \in Carried(R, P, H, b)
    <2> HIDE DEF got
    <2> QED
      BY <1>1, Carrying
  <1>3. Look(st, place, p, site) \in {st, got, [got EXCEPT !.at = place]}
    BY DEF Look
  <1> HIDE DEF got
  <1> QED
    BY <1>1, <1>2, <1>3

LEMMA PlacesAreSpots ==
  ASSUME NEW L, NEW links \in Seq(L), NEW p
  PROVE  Places(links, p) \in Seq(Spots(L))
  <1> DEFINE tail == IF p.family = "traversal" THEN <<"root", "static">> ELSE <<>>
             list == links \o UploadDirs \o <<"beside">> \o tail
  <1>1. links \in Seq(Spots(L))
    BY DEF Spots
  <1>2. UploadDirs \in Seq(Spots(L)) /\ <<"beside">> \in Seq(Spots(L))
    <2>1. /\ "uploads" \in Spots(L) /\ "files" \in Spots(L) /\ "media" \in Spots(L)
          /\ "upload" \in Spots(L) /\ "static/uploads" \in Spots(L) /\ "img" \in Spots(L)
          /\ "assets" \in Spots(L) /\ "beside" \in Spots(L)
      BY DEF Spots
    <2> QED
      BY <2>1 DEF UploadDirs
  <1>3. tail \in Seq(Spots(L))
    <2>1. "root" \in Spots(L) /\ "static" \in Spots(L)
      BY DEF Spots
    <2> QED
      BY <2>1
  <1> HIDE DEF tail
  <1>4. list \in Seq(Spots(L))
    BY <1>1, <1>2, <1>3
  <1> HIDE DEF list
  <1>5. Distinct(list) \in Seq(Spots(L))
    BY <1>4, AtSelects DEF Distinct
  <1> QED
    BY <1>5 DEF Places, list, tail

\* What goes from one member of S to another stays in it.
LEMMA Staying ==
  ASSUME NEW n \in Nat, NEW S, NEW f, f[0] \in S, \A k \in 1..n : f[k - 1] \in S => f[k] \in S
  PROVE  f[n] \in S
  <1> DEFINE Ns == {k \in 0..n : f[k] \in S}
  <1>1. 0 \in Ns /\ \A k \in 1..n : k - 1 \in Ns => k \in Ns
    OBVIOUS
  <1> HIDE DEF Ns
  <1>2. 0..n \subseteq Ns
    BY <1>1, Upto
  <1> QED
    BY <1>2 DEF Ns

LEMMA Retrieving ==
  ASSUME NEW R, NEW L, NEW H, NEW b \in Nat, NEW st \in Carried(R, Spots(L), H, b), NEW site,
         Answers(site, R), NEW links \in Seq(L), NEW p
  PROVE  Retrieve(st, links, p, site) \in Carried(R, Spots(L), H, b)
  <1> DEFINE K == Carried(R, Spots(L), H, b)
             places == Places(links, p)
             n == Len(places)
             start == [st EXCEPT !.at = "nowhere"]
             Step(f, k) == IF k = 0 THEN start ELSE Look(f[k - 1], places[k], p, site)
             looked == CHOOSE f : f = [k \in 0..n |-> Step(f, k)]
             step == [k \in 1..n |-> [x \in K |-> Look(x, places[k], p, site)]]
  <1>1. Retrieve(st, links, p, site) = looked[n]
    BY DEF Retrieve
  <1>2. places \in Seq(Spots(L))
    BY PlacesAreSpots
  <1> HIDE DEF places
  <1>3. n \in Nat /\ \A k \in 1..n : places[k] \in Spots(L)
    BY <1>2
  <1>4. start \in K
    <2>1. "nowhere" \in Spots(L)
      BY DEF Spots
    <2> QED
      BY <2>1, Carrying
  <1>5. \A k \in 1..n : \A x \in K : Look(x, places[k], p, site) \in K
    BY <1>3, Looking
  <1> HIDE DEF K, start, n
  <1>6. IsStep(n, K, step)
    BY <1>5 DEF IsStep
  <1>7. PICK g : IsRecursive(n, K, start, step, g)
    <2> HIDE DEF step
    <2> QED
      BY <1>3, <1>4, <1>6, Recursion
  <1>8. g = [k \in 0..n |-> Step(g, k)]
    <2>1. \A k \in 0..n : k = 0 \/ (k # 0 /\ k \in 1..n)
      BY <1>3
    <2>2. \A k \in 1..n : g[k - 1] \in K
      BY <1>3, <1>7 DEF IsRecursive
    <2>3. \A k \in 0..n : g[k] = Step(g, k)
      BY <1>7, <2>1, <2>2 DEF IsRecursive
    <2> QED
      BY <1>7, <2>3 DEF IsRecursive
  <1>9. looked = [k \in 0..n |-> Step(looked, k)]
    BY <1>8
  <1> HIDE DEF looked
  <1>10. looked[0] = start /\ \A k \in 1..n : looked[k] = Look(looked[k - 1], places[k], p, site)
    <2>1. 0 \in 0..n /\ \A k \in 1..n : k # 0 /\ k \in 0..n
      BY <1>3
    <2> QED
      BY <1>9, <2>1
  <1>11. looked[n] \in K
    <2>1. looked[0] \in K /\ \A k \in 1..n : looked[k - 1] \in K => looked[k] \in K
      BY <1>4, <1>5, <1>10
    <2> QED
      BY <1>3, <2>1, Staying
  <1> QED
    BY <1>1, <1>11 DEF K

Outcomes == {"server-exec", "traversal", "inline-html", "inert-accept", "nothing", "put-page", "put-text"}
Uploading(R, L, b) == Carried(R, Spots(L), Outcomes, b)

\* A refused request has no answer, and the answer to an upload links what it links.
LEMMA UploadsLinked ==
  ASSUME NEW R, NEW L, NEW b \in Nat, NEW st \in Uploading(R, L, b), NEW site, Answers(site, R),
         UploadsAreLinked(site, L), NEW p
  PROVE  Linked(Send(st, [op |-> "upload", payload |-> p], site).r, L)
  <1>1. \A q : Send(st, q, site).r \in {Refused, Ask(site, st.spent + 1, q)}
    BY Sending DEF Uploading
  <1>2. Linked(Refused, L)
    BY DEF Linked, Refused
  <1> QED
    BY <1>1, <1>2 DEF UploadsAreLinked

LEMMA TryingPayload ==
  ASSUME NEW R, NEW L, NEW b \in Nat, NEW st \in Uploading(R, L, b), NEW site, Answers(site, R),
         UploadsAreLinked(site, L), NEW base, Linked(base, L), NEW p
  PROVE  TryPayload(st, base, p, site) \in Uploading(R, L, b)
  <1> DEFINE K == Uploading(R, L, b)
             reply == Send(st, [op |-> "upload", payload |-> p], site)
             up == reply.r
             looked == Retrieve(reply, base.links, Benign, site)
             asks == SameAnswer(base, up) /\ reply.stored = "unknown"
             checked == IF asks
                        THEN [looked EXCEPT !.stored = IF looked.at = "nowhere" THEN "no" ELSE "yes"]
                        ELSE reply
             found == Retrieve(checked, up.links, p, site)
             some == found.hits \union ({ServedAs(p, found.r, found.at)} \ {"nothing"})
             cut == [st EXCEPT !.cut = TRUE]
             taken == [found EXCEPT !.hits = some]
  <1>1. reply \in K /\ Linked(up, L)
    BY Sending, UploadsLinked DEF Uploading
  <1> HIDE DEF reply
  <1>2. checked \in K
    <2>1. CASE asks
      <3>1. base.links \in Seq(L)
        BY <2>1 DEF SameAnswer, Linked
      <3>2. looked \in K
        BY <1>1, <3>1, Retrieving DEF Uploading
      <3> HIDE DEF looked
      <3> QED
        BY <2>1, <3>2, Carrying DEF Uploading
    <2>2. CASE ~asks
      BY <1>1, <2>2
    <2> QED
      BY <2>1, <2>2
  <1> HIDE DEF checked
  <1>3. ASSUME up.ok PROVE found \in K /\ taken \in K
    <2>1. up.links \in Seq(L)
      BY <1>1, <1>3 DEF Linked
    <2>2. found \in K
      BY <1>2, <2>1, Retrieving DEF Uploading
    <2>3. ServedAs(p, found.r, found.at) \in Outcomes
      BY DEF ServedAs, Outcomes
    <2> HIDE DEF found
    <2>4. found.hits \in SUBSET Outcomes
      BY <2>2 DEF Uploading, Carried
    <2>5. some \in SUBSET Outcomes
      BY <2>3, <2>4
    <2> HIDE DEF some
    <2>6. \A h \in SUBSET Outcomes : [found EXCEPT !.hits = h] \in K
      BY <2>2, Carrying DEF Uploading
    <2> QED
      BY <2>2, <2>5, <2>6
  <1>4. Over(st) => cut \in K
    BY Carrying DEF Uploading
  <1>5. TryPayload(st, base, p, site) =
          IF Over(st) THEN cut
          ELSE IF st.spent - st.started >= PerFormCap THEN st
          ELSE IF ~up.ok \/ (base.ok /\ base.status < 400 /\ up.status >= 400) THEN reply
          ELSE IF SameAnswer(base, up) /\ checked.stored = "no" THEN checked
          ELSE IF found.at = "nowhere" THEN found ELSE taken
    BY DEF TryPayload, reply, checked
  <1> HIDE DEF K, up, found, cut, taken
  <1> QED
    BY <1>1, <1>2, <1>3, <1>4, <1>5 DEF K

LEMMA ProbingForm ==
  ASSUME NEW R, NEW L, NEW b \in Nat, NEW st \in Uploading(R, L, b), NEW site, Answers(site, R),
         UploadsAreLinked(site, L)
  PROVE  ProbeForm(st, site) \in Uploading(R, L, b)
  <1> DEFINE K == Uploading(R, L, b)
             benign == Send(st, [op |-> "upload", payload |-> Benign], site)
             base == benign.r
             n == Len(Payloads)
             start == [benign EXCEPT !.started = benign.spent, !.stored = "unknown", !.hits = {}]
             Step(f, k) == IF k = 0 THEN start ELSE TryPayload(f[k - 1], base, Payloads[k], site)
             tried == CHOOSE f : f = [k \in 0..n |-> Step(f, k)]
             step == [k \in 1..n |-> [x \in K |-> TryPayload(x, base, Payloads[k], site)]]
             new == tried[n]
             some == st.hits \union (IF new.hits \ {"inert-accept"} # {} THEN new.hits \ {"inert-accept"}
                                     ELSE new.hits)
  <1>1. ProbeForm(st, site) = [new EXCEPT !.hits = some]
    BY DEF ProbeForm
  <1>2. benign \in K /\ Linked(base, L)
    BY Sending, UploadsLinked DEF Uploading
  <1> HIDE DEF benign
  <1>3. n \in Nat
    BY DEF Payloads
  <1>4. start \in K
    <2>1. benign.spent \in 0..b
      BY <1>2, Carrying DEF Uploading
    <2> QED
      BY <1>2, <2>1, Carrying DEF Uploading
  <1>5. \A k \in 1..n : \A x \in K : TryPayload(x, base, Payloads[k], site) \in K
    BY <1>2, TryingPayload
  <1> HIDE DEF K, start, n, base
  <1>6. IsStep(n, K, step)
    BY <1>5 DEF IsStep
  <1>7. PICK g : IsRecursive(n, K, start, step, g)
    <2> HIDE DEF step
    <2> QED
      BY <1>3, <1>4, <1>6, Recursion
  <1>8. g = [k \in 0..n |-> Step(g, k)]
    <2>1. \A k \in 0..n : k = 0 \/ (k # 0 /\ k \in 1..n)
      BY <1>3
    <2>2. \A k \in 1..n : g[k - 1] \in K
      BY <1>3, <1>7 DEF IsRecursive
    <2>3. \A k \in 0..n : g[k] = Step(g, k)
      BY <1>7, <2>1, <2>2 DEF IsRecursive
    <2> QED
      BY <1>7, <2>3 DEF IsRecursive
  <1>9. tried = [k \in 0..n |-> Step(tried, k)]
    BY <1>8
  <1> HIDE DEF tried
  <1>10. tried[0] = start /\ \A k \in 1..n : tried[k] = TryPayload(tried[k - 1], base, Payloads[k], site)
    <2>1. 0 \in 0..n /\ \A k \in 1..n : k # 0 /\ k \in 0..n
      BY <1>3
    <2> QED
      BY <1>9, <2>1
  <1>11. new \in K
    <2>1. tried[0] \in K /\ \A k \in 1..n : tried[k - 1] \in K => tried[k] \in K
      BY <1>4, <1>5, <1>10
    <2> QED
      BY <1>3, <2>1, Staying
  <1> HIDE DEF new
  <1>12. some \in SUBSET Outcomes
    <2>1. st.hits \in SUBSET Outcomes
      BY DEF Uploading, Carried
    <2>2. new.hits \in SUBSET Outcomes
      BY <1>11 DEF K, Uploading, Carried
    <2> QED
      BY <2>1, <2>2
  <1> HIDE DEF some
  <1>13. \A h \in SUBSET Outcomes : [new EXCEPT !.hits = h] \in K
    BY <1>11, Carrying DEF K, Uploading
  <1> QED
    BY <1>1, <1>12, <1>13 DEF K

LEMMA Putting ==
  ASSUME NEW R, NEW L, NEW b \in Nat, NEW st \in Uploading(R, L, b), NEW site, Answers(site, R)
  PROVE  ProbePut(st, site) \in Uploading(R, L, b)
  <1> DEFINE K == Uploading(R, L, b)
             Put(s, kind) ==
               LET put == Send(s, [op |-> "put", kind |-> kind], site)
                   got == Send(put, [op |-> "get put", kind |-> kind], site)
               IN IF ~put.r.ok \/ put.r.status \notin {200, 201, 204} THEN [put EXCEPT !.at = "refused"]
                  ELSE IF got.r.ok /\ got.r.served
                  THEN [got EXCEPT !.at = "taken",
                                   !.hits = @ \union {IF kind = "page" THEN "put-page" ELSE "put-text"}]
                  ELSE [got EXCEPT !.at = "taken"]
  <1>1. ASSUME NEW s \in K, NEW kind PROVE Put(s, kind) \in K
    <2> DEFINE put == Send(s, [op |-> "put", kind |-> kind], site)
               got == Send(put, [op |-> "get put", kind |-> kind], site)
               some == got.hits \union {IF kind = "page" THEN "put-page" ELSE "put-text"}
    <2>1. put \in K
      BY <1>1, Sending DEF Uploading
    <2>2. got \in K
      <3> HIDE DEF put
      <3> QED
        BY <2>1, Sending DEF Uploading
    <2>3. Put(s, kind) \in {[put EXCEPT !.at = "refused"], [got EXCEPT !.at = "taken", !.hits = some],
                            [got EXCEPT !.at = "taken"]}
      OBVIOUS
    <2> HIDE DEF put, got, Put
    <2>4. some \in SUBSET Outcomes
      <3>1. got.hits \in SUBSET Outcomes
        BY <2>2 DEF Uploading, Carried
      <3> QED
        BY <3>1 DEF Outcomes
    <2> HIDE DEF some
    <2>5. "refused" \in Spots(L) /\ "taken" \in Spots(L)
      BY DEF Spots
    <2>6. [put EXCEPT !.at = "refused"] \in K
      BY <2>1, <2>5, Carrying DEF Uploading
    <2>7. [got EXCEPT !.at = "taken"] \in K
      BY <2>2, <2>5, Carrying DEF Uploading
    <2>8. [got EXCEPT !.at = "taken", !.hits = some] \in K
      BY <2>2, <2>4, <2>5, Carrying DEF Uploading
    <2> QED
      BY <2>3, <2>6, <2>7, <2>8
  <1>2. ProbePut(st, site) = IF Put(st, "text").at = "refused" THEN Put(st, "text")
                             ELSE Put(Put(st, "text"), "page")
    BY DEF ProbePut
  <1> HIDE DEF Put
  <1>3. Put(st, "text") \in K
    BY <1>1
  <1>4. Put(Put(st, "text"), "page") \in K
    BY <1>1, <1>3
  <1> QED
    BY <1>2, <1>3, <1>4 DEF K

\* checks/upload/scanner.py (run): whatever the site answers and wherever it says the files are,
\* the upload pass sends no more requests than its budget, and when something was left out
\* because the budget was gone, it says so.
THEOREM UploadKeepsItsBudget ==
  ASSUME NEW R, NEW L, NEW F, NEW forms \in Seq(F), NEW limit \in Nat, NEW site, Answers(site, R),
         UploadsAreLinked(site, L)
  PROVE  /\ UploadRun(forms, limit, site).spent \in 0..limit
         /\ UploadRun(forms, limit, site).cut => UploadRun(forms, limit, site).warned
  <1> DEFINE K == Uploading(R, L, limit)
             n == Len(forms)
             start == Start(limit)
             After(x) == IF Over(x) THEN [x EXCEPT !.cut = TRUE] ELSE ProbeForm(x, site)
             Step(f, k) == IF k = 0 THEN start
                           ELSE IF Over(f[k - 1]) THEN [f[k - 1] EXCEPT !.cut = TRUE]
                           ELSE ProbeForm(f[k - 1], site)
             probed == CHOOSE f : f = [k \in 0..n |-> Step(f, k)]
             step == [k \in 1..n |-> [x \in K |-> After(x)]]
             end == ProbePut(probed[n], site)
  <1>1. UploadRun(forms, limit, site) =
          [hits |-> end.hits, spent |-> end.spent, cut |-> end.cut, warned |-> Over(end)]
    BY DEF UploadRun
  <1>2. n \in Nat
    OBVIOUS
  <1>3. start \in K
    <2>1. "nowhere" \in Spots(L) /\ limit \in 0..limit /\ 0 \in 0..limit
      BY DEF Spots
    <2> QED
      BY <2>1 DEF Start, Uploading, Carried
  <1>4. \A x \in K : After(x) \in K
    <2>1. \A x \in K : Over(x) => [x EXCEPT !.cut = TRUE] \in K
      BY Carrying DEF Uploading
    <2>2. \A x \in K : ProbeForm(x, site) \in K
      BY ProbingForm
    <2> QED
      BY <2>1, <2>2
  <1>5. \A f, k : Step(f, k) = IF k = 0 THEN start ELSE After(f[k - 1])
    OBVIOUS
  <1> HIDE DEF K, start, n, After, Step
  <1>6. IsStep(n, K, step)
    BY <1>4 DEF IsStep
  <1>7. PICK g : IsRecursive(n, K, start, step, g)
    <2> HIDE DEF step
    <2> QED
      BY <1>2, <1>3, <1>6, Recursion
  <1>8. g = [k \in 0..n |-> Step(g, k)]
    <2>1. \A k \in 0..n : k = 0 \/ (k # 0 /\ k \in 1..n)
      BY <1>2
    <2>2. \A k \in 1..n : g[k - 1] \in K
      BY <1>2, <1>7 DEF IsRecursive
    <2>3. \A k \in 0..n : g[k] = Step(g, k)
      BY <1>5, <1>7, <2>1, <2>2 DEF IsRecursive
    <2> QED
      BY <1>7, <2>3 DEF IsRecursive
  <1>9. probed = [k \in 0..n |-> Step(probed, k)]
    BY <1>8
  <1> HIDE DEF probed
  <1>10. probed[0] = start /\ \A k \in 1..n : probed[k] = After(probed[k - 1])
    <2>1. 0 \in 0..n /\ \A k \in 1..n : k # 0 /\ k \in 0..n
      BY <1>2
    <2>2. \A k \in 0..n : probed[k] = Step(probed, k)
      BY <1>9
    <2> QED
      BY <1>5, <2>1, <2>2
  <1>11. probed[n] \in K
    <2>1. probed[0] \in K /\ \A k \in 1..n : probed[k - 1] \in K => probed[k] \in K
      BY <1>3, <1>4, <1>10
    <2> QED
      BY <1>2, <2>1, Staying
  <1>12. end \in K
    BY <1>11, Putting DEF K
  <1> HIDE DEF end
  <1>13. end.spent \in 0..limit /\ (end.cut => Over(end))
    BY <1>12, Carrying DEF K, Uploading
  <1> QED
    BY <1>1, <1>13

Ways == {"Host", "X-Forwarded-Host", "X-Forwarded-Server", "X-Host", "OPTIONS", "TRACE"}
EnvelopeHits(U) ==
  {<<kind, u, way, severity>> : kind \in {"host", "methods"}, u \in U, way \in Ways,
                                severity \in {"HIGH", "MEDIUM"}}
Enveloping(R, U, b) == Carried(R, {"nowhere", "found", "traced"}, EnvelopeHits(U), b)

LEMMA TryingVector ==
  ASSUME NEW R, NEW U, NEW b \in Nat, NEW st \in Enveloping(R, U, b), NEW site, Answers(site, R),
         NEW url \in U, NEW v \in Ways
  PROVE  TryVector(st, url, v, site) \in Enveloping(R, U, b)
  <1> DEFINE K == Enveloping(R, U, b)
             got == Send(st, [op |-> "GET", url |-> url, header |-> v], site)
             one == <<"host", url, v, IF got.r.where = "Location" \/ got.r.reset THEN "HIGH" ELSE "MEDIUM">>
             some == got.hits \union {one}
  <1>1. got \in K
    BY Sending DEF Enveloping
  <1>2. TryVector(st, url, v, site) \in {st, got, [got EXCEPT !.at = "found", !.hits = some]}
    BY DEF TryVector
  <1>3. one \in EnvelopeHits(U)
    BY DEF EnvelopeHits
  <1> HIDE DEF got, one
  <1>4. some \in SUBSET EnvelopeHits(U)
    <2>1. got.hits \in SUBSET EnvelopeHits(U)
      BY <1>1 DEF Enveloping, Carried
    <2> QED
      BY <1>3, <2>1
  <1> HIDE DEF some
  <1>5. [got EXCEPT !.at = "found", !.hits = some] \in K
    BY <1>1, <1>4, Carrying DEF Enveloping
  <1> QED
    BY <1>1, <1>2, <1>5

LEMMA AskingOptions ==
  ASSUME NEW R, NEW U, NEW b \in Nat, NEW st \in Enveloping(R, U, b), NEW site, Answers(site, R),
         NEW url \in U
  PROVE  Options(st, url, site) \in Enveloping(R, U, b)
  <1> DEFINE K == Enveloping(R, U, b)
             got == Send(st, [op |-> "OPTIONS", url |-> url, header |-> "none"], site)
             one == <<"methods", url, "OPTIONS", "MEDIUM">>
             some == got.hits \union {one}
  <1>1. got \in K
    BY Sending DEF Enveloping
  <1>2. Options(st, url, site) \in {got, [got EXCEPT !.hits = some]}
    BY DEF Options
  <1>3. one \in EnvelopeHits(U)
    BY DEF EnvelopeHits, Ways
  <1> HIDE DEF got, one
  <1>4. some \in SUBSET EnvelopeHits(U)
    <2>1. got.hits \in SUBSET EnvelopeHits(U)
      BY <1>1 DEF Enveloping, Carried
    <2> QED
      BY <1>3, <2>1
  <1> HIDE DEF some
  <1>5. [got EXCEPT !.hits = some] \in K
    BY <1>1, <1>4, Carrying DEF Enveloping
  <1> QED
    BY <1>1, <1>2, <1>5

LEMMA Tracing ==
  ASSUME NEW R, NEW U, NEW b \in Nat, NEW st \in Enveloping(R, U, b), NEW site, Answers(site, R),
         NEW url \in U
  PROVE  Trace(st, url, site) \in Enveloping(R, U, b)
  <1> DEFINE K == Enveloping(R, U, b)
             got == Send(st, [op |-> "TRACE", url |-> url, header |-> "none"], site)
             one == <<"methods", url, "TRACE", "MEDIUM">>
             some == got.hits \union {one}
  <1>1. got \in K
    BY Sending DEF Enveloping
  <1>2. Trace(st, url, site) \in {st, got, [got EXCEPT !.at = "traced", !.hits = some]}
    BY DEF Trace
  <1>3. one \in EnvelopeHits(U)
    BY DEF EnvelopeHits, Ways
  <1> HIDE DEF got, one
  <1>4. some \in SUBSET EnvelopeHits(U)
    <2>1. got.hits \in SUBSET EnvelopeHits(U)
      BY <1>1 DEF Enveloping, Carried
    <2> QED
      BY <1>3, <2>1
  <1> HIDE DEF some
  <1>5. [got EXCEPT !.at = "traced", !.hits = some] \in K
    BY <1>1, <1>4, Carrying DEF Enveloping
  <1> QED
    BY <1>1, <1>2, <1>5

\* Nothing is sent once the budget is gone.
LEMMA TraceAddsNothing ==
  ASSUME NEW R, NEW U, NEW b \in Nat, NEW st \in Enveloping(R, U, b), NEW site, NEW url, st.spent = b
  PROVE  Trace(st, url, site).spent = b
  <1>1. Over(st)
    BY Carrying DEF Enveloping
  <1>2. \A q : Send(st, q, site) = [st EXCEPT !.r = Refused, !.cut = TRUE]
    BY <1>1 DEF Send
  <1> DEFINE new == [st EXCEPT !.r = Refused, !.cut = TRUE]
  <1>3. new.spent = b /\ new.r = Refused
    BY DEF Enveloping, Carried
  <1>4. ~Refused.ok
    BY DEF Refused
  <1> QED
    BY <1>2, <1>3, <1>4 DEF Trace

LEMMA PoisoningHost ==
  ASSUME NEW R, NEW U, NEW b \in Nat, NEW st \in Enveloping(R, U, b), NEW site, Answers(site, R),
         NEW url \in U, NEW base
  PROVE  HostHeader(st, url, base, site) \in Enveloping(R, U, b)
  <1> DEFINE K == Enveloping(R, U, b)
             n == Len(Vectors)
             start == [st EXCEPT !.at = "nowhere"]
             Step(f, k) == IF k = 0 THEN start ELSE TryVector(f[k - 1], url, Vectors[k], site)
             tried == CHOOSE f : f = [k \in 0..n |-> Step(f, k)]
             step == [k \in 1..n |-> [x \in K |-> TryVector(x, url, Vectors[k], site)]]
  <1>1. HostHeader(st, url, base, site) \in {st, tried[n]}
    BY DEF HostHeader
  <1>2. n = 4 /\ \A k \in 1..n : Vectors[k] \in Ways
    BY DEF Vectors, Ways
  <1>3. start \in K
    BY Carrying DEF Enveloping
  <1>4. \A k \in 1..n : \A x \in K : TryVector(x, url, Vectors[k], site) \in K
    BY <1>2, TryingVector
  <1> HIDE DEF K, start, n
  <1>5. IsStep(n, K, step)
    BY <1>4 DEF IsStep
  <1>6. PICK g : IsRecursive(n, K, start, step, g)
    <2> HIDE DEF step
    <2> QED
      BY <1>2, <1>3, <1>5, Recursion
  <1>7. g = [k \in 0..n |-> Step(g, k)]
    <2>1. \A k \in 0..n : k = 0 \/ (k # 0 /\ k \in 1..n)
      BY <1>2
    <2>2. \A k \in 1..n : g[k - 1] \in K
      BY <1>2, <1>6 DEF IsRecursive
    <2>3. \A k \in 0..n : g[k] = Step(g, k)
      BY <1>6, <2>1, <2>2 DEF IsRecursive
    <2> QED
      BY <1>6, <2>3 DEF IsRecursive
  <1>8. tried = [k \in 0..n |-> Step(tried, k)]
    BY <1>7
  <1> HIDE DEF tried
  <1>9. tried[0] = start /\ \A k \in 1..n : tried[k] = TryVector(tried[k - 1], url, Vectors[k], site)
    <2>1. 0 \in 0..n /\ \A k \in 1..n : k # 0 /\ k \in 0..n
      BY <1>2
    <2> QED
      BY <1>8, <2>1
  <1>10. tried[n] \in K
    <2>1. tried[0] \in K /\ \A k \in 1..n : tried[k - 1] \in K => tried[k] \in K
      BY <1>3, <1>4, <1>9
    <2> QED
      BY <1>2, <2>1, Staying
  <1> QED
    BY <1>1, <1>10 DEF K

\* What the walk over the sample carries: it warns only when the budget is gone.
Walks(R, U, b) ==
  {w \in [st : Enveloping(R, U, b), warned : BOOLEAN, done : Seq(U)] : w.warned => w.st.spent = b}

LEMMA ProbingUrl ==
  ASSUME NEW R, NEW U, NEW b \in Nat, NEW acc \in Walks(R, U, b), NEW site, Answers(site, R),
         NEW url \in U
  PROVE  /\ ProbeUrl(acc, url, site) \in Walks(R, U, b)
         /\ ~ProbeUrl(acc, url, site).warned =>
              ~acc.warned /\ ProbeUrl(acc, url, site).done = Append(acc.done, url)
  <1> DEFINE K == Enveloping(R, U, b)
             base == Send(acc.st, [op |-> "GET", url |-> url, header |-> "none"], site)
             poisoned == HostHeader(base, url, base.r, site)
             asked == Options(poisoned, url, site)
             st == IF ~base.r.ok THEN base ELSE asked
             new == ProbeUrl(acc, url, site)
  <1>1. acc.st \in K /\ acc.warned \in BOOLEAN /\ acc.done \in Seq(U)
        /\ (acc.warned => acc.st.spent = b)
    BY DEF Walks
  <1>2. base \in K
    BY <1>1, Sending DEF Enveloping
  <1> HIDE DEF base
  <1>3. poisoned \in K
    BY <1>2, PoisoningHost
  <1> HIDE DEF poisoned
  <1>4. asked \in K
    BY <1>3, AskingOptions
  <1>5. new = IF acc.warned \/ Over(acc.st) THEN [acc EXCEPT !.warned = TRUE]
              ELSE [acc EXCEPT !.st = st, !.done = Append(@, url)]
    BY DEF ProbeUrl, base, poisoned
  <1> HIDE DEF asked
  <1>6. st \in K
    BY <1>2, <1>4
  <1> HIDE DEF new, st
  <1>7. CASE acc.warned \/ Over(acc.st)
    <2>1. acc.st.spent = b
      <3>1. \A x \in K : Over(x) <=> x.spent = b
        <4> SUFFICES ASSUME NEW x \in K PROVE Over(x) <=> x.spent = b
          OBVIOUS
        <4>1. x.spent \in 0..b /\ x.budget = b
          BY DEF Enveloping, Carried
        <4> QED
          BY <4>1 DEF Over
      <3> QED
        BY <1>1, <1>7, <3>1
    <2>2. new = [acc EXCEPT !.warned = TRUE]
      BY <1>5, <1>7
    <2> HIDE DEF K
    <2>3. new.warned /\ new.st = acc.st /\ new.done = acc.done
      BY <2>2 DEF Walks
    <2>4. new \in Walks(R, U, b)
      BY <2>1, <2>2 DEF Walks
    <2> QED
      BY <2>3, <2>4 DEF new
  <1>8. CASE ~(acc.warned \/ Over(acc.st))
    <2>1. new = [acc EXCEPT !.st = st, !.done = Append(@, url)]
      BY <1>5, <1>8
    <2>2. Append(acc.done, url) \in Seq(U)
      BY <1>1
    <2>3. new.warned = acc.warned /\ new.st = st /\ new.done = Append(acc.done, url)
      BY <2>1 DEF Walks
    <2>4. new \in Walks(R, U, b)
      BY <1>6, <1>8, <2>1, <2>2 DEF Walks
    <2> QED
      BY <1>8, <2>3, <2>4 DEF new
  <1> QED
    BY <1>7, <1>8

\* The walk of run over the sample: it exists, it stays within the budget, and as long as it has
\* not warned it has begun every URL so far.
IsWalk(R, U, sample, limit, walked) ==
  /\ walked[Len(sample)] \in Walks(R, U, limit)
  /\ ~walked[Len(sample)].warned => walked[Len(sample)].done = sample
Walked(sample, limit, site) ==
  CHOOSE f : f = [k \in 0..Len(sample) |->
    IF k = 0 THEN [st |-> Start(limit), warned |-> FALSE, done |-> <<>>]
    ELSE ProbeUrl(f[k - 1], sample[k], site)]

LEMMA Walking ==
  ASSUME NEW R, NEW U, NEW sample \in Seq(U), NEW limit \in Nat, NEW site, Answers(site, R)
  PROVE  IsWalk(R, U, sample, limit, Walked(sample, limit, site))
  <1> DEFINE W == Walks(R, U, limit)
             n == Len(sample)
             start == [st |-> Start(limit), warned |-> FALSE, done |-> <<>>]
             Step(f, k) == IF k = 0 THEN start ELSE ProbeUrl(f[k - 1], sample[k], site)
             walked == CHOOSE f : f = [k \in 0..n |-> Step(f, k)]
             step == [k \in 1..n |-> [x \in W |-> ProbeUrl(x, sample[k], site)]]
  <1>1. Walked(sample, limit, site) = walked
    BY DEF Walked
  <1>2. n \in Nat /\ \A k \in 1..n : sample[k] \in U
    OBVIOUS
  <1>3. start \in W
    <2>1. Start(limit) \in Enveloping(R, U, limit)
      <3>1. limit \in 0..limit /\ 0 \in 0..limit
        OBVIOUS
      <3> QED
        BY <3>1 DEF Start, Enveloping, Carried
    <2> QED
      BY <2>1 DEF Walks
  <1>4. \A k \in 1..n : \A x \in W : ProbeUrl(x, sample[k], site) \in W
    BY <1>2, ProbingUrl
  <1>5. start.done = <<>>
    OBVIOUS
  <1> HIDE DEF W, start, n
  <1>6. IsStep(n, W, step)
    BY <1>4 DEF IsStep
  <1>7. PICK g : IsRecursive(n, W, start, step, g)
    <2> HIDE DEF step
    <2> QED
      BY <1>2, <1>3, <1>6, Recursion
  <1>8. g = [k \in 0..n |-> Step(g, k)]
    <2>1. \A k \in 0..n : k = 0 \/ (k # 0 /\ k \in 1..n)
      BY <1>2
    <2>2. \A k \in 1..n : g[k - 1] \in W
      BY <1>2, <1>7 DEF IsRecursive
    <2>3. \A k \in 0..n : g[k] = Step(g, k)
      BY <1>7, <2>1, <2>2 DEF IsRecursive
    <2> QED
      BY <1>7, <2>3 DEF IsRecursive
  <1>9. walked = [k \in 0..n |-> Step(walked, k)]
    BY <1>8
  <1> HIDE DEF walked
  <1>10. walked[0] = start /\ \A k \in 1..n : walked[k] = ProbeUrl(walked[k - 1], sample[k], site)
    <2>1. 0 \in 0..n /\ \A k \in 1..n : k # 0 /\ k \in 0..n
      BY <1>2
    <2> QED
      BY <1>9, <2>1
  <1> DEFINE Begun == {k \in 0..n : walked[k] \in W
                         /\ (~walked[k].warned => walked[k].done = SubSeq(sample, 1, k))}
  <1>11. 0 \in Begun
    <2>1. SubSeq(sample, 1, 0) = <<>>
      OBVIOUS
    <2>2. 0 \in 0..n /\ walked[0] \in W /\ walked[0].done = <<>>
      BY <1>2, <1>3, <1>5, <1>10
    <2> QED
      BY <2>1, <2>2
  <1>12. ASSUME NEW k \in 1..n, k - 1 \in Begun PROVE k \in Begun
    <2> DEFINE old == walked[k - 1]
    <2>1. old \in W /\ (~old.warned => old.done = SubSeq(sample, 1, k - 1))
      BY <1>12
    <2>2. walked[k] = ProbeUrl(old, sample[k], site)
      BY <1>10
    <2> HIDE DEF old
    <2>3. /\ walked[k] \in W
          /\ ~walked[k].warned => ~old.warned /\ walked[k].done = Append(old.done, sample[k])
      BY <1>2, <2>1, <2>2, ProbingUrl DEF W
    <2>4. Append(SubSeq(sample, 1, k - 1), sample[k]) = SubSeq(sample, 1, k)
      BY <1>2 DEF n
    <2>5. k \in 0..n
      BY <1>2
    <2> QED
      BY <2>1, <2>3, <2>4, <2>5
  <1> HIDE DEF Begun
  <1>13. 0..n \subseteq Begun
    BY <1>2, <1>11, <1>12, Upto
  <1>14. walked[n] \in W /\ (~walked[n].warned => walked[n].done = SubSeq(sample, 1, n))
    BY <1>2, <1>13 DEF Begun
  <1>15. SubSeq(sample, 1, n) = sample
    BY DEF n
  <1> QED
    BY <1>1, <1>14, <1>15 DEF IsWalk, W, n

\* checks/envelope/scanner.py (run): whatever the site answers, the envelope pass sends no more
\* requests than its budget; it warns only when the budget is spent, and when it does not warn
\* every URL of the sample, which holds the entry at least, was begun.
THEOREM EnvelopeKeepsItsBudget ==
  ASSUME NEW R, NEW U, NEW sample \in Seq(U), sample # <<>>, NEW limit \in Nat, NEW site,
         Answers(site, R)
  PROVE  /\ EnvelopeRun(sample, limit, site).spent \in 0..limit
         /\ EnvelopeRun(sample, limit, site).warned => EnvelopeRun(sample, limit, site).spent = limit
         /\ ~EnvelopeRun(sample, limit, site).warned => EnvelopeRun(sample, limit, site).done = sample
  <1> DEFINE last == Walked(sample, limit, site)[Len(sample)]
             K == {x \in Enveloping(R, U, limit) : last.warned => x.spent = limit}
             traces == SubSeq(<<sample[1]>> \o sample, 1, IF Len(sample) >= 3 THEN 4 ELSE Len(sample) + 1)
             n == Len(traces)
             start == [last.st EXCEPT !.at = "nowhere"]
             Step(f, k) == IF k = 0 THEN start ELSE Trace(f[k - 1], traces[k], site)
             traced == CHOOSE f : f = [k \in 0..n |-> Step(f, k)]
             step == [k \in 1..n |-> [x \in K |-> Trace(x, traces[k], site)]]
             end == traced[n]
  <1>1. EnvelopeRun(sample, limit, site) =
          [hits |-> end.hits, spent |-> end.spent, warned |-> last.warned, done |-> last.done]
    BY DEF EnvelopeRun, Walked
  <1>2. last \in Walks(R, U, limit) /\ (~last.warned => last.done = sample)
    BY Walking DEF IsWalk
  <1> HIDE DEF last
  <1>3. n \in Nat /\ \A k \in 1..n : traces[k] \in U
    <2>1. sample[1] \in U /\ Len(sample) \in Nat /\ Len(sample) >= 1
      OBVIOUS
    <2> DEFINE list == <<sample[1]>> \o sample
               upto == IF Len(sample) >= 3 THEN 4 ELSE Len(sample) + 1
    <2>2. list \in Seq(U) /\ Len(list) = Len(sample) + 1
      BY <2>1
    <2>3. upto \in 0..Len(list)
      BY <2>1, <2>2
    <2> HIDE DEF list, upto
    <2>4. SubSeq(list, 1, upto) \in Seq(U)
      BY <2>2, <2>3
    <2>5. traces = SubSeq(list, 1, upto)
      BY DEF list, upto
    <2> HIDE DEF traces
    <2> QED
      BY <2>4, <2>5
  <1> HIDE DEF traces
  <1>4. start \in K
    <2>1. last.st \in Enveloping(R, U, limit) /\ (last.warned => last.st.spent = limit)
      BY <1>2 DEF Walks
    <2>2. start \in Enveloping(R, U, limit)
      BY <2>1, Carrying DEF Enveloping
    <2>3. start.spent = last.st.spent
      BY <2>1 DEF Enveloping, Carried
    <2> QED
      BY <2>1, <2>2, <2>3
  <1>5. \A k \in 1..n : \A x \in K : Trace(x, traces[k], site) \in K
    <2> SUFFICES ASSUME NEW k \in 1..n, NEW x \in K PROVE Trace(x, traces[k], site) \in K
      OBVIOUS
    <2>1. Trace(x, traces[k], site) \in Enveloping(R, U, limit)
      BY <1>3, Tracing
    <2>2. x.spent = limit => Trace(x, traces[k], site).spent = limit
      BY TraceAddsNothing
    <2> QED
      BY <2>1, <2>2
  <1> HIDE DEF K, start, n
  <1>6. IsStep(n, K, step)
    BY <1>5 DEF IsStep
  <1>7. PICK g : IsRecursive(n, K, start, step, g)
    <2> HIDE DEF step
    <2> QED
      BY <1>3, <1>4, <1>6, Recursion
  <1>8. g = [k \in 0..n |-> Step(g, k)]
    <2>1. \A k \in 0..n : k = 0 \/ (k # 0 /\ k \in 1..n)
      BY <1>3
    <2>2. \A k \in 1..n : g[k - 1] \in K
      BY <1>3, <1>7 DEF IsRecursive
    <2>3. \A k \in 0..n : g[k] = Step(g, k)
      BY <1>7, <2>1, <2>2 DEF IsRecursive
    <2> QED
      BY <1>7, <2>3 DEF IsRecursive
  <1>9. traced = [k \in 0..n |-> Step(traced, k)]
    BY <1>8
  <1> HIDE DEF traced
  <1>10. traced[0] = start /\ \A k \in 1..n : traced[k] = Trace(traced[k - 1], traces[k], site)
    <2>1. 0 \in 0..n /\ \A k \in 1..n : k # 0 /\ k \in 0..n
      BY <1>3
    <2> QED
      BY <1>9, <2>1
  <1>11. end \in K
    <2>1. traced[0] \in K /\ \A k \in 1..n : traced[k - 1] \in K => traced[k] \in K
      BY <1>4, <1>5, <1>10
    <2> QED
      BY <1>3, <2>1, Staying
  <1> HIDE DEF end
  <1>12. end.spent \in 0..limit /\ (last.warned => end.spent = limit)
    BY <1>11 DEF K, Enveloping, Carried
  <1> QED
    BY <1>1, <1>2, <1>12
=============================================================================
