--------------------------- MODULE InjectionPass ----------------------------
(***************************************************************************)
(* The active injection pass and the stored-XSS pass that follows it:      *)
(* checks/injection/{models,points,engine,stored}.py with the crawler's    *)
(* recrawl.  One point after the other, one detector after the other, one  *)
(* request after the other; every request is charged to three nested       *)
(* budgets before it is sent, and a detector cannot tell a request it was  *)
(* refused from one that failed.                                           *)
(*                                                                         *)
(* A detector is its script: the stages of requests it sends while nothing *)
(* is found.  What it concludes from the answers is module Detectors'.     *)
(***************************************************************************)
EXTENDS Integers, Sequences, FiniteSets, SequencesExt, Lists

CONSTANTS
  Surfaces,      \* what the crawl may have left: [pages, forms, operations]
  Selected,      \* the detector kinds selected by the checks
  BaseOrder,     \* the kinds in the order they run by default
  Likes,         \* the kinds a point's name may put first, in the order they are looked at
  NameTable,     \* NameTable[k]: the parameter names that suggest kind k
  ValueShape,    \* ValueShape[k]: the shapes of a value that suggest it
  Script,        \* Script[k]: the stages of a detector, each a sequence of "quick" and "sleep"
  Markers,       \* how many markers the stored pass submits per point
  MaxPoints, RequestLimit, PointLimit, SleepLimit, RefetchLimit, NewLinks

ASSUME LimitsAssumption ==
  /\ RequestLimit \in Nat /\ PointLimit \in Nat /\ SleepLimit \in Nat /\ RefetchLimit \in Nat

\* _BASE_ORDER names no kind twice; the merged entry is in no list it starts from.
ASSUME KindsAssumption ==
  /\ BaseOrder \in Seq(STRING) /\ Likes \in Seq(STRING)
  /\ IsInjective(BaseOrder) /\ "ssti+el" \notin Range(BaseOrder)

-----------------------------------------------------------------------------
(* Injection points (points.py).  A base and a parameter are numbers, in   *)
(* the order their texts sort; tags are the name heuristics that match.    *)

\* is_pathlike, is_urllike, ...: by the name or by the shape of the value.
Tags(f) == {k \in Range(Likes) : f.name \in NameTable[k] \/ f.shape \in ValueShape[k]}

Point(method, base, param, source, select, tags) ==
  [method |-> method, base |-> base, param |-> param, source |-> source, select |-> select,
   tags |-> tags]

Key(p) == <<p.method, p.base, p.param>>

\* What a page that was fetched by GET carries in its query.
PagePoints(page) ==
  {Point("GET", page.base, q.param, "query", FALSE, Tags(q)) :
     q \in IF page.ok /\ page.get THEN page.query ELSE {}}

\* The fields of a form no word of which looks destructive; a select is a point of its own.
FormPoints(form) ==
  {Point(form.method, form.base, f.param, "form", f.type = "select", Tags(f)) :
     f \in {g \in form.fields : ~form.excluded /\ g.type \in {"text", "select"}}}

\* _operation_points: the query or the body fields, and the path parameters.
OperationPoints(op) ==
  {Point(op.method, op.base, f.param, "import", FALSE, Tags(f)) :
     f \in IF op.method = "GET" THEN op.query ELSE op.body}
  \union {Point(op.method, op.template, f.param, "path", FALSE, Tags(f)) : f \in op.path}

\* The first point of a key is kept: pages before forms before operations.
Discovered(s) ==
  LET ofPages == UNION {PagePoints(g) : g \in s.pages}
      ofForms == UNION {FormPoints(f) : f \in s.forms}
      ofOps == UNION {OperationPoints(o) : o \in s.operations}
      New(more, old) == {p \in more : \A q \in old : Key(q) # Key(p)}
      known == ofPages \union New(ofForms, ofPages)
  IN known \union New(ofOps, known)

Before(p, q) ==
  LET rank(x) == <<IF x.select THEN 1 ELSE 0, x.base, x.param, IF x.method = "GET" THEN 0 ELSE 1>>
  IN \E i \in 1..4 : rank(p)[i] < rank(q)[i] /\ \A j \in 1..(i - 1) : rank(p)[j] = rank(q)[j]

\* enumerate_points: in order, the selects last, cut at the cap.
EnumeratePoints(s) ==
  LET all == SetToSortSeq(Discovered(s), Before)
  IN SubSeq(all, 1, IF Len(all) > MaxPoints THEN MaxPoints ELSE Len(all))

Dropped(s) == Cardinality(Discovered(s)) > MaxPoints

-----------------------------------------------------------------------------
(* The order of the detectors on a point.                                  *)

\* [k for k in kinds if k in wanted]
Only(kinds, wanted) == At(kinds, {n \in 1..Len(kinds) : kinds[n] \in wanted})

MergeElLosing(kinds) == Only(kinds, Range(kinds) \ {"el"})

\* _merge_el: one routine for both template and expression languages, at the earlier place.
MergeEl(kinds) ==
  IF ~({"ssti", "el"} \subseteq Range(kinds)) THEN kinds
  ELSE LET first == CHOOSE n \in 1..Len(kinds) :
                      kinds[n] \in {"ssti", "el"} /\ \A j \in 1..(n - 1) : kinds[j] \notin {"ssti", "el"}
           merged == [kinds EXCEPT ![first] = "ssti+el"]
       IN Only(merged, Range(merged) \ {"ssti", "el"})

\* A heuristic looks at the name or the value; that of xxe (_is_post) at the method.
Suggests(p, kind) == IF kind = "xxe" THEN p.method = "POST" ELSE kind \in p.tags

\* kinds.remove(kind), kinds.insert(0, kind).
ToFront(kinds, kind) == <<kind>> \o Only(kinds, Range(kinds) \ {kind})

\* _ordered_kinds: each heuristic that matches moves its detector to the front.
OrderedKinds(p) ==
  LET kinds[n \in 0..Len(Likes)] ==
        IF n = 0 THEN Only(BaseOrder, Selected)
        ELSE IF Suggests(p, Likes[n]) /\ Likes[n] \in Range(kinds[n - 1])
             THEN ToFront(kinds[n - 1], Likes[n])
             ELSE kinds[n - 1]
  IN MergeEl(kinds[Len(Likes)])

-----------------------------------------------------------------------------
(* ActiveBudget.                                                           *)

Fresh == [spent |-> 0, point |-> 0, timed |-> 0]

ExhaustedLate(b) == b.spent > RequestLimit
Exhausted(b) == b.spent >= RequestLimit

StartPointOf(b) == [b EXCEPT !.point = 0]

CanTake(b) == b.spent + 1 <= RequestLimit /\ b.point + 1 <= PointLimit
TakeUnpaid(b) == [b EXCEPT !.spent = @ + 1]
Take(b) == [b EXCEPT !.spent = @ + 1, !.point = @ + 1]

\* take_time_based: a sleeping request is a request too, and is counted when it was granted.
CanSleepFree(b) == b.timed < SleepLimit
CanSleep(b) == b.timed < SleepLimit /\ CanTake(b)
TakeSleep(b) == [Take(b) EXCEPT !.timed = @ + 1]

CanRecrawl(b) == b.spent + 1 <= RequestLimit
TakeRecrawl(b) == [b EXCEPT !.spent = @ + 1]

Granted(b, request) == IF request = "sleep" THEN CanSleep(b) ELSE CanTake(b)
Charge(b, request) == IF request = "sleep" THEN TakeSleep(b) ELSE Take(b)

\* Which limit refuses a request.
Refusal(b, request) ==
  CASE b.spent >= RequestLimit -> "requests"
    [] b.point >= PointLimit -> "point"
    [] OTHER -> "sleeps"

VARIABLES
  surface, points,  \* the input and what is enumerated from it
  phase,            \* "inject", "submit", "recrawl", "done"
  i,                \* the point in hand; 0 before the first
  ran, kinds,       \* the detectors that have run on it and those left, the first one running
  left,             \* the requests the stage in hand still sends, then the stages after it
  budget,           \* the pass's budget; each pass has its own
  sent,             \* every crafted request of the scan
  started, hits,    \* points begun by the injection pass; points reported
  markers,          \* the points with a marker stored
  frontier, pages,  \* what the recrawl has left to fetch (known pages, their new links) and fetched
  refused, warnings

vars == <<surface, points, phase, i, ran, kinds, left, budget, sent, started, hits, markers,
          frontier, pages, refused, warnings>>

pointVars == <<ran, kinds, left>>
resultVars == <<hits, markers, frontier, pages>>

TypeOK ==
  /\ surface \in Surfaces /\ Len(points) <= MaxPoints
  /\ phase \in {"inject", "submit", "recrawl", "done"}
  /\ i \in 0..(Len(points) + 1)
  /\ budget \in [spent : 0..RequestLimit, point : 0..PointLimit, timed : 0..SleepLimit]
  /\ sent \in Nat /\ started \in 0..Len(points) /\ frontier \in [known : Nat, new : Nat]
  /\ pages \in 0..RefetchLimit
  /\ refused \subseteq {"requests", "point", "sleeps"}
  /\ warnings \subseteq {"points", "budget", "stored_budget", "recrawl_cap"}

Init ==
  /\ surface \in Surfaces /\ points = EnumeratePoints(surface)
  /\ phase = "inject" /\ i = 0
  /\ ran = <<>> /\ kinds = <<>> /\ left = <<>>
  /\ budget = Fresh /\ sent = 0 /\ started = 0
  /\ hits = {} /\ markers = {} /\ frontier = [known |-> 0, new |-> 0] /\ pages = 0
  /\ refused = {} /\ warnings = {w \in {"points"} : Dropped(surface)}

-----------------------------------------------------------------------------
(* The injection pass (engine.py).                                         *)

AtRest == kinds = <<>> /\ left = <<>>

\* A request of the pass in hand: charged first, then sent or failed.
Spend(request) ==
  /\ Granted(budget, request)
  /\ budget' = Charge(budget, request) /\ sent' = sent + 1 /\ UNCHANGED refused

Refuse(request) ==
  /\ ~Granted(budget, request)
  /\ refused' = refused \union {Refusal(budget, request)} /\ UNCHANGED <<budget, sent>>

\* run moves to the next point while there is budget, and asks for its baseline.
NextPoint ==
  /\ phase = "inject" /\ AtRest /\ i < Len(points) /\ ~Exhausted(budget)
  /\ i' = i + 1 /\ started' = started + 1
  /\ budget' = StartPointOf(budget)
  /\ left' = <<<<"baseline">>>> /\ ran' = <<>>
  /\ UNCHANGED <<surface, points, phase, kinds, sent, refused, warnings>> /\ UNCHANGED resultVars

\* _baseline: without one the point is left alone.
Baseline ==
  /\ phase = "inject" /\ kinds = <<>> /\ left = <<<<"baseline">>>>
  /\ \/ /\ Spend("quick")
        /\ \/ kinds' = OrderedKinds(points[i])
              /\ left' = IF kinds' = <<>> THEN <<>> ELSE Script[Head(kinds')]
           \/ kinds' = <<>> /\ left' = <<>>
     \/ Refuse("quick") /\ kinds' = <<>> /\ left' = <<>>
  /\ UNCHANGED <<surface, points, phase, i, started, ran, warnings>> /\ UNCHANGED resultVars

\* The detector in hand is through: the next one, unless the scan's budget is gone.
EndDetector(b) ==
  /\ ran' = Append(ran, Head(kinds))
  /\ kinds' = IF Exhausted(b) THEN <<>> ELSE Tail(kinds)
  /\ left' = IF kinds' = <<>> THEN <<>> ELSE Script[Head(kinds')]

\* The stage in hand is over: a later stage of the same detector still runs (the time stage of
\* cmdi), whatever ended this one.
EndStage(b) ==
  IF Len(left) > 1 THEN left' = Tail(left) /\ UNCHANGED <<ran, kinds>> ELSE EndDetector(b)

\* One request of the detector in hand: its answer is a hit, or it goes on, or there is none.
Probe ==
  /\ phase = "inject" /\ kinds # <<>>
  /\ LET request == Head(Head(left)) IN
     \/ /\ Spend(request)
        /\ \/ /\ hits' = hits \union {points[i]}
              /\ EndDetector(budget')
           \/ /\ IF Len(Head(left)) > 1
                 THEN left' = <<Tail(Head(left))>> \o Tail(left) /\ UNCHANGED <<ran, kinds>>
                 ELSE EndStage(budget')
              /\ UNCHANGED hits
           \/ EndStage(budget') /\ UNCHANGED hits
     \/ Refuse(request) /\ EndStage(budget) /\ UNCHANGED hits
  /\ UNCHANGED <<surface, points, phase, i, started, warnings, markers, frontier, pages>>

\* The end of run, with its word about the budget; the stored pass starts on a new budget.
EndInjection ==
  /\ phase = "inject" /\ AtRest /\ (i = Len(points) \/ Exhausted(budget))
  /\ warnings' = warnings \union {w \in {"budget"} : Exhausted(budget)}
       \union {w \in {"points"} : Dropped([surface EXCEPT !.operations = {}])}
  /\ phase' = "submit" /\ i' = 0 /\ budget' = Fresh
  /\ UNCHANGED <<surface, points, ran, kinds, left, sent, started, refused>> /\ UNCHANGED resultVars

-----------------------------------------------------------------------------
(* The stored pass (stored.py, Crawler.recrawl).                           *)

\* The points of this pass are enumerated again, without the operations of an import.
StoredPoints == EnumeratePoints([surface EXCEPT !.operations = {}])

\* _stored_order: form fields first, never a select.
StoredOrder ==
  LET some == SelectSeq(StoredPoints, LAMBDA p : ~p.select)
  IN SelectSeq(some, LAMBDA p : p.source = "form") \o SelectSeq(some, LAMBDA p : p.source # "form")

NextTarget ==
  /\ phase = "submit" /\ left = <<>> /\ i < Len(StoredOrder) /\ ~Exhausted(budget)
  /\ i' = i + 1
  /\ budget' = StartPointOf(budget)
  /\ left' = <<[m \in 1..Markers |-> "quick"]>>
  /\ UNCHANGED <<surface, points, phase, ran, kinds, sent, started, refused, warnings>>
  /\ UNCHANGED resultVars

\* _submit: the markers of a point one after the other, until one is not answered.
Submit ==
  /\ phase = "submit" /\ left # <<>>
  /\ \/ /\ Spend("quick")
        /\ \/ /\ markers' = markers \union {i}
              /\ left' = IF Len(Head(left)) > 1 THEN <<Tail(Head(left))>> ELSE <<>>
           \/ left' = <<>> /\ UNCHANGED markers
     \/ Refuse("quick") /\ left' = <<>> /\ UNCHANGED markers
  /\ UNCHANGED <<surface, points, phase, i, ran, kinds, started, warnings, hits, frontier, pages>>

\* Nothing submitted, nothing to look for: the pass ends here, and says nothing.
EndSubmission ==
  /\ phase = "submit" /\ left = <<>> /\ (i = Len(StoredOrder) \/ Exhausted(budget))
  /\ IF markers = {} THEN phase' = "done" /\ UNCHANGED frontier
     ELSE phase' = "recrawl"
          /\ frontier' = [known |-> Cardinality({g \in surface.pages : g.ok /\ g.get}), new |-> 0]
  /\ UNCHANGED <<surface, points, i, ran, kinds, left, budget, sent, started, hits, markers, pages,
                 refused, warnings>>

Waiting == frontier.known + frontier.new > 0

\* The pages known from the crawl come first, and only their links are followed.
\* recrawl asks should_fetch before every page; the page may fail, and counts.
Refetch ==
  /\ phase = "recrawl" /\ Waiting /\ pages < RefetchLimit /\ CanRecrawl(budget)
  /\ budget' = TakeRecrawl(budget) /\ sent' = sent + 1 /\ pages' = pages + 1
  /\ IF frontier.known > 0
     THEN \E links \in 0..NewLinks :
            frontier' = [known |-> frontier.known - 1, new |-> frontier.new + links]
     ELSE frontier' = [frontier EXCEPT !.new = @ - 1]
  /\ UNCHANGED <<surface, points, phase, i, started, hits, markers, refused, warnings>>
  /\ UNCHANGED pointVars

\* The end of the pass: its two caps, and _detect over the pages fetched.
EndStored ==
  /\ phase = "recrawl" /\ (~Waiting \/ pages = RefetchLimit \/ ~CanRecrawl(budget))
  /\ phase' = "done"
  /\ refused' = refused \union
       {r \in {"requests"} : Waiting /\ pages < RefetchLimit /\ ~CanRecrawl(budget)}
  /\ warnings' = warnings
       \union {w \in {"stored_budget"} : Exhausted(budget)}
       \union {w \in {"recrawl_cap"} : pages >= RefetchLimit}
  /\ \E found \in SUBSET markers :
       /\ found # {} => pages > 0
       /\ hits' = hits \union {StoredOrder[m] : m \in found}
  /\ UNCHANGED <<surface, points, i, budget, sent, started, markers, frontier, pages>>
  /\ UNCHANGED pointVars

Next ==
  \/ NextPoint \/ Baseline \/ Probe \/ EndInjection
  \/ NextTarget \/ Submit \/ EndSubmission \/ Refetch \/ EndStored

Spec == Init /\ [][Next]_vars

-----------------------------------------------------------------------------
(* Properties.                                                             *)

\* The three nested budgets hold whatever answers, failures and refusals come, and each
\* counts a part of the one around it.
BudgetsNest ==
  /\ budget.spent <= RequestLimit /\ budget.point <= PointLimit /\ budget.timed <= SleepLimit
  /\ budget.timed <= budget.spent /\ budget.point <= budget.spent

\* A point that answers nothing useful cannot eat the scan: what one point may spend bounds
\* how many of the points after it go without a request.
EveryPointGetsItsShare ==
  phase # "inject" => started = Len(points) \/ started * PointLimit >= RequestLimit

\* The nested budgets hold, and together leave every point its share.
BudgetsAreShared == BudgetsNest /\ EveryPointGetsItsShare

\* "Hitting it is a warning": a pass that was refused a request for want of budget, or that
\* stopped before its last point, says so in the report.
StopsAreTold ==
  phase = "submit" /\ i = 0 =>
    ("requests" \in refused \/ started < Len(points) => "budget" \in warnings)

\* Every selected detector has its turn exactly once on a point, whatever the name of the
\* parameter moves to the front; the two template languages share one turn.
EachKindOnce ==
  kinds # <<>> =>
    LET turns == ran \o kinds
        wanted == Selected \intersect Range(BaseOrder)
    IN /\ IsInjective(turns)
       /\ Range(turns) = IF {"ssti", "el"} \subseteq wanted
                         THEN (wanted \ {"ssti", "el"}) \union {"ssti+el"} ELSE wanted
=============================================================================
