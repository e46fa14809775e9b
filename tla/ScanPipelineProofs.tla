------------------------- MODULE ScanPipelineProofs -------------------------
(***************************************************************************)
(* What holds of one engine run for every set of configurations, every set *)
(* of checks and any number of faults: the attestation gate, the session's *)
(* span, and the candour and completeness of the report.                   *)
(***************************************************************************)
EXTENDS ScanPipeline, ListProofs, FiniteSetTheorems, TLAPS

LEMMA Steps ==
  /\ DOMAIN Order = 1..16
  /\ Order[1] = "gate" /\ Order[2] = "login" /\ Order[3] = "openapi" /\ Order[4] = "har"
  /\ Order[5] = "crawl" /\ Order[6] = "select" /\ Order[7] = "fingerprint" /\ Order[8] = "osv"
  /\ Order[9] = "probe" /\ Order[10] = "inject" /\ Order[11] = "stored"
  /\ Order[12] = "envelope" /\ Order[13] = "upload" /\ Order[14] = "csrf"
  /\ Order[15] = "session" /\ Order[16] = "checks"
  BY DEF Order

LEMMA OrderIsInjective == \A i, j \in 1..16 : Order[i] = Order[j] => i = j
  BY SMTT(60), Steps

LEMMA AfterIsNext == ASSUME NEW k \in 1..15 PROVE After(Order[k]) = Order[k + 1]
  <1> DEFINE P(i) == i > 1 /\ Order[i - 1] = Order[k]
  <1>1. k + 1 \in DOMAIN Order /\ P(k + 1)
    BY Steps
  <1>2. \A i \in DOMAIN Order : P(i) => i = k + 1
    BY Steps, OrderIsInjective
  <1>3. (CHOOSE i \in DOMAIN Order : P(i)) = k + 1
    BY <1>1, <1>2
  <1> QED
    BY <1>3 DEF After

LEMMA PassesAre ==
  Passes = {"fingerprint", "osv", "probe", "inject", "stored", "envelope", "upload", "csrf",
            "session"}
  BY Steps DEF Passes

\* The steps between the login and the checks.
UnderWay == {"openapi", "har", "crawl", "select"} \union Passes

LEMMA StepNames ==
  Range(Order) = {"gate", "login", "openapi", "har", "crawl", "select", "fingerprint", "osv",
                  "probe", "inject", "stored", "envelope", "upload", "csrf", "session", "checks"}
  BY Steps DEF Range

LEMMA Followers ==
  /\ After("gate") = "login" /\ After("login") = "openapi"
  /\ \A p \in UnderWay \ {"session"} : After(p) \in UnderWay
  /\ After("session") = "checks"
  /\ After("openapi") = "har" /\ After("har") = "crawl" /\ After("crawl") = "select"
  <1>1. \A k \in 1..15 : After(Order[k]) = Order[k + 1]
    BY AfterIsNext
  <1>2. /\ After("gate") = "login" /\ After("login") = "openapi" /\ After("openapi") = "har"
        /\ After("har") = "crawl" /\ After("crawl") = "select" /\ After("select") = "fingerprint"
    BY <1>1, Steps
  <1>3. /\ After("fingerprint") = "osv" /\ After("osv") = "probe" /\ After("probe") = "inject"
        /\ After("inject") = "stored" /\ After("stored") = "envelope"
        /\ After("envelope") = "upload" /\ After("upload") = "csrf" /\ After("csrf") = "session"
        /\ After("session") = "checks"
    BY <1>1, Steps
  <1> QED
    BY <1>2, <1>3, PassesAre DEF UnderWay

-----------------------------------------------------------------------------
(* What holds at every step.                                               *)

\* Whatever has been sent, or is still to come, the gate has let through.
Gated ==
  /\ pc = "gate" => sent = {} /\ failed = {}
  /\ sent # {} \/ pc \notin {"gate"} \union Ends => (Active => cfg.attested)

\* From the login to the logout test the session is what the login has opened.
Opened == IF Active /\ On("login") THEN "live" ELSE "none"
SessionFollows ==
  /\ pc \in {"gate", "login"} => session = "none"
  /\ pc \in UnderWay => session = Opened

\* A scan that goes on has told what failed, and what it was not allowed to do.
Told ==
  /\ pc \notin {"raised", "cancelled"} => failed \subseteq warnings
  /\ pc \notin {"gate", "raised", "cancelled"} => NotRun \subseteq warnings

\* Where a scan can be; the session is one of the three.
Places == pc \in Range(Order) \union {"checking"} \union Ends /\ session \in Sessions

IInv == /\ Places /\ Gated /\ SessionFollows /\ Told
        /\ AttestedOnly /\ SessionOutlivesPasses /\ OnlyTheseAbort

LEMMA InitEstablishes == ASSUME Init PROVE IInv
  BY StepNames, PassesAre
  DEF Init, IInv, Places, Gated, SessionFollows, Told, AttestedOnly, SessionOutlivesPasses,
      OnlyTheseAbort, Ends, Sessions, UnderWay

LEMMA SameOptions ==
  ASSUME cfg' = cfg
  PROVE  NotRun' = NotRun /\ Active' = Active /\ Opened' = Opened
  BY DEF NotRun, Active, Opened, On

LEMMA GatePreserves == ASSUME IInv, Gate PROVE IInv'
  <1>1. /\ UNCHANGED <<cfg, session, sent, failed>> /\ pc = "gate"
        /\ \/ pc' = "raised" /\ Active /\ ~cfg.attested /\ warnings' = warnings
           \/ pc' = "login" /\ (Active => cfg.attested) /\ warnings' = NotRun
    BY Followers DEF Gate, Step, Survive
  <1>2. NotRun' = NotRun /\ Active' = Active
    BY <1>1, SameOptions
  <1>3. sent = {} /\ failed = {} /\ session = "none"
    BY <1>1 DEF IInv, Gated, SessionFollows
  <1>4. Places' /\ Gated' /\ Told'
    BY <1>1, <1>2, <1>3, StepNames DEF Places, Gated, Told, Ends, Sessions
  <1>5. SessionFollows' /\ AttestedOnly' /\ SessionOutlivesPasses'
    BY <1>1, <1>2, <1>3, PassesAre DEF SessionFollows, AttestedOnly, SessionOutlivesPasses, UnderWay
  <1>6. OnlyTheseAbort'
    BY <1>1, <1>2, <1>3 DEF OnlyTheseAbort
  <1> QED
    BY <1>4, <1>5, <1>6 DEF IInv

\* What a step p of an attested scan may send.
MaySend(p, r) ==
  /\ r[1] \in {"login", "post", "inject", "stored", "envelope", "upload", "csrf", "logout"}
       => Active
  /\ r[1] \in Passes \union {"crawl"} => p \in UnderWay /\ r[2] = session

\* A step between the gate and the checks goes on or ends the scan.
Advances(p) ==
  /\ pc = p /\ cfg' = cfg
  /\ sent \subseteq sent' /\ \A r \in sent' \ sent : MaySend(p, r)
  /\ warnings \subseteq warnings'
  /\ \/ /\ pc' = After(p)
        /\ failed' \subseteq failed \union warnings'
        /\ session' = IF p = "login" THEN Opened ELSE session
     \/ p = "session" /\ pc' = After(p) /\ session' = "closed" /\ failed' = failed
     \/ /\ pc' = "raised" /\ session' = session
        /\ p \in Uncaught /\ failed' = failed \union {p}

LEMMA AdvancesPreserves ==
  ASSUME IInv, NEW p \in {"login"} \union UnderWay, Advances(p) PROVE IInv'
  <1>1. NotRun' = NotRun /\ Active' = Active /\ Opened' = Opened /\ cfg' = cfg
    BY SameOptions DEF Advances
  <1>2. /\ Active => cfg.attested
        /\ failed \subseteq warnings /\ NotRun \subseteq warnings
    BY PassesAre DEF IInv, Gated, Told, Advances, UnderWay, Ends
  <1>3. p \in UnderWay => session = Opened
    BY DEF IInv, SessionFollows, Advances
  <1>4. /\ p = "login" => After(p) = "openapi"
        /\ p \in UnderWay \ {"session"} => After(p) \in UnderWay
        /\ p = "session" => After(p) = "checks"
    BY Followers
  <1>5. session' \in Sessions /\ pc' \in UnderWay \union {"checks", "raised"}
    BY <1>4, PassesAre DEF Advances, IInv, Places, Sessions, Opened, UnderWay
  <1>6. Places' /\ Gated'
    BY <1>1, <1>2, <1>5, StepNames, PassesAre DEF Places, Gated, UnderWay, Ends
  <1>7. SessionFollows'
    <2>1. CASE pc' = "raised" \/ pc' = "checks"
      BY <2>1, PassesAre DEF SessionFollows, UnderWay
    <2>2. CASE pc' \in UnderWay
      <3>1. pc' = After(p) /\ pc' # "checks" /\ p # "session"
        BY <2>2, <1>4, PassesAre DEF Advances, UnderWay
      <3>2. session' = Opened
        BY <2>2, <3>1, <1>3, PassesAre DEF Advances, UnderWay
      <3> QED
        BY <2>2, <3>2, <1>1, PassesAre DEF SessionFollows, UnderWay
    <2> QED
      BY <1>5, <2>1, <2>2
  <1>8. Told'
    BY <1>1, <1>2 DEF Told, Advances
  <1>9. AttestedOnly'
    BY <1>1, <1>2 DEF IInv, AttestedOnly, Advances, MaySend
  <1>10. SessionOutlivesPasses'
    <2>1. ASSUME NEW r \in sent', r[1] \in Passes \union {"crawl"} PROVE r[2] = Opened
      <3>1. CASE r \in sent
        BY <2>1, <3>1 DEF IInv, SessionOutlivesPasses, Opened
      <3>2. CASE r \notin sent
        BY <2>1, <3>2, <1>3 DEF Advances, MaySend
      <3> QED
        BY <3>1, <3>2
    <2> QED
      BY <2>1, <1>1 DEF SessionOutlivesPasses, Opened
  <1>11. OnlyTheseAbort'
    <2>1. CASE pc' = "raised"
      <3>1. p \in Uncaught /\ failed' = failed \union {p} /\ warnings \subseteq warnings'
        BY <2>1, <1>4, PassesAre DEF Advances, UnderWay
      <3>2. p \in failed' /\ failed' \ warnings' \subseteq {p}
        BY <3>1, <1>2
      <3> QED
        BY <3>1, <3>2 DEF OnlyTheseAbort
    <2> QED
      BY <2>1 DEF OnlyTheseAbort
  <1> QED
    BY <1>6, <1>7, <1>8, <1>9, <1>10, <1>11 DEF IInv

-----------------------------------------------------------------------------
(* The steps, one lemma each.                                              *)

LEMMA LogInAdvances == ASSUME IInv, LogIn PROVE Advances("login")
  <1>1. session = "none" /\ pc = "login"
    BY DEF IInv, SessionFollows, LogIn, Step
  <1> QED
    BY <1>1, PassesAre DEF LogIn, Step, Survive, Raise, Advances, MaySend, Opened, Uncaught

LEMMA LoadOpenapiAdvances == ASSUME LoadOpenapi PROVE Advances("openapi")
  BY DEF LoadOpenapi, Step, Survive, Raise, Advances, Uncaught

LEMMA LoadHarAdvances == ASSUME LoadHar PROVE Advances("har")
  BY DEF LoadHar, Step, Survive, Raise, Advances, Uncaught

LEMMA CrawlAdvances == ASSUME Crawl PROVE Advances("crawl")
  BY PassesAre DEF Crawl, Step, Survive, Raise, Advances, MaySend, UnderWay, Uncaught

LEMMA SelectChecksAdvances == ASSUME SelectChecks PROVE Advances("select")
  BY DEF SelectChecks, Step, Survive, Raise, Advances, Uncaught

LEMMA PassesAdvance ==
  /\ Fingerprint => Advances("fingerprint")
  /\ OsvLookup => Advances("osv")
  /\ ProbeDisclosure => Advances("probe")
  /\ Inject => Advances("inject")
  /\ InjectStored => Advances("stored")
  /\ ScanEnvelope => Advances("envelope")
  /\ ScanUpload => Advances("upload")
  /\ ScanCsrf => Advances("csrf")
  BY PassesAre
  DEF Fingerprint, OsvLookup, ProbeDisclosure, Inject, InjectStored, ScanEnvelope, ScanUpload,
      ScanCsrf, Pass, Step, Survive, Raise, Advances, MaySend, UnderWay, Uncaught

LEMMA ScanSessionAdvances == ASSUME ScanSession PROVE Advances("session")
  <1>1. "logout" \in Kinds => Active
    BY DEF Kinds, Selected, ModeAllows, ActiveChecks
  <1> QED
    BY <1>1, PassesAre DEF ScanSession, Step, Survive, Raise, Advances, MaySend, UnderWay

LEMMA ChecksPreserve ==
  ASSUME IInv, \/ StartChecks \/ Report \/ Cancel
               \/ \E c \in running : CheckEnds(c) \/ CheckRaises(c)
  PROVE  IInv'
  <1>1. NotRun' = NotRun /\ Active' = Active /\ Opened' = Opened
        /\ UNCHANGED <<cfg, session, sent, failed, warnings>>
    BY SameOptions DEF StartChecks, Report, Cancel, CheckEnds, CheckRaises
  <1>2. \/ pc' = pc
        \/ pc \in {"checks", "checking"} /\ pc' \in {"checking", "reported"}
        \/ pc' = "cancelled"
    BY DEF StartChecks, Report, Cancel, CheckEnds, CheckRaises
  <1>3. Places' /\ Gated' /\ SessionFollows' /\ Told'
    BY <1>1, <1>2, StepNames, PassesAre
    DEF IInv, Places, Gated, SessionFollows, Told, Ends, UnderWay
  <1>4. AttestedOnly' /\ SessionOutlivesPasses' /\ OnlyTheseAbort'
    BY <1>1, <1>2 DEF IInv, AttestedOnly, SessionOutlivesPasses, OnlyTheseAbort, On, Active
  <1> QED
    BY <1>3, <1>4 DEF IInv

LEMMA NextPreserves == ASSUME IInv, [Next]_vars PROVE IInv'
  <1>1. CASE Gate
    BY <1>1, GatePreserves
  <1>2. CASE LogIn
    BY <1>2, LogInAdvances, AdvancesPreserves
  <1>3. CASE LoadOpenapi \/ LoadHar \/ Crawl \/ SelectChecks
    BY <1>3, LoadOpenapiAdvances, LoadHarAdvances, CrawlAdvances, SelectChecksAdvances,
       AdvancesPreserves DEF UnderWay
  <1>4. CASE \/ Fingerprint \/ OsvLookup \/ ProbeDisclosure \/ Inject \/ InjectStored
             \/ ScanEnvelope \/ ScanUpload \/ ScanCsrf
    BY <1>4, PassesAdvance, AdvancesPreserves, PassesAre DEF UnderWay
  <1>5. CASE ScanSession
    BY <1>5, ScanSessionAdvances, AdvancesPreserves, PassesAre DEF UnderWay
  <1>6. CASE StartChecks \/ Report \/ Cancel \/ \E c \in running : CheckEnds(c) \/ CheckRaises(c)
    BY <1>6, ChecksPreserve
  <1>7. CASE UNCHANGED vars
    <2>1. NotRun' = NotRun /\ Active' = Active /\ Opened' = Opened
      BY <1>7, SameOptions DEF vars
    <2> QED
      BY <1>7, <2>1 DEF vars, IInv, Places, Gated, SessionFollows, Told, AttestedOnly,
         SessionOutlivesPasses, OnlyTheseAbort, On, Active
  <1> QED
    BY <1>1, <1>2, <1>3, <1>4, <1>5, <1>6, <1>7 DEF Next

-----------------------------------------------------------------------------

LEMMA Invariance == Spec => []IInv
  BY InitEstablishes, NextPreserves, PTL DEF Spec

\* _enforce_active_gate: nothing that writes, signs in or carries a payload is sent by a scan
\* nobody attested, whatever its options and however its steps fail.
THEOREM NothingUnattested == Spec => []AttestedOnly
  BY Invariance, PTL DEF IInv

\* run: every pass sends under the session _log_in opened, for the logout test is the last.
THEOREM SessionLastsThePasses == Spec => []SessionOutlivesPasses
  BY Invariance, PTL DEF IInv

\* run: a report names every step that raised before it and every option that was not run.
THEOREM ReportsAreCandid == Spec => []NothingSilent
  <1>1. IInv => NothingSilent
    BY DEF IInv, Told, NothingSilent
  <1> QED
    BY <1>1, Invariance, PTL

\* A scan ends with an error only at the gate, at a step before the passes, or in one of the
\* three passes whose errors are not all caught; what failed before it was told.
THEOREM OnlyTheseEndAScan == Spec => []OnlyTheseAbort
  BY Invariance, PTL DEF IInv

-----------------------------------------------------------------------------

(* Type correctness.                                                       *)

\* The steps that raised are counted, so their set is finite.
TypeInv == TypeOK /\ IsFiniteSet(failed)

LEMMA FoundIsTyped ==
  ASSUME NEW c \in CheckIds
  PROVE  Found(c) \in Seq(UNION {Range(Produces[d]) : d \in CheckIds})
  <1> DEFINE U == UNION {Range(Produces[d]) : d \in CheckIds}
  <1>1. Produces[c] \in Seq(Range(Produces[c])) /\ Range(Produces[c]) \subseteq U
    BY SiteAssumption
  <1>2. Produces[c] \in Seq(U)
    BY <1>1
  <1>3. <<>> \in Seq(U)
    OBVIOUS
  <1> QED
    BY <1>2, <1>3 DEF Found

LEMMA CountedOnce ==
  ASSUME TypeInv, NEW p \in Range(Order), Cardinality(failed) < MaxFaults
  PROVE  /\ failed \union {p} \subseteq Range(Order) /\ IsFiniteSet(failed \union {p})
         /\ Cardinality(failed \union {p}) <= MaxFaults
  <1>1. /\ IsFiniteSet(failed \union {p})
        /\ \/ Cardinality(failed \union {p}) = Cardinality(failed)
           \/ Cardinality(failed \union {p}) = Cardinality(failed) + 1
    BY FS_AddElement DEF TypeInv
  <1>2. Cardinality(failed) \in Nat
    BY FS_CardinalityType DEF TypeInv
  <1> QED
    BY <1>1, <1>2, FaultsAssumption DEF TypeInv, TypeOK

\* What a step p of the order may do to the state.
Typed(p) ==
  /\ UNCHANGED <<cfg, disabled, running, findings, errors>>
  /\ pc' \in {After(p), "raised"} /\ session' \in Sessions
  /\ sent' \subseteq Traffic \X Sessions /\ hits' \subseteq Passes
  /\ \/ failed' = failed
     \/ failed' = failed \union {p} /\ Cardinality(failed) < MaxFaults

LEMMA TypedKeeps ==
  ASSUME TypeInv, NEW p \in {"gate", "login"} \union UnderWay, Typed(p) PROVE TypeInv'
  <1>1. p \in Range(Order) /\ After(p) \in Range(Order)
    BY Followers, StepNames, PassesAre DEF UnderWay
  <1>2. /\ failed' \subseteq Range(Order) /\ IsFiniteSet(failed')
        /\ Cardinality(failed') <= MaxFaults
    BY <1>1, CountedOnce DEF Typed, TypeInv, TypeOK
  <1> QED
    BY <1>1, <1>2 DEF Typed, TypeInv, TypeOK, Ends

LEMMA EarlyStepsAreTyped ==
  ASSUME TypeInv
  PROVE  /\ Gate => Typed("gate")
         /\ LogIn => Typed("login")
         /\ LoadOpenapi => Typed("openapi")
         /\ LoadHar => Typed("har")
         /\ Crawl => Typed("crawl")
         /\ SelectChecks => Typed("select")
  <1> USE StepNames DEF TypeInv, TypeOK, Typed, Step, Survive, Raise, Sessions, Traffic
  <1>1. (Gate => Typed("gate")) /\ (SelectChecks => Typed("select"))
    BY DEF Gate, SelectChecks
  <1>2. LogIn => Typed("login")
    BY DEF LogIn
  <1>3. (LoadOpenapi => Typed("openapi")) /\ (LoadHar => Typed("har"))
    BY DEF LoadOpenapi, LoadHar
  <1>4. Crawl => Typed("crawl")
    BY DEF Crawl
  <1> QED
    BY <1>1, <1>2, <1>3, <1>4

LEMMA PassIsTyped ==
  ASSUME TypeInv, NEW p \in Passes, NEW wanted, NEW downgraded, Pass(p, wanted, downgraded)
  PROVE  Typed(p)
  <1>1. <<p, session>> \in Traffic \X Sessions /\ session \in Sessions
    BY StepNames, PassesAre DEF TypeInv, TypeOK, Traffic
  <1>2. sent \subseteq Traffic \X Sessions /\ hits \subseteq Passes
    BY DEF TypeInv, TypeOK
  <1>3. sent' \subseteq Traffic \X Sessions /\ hits' \subseteq Passes /\ session' = session
    BY <1>1, <1>2 DEF Pass, Raise
  <1>4. pc' \in {After(p), "raised"}
    BY DEF Pass, Raise, Survive
  <1> QED
    BY <1>1, <1>3, <1>4 DEF Pass, Typed, Step, Raise

LEMMA ScanSessionIsTyped == ASSUME TypeInv, ScanSession PROVE Typed("session")
  <1>1. /\ <<"session", session>> \in Traffic \X Sessions
        /\ <<"logout", session>> \in Traffic \X Sessions
        /\ session \in Sessions /\ "closed" \in Sessions /\ "session" \in Passes
    BY StepNames, PassesAre DEF TypeInv, TypeOK, Traffic, Sessions
  <1>2. sent \subseteq Traffic \X Sessions /\ hits \subseteq Passes
    BY DEF TypeInv, TypeOK
  <1>3. sent' \subseteq Traffic \X Sessions /\ hits' \subseteq Passes /\ session' \in Sessions
    BY <1>1, <1>2 DEF ScanSession, Raise
  <1>4. pc' \in {After("session"), "raised"}
    BY DEF ScanSession, Raise, Survive
  <1> QED
    BY <1>3, <1>4 DEF ScanSession, Typed, Step, Raise

LEMMA ChecksKeepTypes ==
  ASSUME TypeInv, \/ StartChecks \/ Report \/ Cancel
                  \/ \E c \in running : CheckEnds(c) \/ CheckRaises(c)
  PROVE  TypeInv'
  <1>1. CASE StartChecks \/ Report \/ Cancel
    BY <1>1, StepNames
    DEF StartChecks, Report, Cancel, TypeInv, TypeOK, Ends, Selected
  <1>2. CASE \E c \in running : CheckEnds(c) \/ CheckRaises(c)
    <2> DEFINE U == UNION {Range(Produces[d]) : d \in CheckIds}
    <2>1. PICK c \in running : CheckEnds(c) \/ CheckRaises(c)
      BY <1>2
    <2>2. c \in CheckIds /\ findings \in Seq(U)
      BY DEF TypeInv, TypeOK
    <2>3. Found(c) \in Seq(U)
      BY <2>2, FoundIsTyped
    <2> HIDE DEF U
    <2>4. findings \o Found(c) \in Seq(U)
      BY <2>2, <2>3
    <2>5. findings' \in Seq(U)
      BY <2>1, <2>2, <2>4 DEF CheckEnds, CheckRaises
    <2> QED
      BY <2>1, <2>2, <2>5 DEF CheckEnds, CheckRaises, TypeInv, TypeOK, U
  <1> QED
    BY <1>1, <1>2

LEMMA NextKeepsTypes == ASSUME TypeInv, [Next]_vars PROVE TypeInv'
  <1>1. CASE Gate \/ LogIn \/ LoadOpenapi \/ LoadHar \/ Crawl \/ SelectChecks
    <2>1. \/ Typed("gate") \/ Typed("login") \/ Typed("openapi")
          \/ Typed("har") \/ Typed("crawl") \/ Typed("select")
      BY <1>1, EarlyStepsAreTyped
    <2> DEFINE Early == {"gate", "login", "openapi", "har", "crawl", "select"}
    <2>2. PICK p \in Early : Typed(p)
      BY <2>1
    <2>3. Early \subseteq {"gate", "login"} \union UnderWay
      BY DEF UnderWay
    <2>4. p \in {"gate", "login"} \union UnderWay
      BY <2>2, <2>3
    <2> QED
      BY <2>2, <2>4, TypedKeeps
  <1>2. CASE \/ Fingerprint \/ OsvLookup \/ ProbeDisclosure \/ Inject \/ InjectStored
             \/ ScanEnvelope \/ ScanUpload \/ ScanCsrf
    BY <1>2, PassIsTyped, TypedKeeps, PassesAre
    DEF UnderWay, Fingerprint, OsvLookup, ProbeDisclosure, Inject, InjectStored, ScanEnvelope,
        ScanUpload, ScanCsrf
  <1>3. CASE ScanSession
    BY <1>3, ScanSessionIsTyped, TypedKeeps, PassesAre DEF UnderWay
  <1>4. CASE StartChecks \/ Report \/ Cancel \/ \E c \in running : CheckEnds(c) \/ CheckRaises(c)
    BY <1>4, ChecksKeepTypes
  <1>5. CASE UNCHANGED vars
    BY <1>5 DEF vars, TypeInv, TypeOK
  <1> QED
    BY <1>1, <1>2, <1>3, <1>4, <1>5 DEF Next

\* Type correctness of an engine run: what is sent, found and counted stays in its sets.
THEOREM TypeCorrect == Spec => []TypeOK
  <1>1. Init => TypeInv
    BY StepNames, FS_EmptySet, FaultsAssumption, SiteAssumption
    DEF Init, TypeInv, TypeOK, Sessions
  <1>2. TypeInv => TypeOK
    BY DEF TypeInv
  <1> QED
    BY <1>1, <1>2, NextKeepsTypes, PTL DEF Spec

\* Both together: what fails is told, and aborts a scan only where nothing catches it.
THEOREM FailuresStayCandid == Spec => []FailuresAreTold
  BY ReportsAreCandid, OnlyTheseEndAScan, PTL DEF FailuresAreTold

-----------------------------------------------------------------------------
(* De-duplication.                                                         *)

\* The fingerprints of a list, and the positions where one is met for the first time.
Known(q) == {FingerprintOf(f) : f \in Range(q)}
Firsts(fs) ==
  {i \in 1..Len(fs) : \A j \in 1..(i - 1) : FingerprintOf(fs[j]) # FingerprintOf(fs[i])}
Apart(q) == \A i, j \in DOMAIN q : FingerprintOf(q[i]) = FingerprintOf(q[j]) => i = j

\* One finding more.
LEMMA Appended ==
  ASSUME NEW S, NEW q \in Seq(S), NEW f \in S
  PROVE  /\ Append(q, f) \in Seq(S) /\ Range(Append(q, f)) = Range(q) \union {f}
         /\ Apart(q) /\ FingerprintOf(f) \notin Known(q) => Apart(Append(q, f))
  <1> DEFINE r == Append(q, f)
             n == Len(q)
  <1>1. /\ r \in Seq(S) /\ n \in Nat /\ DOMAIN q = 1..n /\ DOMAIN r = 1..(n + 1)
        /\ r[n + 1] = f /\ \A i \in 1..n : r[i] = q[i]
    OBVIOUS
  <1> HIDE DEF r, n
  <1>2. /\ \A i \in 1..(n + 1) : i = n + 1 \/ i \in 1..n
        /\ n + 1 \in 1..(n + 1) /\ \A i \in 1..n : i \in 1..(n + 1)
    BY <1>1
  <1>3. Range(r) = Range(q) \union {f}
    BY <1>1, <1>2 DEF Range
  <1>4. ASSUME Apart(q), FingerprintOf(f) \notin Known(q) PROVE Apart(r)
    <2>1. \A i \in 1..n : FingerprintOf(q[i]) # FingerprintOf(f)
      BY <1>1, <1>4 DEF Known, Range
    <2> QED
      BY <1>1, <1>2, <1>4, <2>1 DEF Apart
  <1> QED
    BY <1>1, <1>3, <1>4 DEF r

\* What _dedupe has kept of the first i findings.
Kept(S, fs, i, u) ==
  /\ u \in Seq(S) /\ Apart(u)
  /\ Range(u) = {fs[k] : k \in Firsts(fs) \intersect (1..i)}
  /\ Known(u) = {FingerprintOf(fs[k]) : k \in 1..i}

Turned(u, f) == IF FingerprintOf(f) \in Known(u) THEN u ELSE Append(u, f)

LEMMA KeptNext ==
  ASSUME NEW S, NEW fs \in Seq(S), NEW i \in 1..Len(fs), NEW u, Kept(S, fs, i - 1, u)
  PROVE  Kept(S, fs, i, Turned(u, fs[i]))
  <1>1. i \in Nat /\ i >= 1 /\ fs[i] \in S
    OBVIOUS
  <1>2. /\ \A k \in 1..i : k = i \/ k \in 1..(i - 1)
        /\ i \in 1..i /\ i \notin 1..(i - 1) /\ \A k \in 1..(i - 1) : k \in 1..i
    BY <1>1
  <1>3. {FingerprintOf(fs[k]) : k \in 1..i} = Known(u) \union {FingerprintOf(fs[i])}
    BY <1>2 DEF Kept
  <1>4. CASE FingerprintOf(fs[i]) \in Known(u)
    <2>1. PICK k \in 1..(i - 1) : FingerprintOf(fs[k]) = FingerprintOf(fs[i])
      BY <1>4 DEF Kept
    <2>2. i \notin Firsts(fs)
      BY <2>1 DEF Firsts
    <2>3. Firsts(fs) \intersect (1..i) = Firsts(fs) \intersect (1..(i - 1))
      BY <1>2, <2>2
    <2> QED
      BY <1>3, <1>4, <2>3 DEF Kept, Turned
  <1>5. CASE FingerprintOf(fs[i]) \notin Known(u)
    <2>1. i \in Firsts(fs)
      BY <1>5 DEF Kept, Firsts
    <2>2. {fs[k] : k \in Firsts(fs) \intersect (1..i)} = Range(u) \union {fs[i]}
      BY <1>2, <2>1 DEF Kept
    <2> DEFINE r == Append(u, fs[i])
    <2>3. r \in Seq(S) /\ Apart(r) /\ Range(r) = Range(u) \union {fs[i]}
      BY <1>1, <1>5, Appended DEF Kept
    <2> HIDE DEF r
    <2>4. Known(r) = Known(u) \union {FingerprintOf(fs[i])}
      BY <2>3 DEF Known
    <2> QED
      BY <1>3, <1>5, <2>2, <2>3, <2>4 DEF Kept, Turned, r
  <1> QED
    BY <1>4, <1>5

\* _dedupe keeps the first finding of each fingerprint and no other.
LEMMA DedupeKeepsFirsts ==
  ASSUME NEW S, NEW fs \in Seq(S)
  PROVE  /\ Range(Dedupe(fs)) = {fs[i] : i \in Firsts(fs)}
         /\ Dedupe(fs) \in Seq(S) /\ Apart(Dedupe(fs))
  <1> DEFINE n == Len(fs)
             Turn(f, i) == IF i = 0 THEN <<>> ELSE Turned(f[i - 1], fs[i])
             unique == CHOOSE f : f = [i \in 0..n |-> Turn(f, i)]
             turn == [i \in 1..n |-> [q \in Seq(S) |-> Turned(q, fs[i])]]
  <1>1. Dedupe(fs) = unique[n]
    BY DEF Dedupe, Turned, Known
  <1>2. n \in Nat /\ <<>> \in Seq(S) /\ \A i \in 1..n : fs[i] \in S
    OBVIOUS
  <1>3. IsStep(n, Seq(S), turn)
    <2>1. \A i \in 1..n : \A q \in Seq(S) : Turned(q, fs[i]) \in Seq(S)
      BY <1>2, Appended DEF Turned
    <2> QED
      BY <2>1 DEF IsStep
  <1>4. PICK g : IsRecursive(n, Seq(S), <<>>, turn, g)
    <2> HIDE DEF turn, n
    <2> QED
      BY <1>2, <1>3, Recursion
  <1>5. /\ g \in [0..n -> Seq(S)] /\ g[0] = <<>>
        /\ \A i \in 1..n : g[i - 1] \in Seq(S) /\ g[i] = Turned(g[i - 1], fs[i])
    <2>1. \A i \in 1..n : g[i - 1] \in Seq(S)
      BY <1>2, <1>4 DEF IsRecursive
    <2> QED
      BY <1>4, <2>1 DEF IsRecursive
  <1>6. g = [i \in 0..n |-> Turn(g, i)]
    <2>1. \A i \in 0..n : g[i] = Turn(g, i)
      BY <1>2, <1>5
    <2> QED
      BY <1>5, <2>1
  <1>7. unique = [i \in 0..n |-> Turn(unique, i)]
    BY <1>6
  <1>8. \A i \in 0..n : unique[i] = Turn(unique, i)
    <2> HIDE DEF unique, Turn
    <2> QED
      BY <1>7
  <1>9. unique[0] = <<>> /\ \A i \in 1..n : unique[i] = Turned(unique[i - 1], fs[i])
    <2> HIDE DEF unique
    <2> QED
      BY <1>2, <1>8
  <1> HIDE DEF unique, Turn, turn
  <1> DEFINE Ns == {i \in 0..n : Kept(S, fs, i, unique[i])}
  <1>10. 0 \in Ns
    <2>1. /\ DOMAIN <<>> = {} /\ 1..0 = {}
      OBVIOUS
    <2>2. Range(<<>>) = {} /\ Known(<<>>) = {} /\ Apart(<<>>)
      BY <2>1 DEF Range, Known, Apart
    <2>3. Kept(S, fs, 0, <<>>)
      BY <1>2, <2>1, <2>2 DEF Kept
    <2> QED
      BY <1>2, <1>9, <2>3
  <1>11. \A i \in 1..n : i - 1 \in Ns => i \in Ns
    BY <1>2, <1>9, KeptNext
  <1>12. n \in Ns
    <2> HIDE DEF Ns, n
    <2>1. 0..n \subseteq Ns
      BY <1>2, <1>10, <1>11, Upto
    <2> QED
      BY <1>2, <2>1
  <1>13. Firsts(fs) \intersect (1..n) = Firsts(fs)
    BY DEF Firsts
  <1> QED
    BY <1>1, <1>12, <1>13 DEF Kept

\* Lists that share no fingerprint are de-duplicated each on its own.
LEMMA DedupeOfBoth ==
  ASSUME NEW S, NEW a \in Seq(S), NEW b \in Seq(S),
         \A f \in Range(a), g \in Range(b) : FingerprintOf(f) # FingerprintOf(g)
  PROVE  Range(Dedupe(a \o b)) = Range(Dedupe(a)) \union Range(Dedupe(b))
  <1> DEFINE m == Len(a)
             k == Len(b)
             c == a \o b
  <1>1. /\ m \in Nat /\ k \in Nat /\ DOMAIN a = 1..m /\ DOMAIN b = 1..k
        /\ c \in Seq(S) /\ Len(c) = m + k
        /\ \A i \in 1..(m + k) : c[i] = IF i <= m THEN a[i] ELSE b[i - m]
    OBVIOUS
  <1> HIDE DEF c, m, k
  <1>2. \A i \in 1..m : i \in 1..(m + k) /\ c[i] = a[i]
    BY <1>1
  <1>3. \A i \in 1..k : i + m \in 1..(m + k) /\ c[i + m] = b[i]
    <2> SUFFICES ASSUME NEW i \in 1..k PROVE i + m \in 1..(m + k) /\ c[i + m] = b[i]
      OBVIOUS
    <2> DEFINE j == i + m
    <2>1. j \in 1..(m + k) /\ ~(j <= m) /\ j - m = i
      BY <1>1
    <2> HIDE DEF j
    <2>2. c[j] = b[j - m]
      BY <1>1, <2>1
    <2> QED
      BY <2>1, <2>2 DEF j
  <1>4. \A i \in 1..(m + k) : i \in 1..m \/ \E j \in 1..k : i = j + m
    <2> SUFFICES ASSUME NEW i \in 1..(m + k), i \notin 1..m PROVE \E j \in 1..k : i = j + m
      OBVIOUS
    <2>1. i - m \in 1..k /\ i = (i - m) + m
      BY <1>1
    <2> QED
      BY <2>1
  <1>5. \A i \in 1..m, j \in 1..k : FingerprintOf(a[i]) # FingerprintOf(b[j])
    BY <1>1 DEF Range
  <1>6. \A i \in 1..m : i \in Firsts(c) <=> i \in Firsts(a)
    <2> SUFFICES ASSUME NEW i \in 1..m PROVE i \in Firsts(c) <=> i \in Firsts(a)
      OBVIOUS
    <2>1. \A j \in 1..(i - 1) : j \in 1..m
      BY <1>1
    <2> QED
      BY <1>1, <1>2, <2>1 DEF Firsts, m
  <1>7. \A i \in 1..k : i + m \in Firsts(c) <=> i \in Firsts(b)
    <2> SUFFICES ASSUME NEW i \in 1..k PROVE i + m \in Firsts(c) <=> i \in Firsts(b)
      OBVIOUS
    <2>1. \A j \in 1..((i + m) - 1) : j \in 1..m \/ \E l \in 1..(i - 1) : j = l + m
      <3> SUFFICES ASSUME NEW j \in 1..((i + m) - 1), j \notin 1..m
                   PROVE  \E l \in 1..(i - 1) : j = l + m
        OBVIOUS
      <3>1. j - m \in 1..(i - 1) /\ j = (j - m) + m
        BY <1>1
      <3> QED
        BY <3>1
    <2>2. \A l \in 1..(i - 1) : l \in 1..k /\ l + m \in 1..((i + m) - 1)
      BY <1>1
    <2>3. \A j \in 1..m : FingerprintOf(c[j]) # FingerprintOf(b[i])
      BY <1>2, <1>5
    <2>4. (\A j \in 1..((i + m) - 1) : FingerprintOf(c[j]) # FingerprintOf(b[i]))
             <=> \A l \in 1..(i - 1) : FingerprintOf(b[l]) # FingerprintOf(b[i])
      BY <1>3, <2>1, <2>2, <2>3
    <2>5. i + m \in Firsts(c) <=>
             \A j \in 1..((i + m) - 1) : FingerprintOf(c[j]) # FingerprintOf(b[i])
      BY <1>1, <1>3 DEF Firsts
    <2>6. i \in Firsts(b) <=> \A l \in 1..(i - 1) : FingerprintOf(b[l]) # FingerprintOf(b[i])
      BY DEF Firsts, k
    <2> QED
      BY <2>4, <2>5, <2>6
  <1>8. Firsts(a) \subseteq 1..m /\ Firsts(b) \subseteq 1..k /\ Firsts(c) \subseteq 1..(m + k)
    BY <1>1 DEF Firsts, m, k
  <1>9. {c[i] : i \in Firsts(c)} = {a[i] : i \in Firsts(a)} \union {b[i] : i \in Firsts(b)}
    <2>1. \A i \in Firsts(c) : c[i] \in {a[j] : j \in Firsts(a)} \union {b[j] : j \in Firsts(b)}
      BY <1>2, <1>3, <1>4, <1>6, <1>7, <1>8
    <2>2. \A i \in Firsts(a) : i \in Firsts(c) /\ c[i] = a[i]
      BY <1>2, <1>6, <1>8
    <2>3. \A i \in Firsts(b) : i + m \in Firsts(c) /\ c[i + m] = b[i]
      BY <1>3, <1>7, <1>8
    <2> QED
      BY <2>1, <2>2, <2>3
  <1> QED
    BY <1>1, <1>9, DedupeKeepsFirsts DEF c

LEMMA Joined ==
  ASSUME NEW S, NEW a \in Seq(S), NEW b \in Seq(S) PROVE Range(a \o b) = Range(a) \union Range(b)
  <1> DEFINE m == Len(a)
             k == Len(b)
             c == a \o b
  <1>1. /\ m \in Nat /\ k \in Nat /\ DOMAIN a = 1..m /\ DOMAIN b = 1..k /\ DOMAIN c = 1..(m + k)
        /\ \A i \in 1..(m + k) : c[i] = IF i <= m THEN a[i] ELSE b[i - m]
    OBVIOUS
  <1> HIDE DEF c, m, k
  <1>2. \A i \in 1..m : i \in 1..(m + k) /\ c[i] = a[i]
    BY <1>1
  <1>3. \A i \in 1..k : i + m \in 1..(m + k) /\ c[i + m] = b[i]
    <2> SUFFICES ASSUME NEW i \in 1..k PROVE i + m \in 1..(m + k) /\ c[i + m] = b[i]
      OBVIOUS
    <2> DEFINE j == i + m
    <2>1. j \in 1..(m + k) /\ ~(j <= m) /\ j - m = i
      BY <1>1
    <2> HIDE DEF j
    <2>2. c[j] = b[j - m]
      BY <1>1, <2>1
    <2> QED
      BY <2>1, <2>2 DEF j
  <1>4. Range(a) = {a[i] : i \in 1..m} /\ Range(b) = {b[i] : i \in 1..k}
        /\ Range(c) = {c[i] : i \in 1..(m + k)}
    BY <1>1 DEF Range
  <1>5. \A i \in 1..(m + k) : c[i] \in Range(a) \union Range(b)
    <2> SUFFICES ASSUME NEW i \in 1..(m + k) PROVE c[i] \in Range(a) \union Range(b)
      OBVIOUS
    <2>1. CASE i <= m
      <3>1. i \in 1..m /\ c[i] = a[i]
        BY <1>1, <2>1
      <3> QED
        BY <1>4, <3>1
    <2>2. CASE ~(i <= m)
      <3>1. i - m \in 1..k /\ c[i] = b[i - m]
        BY <1>1, <2>2
      <3> QED
        BY <1>4, <3>1
    <2> QED
      BY <2>1, <2>2
  <1>6. Range(a) \subseteq Range(c)
    BY <1>2, <1>4
  <1>7. Range(b) \subseteq Range(c)
    BY <1>3, <1>4
  <1>8. Range(c) \subseteq Range(a) \union Range(b)
    BY <1>4, <1>5
  <1> QED
    BY <1>6, <1>7, <1>8 DEF c

-----------------------------------------------------------------------------
(* The report.                                                             *)

\* While the checks run, what has been found is what the checks that returned made, each with
\* its own id: kept are the first findings of every one of them.
ReportInv ==
  /\ pc \in Range(Order) => findings = <<>> /\ errors = {}
  /\ pc = "checking" =>
       /\ running \subseteq Selected /\ errors \subseteq Selected /\ running \intersect errors = {}
       /\ \A f \in Range(findings) : f.check \in Selected \ (running \union errors)
       /\ Range(Dedupe(findings)) =
            UNION {Range(Dedupe(Found(c))) : c \in Selected \ (running \union errors)}
  /\ ReportIsComplete

Results == UNION {Range(Produces[c]) : c \in CheckIds}

LEMMA NothingFound == Range(<<>>) = {} /\ Range(Dedupe(<<>>)) = {}
  <1>1. <<>> \in Seq({}) /\ DOMAIN <<>> = {} /\ 1..Len(<<>>) = {}
    OBVIOUS
  <1>2. Firsts(<<>>) = {}
    BY <1>1 DEF Firsts
  <1>3. Range(Dedupe(<<>>)) = {<<>>[i] : i \in Firsts(<<>>)}
    BY <1>1, DedupeKeepsFirsts
  <1>4. Range(<<>>) = {}
    BY <1>1 DEF Range
  <1> QED
    BY <1>2, <1>3, <1>4

LEMMA FoundBearsItsId ==
  ASSUME NEW c \in CheckIds PROVE Found(c) \in Seq(Results) /\ \A f \in Range(Found(c)) : f.check = c
  <1>1. Found(c) \in Seq(Results)
    BY FoundIsTyped DEF Results
  <1>2. \A f \in Range(Produces[c]) : f.check = c
    BY SiteAssumption
  <1> QED
    BY <1>1, <1>2, NothingFound DEF Found

LEMMA StepsAreTyped ==
  ASSUME TypeInv,
         \/ Gate \/ LogIn \/ LoadOpenapi \/ LoadHar \/ Crawl \/ SelectChecks
         \/ Fingerprint \/ OsvLookup \/ ProbeDisclosure \/ Inject \/ InjectStored
         \/ ScanEnvelope \/ ScanUpload \/ ScanCsrf \/ ScanSession
  PROVE  \E p \in {"gate", "login"} \union UnderWay : pc = p /\ Typed(p)
  <1>1. CASE Gate \/ LogIn \/ LoadOpenapi \/ LoadHar \/ Crawl \/ SelectChecks
    <2>1. \/ pc = "gate" /\ Typed("gate")
          \/ pc = "login" /\ Typed("login")
          \/ pc = "openapi" /\ Typed("openapi")
          \/ pc = "har" /\ Typed("har")
          \/ pc = "crawl" /\ Typed("crawl")
          \/ pc = "select" /\ Typed("select")
      BY <1>1, EarlyStepsAreTyped
      DEF Gate, LogIn, LoadOpenapi, LoadHar, Crawl, SelectChecks, Step
    <2> QED
      BY <2>1 DEF UnderWay
  <1>2. CASE \/ Fingerprint \/ OsvLookup \/ ProbeDisclosure \/ Inject \/ InjectStored
             \/ ScanEnvelope \/ ScanUpload \/ ScanCsrf
    <2>1. \E p \in Passes : pc = p /\ Typed(p)
      BY <1>2, PassIsTyped, PassesAre
      DEF Pass, Step, Fingerprint, OsvLookup, ProbeDisclosure, Inject, InjectStored, ScanEnvelope,
          ScanUpload, ScanCsrf
    <2> QED
      BY <2>1 DEF UnderWay
  <1>3. CASE ScanSession
    BY <1>3, ScanSessionIsTyped, PassesAre DEF ScanSession, Step, UnderWay
  <1> QED
    BY <1>1, <1>2, <1>3

LEMMA StepsReportNothing ==
  ASSUME ReportInv, NEW p \in {"gate", "login"} \union UnderWay, pc = p, Typed(p) PROVE ReportInv'
  <1>1. pc \in Range(Order) /\ pc' \notin {"checking", "reported"}
    BY Followers, StepNames, PassesAre DEF Typed, UnderWay
  <1>2. findings' = <<>> /\ errors' = {}
    BY <1>1 DEF ReportInv, Typed
  <1> QED
    BY <1>1, <1>2 DEF ReportInv, ReportIsComplete

LEMMA StartReportsNothing == ASSUME ReportInv, StartChecks PROVE ReportInv'
  <1>1. /\ running' = Selected /\ pc' = "checking" /\ UNCHANGED <<cfg, disabled, findings, errors>>
        /\ pc \in Range(Order)
    BY StepNames DEF StartChecks
  <1>2. Selected' = Selected /\ findings = <<>> /\ errors = {}
    BY <1>1 DEF Selected, ModeAllows, Active, ReportInv
  <1>3. "checking" \notin Range(Order)
    BY StepNames
  <1> QED
    BY <1>1, <1>2, <1>3, NothingFound DEF ReportInv, ReportIsComplete

\* A check that returns adds its own first findings, which share no fingerprint with the others'.
LEMMA CheckEndsReports ==
  ASSUME ReportInv, TypeInv, NEW c \in running, CheckEnds(c), pc = "checking" PROVE ReportInv'
  <1> DEFINE returned == Selected \ (running \union errors)
             now == Selected \ (running' \union errors)
  <1>1. /\ UNCHANGED <<cfg, disabled, hits, pc, errors, report>> /\ running' = running \ {c}
        /\ findings' = findings \o Found(c)
    BY DEF CheckEnds
  <1>2. /\ running \subseteq Selected /\ errors \subseteq Selected /\ running \intersect errors = {}
        /\ \A f \in Range(findings) : f.check \in returned
        /\ Range(Dedupe(findings)) = UNION {Range(Dedupe(Found(d))) : d \in returned}
    BY DEF ReportInv
  <1>3. /\ Selected' = Selected /\ \A d : Found(d)' = Found(d)
    BY <1>1 DEF Selected, ModeAllows, Active, Found, SourceOf
  <1>4. now = returned \union {c} /\ c \notin returned /\ c \in CheckIds
    BY <1>1, <1>2 DEF Selected
  <1>5. findings \in Seq(Results) /\ Found(c) \in Seq(Results)
    BY <1>4, FoundBearsItsId DEF TypeInv, TypeOK, Results
  <1>6. \A f \in Range(Found(c)) : f.check = c
    BY <1>4, FoundBearsItsId
  <1>7. \A f \in Range(findings), g \in Range(Found(c)) : FingerprintOf(f) # FingerprintOf(g)
    BY <1>2, <1>4, <1>6 DEF FingerprintOf
  <1>8. Range(Dedupe(findings')) = Range(Dedupe(findings)) \union Range(Dedupe(Found(c)))
    BY <1>1, <1>5, <1>7, DedupeOfBoth
  <1>9. \A f \in Range(findings') : f.check \in now
    <2>1. Range(findings \o Found(c)) = Range(findings) \union Range(Found(c))
      BY <1>5, Joined
    <2> QED
      BY <1>1, <1>2, <1>4, <1>6, <2>1
  <1>10. Range(Dedupe(findings')) = UNION {Range(Dedupe(Found(d))) : d \in now}
    BY <1>2, <1>4, <1>8
  <1> HIDE DEF now, returned
  <1>11. pc' = "checking" /\ "checking" \notin Range(Order)
    BY <1>1, StepNames
  <1>12. (Selected \ (running \union errors))' = now
    BY <1>1, <1>3 DEF now
  <1>13. UNION {Range(Dedupe(Found(d)')) : d \in now} = UNION {Range(Dedupe(Found(d))) : d \in now}
    BY <1>3
  <1> QED
    BY <1>1, <1>2, <1>3, <1>9, <1>10, <1>11, <1>12, <1>13 DEF ReportInv, ReportIsComplete

LEMMA OtherEndsReport ==
  ASSUME ReportInv, TypeInv, Report \/ Cancel \/ \E c \in running : CheckRaises(c) /\ pc = "checking"
  PROVE  ReportInv'
  <1> DEFINE returned == Selected \ (running \union errors)
             Of(S) == UNION {Range(Dedupe(Found(d))) : d \in S}
  <1>1. CASE Cancel
    BY <1>1, StepNames DEF Cancel, ReportInv, ReportIsComplete, Ends
  <1>2. CASE \E c \in running : CheckRaises(c) /\ pc = "checking"
    <2>1. PICK c \in running : CheckRaises(c) /\ pc = "checking"
      BY <1>2
    <2>2. /\ UNCHANGED <<cfg, disabled, hits, pc, findings, report>> /\ running' = running \ {c}
          /\ errors' = errors \union {c}
      BY <2>1 DEF CheckRaises
    <2>3. Selected' = Selected /\ \A d : Found(d)' = Found(d)
      BY <2>2 DEF Selected, ModeAllows, Active, Found, SourceOf
    <2>4. running' \union errors' = running \union errors
      BY <2>2
    <2>5. (Selected \ (running \union errors))' = returned
      BY <2>3, <2>4
    <2>6. UNION {Range(Dedupe(Found(d)')) : d \in returned} = Of(returned)
      BY <2>3
    <2>7. /\ running \subseteq Selected /\ errors \subseteq Selected /\ running \intersect errors = {}
          /\ \A f \in Range(findings) : f.check \in returned
          /\ Range(Dedupe(findings)) = Of(returned)
      BY <2>1 DEF ReportInv
    <2>8. "checking" \notin Range(Order)
      BY StepNames
    <2> HIDE DEF returned, Of
    <2> QED
      BY <2>1, <2>2, <2>3, <2>5, <2>6, <2>7, <2>8 DEF ReportInv, ReportIsComplete
  <1>3. CASE Report
    <2>1. /\ UNCHANGED <<cfg, disabled, hits, errors>> /\ report' = Dedupe(findings)
          /\ pc = "checking" /\ pc' = "reported" /\ running = {}
      BY <1>3 DEF Report
    <2>2. Selected' = Selected /\ \A d : Found(d)' = Found(d)
      BY <2>1 DEF Selected, ModeAllows, Active, Found, SourceOf
    <2>3. Range(Dedupe(findings)) = Of(Selected \ errors)
      BY <2>1 DEF ReportInv
    <2>4. Apart(Dedupe(findings))
      BY DedupeKeepsFirsts DEF TypeInv, TypeOK
    <2>5. UNION {Range(Dedupe(Found(d)')) : d \in Selected \ errors} = Of(Selected \ errors)
      BY <2>2
    <2>6. (Selected \ errors)' = Selected \ errors
      BY <2>1, <2>2
    <2>7. "reported" \notin Range(Order)
      BY StepNames
    <2> HIDE DEF Of
    <2>8. ReportIsComplete'
      BY <2>1, <2>3, <2>4, <2>5, <2>6 DEF ReportIsComplete, Apart
    <2> QED
      BY <2>1, <2>7, <2>8 DEF ReportInv
  <1> QED
    BY <1>1, <1>2, <1>3

\* A task runs only while the checks do.
RunsInChecking == running # {} => pc = "checking"

LEMMA RunsInCheckingIsKept == ASSUME TypeInv, RunsInChecking, [Next]_vars PROVE RunsInChecking'
  <1>1. CASE \/ Gate \/ LogIn \/ LoadOpenapi \/ LoadHar \/ Crawl \/ SelectChecks
             \/ Fingerprint \/ OsvLookup \/ ProbeDisclosure \/ Inject \/ InjectStored
             \/ ScanEnvelope \/ ScanUpload \/ ScanCsrf \/ ScanSession
    <2>1. PICK p \in {"gate", "login"} \union UnderWay : pc = p /\ Typed(p)
      BY <1>1, StepsAreTyped
    <2>2. pc # "checking" /\ running' = running
      BY <2>1, PassesAre DEF Typed, UnderWay
    <2> QED
      BY <2>2 DEF RunsInChecking
  <1> QED
    BY <1>1 DEF Next, vars, RunsInChecking, StartChecks, Report, Cancel, CheckEnds, CheckRaises

LEMMA ReportInvIsKept ==
  ASSUME ReportInv, TypeInv, RunsInChecking, [Next]_vars PROVE ReportInv'
  <1>1. CASE UNCHANGED vars
    <2>1. /\ Selected' = Selected /\ (\A d : Found(d)' = Found(d))
          /\ UNCHANGED <<pc, running, errors, findings, report>>
      BY <1>1 DEF vars, Selected, ModeAllows, Active, Found, SourceOf
    <2>2. \A S : UNION {Range(Dedupe(Found(d)')) : d \in S} = UNION {Range(Dedupe(Found(d))) : d \in S}
      BY <2>1
    <2> QED
      BY <2>1, <2>2 DEF ReportInv, ReportIsComplete
  <1>2. CASE \/ Gate \/ LogIn \/ LoadOpenapi \/ LoadHar \/ Crawl \/ SelectChecks
             \/ Fingerprint \/ OsvLookup \/ ProbeDisclosure \/ Inject \/ InjectStored
             \/ ScanEnvelope \/ ScanUpload \/ ScanCsrf \/ ScanSession
    <2>1. PICK p \in {"gate", "login"} \union UnderWay : pc = p /\ Typed(p)
      BY <1>2, StepsAreTyped
    <2> QED
      BY <2>1, StepsReportNothing
  <1>3. CASE StartChecks
    BY <1>3, StartReportsNothing
  <1>4. CASE Report \/ Cancel
    BY <1>4, OtherEndsReport
  <1>5. CASE \E c \in running : CheckEnds(c) \/ CheckRaises(c)
    <2>1. PICK c \in running : CheckEnds(c) \/ CheckRaises(c)
      BY <1>5
    <2>2. pc = "checking"
      BY <2>1 DEF RunsInChecking
    <2> QED
      BY <2>1, <2>2, CheckEndsReports, OtherEndsReport
  <1> QED
    BY <1>1, <1>2, <1>3, <1>4, <1>5 DEF Next

\* _run_checks and _dedupe: whichever order the checks end in and whichever of them raise, the
\* report is the first finding of each fingerprint of each check that returned, and nothing else,
\* for every set of checks and whatever they find.
THEOREM ReportsAreComplete == Spec => []ReportIsComplete
  <1>1. Init => TypeInv /\ RunsInChecking /\ ReportInv
    BY StepNames, FS_EmptySet, FaultsAssumption, SiteAssumption
    DEF Init, TypeInv, TypeOK, Sessions, RunsInChecking, ReportInv, ReportIsComplete
  <1>2. /\ TypeInv /\ RunsInChecking /\ ReportInv /\ [Next]_vars
          => TypeInv' /\ RunsInChecking' /\ ReportInv'
    BY NextKeepsTypes, RunsInCheckingIsKept, ReportInvIsKept
  <1>3. ReportInv => ReportIsComplete
    BY DEF ReportInv
  <1> QED
    BY <1>1, <1>2, <1>3, PTL DEF Spec
=============================================================================
