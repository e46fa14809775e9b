---------------------------- MODULE ScanPipeline ----------------------------
(***************************************************************************)
(* One engine run: core/orchestrator.py with the registry that selects its *)
(* checks.  The passes run one after the other and leave hits; then every  *)
(* selected check runs as a task of its own over those hits and the report *)
(* keeps one finding per fingerprint.                                      *)
(*                                                                         *)
(* A pass is a name.  What a pass finds is abstracted to whether it left   *)
(* hits (hits[p]), what a check makes of them to a short sequence of       *)
(* findings with a fingerprint and a severity.  A cancellation (the        *)
(* runner's, or Ctrl-C) may land at any await.                             *)
(***************************************************************************)
EXTENDS Integers, Sequences, FiniteSets, SequencesExt

CONSTANTS
  Configs,    \* the configurations considered, a subset of Options
  Disabled,   \* the sets of check ids a configuration may disable
  Produces,   \* Produces[c]: the findings check c makes when its pass left hits
  MaxFaults   \* how many steps of one scan may raise

ASSUME FaultsAssumption == MaxFaults \in Nat

-----------------------------------------------------------------------------
(* The options that decide which passes run.                               *)

ScanOptions == {"post_forms", "openapi", "har"}
InjectionOptions == {"stored_xss", "file_upload", "csrf_confirm"}
SessionOptions == {"test_logout"}
AuthOptions == {"login", "static"}

Options ==
  [mode : {"passive", "active"}, attested : BOOLEAN,
   on : SUBSET (ScanOptions \union InjectionOptions \union SessionOptions
               \union AuthOptions \union {"probe", "osv"})]

\* The check families the passes are for, one check each, and one that needs none.
CheckIds == DOMAIN Produces

\* The configurations are possible ones, and a check makes a sequence of findings that bear its
\* id (Check.finding fills it in).
ASSUME SiteAssumption ==
  /\ Configs \subseteq Options
  /\ \A c \in CheckIds : /\ Produces[c] \in Seq(Range(Produces[c]))
                         /\ \A f \in Range(Produces[c]) : f.check = c

ActiveChecks == {"injection", "stored", "envelope", "upload", "csrf", "fixation", "logout"}

OrderLogoutEarly ==
  <<"gate", "login", "openapi", "har", "crawl", "select",
    "fingerprint", "osv", "probe", "inject", "stored", "envelope", "session", "upload", "csrf",
    "checks">>

Order ==
  <<"gate", "login", "openapi", "har", "crawl", "select",
    "fingerprint", "osv", "probe", "inject", "stored", "envelope", "upload", "csrf", "session",
    "checks">>

\* The passes, the part of the order a failure may be survived in.
Passes == {Order[i] : i \in 7..15}

After(p) == Order[CHOOSE i \in DOMAIN Order : i > 1 /\ Order[i - 1] = p]

\* The pass a check reads its hits from; the checks of every other family read the pages.
SourceOf(c) ==
  CASE c = "deps" -> "fingerprint" [] c = "disclosure" -> "probe" [] c = "injection" -> "inject"
    [] c \in {"fixation", "logout", "weak"} -> "session" [] OTHER -> c

Ends == {"reported", "raised", "cancelled"}
Sessions == {"none", "live", "closed"}
\* What is sent to the target, by the step that sends it.
Traffic == Range(Order) \union {"post", "logout"}

VARIABLES
  cfg,       \* the configuration of this scan
  disabled,  \* the check ids it disables
  pc,        \* the step to take, or how the scan ended
  session,   \* the login session: "none", "live", "closed"
  sent,      \* what has been sent to the target, each with the session it was sent under
  hits,      \* the passes that left hits
  failed,    \* the steps that raised
  warnings,  \* what the report warns of
  running,   \* the checks whose task has not ended
  findings,  \* what the checks produced, in the order they ended
  errors,    \* the checks that raised
  report     \* the findings reported

vars == <<cfg, disabled, pc, session, sent, hits, failed, warnings, running, findings, errors, report>>

TypeOK ==
  /\ cfg \in Options /\ disabled \in Disabled
  /\ pc \in Range(Order) \union {"checking"} \union Ends
  /\ session \in Sessions
  /\ sent \subseteq Traffic \X Sessions
  /\ hits \subseteq Passes
  /\ failed \subseteq Range(Order) /\ Cardinality(failed) <= MaxFaults
  /\ running \subseteq CheckIds /\ errors \subseteq CheckIds
  /\ findings \in Seq(UNION {Range(Produces[c]) : c \in CheckIds})

Init ==
  /\ cfg \in Configs /\ disabled \in Disabled
  /\ pc = "gate" /\ session = "none"
  /\ sent = {} /\ hits = {} /\ failed = {} /\ warnings = {}
  /\ running = {} /\ findings = <<>> /\ errors = {} /\ report = <<>>

-----------------------------------------------------------------------------
(* Which checks run, and what a step may do.                               *)

Active == cfg.mode = "active"
On(option) == option \in cfg.on

\* _mode_allows: a passive check runs in every mode.
ModeAllows(c) == c \in ActiveChecks => Active

\* iter_checks
Selected == {c \in CheckIds \ disabled : ModeAllows(c)}

Survive(p) == pc' = After(p)

RaiseSilently(p, downgraded) ==
  /\ Cardinality(failed) < MaxFaults
  /\ failed' = failed \union {p}
  /\ IF downgraded THEN Survive(p) ELSE pc' = "raised"
  /\ UNCHANGED <<hits, session, warnings>>

\* A step that raises: the scan ends with the error unless the step downgrades it.
Raise(p, downgraded) ==
  /\ Cardinality(failed) < MaxFaults
  /\ failed' = failed \union {p}
  /\ IF downgraded THEN Survive(p) /\ warnings' = warnings \union {p}
                   ELSE pc' = "raised" /\ UNCHANGED warnings
  /\ UNCHANGED <<hits, session>>

Step(p) == pc = p /\ UNCHANGED <<cfg, disabled, running, findings, errors, report>>

\* A pass that is wanted sends its requests and leaves hits or raises half-way; one that
\* is not wanted does nothing.
Pass(p, wanted, downgraded) ==
  /\ Step(p)
  /\ IF ~wanted
     THEN Survive(p) /\ UNCHANGED <<sent, hits, failed, warnings, session>>
     ELSE /\ sent' = sent \union {<<p, session>>}
          /\ \/ hits' = hits \union {p} /\ Survive(p) /\ UNCHANGED <<failed, warnings, session>>
             \/ Raise(p, downgraded)

-----------------------------------------------------------------------------
(* The steps of run.                                                       *)

\* What was asked for but needs Active Mode (the logout test a login too).
NotRun ==
  {o \in InjectionOptions \union {"post_forms"} : On(o) /\ ~Active}
    \union {o \in {"test_logout"} : On(o) /\ ~(Active /\ On("login"))}

GateTrustsMode ==
  /\ Step("gate") /\ Survive("gate") /\ warnings' = NotRun
  /\ UNCHANGED <<session, sent, hits, failed>>

\* _enforce_active_gate, then the warnings of run.
Gate ==
  /\ Step("gate")
  /\ IF Active /\ ~cfg.attested
     THEN pc' = "raised" /\ UNCHANGED warnings
     ELSE Survive("gate") /\ warnings' = NotRun
  /\ UNCHANGED <<session, sent, hits, failed>>

\* _log_in
LogIn ==
  /\ Step("login")
  /\ \/ /\ ~On("login") /\ Survive("login")
        /\ UNCHANGED <<session, sent, failed, warnings, hits>>
     \/ /\ On("login") /\ ~Active
        /\ warnings' = warnings \union {"login"} /\ Survive("login")
        /\ UNCHANGED <<session, sent, failed, hits>>
     \/ /\ On("login") /\ Active
        /\ sent' = sent \union {<<"login", "none">>}
        /\ \/ session' = "live" /\ Survive("login") /\ UNCHANGED <<failed, warnings, hits>>
           \/ Raise("login", FALSE)

\* _load_openapi: a document that cannot be used ends the scan.
LoadOpenapi ==
  /\ Step("openapi")
  /\ \/ Survive("openapi") /\ UNCHANGED <<session, hits, failed, warnings>>
     \/ On("openapi") /\ Raise("openapi", FALSE)
  /\ UNCHANGED sent

\* _load_har, with its word about a recording that is signed in when the scan is not.
LoadHar ==
  /\ Step("har")
  /\ \/ ~On("har") /\ Survive("har") /\ UNCHANGED <<session, hits, failed, warnings>>
     \/ /\ On("har") /\ Survive("har") /\ UNCHANGED <<session, hits, failed>>
        /\ \E authenticated \in BOOLEAN :
             warnings' = warnings \union {w \in {"har_anonymous"} :
                                             authenticated /\ ~On("login") /\ ~On("static")}
     \/ On("har") /\ Raise("har", FALSE)
  /\ UNCHANGED sent

\* Crawler.discover, which submits POST forms when told to in Active Mode; it raises when the
\* target cannot be reached.
Crawl ==
  /\ Step("crawl")
  /\ sent' = sent \union {<<"crawl", session>>}
                 \union {<<"post", session>> : o \in {x \in {"post_forms"} : On(x) /\ Active}}
  /\ \/ Survive("crawl") /\ UNCHANGED <<session, hits, failed, warnings>>
     \/ Raise("crawl", FALSE)

\* _select_checks: an id nobody registered is a warning, but a plug-in that cannot be imported,
\* or that registers an id twice, ends the scan (load_plugins).
SelectChecks ==
  /\ Step("select")
  /\ \/ /\ warnings' = warnings \union {w \in {"unknown_check"} : ~(disabled \subseteq CheckIds)}
        /\ Survive("select") /\ UNCHANGED <<session, hits, failed>>
     \/ Raise("select", FALSE)
  /\ UNCHANGED sent

Wants(checks) == Selected \intersect checks # {}

Fingerprint == Pass("fingerprint", Wants({"deps"}), FALSE)
\* _osv_lookup asks OSV.dev, and only about libraries that were detected with a version.  An
\* OsvLookupError is a warning; anything else, such as a record of another shape, ends the scan.
OsvLookup ==
  \E lookupError \in BOOLEAN :
    Pass("osv", On("osv") /\ Wants({"deps"}) /\ "fingerprint" \in hits, lookupError)
ProbeDisclosure == Pass("probe", On("probe") /\ Wants({"disclosure"}), FALSE)
Inject == Pass("inject", Active /\ Wants({"injection"}), TRUE)
InjectStored == Pass("stored", Active /\ On("stored_xss") /\ Wants({"stored"}), TRUE)
ScanEnvelope == Pass("envelope", Active /\ Wants({"envelope"}), TRUE)
ScanUpload == Pass("upload", Active /\ On("file_upload") /\ Wants({"upload"}), TRUE)
ScanCsrfBare == Pass("csrf", Active /\ On("csrf_confirm") /\ Wants({"csrf"}), FALSE)
ScanCsrf == Pass("csrf", Active /\ On("csrf_confirm") /\ Wants({"csrf"}), TRUE)

\* kinds_for, less the logout unless it was asked for.
Kinds == (Selected \intersect {"weak", "fixation", "logout"}) \ {k \in {"logout"} : ~On("test_logout")}

\* _scan_session; its logout step needs a session and may end it.
ScanSession ==
  /\ Step("session")
  /\ \/ Kinds = {} /\ Survive("session") /\ UNCHANGED <<sent, hits, failed, warnings, session>>
     \/ /\ Kinds # {}
        /\ sent' = sent \union {<<"session", session>>}
        /\ \/ hits' = hits \union {"session"} /\ Survive("session")
              /\ UNCHANGED <<failed, warnings, session>>
           \/ Raise("session", TRUE)
     \/ /\ "logout" \in Kinds /\ session = "live"
        /\ sent' = sent \union {<<"session", session>>, <<"logout", session>>}
        /\ session' = "closed"
        /\ hits' = hits \union {"session"} /\ Survive("session")
        /\ UNCHANGED <<failed, warnings>>

-----------------------------------------------------------------------------
(* The checks, all at once, and the report.                                *)

\* _run_checks opens a task per selected check.
StartChecks ==
  /\ pc = "checks"
  /\ running' = Selected /\ pc' = "checking"
  /\ UNCHANGED <<cfg, disabled, session, sent, hits, failed, warnings, findings, errors, report>>

\* What a check makes of what its pass left, or of the pages.
Found(c) == IF SourceOf(c) \in Passes \ hits THEN <<>> ELSE Produces[c]

\* _run_one hands over what the check returned, all of it, when it has returned.
CheckEnds(c) ==
  /\ c \in running
  /\ running' = running \ {c}
  /\ findings' = findings \o Found(c)
  /\ UNCHANGED <<cfg, disabled, pc, session, sent, hits, failed, warnings, errors, report>>

\* A check that raises costs its own findings and nothing else.
CheckRaises(c) ==
  /\ c \in running /\ Cardinality(failed) + Cardinality(errors) < MaxFaults
  /\ running' = running \ {c}
  /\ errors' = errors \union {c}
  /\ UNCHANGED <<cfg, disabled, pc, session, sent, hits, failed, warnings, findings, report>>

FingerprintOfKey(f) == <<f.key>>

\* compute_fingerprint: the id of the check is part of it, so two checks never share one.
FingerprintOf(f) == <<f.check, f.key>>

\* _dedupe keeps the first finding of each fingerprint, in the order given.
Dedupe(fs) ==
  LET seen(kept) == {FingerprintOf(f) : f \in Range(kept)}
      unique[i \in 0..Len(fs)] ==
        IF i = 0 THEN <<>>
        ELSE IF FingerprintOf(fs[i]) \in seen(unique[i - 1]) THEN unique[i - 1]
             ELSE Append(unique[i - 1], fs[i])
  IN unique[Len(fs)]

Report ==
  /\ pc = "checking" /\ running = {}
  /\ report' = Dedupe(findings)
  /\ pc' = "reported"
  /\ UNCHANGED <<cfg, disabled, session, sent, hits, failed, warnings, running, findings, errors>>

\* CancelledError is no Exception: no handler of the pipeline keeps it.
Cancel ==
  /\ pc \notin Ends
  /\ pc' = "cancelled" /\ running' = {}
  /\ UNCHANGED <<cfg, disabled, session, sent, hits, failed, warnings, findings, errors, report>>

Next ==
  \/ Gate \/ LogIn \/ LoadOpenapi \/ LoadHar \/ Crawl \/ SelectChecks
  \/ Fingerprint \/ OsvLookup \/ ProbeDisclosure \/ Inject \/ InjectStored
  \/ ScanEnvelope \/ ScanUpload \/ ScanCsrf \/ ScanSession
  \/ StartChecks \/ Report \/ Cancel
  \/ \E c \in running : CheckEnds(c) \/ CheckRaises(c)

Spec == Init /\ [][Next]_vars

-----------------------------------------------------------------------------
(* Properties.                                                             *)

\* Whatever the options say, nothing that writes to the target, signs in or carries a
\* payload is sent by a scan nobody attested to be authorized (ADR: the active gate).
AttestedOnly ==
  \A r \in sent :
    r[1] \in {"login", "post", "inject", "stored", "envelope", "upload", "csrf", "logout"}
      => Active /\ cfg.attested

\* Every pass runs under the session the login opened: the one step that ends it, the logout
\* test, comes after everything that needs it.
SessionOutlivesPasses ==
  \A r \in sent : r[1] \in Passes \union {"crawl"} =>
    r[2] = (IF Active /\ On("login") THEN "live" ELSE "none")

\* A report is silent about nothing that went wrong before it: each step that raised and each
\* option that asked for a pass the mode forbids is among its warnings.
NothingSilent == pc = "reported" => failed \union NotRun \subseteq warnings

\* "A pass bug must not abort the whole scan": a scan ends with an error only at the gate, before
\* anything else failed, or by a step whose errors are not all caught.  Whatever else had raised
\* by then was survived and told, so that error is the only thing left unsaid.
Uncaught == {"login", "openapi", "har", "crawl", "select", "fingerprint", "osv", "probe"}
OnlyTheseAbort ==
  pc = "raised" =>
    \/ Active /\ ~cfg.attested /\ failed = {}
    \/ \E p \in Uncaught : p \in failed /\ failed \ warnings \subseteq {p}

\* Failures are told and go no further than they must: a report names each step that raised,
\* and a scan is aborted only by a step whose errors are not all caught.
FailuresAreTold == NothingSilent /\ OnlyTheseAbort

\* However the checks interleave and whichever of them raise, the report holds, for each
\* check that returned, the first finding of each of its fingerprints and nothing else: it
\* does not depend on the order the checks ended in.
ReportIsComplete ==
  pc = "reported" =>
    /\ Range(report) = UNION {Range(Dedupe(Found(c))) : c \in Selected \ errors}
    /\ \A i, j \in DOMAIN report : FingerprintOf(report[i]) = FingerprintOf(report[j]) => i = j
=============================================================================
