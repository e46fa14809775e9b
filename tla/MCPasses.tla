------------------------------- MODULE MCPasses -------------------------------
(* Sites for the passes of ActivePasses, SessionPass and DisclosureProbe, and what must hold of
   what they report. *)
EXTENDS MCDetectors, ActivePasses, SessionPass, DisclosureProbe

CONSTANT MaxForms1   \* a cap on the forms tested that small inventories reach

-----------------------------------------------------------------------------
(* Sites that take uploads.                                                *)

\* Which scripts and pages are refused, whether all uploads are answered alike, what is stored
\* and where it is served from, and how.
UploadSites == [refuses : {"nothing", "scripts", "pages"}, alike : BOOLEAN, text : BOOLEAN,
                place : {"linked", "uploads", "assets", "beside", "root", "nowhere"},
                serves : {"runs", "inline", "download", "source"}, climbs : BOOLEAN,
                put : {200, 201, 405}, budget : {3, 40, 80, 400}, forms : 1..2, fails : {0, 2}]
Refuses(in, p) == (in.refuses = "scripts" /\ p.script) \/ (in.refuses = "pages" /\ p.page)
Stores(in, p) == ~Refuses(in, p) /\ (p.family = "baseline" => in.text)
UploadAnswer(in, n, q) ==
  CASE n = in.fails -> Refused
    [] q.op = "upload" ->
         [ok |-> TRUE, status |-> IF Refuses(in, q.payload) /\ ~in.alike THEN 415 ELSE 200,
          body |-> IF in.alike THEN "thanks" ELSE <<"got", q.payload>>,
          links |-> IF in.place = "linked" /\ Stores(in, q.payload) THEN <<"linked">> ELSE <<>>]
    [] q.op = "get" ->
         LET where == IF q.payload.family = "traversal" /\ in.climbs THEN "root" ELSE in.place
         IN [ok |-> TRUE, served |-> q.place = where /\ Stores(in, q.payload),
             ran |-> in.serves = "runs" /\ q.payload.script,
             inline |-> in.serves = "inline" /\ q.payload.page, download |-> in.serves = "download"]
    [] q.op = "put" -> [ok |-> TRUE, status |-> in.put]
    [] OTHER -> [ok |-> TRUE, served |-> in.put = 201]
UploadReport(in) ==
  UploadRun([k \in 1..in.forms |-> k], in.budget, Of("upload", in))

-----------------------------------------------------------------------------
(* Sites with a form.                                                      *)

\* What the site checks before it acts, and how a refusal looks.
FormSites == [checks : {"nothing", "a token", "the token", "origin"}, token : BOOLEAN,
              refusal : {"403", "words", "login", "elsewhere"}, found : BOOLEAN,
              noisy : BOOLEAN, wordy : BOOLEAN, first : {200, 302}, fails : 0..4]
Accepts(in, q) ==
  CASE in.checks = "nothing" -> TRUE [] in.checks = "origin" -> ~q.foreign
    [] in.checks = "a token" -> q.token \in {"kept", "altered"}
    [] in.checks = "the token" -> q.token = "kept"
FormAnswer(in, n, q) ==
  CASE n = in.fails -> Refused
    [] q.op = "fetch" -> [ok |-> TRUE, found |-> in.found, tokens |-> in.token]
    [] Accepts(in, q) ->
         [ok |-> TRUE, first |-> in.first, path |-> "done", rejected |-> in.wordy,
          body |-> IF in.noisy THEN n ELSE 0]
    [] OTHER ->
         [ok |-> TRUE, first |-> IF in.refusal = "403" THEN 403 ELSE IF in.refusal = "login" THEN 302
                                 ELSE in.first,
          path |-> IF in.refusal = "elsewhere" THEN "form" ELSE "done",
          rejected |-> in.refusal \in {"403", "words", "login"}, body |-> 0]
Tried(in) == Experiment(Of("csrf", in))

\* Small inventories: a form is known by its key, and its verdict is given.
InventoryForms == [key : {1, 2}, method : {"GET", "POST"}, multipart : {FALSE}, auth : {FALSE},
                   search : {FALSE}, destructive : BOOLEAN, token : BOOLEAN,
                   verdict : {"confirmed", "refuted"}]
Inventories == [forms : [1..2 -> InventoryForms], third : {1, 3},
                sites : SUBSET {"none", "lax", "strict"}, login : BOOLEAN]
InventoryReport(in) ==
  LET forms == Append(in.forms, [in.forms[1] EXCEPT !.key = in.third])
      run == CsrfRun(forms, MaxForms1, [f \in ToSet(forms) |-> f.verdict])
  IN run @@ [reports |-> [k \in DOMAIN forms |->
               CsrfReport(forms[k], IF forms[k].key \in run.hits THEN "confirmed" ELSE "refuted",
                          in.sites, in.login)]]

-----------------------------------------------------------------------------
(* Sites that read the Host header.                                        *)

EnvelopeSites == [vector : {"none", "Host", "X-Host"}, where : {"Location", "canonical", "body URL"},
                  standing : BOOLEAN, reset : {FALSE}, static : BOOLEAN, trace : {0, 3},
                  budget : {1, 4, 7, 30}, fails : 0..8, urls : 1..5]
EnvelopeAnswer(in, n, q) ==
  LET hit == q.header = in.vector /\ in.vector # "none"
  IN [ok |-> n # in.fails, reflects |-> in.standing \/ hit,
      where |-> IF in.standing \/ hit THEN in.where ELSE "none",
      reset |-> in.reset, dangerous |-> TRUE, static |-> in.static, echo |-> q.url = in.trace]
EnvelopeReport(in) ==
  EnvelopeRun(SampleUrls(1, <<2, 1>>, [k \in 1..in.urls |-> [url |-> k, ok |-> k # 4, get |-> TRUE]], 15),
              in.budget, Of("envelope", in))

-----------------------------------------------------------------------------
(* Sessions.                                                               *)

Servers == [ends : BOOLEAN, keepsId : BOOLEAN, tokenOfSession : BOOLEAN, relogin : BOOLEAN,
            check : BOOLEAN, answer : {"plain", "login page", "failed", "500"}, replayed : BOOLEAN,
            reference : BOOLEAN, endpoint : BOOLEAN, public : BOOLEAN, cookies : BOOLEAN]

FixationSites == [cookies : [{"a", "b"} -> [session : BOOLEAN, jwt : BOOLEAN, kept : BOOLEAN]],
                  needs : SUBSET {"a", "b", "c"}, any : BOOLEAN, reference : BOOLEAN,
                  confirmed : BOOLEAN, fails : SUBSET {"a"}]
Enough(in, names) ==
  IF in.any THEN names \intersect in.needs # {} ELSE in.needs \subseteq names
FixationReport(in) ==
  LET other == [name |-> "c", session |-> FALSE, jwt |-> FALSE, kept |-> TRUE]
      list == <<[name |-> "a"] @@ in.cookies["a"], [name |-> "b"] @@ in.cookies["b"], other>>
      accepted == {names \in SUBSET {"a", "b", "c"} : Enough(in, names)}
  IN [hits |-> Fixation(list, in.reference, in.confirmed, accepted, in.fails)]

Visits == [ok : {FALSE}, id : {0}] \union [ok : {TRUE}, id : {0, 1, 2, 9, 978307201}]
IdSites == [first : [seen : BOOLEAN, length : {8, 32}, alphabet : {"digits", "hex"},
                     number : {7}, repeats : BOOLEAN],
            visits : [1..4 -> Visits], flat : BOOLEAN]
IdReport(in) ==
  Weak([seen |-> in.first.seen, rules |-> JudgeValue(in.first)], in.visits, in.flat)

-----------------------------------------------------------------------------
(* Sites with files that should not be there.                              *)

Catalogue ==
  <<[name |-> ".git/config", vcs |-> TRUE, ok |-> {200, 206}, confidence |-> "HIGH"],
    [name |-> ".git/", vcs |-> TRUE, ok |-> {200, 403}, confidence |-> "HIGH"],
    [name |-> ".env", vcs |-> FALSE, ok |-> {200, 206}, confidence |-> "HIGH"]>>
Backups == <<BackupEntry("shop.bak", FALSE)>>
Maps == <<[dir |-> <<"ftp">>, name |-> "app.js.map"]>>
Crawled == <<[ok |-> TRUE, get |-> TRUE, path |-> <<>>], [ok |-> TRUE, get |-> FALSE, path |-> <<"login">>],
             [ok |-> TRUE, get |-> TRUE, path |-> <<"ftp", "a.pdf">>]>>
Url(dir, n) == [dir |-> dir, name |-> n]
Files == {Url(<<>>, ".env"), Url(<<"ftp">>, ".git/config"), Url(<<>>, "shop.bak"),
          Url(<<"ftp">>, "app.js.map")}

\* What the server answers to names it does not know, which directories it closes altogether,
\* what is there, and how large the pages are.
ProbeSites == [missing : {"404", "403", "one page", "echo", "page for directories"}, maps : 0..1,
               closed : SUBSET {<<>>, <<"ftp">>}, forbidden : SUBSET {<<>>, <<"ftp">>},
               files : SUBSET Files, shell : {100, 1000}, file : {100, 1100},
               convincing : BOOLEAN, failing : {0, 1, 3, 6}]
ProbeAnswer(in, n, url) ==
  LET directory == url.name \in {"random/", ".git/", "wvcontrol/"}
      Shown(status, body, len, valid) ==
        [ok |-> n # in.failing, status |-> status, body |-> body, len |-> len, valid |-> valid]
      denied == Shown(403, <<"denied">>, 50, FALSE)
      shell == Shown(200, IF in.missing = "echo" THEN <<"shell", url>> ELSE <<"shell">>,
                     in.shell, in.convincing)
  IN CASE url.dir \in in.closed -> denied
       [] url.dir \notin in.closed /\ url \in in.files -> Shown(200, <<"file", url>>, in.file, TRUE)
       [] url.name = ".git/" /\ url.dir \in in.forbidden \ in.closed -> denied
       [] OTHER -> IF in.missing \in {"one page", "echo"} \/ (in.missing = "page for directories" /\ directory)
                   THEN shell
                   ELSE IF in.missing = "403" THEN denied ELSE Shown(404, <<"none", url>>, in.shell, FALSE)
ProbeReport(in) ==
  ProbeRun(Catalogue, Backups, SubSeq(Maps, 1, in.maps), Crawled, Of("probe", in))

-----------------------------------------------------------------------------
\* What a page of MCDetectors or a site of this module answers.
SiteAnswer(site, n, q) ==
  CASE site.kind = "upload" -> UploadAnswer(site.in, n, q)
    [] site.kind = "csrf" -> FormAnswer(site.in, n, q)
    [] site.kind = "envelope" -> EnvelopeAnswer(site.in, n, q)
    [] site.kind = "probe" -> ProbeAnswer(site.in, n, q)
    [] OTHER -> PageAnswer(site, n, q)

-----------------------------------------------------------------------------
Site(t, In) == topic = t /\ input \in In
SiteInit ==
  /\ \/ Site("upload", UploadSites) \/ Site("csrf", FormSites) \/ Site("inventory", Inventories)
     \/ Site("envelope", EnvelopeSites) \/ Site("logout", Servers) \/ Site("fixation", FixationSites)
     \/ Site("ids", IdSites) \/ Site("probe", ProbeSites)
  /\ output = Pending

SiteNext ==
  \/ Judge("upload", UploadReport) \/ Judge("csrf", Tried) \/ Judge("inventory", InventoryReport)
  \/ Judge("envelope", EnvelopeReport) \/ Judge("logout", Logout)
  \/ Judge("fixation", FixationReport) \/ Judge("ids", IdReport) \/ Judge("probe", ProbeReport)

\* The pages of MCDetectors and the sites above, in one run.
AllInit == Init \/ SiteInit
AllNext == Next \/ SiteNext
AllSpec == AllInit /\ [][AllNext]_<<topic, input, output>>

-----------------------------------------------------------------------------
(* Properties.                                                             *)

\* No pass sends more than its budget, however its requests nest and whichever of them fails.
BudgetIsKept == Done("upload") \/ Done("envelope") => output.spent <= input.budget

\* A server that stores a script where it links it or in a usual directory, and runs it, is
\* found, and its proof is not diluted by "stored as a download".
RunningFileIsFound ==
  Done("upload") /\ input.serves = "runs" /\ input.refuses # "scripts" /\ input.fails = 0
    /\ input.place \notin {"nowhere", "root"} /\ input.budget >= 40 /\ (input.alike => input.text) =>
    "server-exec" \in output.hits /\ "inert-accept" \notin output.hits

\* A server that answers every upload alike and keeps none costs one search, not one for each
\* payload, and is not reported.
KeptNothingCostsLittle ==
  Done("upload") /\ input.alike /\ input.place = "nowhere" /\ ~input.climbs /\ input.put = 405 =>
    output.hits = {} /\ output.spent <= 1 + input.forms * (1 + Len(Payloads) + Len(UploadDirs) + 1)

\* A name that climbs is a traversal only where the file lands outside the directories that
\* ordinary uploads go to.
SanitisedNameIsNoTraversal ==
  Done("upload") /\ ~input.climbs /\ input.place \in {"uploads", "assets", "nowhere"} =>
    "traversal" \notin output.hits

\* A form whose server checks the token or the origin, and shows that it refused, is never
\* reported as unprotected, whatever its answers look like and whichever request fails.
ProtectedIsNotConfirmed ==
  Done("csrf") /\ input.checks \in {"the token", "origin"} => output.verdict # "confirmed"

\* A server that acts without looking at the token, or takes any token, is found when its
\* answers can be compared.
OpenIsConfirmed ==
  Done("csrf") /\ input.checks \in {"nothing", "a token"} /\ input.token /\ input.found
    /\ ~input.noisy /\ ~input.wordy /\ input.fails = 0 => output.verdict = "confirmed"

\* "Refuted" means that every forged request was answered, and refused.
RefutedNeedsAnswers ==
  Done("csrf") /\ output.verdict = "refuted" => input.fails \notin 1..output.calls

\* A session cookie without SameSite decides, however many others have it: what is reported of
\* a form then is not played down.
OneOpenCookieDecides ==
  Done("inventory") /\ "none" \in input.sites /\ input.login =>
    \A k \in DOMAIN output.reports : \A r \in output.reports[k] : r[2] = "HIGH"

\* A page that believes a header is reported exactly once, and one that shows the sentinel
\* anyway not at all.
HostHeaderOnce ==
  Done("envelope") /\ input.budget = 30 /\ input.fails = 0 =>
    \A u \in ToSet(output.done) :
      Cardinality({h \in output.hits : h[1] = "host" /\ h[2] = u}) =
        (IF input.standing \/ input.vector = "none" THEN 0 ELSE 1)

\* A server that ends the session at logout is not reported, even when the answer starts a new
\* login and the server uses the old id again; unless the second logout carries a stale token.
EndedSessionIsNotReported ==
  Done("logout") /\ input.ends /\ ~(input.keepsId /\ input.tokenOfSession) => ~output.reported

\* A cookie kept across the login is certain to be the session only if the page was lost
\* without it.
FixationIsShown ==
  Done("fixation") =>
    \A h \in output.hits : h[2] = "HIGH" =>
      /\ ~Enough(input, {"a", "b", "c"} \ {h[1]})
      /\ input.confirmed /\ h[1] \notin input.fails

\* Ids are called predictable for certain only after three visits that each got one, before
\* the first that failed.
SampledNeedsThree ==
  Done("ids") /\ output.kind = "weak" /\ output.confidence = "HIGH" =>
    \E k \in 3..4 :
      /\ \A j \in 1..k : input.visits[j].ok
      /\ Cardinality({j \in 1..k : input.visits[j].id # 0}) >= 3

\* A directory that answers 403 to every name is no evidence of a repository in it, whichever
\* other directory is closed, as long as the control was answered.
DeniedDirectoryIsNoEvidence ==
  Done("probe") /\ input.failing = 0 => \A h \in output.hits : h.url.dir \notin input.closed

\* A page that the site shows for what it does not have is never reported, however much it
\* looks like a repository, unless the root answers unlike the rest; except where the page
\* differs at every name, which is warned of, or where it is shown for directories only and the
\* one request that would have told was lost.
NotFoundIsNoHit ==
  Done("probe") /\ <<>> \notin input.closed =>
    \A h \in output.hits :
      \/ h.url \in input.files \/ h.url.dir \in input.forbidden \union input.closed
      \/ input.convincing /\ input.missing = "echo" /\ "calibration" \in output.warnings
      \/ input.convincing /\ input.missing = "page for directories" /\ input.failing = 3

\* A file that is there, and is what its name says, is found or the cap is told of; only one as
\* long as a large page served for missing names may be taken for that page.
ExposedIsFound ==
  Done("probe") /\ input.failing \notin 4..9 =>
    \A url \in input.files :
      \/ url.dir \in input.closed \/ (url.name = "app.js.map" /\ input.maps = 0)
      \/ \E h \in output.hits : h.url = url
      \/ url \notin output.probed /\ "cap" \in output.warnings
      \/ /\ input.missing \in {"one page", "page for directories"}
         /\ input.shell = 1000 /\ input.file = 1100

\* What a safe site does is never reported for certain: not what a page shows anyway, not what
\* changes by itself, not one late answer, not a refusal that looks like success, not an error
\* page that looks like a file.
SafeIsNotReported ==
  /\ StandingTextIsNoProof /\ NoiseIsNoInjection /\ OneSpikeIsNoProof /\ AmbiguousNeedsEvidence
  /\ ReflectedIsNotStored /\ SanitisedNameIsNoTraversal /\ ProtectedIsNotConfirmed
  /\ EndedSessionIsNotReported /\ FixationIsShown /\ SampledNeedsThree
  /\ DeniedDirectoryIsNoEvidence /\ NotFoundIsNoHit

\* What an unsafe site does is found by the pass that looks for it, whichever pair, delay,
\* dialect, place or directory gives it away.
UnsafeIsFound ==
  /\ InjectionIsFound /\ SleeperIsFound /\ SharedTurnLosesNothing /\ RunningFileIsFound
  /\ OpenIsConfirmed /\ OneOpenCookieDecides /\ ExposedIsFound

\* What a pass sends and concludes is accounted for: requests against its budget, a hit to one
\* check and once to a page, a refutal to answers that were given.
PassesAccount ==
  /\ BudgetIsKept /\ KeptNothingCostsLittle /\ EveryHitIsClaimed /\ HostHeaderOnce
  /\ RefutedNeedsAnswers
=============================================================================
