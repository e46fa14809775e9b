----------------------------- MODULE ActivePasses -----------------------------
(***************************************************************************)
(* The passes that follow the injection pass, each over a site: file       *)
(* upload, cross-site request forgery and the request envelope             *)
(* (checks/{upload,csrf,envelope}/scanner.py).  Ask(site, n, q) is the     *)
(* answer to the n-th request q; ok is FALSE when it failed.  A pass       *)
(* carries what it has spent of its budget, and cut records that something *)
(* was left out because it was gone.                                       *)
(***************************************************************************)
EXTENDS Site, Lists, FiniteSets, SequencesExt

Refused == [ok |-> FALSE]
Start(budget) == [spent |-> 0, budget |-> budget, cut |-> FALSE, r |-> Refused, at |-> "nowhere",
                  hits |-> {}, stored |-> "unknown", started |-> 0]

\* _upload, _get, _put and _send: nothing is sent beyond the budget.
SendAnyway(st, q, site) == [st EXCEPT !.spent = @ + 1, !.r = Ask(site, st.spent + 1, q)]
OverLate(st) == st.spent > st.budget
Over(st) == st.spent >= st.budget
Send(st, q, site) ==
  IF Over(st) THEN [st EXCEPT !.r = Refused, !.cut = TRUE] ELSE SendAnyway(st, q, site)

\* Each element once, where it comes first.
Distinct(list) == At(list, {k \in 1..Len(list) : \A j \in 1..(k - 1) : list[j] # list[k]})

-----------------------------------------------------------------------------
(* File upload.                                                            *)

Upload(family, script, page) == [family |-> family, script |-> script, page |-> page]
Payloads ==
  << Upload("server-exec", TRUE, FALSE), Upload("server-exec", TRUE, FALSE),
     Upload("server-exec", TRUE, FALSE), Upload("client-exec", FALSE, TRUE),
     Upload("client-exec", FALSE, TRUE), Upload("bypass", TRUE, FALSE), Upload("bypass", TRUE, FALSE),
     Upload("bypass", TRUE, FALSE), Upload("bypass", FALSE, TRUE), Upload("bypass", FALSE, TRUE),
     Upload("traversal", FALSE, TRUE), Upload("traversal", FALSE, TRUE) >>
Benign == Upload("baseline", FALSE, FALSE)

PerFormCap == 40
UploadDirs == <<"uploads", "files", "media", "upload", "static/uploads", "img", "assets">>
\* Where a stored file may be, in the order it is looked for; a prefix and .. is the root, but
\* for the one that has two parts.
PlacesOfNames(links, p) == Distinct(UploadDirs \o <<"beside">>)
Places(links, p) ==
  Distinct(links \o UploadDirs \o <<"beside">>
           \o IF p.family = "traversal" THEN <<"root", "static">> ELSE <<>>)

\* _retrieve: the first place that serves the file.
Look(st, place, p, site) ==
  LET got == Send(st, [op |-> "get", place |-> place, payload |-> p], site)
  IN IF st.at # "nowhere" THEN st
     ELSE IF got.r.ok /\ got.r.served THEN [got EXCEPT !.at = place] ELSE got
Retrieve(st, links, p, site) ==
  LET places == Places(links, p)
      looked[k \in 0..Len(places)] ==
        IF k = 0 THEN [st EXCEPT !.at = "nowhere"] ELSE Look(looked[k - 1], places[k], p, site)
  IN looked[Len(places)]

ServedByName(p, served, place) ==
  IF p.script /\ served.ran THEN "server-exec"
  ELSE IF p.family = "traversal" THEN "traversal"
  ELSE IF served.inline THEN "inline-html"
  ELSE IF served.download THEN "inert-accept" ELSE "nothing"
\* _classify: what a served file proves.
ServedAs(p, served, place) ==
  IF p.script /\ served.ran THEN "server-exec"
  ELSE IF p.family = "traversal" /\ ~Contains(UploadDirs, place) THEN "traversal"
  ELSE IF served.inline THEN "inline-html"
  ELSE IF served.download THEN "inert-accept" ELSE "nothing"

DifferentAlways(base, r) == FALSE
\* _same_answer: the server did not tell the payload from the benign file.
SameAnswer(base, r) == base.ok /\ base.status = r.status /\ base.body = r.body

\* One payload of _probe_form, given the answer to the benign upload.
TryPayload(st, base, p, site) ==
  LET sent == Send(st, [op |-> "upload", payload |-> p], site)
      up == sent.r
      checked == IF SameAnswer(base, up) /\ sent.stored = "unknown"
                 THEN LET b == Retrieve(sent, base.links, Benign, site)
                      IN [b EXCEPT !.stored = IF b.at = "nowhere" THEN "no" ELSE "yes"]
                 ELSE sent
      found == Retrieve(checked, up.links, p, site)
  IN IF Over(st) THEN [st EXCEPT !.cut = TRUE]
     ELSE IF st.spent - st.started >= PerFormCap THEN st
     ELSE IF ~up.ok \/ (base.ok /\ base.status < 400 /\ up.status >= 400) THEN sent
     ELSE IF SameAnswer(base, up) /\ checked.stored = "no" THEN checked
     ELSE IF found.at = "nowhere" THEN found
     ELSE [found EXCEPT !.hits = @ \union ({ServedAs(p, found.r, found.at)} \ {"nothing"})]

\* _probe_form; "stored as a download" says nothing next to a proof.
ProbeForm(st, site) ==
  LET benign == Send(st, [op |-> "upload", payload |-> Benign], site)
      base == benign.r
      tried[k \in 0..Len(Payloads)] ==
        IF k = 0 THEN [benign EXCEPT !.started = benign.spent, !.stored = "unknown", !.hits = {}]
        ELSE TryPayload(tried[k - 1], base, Payloads[k], site)
      new == tried[Len(Payloads)]
  IN [new EXCEPT !.hits = st.hits \union (IF @ \ {"inert-accept"} # {} THEN @ \ {"inert-accept"} ELSE @)]

\* _probe_put: a text file, then a page; a server that refuses the first takes no PUT.
ProbePut(st, site) ==
  LET Put(s, kind) ==
        LET put == Send(s, [op |-> "put", kind |-> kind], site)
            got == Send(put, [op |-> "get put", kind |-> kind], site)
        IN IF ~put.r.ok \/ put.r.status \notin {200, 201, 204} THEN [put EXCEPT !.at = "refused"]
           ELSE IF got.r.ok /\ got.r.served
           THEN [got EXCEPT !.at = "taken", !.hits = @ \union {IF kind = "page" THEN "put-page" ELSE "put-text"}]
           ELSE [got EXCEPT !.at = "taken"]
      text == Put(st, "text")
  IN IF text.at = "refused" THEN text ELSE Put(text, "page")

\* run, over forms that already passed _upload_forms.
UploadRun(forms, budget, site) ==
  LET probed[k \in 0..Len(forms)] ==
        IF k = 0 THEN Start(budget)
        ELSE IF Over(probed[k - 1]) THEN [probed[k - 1] EXCEPT !.cut = TRUE]
        ELSE ProbeForm(probed[k - 1], site)
      end == ProbePut(probed[Len(forms)], site)
  IN [hits |-> end.hits, spent |-> end.spent, cut |-> end.cut, warned |-> Over(end)]

\* _upload_forms: with a file field, not excluded, one of each action.
UploadForms(forms) ==
  Distinct(FoldLeft(LAMBDA out, f : IF f.file /\ ~f.excluded THEN Append(out, f.action) ELSE out,
                    <<>>, forms))

-----------------------------------------------------------------------------
(* Cross-site request forgery.                                             *)

\* _equivalent and _compare: what a replay says next to the control.
EquivalentAnywhere(control, replay) ==
  /\ ~control.rejected /\ ~replay.rejected
  /\ control.first \div 100 = replay.first \div 100
  /\ control.body = replay.body
Equivalent(control, replay) ==
  EquivalentAnywhere(control, replay) /\ control.path = replay.path
Compare(control, replay) ==
  IF Equivalent(control, replay) THEN "confirmed"
  ELSE IF replay.rejected \/ control.first \div 100 # replay.first \div 100
          \/ control.path # replay.path THEN "refuted"
  ELSE "inconclusive"

ReplaysRemoved(tokens) == IF tokens THEN <<"removed">> ELSE <<"none">>
Replays(tokens) == IF tokens THEN <<"removed", "altered">> ELSE <<"none">>

\* The verdict of the replays that were made: a replay without an answer refutes nothing.
SummaryOfAnswers(verdicts) ==
  IF Contains(verdicts, "confirmed") THEN "confirmed"
  ELSE IF Contains(verdicts, "refuted") THEN "refuted" ELSE "inconclusive"
Summary(verdicts) ==
  IF Contains(verdicts, "confirmed") THEN "confirmed"
  ELSE IF verdicts # <<>> /\ ToSet(verdicts) = {"refuted"} THEN "refuted" ELSE "inconclusive"

\* _experiment: the form as it is now, a submission of the site's own, and the forged ones.
Experiment(site) ==
  LET fresh == Ask(site, 1, [op |-> "fetch"])
      control == Ask(site, 2, [op |-> "submit", foreign |-> FALSE, token |-> "kept"])
      list == Replays(fresh.tokens)
      Replay(acc, token) ==
        IF Contains(acc.verdicts, "confirmed") THEN acc
        ELSE LET r == Ask(site, acc.n + 1, [op |-> "submit", foreign |-> TRUE, token |-> token])
             IN [n |-> acc.n + 1,
                 verdicts |-> Append(acc.verdicts, IF r.ok THEN Compare(control, r) ELSE "inconclusive")]
      done == FoldLeft(Replay, [n |-> 2, verdicts |-> <<>>], list)
  IN IF ~fresh.ok \/ ~fresh.found THEN [verdict |-> "inconclusive", calls |-> 1]
     ELSE IF ~control.ok \/ control.rejected THEN [verdict |-> "inconclusive", calls |-> 2]
     ELSE [verdict |-> Summary(done.verdicts), calls |-> done.n]

MaxForms == 20
\* _candidates: the POST forms of the inventory, each once, sorted into three piles.
Candidates(forms, max) ==
  LET Sort(acc, f) ==
        IF f.method # "POST" \/ f.key \in acc.seen THEN acc
        ELSE LET s == [acc EXCEPT !.seen = @ \union {f.key}, !.posts = @ + 1] IN
             IF f.multipart \/ f.auth \/ f.search \/ f.destructive THEN [s EXCEPT !.skipped = @ + 1]
             ELSE IF Len(s.testable) >= max THEN [s EXCEPT !.over = @ + 1]
             ELSE [s EXCEPT !.testable = Append(@, f)]
  IN FoldLeft(Sort, [seen |-> {}, posts |-> 0, skipped |-> 0, over |-> 0, testable |-> <<>>], forms)

\* run: the warning counts every POST form once; verdict is what _experiment says of each form.
CsrfRun(forms, max, verdict) ==
  LET c == Candidates(forms, max)
      verdicts == [k \in DOMAIN c.testable |-> verdict[c.testable[k]]]
      Tally(v) == Cardinality({k \in DOMAIN verdicts : verdicts[k] = v})
  IN [posts |-> c.posts, skipped |-> c.skipped, over |-> c.over, confirmed |-> Tally("confirmed"),
      refuted |-> Tally("refuted"), inconclusive |-> Tally("inconclusive"),
      hits |-> {c.testable[k].key : k \in {j \in DOMAIN verdicts : verdicts[j] = "confirmed"}}]

\* The passive check and the active one: a form that was confirmed is reported once, as such,
\* by the weakest SameSite attribute of the session cookies (checks.py).
SameSiteRank == [none |-> 0, lax |-> 1, strict |-> 2]
Strongest(sites) ==
  IF sites = {} THEN "unseen"
  ELSE CHOOSE s \in sites : \A o \in sites : SameSiteRank[s] >= SameSiteRank[o]
Weakest(sites) ==
  IF sites = {} THEN "unseen"
  ELSE CHOOSE s \in sites : \A o \in sites : SameSiteRank[s] <= SameSiteRank[o]
Confidence == [unseen |-> "MEDIUM", none |-> "HIGH", lax |-> "LOW", strict |-> "LOW"]
CsrfReport(f, verdict, sites, login) ==
  LET c == Confidence[Weakest(sites)] IN
  IF verdict = "confirmed" THEN {<<"not-enforced", IF ~login /\ c = "HIGH" THEN "MEDIUM" ELSE c>>}
  ELSE IF f.method = "POST" /\ ~f.auth /\ ~f.search /\ ~f.token THEN {<<"no-token", c>>} ELSE {}

-----------------------------------------------------------------------------
(* The request envelope.                                                   *)

Vectors == <<"Host", "X-Forwarded-Host", "X-Forwarded-Server", "X-Host">>

\* _sample_urls: one of each path, GET pages only, up to the cap.
SampleUrls(entry, actions, pages, cap) ==
  LET Add(out, u) == IF Contains(out, u) \/ Len(out) >= cap THEN out ELSE Append(out, u)
      gets == FoldLeft(LAMBDA out, g : IF g.ok /\ g.get THEN Append(out, g.url) ELSE out, <<>>, pages)
  IN FoldLeft(Add, <<>>, <<entry>> \o actions \o gets)

\* _host_header: a page that shows the sentinel anyway proves nothing; one hit for a page.
AttributableAlways(base) == TRUE
Attributable(base) == ~base.reflects
TryVector(st, url, v, site) ==
  LET got == Send(st, [op |-> "GET", url |-> url, header |-> v], site)
  IN IF st.at = "found" THEN st
     ELSE IF ~got.r.ok \/ got.r.where = "none" THEN got
     ELSE [got EXCEPT !.at = "found", !.hits = @ \union
             {<<"host", url, v, IF got.r.where = "Location" \/ got.r.reset THEN "HIGH" ELSE "MEDIUM">>}]
HostHeader(st, url, base, site) ==
  LET tried[k \in 0..Len(Vectors)] ==
        IF k = 0 THEN [st EXCEPT !.at = "nowhere"] ELSE TryVector(tried[k - 1], url, Vectors[k], site)
  IN IF ~Attributable(base) THEN st ELSE tried[Len(Vectors)]

Options(st, url, site) ==
  LET got == Send(st, [op |-> "OPTIONS", url |-> url, header |-> "none"], site)
  IN IF ~got.r.ok \/ ~got.r.dangerous \/ got.r.static THEN got
     ELSE [got EXCEPT !.hits = @ \union {<<"methods", url, "OPTIONS", "MEDIUM">>}]

Trace(st, url, site) ==
  LET got == Send(st, [op |-> "TRACE", url |-> url, header |-> "none"], site)
  IN IF st.at = "traced" THEN st
     ELSE IF ~got.r.ok \/ ~got.r.echo THEN got
     ELSE [got EXCEPT !.at = "traced", !.hits = @ \union {<<"methods", url, "TRACE", "MEDIUM">>}]

\* run: the warning is given when the budget is gone before a URL is begun.
ProbeUrl(acc, url, site) ==
  LET base == Send(acc.st, [op |-> "GET", url |-> url, header |-> "none"], site)
  IN IF acc.warned \/ Over(acc.st) THEN [acc EXCEPT !.warned = TRUE]
     ELSE [acc EXCEPT !.st = IF ~base.r.ok THEN base
                             ELSE Options(HostHeader(base, url, base.r, site), url, site),
                      !.done = Append(@, url)]
EnvelopeRun(sample, budget, site) ==
  LET walked[k \in 0..Len(sample)] ==
        IF k = 0 THEN [st |-> Start(budget), warned |-> FALSE, done |-> <<>>]
        ELSE ProbeUrl(walked[k - 1], sample[k], site)
      last == walked[Len(sample)]
      traces == SubSeq(<<sample[1]>> \o sample, 1, IF Len(sample) >= 3 THEN 4 ELSE Len(sample) + 1)
      traced[k \in 0..Len(traces)] ==
        IF k = 0 THEN [last.st EXCEPT !.at = "nowhere"] ELSE Trace(traced[k - 1], traces[k], site)
      end == traced[Len(traces)]
  IN [hits |-> end.hits, spent |-> end.spent, warned |-> last.warned, done |-> last.done]
=============================================================================
