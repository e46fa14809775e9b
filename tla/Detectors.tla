------------------------------ MODULE Detectors ------------------------------
(***************************************************************************)
(* What the injection detectors conclude from the answers they are given   *)
(* (checks/injection/detect/*, payloads.py, stored._detect, checks.py).    *)
(*                                                                         *)
(* A detector is an operator of the page it talks to: Ask(page, n, p) is   *)
(* the answer to its n-th request, which carries payload p.  An answer is  *)
(* [ok, status, signs, echo, html, body, len, ms]: ok FALSE when it was    *)
(* refused or failed, signs the signatures and computed values its text    *)
(* shows, echo whether the payload itself stands in it, body and len the   *)
(* normalised page, ms its latency.  Two bodies are similar when equal.    *)
(***************************************************************************)
EXTENDS Site, Integers, Sequences, FiniteSets, SequencesExt

Nothing == [kind |-> "nothing"]
HitOfFamily(kind, confidence, payload) ==
  [kind |-> IF kind \in {"ssrf-metadata", "ssrf-internal"} THEN "ssrf" ELSE kind,
   confidence |-> confidence, payload |-> payload]
Hit(kind, confidence, payload) == [kind |-> kind, confidence |-> confidence, payload |-> payload]

NewRegardless(r, base, sign) == sign \in r.signs
\* A sign counts when the page did not show it before anything was injected.
New(r, base, sign) == sign \in r.signs /\ sign \notin base.signs
FirstNew(r, base, signs) ==
  LET seen == {k \in DOMAIN signs : New(r, base, signs[k])}
  IN IF seen = {} THEN "nothing" ELSE signs[CHOOSE k \in seen : \A j \in seen : k <= j]
Told(r, base, signs) == FirstNew(r, base, signs) # "nothing"

-----------------------------------------------------------------------------
(* Payload tables (payloads.py): how many there are and what they show.    *)

SqliError == <<1, 2, 3, 4, 5, 6>>
SqlErrors == <<"MySQL", "PostgreSQL", "MSSQL", "Oracle", "SQLite">>
SqliBooleanPairs == <<1, 2, 3, 4>>
SqliTime == <<"MySQL", "PostgreSQL", "MSSQL", "generic">>
Traversal == <<1, 2, 3, 4, 5, 6, 7>>
FileSigns == <<"passwd", "win.ini">>
XmlErrors == <<"xml error">>
XxeDocuments == <<1, 2, 3, 4, 5, 6, 7, 8>>

\* fill_host: the {host}@ forms are left out for a bracketed address.
FillHost(list, slots, point) == SelectSeq(list, LAMBDA p : ~(point.bracketed /\ p \in slots))
SsrfMetadata == [k \in 1..12 |-> <<"metadata", k>>]
SsrfFile == [k \in 1..3 |-> <<"file", k>>]
SsrfInternal == [k \in 1..11 |-> <<"internal", k>>]
\* file:/// names no host that an error could echo; the third file payload names localhost.
NoAuthority == {SsrfFile[1], SsrfFile[2]}
MetadataSigns == <<"AWS", "GCP", "Azure", "AliCloud", "Kubernetes">>
ServiceSigns == <<"Redis", "nginx status", "Docker API", "Elasticsearch", "internal HTTP">>
FetchErrors == <<"connection error">>
CmdiPosix == [k \in 1..11 |-> <<"posix", k>>]
CmdiCanary == <<CmdiPosix[1], CmdiPosix[2], CmdiPosix[7]>>
CmdiWindows == [k \in 1..2 |-> <<"windows", k>>]
CmdiTime == <<1, 2, 3, 4, 5, 6, 7>>
CrlfPayloads == <<1, 2, 3, 4, 5, 6>>
RedirectPayloads == <<1, 2, 3, 4, 5, 6, 7>>
LdapSigns == <<"ldap error">>
XpathSigns == <<"xpath error">>
SsiSigns == <<"date", "environment">>
XssBreakers == <<1, 2, 3, 4>>
ElErrors == <<"SpEL", "OGNL", "JEXL", "MVEL", "Unified EL">>
SignatureHit(name) == Hit("el", "MEDIUM", "error") @@ [name |-> name]

-----------------------------------------------------------------------------
(* One answer is enough: error messages, file contents, echoes.            *)

If(proved, hit) == IF proved THEN hit ELSE Nothing

\* file:/// names no host, so an error that echoes the address says nothing.
ProvesSsrf(p, r, base) ==
  LET gateway == r.status \in {502, 503, 504} /\ r.status # base.status
  IN CASE Told(r, base, MetadataSigns) -> Hit("ssrf-metadata", "HIGH", p)
       [] p[1] = "file" /\ Told(r, base, FileSigns) -> Hit("ssrf-internal", "HIGH", p)
       [] Told(r, base, ServiceSigns) -> Hit("ssrf-internal", "HIGH", p)
       [] p \notin NoAuthority /\ r.echo /\ (Told(r, base, FetchErrors) \/ gateway) ->
            Hit("ssrf-internal", "MEDIUM", p)
       [] OTHER -> Nothing

ProvesXxe(p, r, base) ==
  IF Told(r, base, FileSigns) THEN Hit("xxe", "HIGH", p)
  ELSE If(Told(r, base, XmlErrors), Hit("xxe", "MEDIUM", p))

\* The sentinel host, in Location or in the page's own script.
ProvesRedirect(p, r) ==
  IF "location" \in r.signs THEN Hit("redirect", "HIGH", p)
  ELSE If({"meta", "script"} \intersect r.signs # {}, Hit("redirect", "MEDIUM", p))

\* base is the point's baseline; crlf brings one of its own for the headers.
ProvesCrlf(p, r, base) ==
  If(\/ "header" \in r.signs /\ "named header" \notin base.own.signs
     \/ New(r, base.own, "cookie") \/ New(r, base.first, "split body"),
     Hit("crlf", "HIGH", p))

\* What the answer r to payload p proves at each stage of a detector.
Proof(stage, p, r, base) ==
  CASE stage = "sqli-error" -> If(Told(r, base, SqlErrors), Hit("sqli-error", "HIGH", p))
    [] stage = "traversal" -> If(Told(r, base, FileSigns), Hit("traversal", "HIGH", p))
    [] stage = "xxe" -> ProvesXxe(p, r, base)
    [] stage = "ssrf" -> ProvesSsrf(p, r, base)
    [] stage = "redirect" -> ProvesRedirect(p, r)
    [] stage = "crlf" -> ProvesCrlf(p, r, base)
    [] stage = "ssi" -> If(~r.echo /\ Told(r, base, SsiSigns), Hit("ssi", "HIGH", p))
    [] stage = "ssi error" -> If(New(r, base, "directive error"), Hit("ssi", "MEDIUM", p))
    [] stage = "xss" -> If(r.html /\ r.echo,
                           Hit("xss", IF r.context = "script" THEN "MEDIUM" ELSE "HIGH", p))
    [] stage = "cmdi posix" -> If(New(r, base, "needle"), Hit("cmdi", "HIGH", p))
    [] stage = "cmdi windows" ->
         If(New(r, base, "marker") /\ "product after it" \in r.signs /\ "product" \notin base.signs,
            Hit("cmdi", "MEDIUM", p))
    [] stage = "xpath" -> If(Told(r, base, XpathSigns), Hit("xpath", "HIGH", p))
    [] stage = "ldap" -> If(Told(r, base, LdapSigns), Hit("ldap", "HIGH", p))
    [] stage = "arithmetic" -> If(New(r, base, "needle"), Hit("ssti", "HIGH", p.form))
    [] stage = "unterminated" -> If(Told(r, base, ElErrors), SignatureHit(FirstNew(r, base, ElErrors)))

\* The payloads in order, from request n + 1 on, until one proves something or one is not answered.
Try(stage, list, n, page, base) ==
  LET Step(acc, p) ==
        IF acc.over \/ acc.hit # Nothing THEN acc
        ELSE LET r == Ask(page, acc.n + 1, p) IN
             [n |-> acc.n + 1, over |-> ~r.ok, hit |-> If(r.ok, Proof(stage, p, r, base))]
  IN FoldLeft(Step, [n |-> n, over |-> FALSE, hit |-> Nothing], list)

DetectSqliError(page, base) == Try("sqli-error", SqliError, 0, page, base).hit
DetectTraversal(page, base) == Try("traversal", Traversal, 0, page, base).hit

\* xxe.detect: whole XML documents, on points that take a POST.
DetectXxe(page, base, point) ==
  Try("xxe", IF point.method = "POST" THEN XxeDocuments ELSE <<>>, 0, page, base).hit

\* ssi.detect: a directive that stands in the answer was not evaluated.
DetectSsi(page, base) ==
  LET echoed == Try("ssi", <<"date", "printenv", "esi">>, 0, page, base)
  IN IF echoed.over \/ echoed.hit # Nothing THEN echoed.hit
     ELSE Try("ssi error", <<"undefined">>, echoed.n, page, base).hit

\* ssrf.detect: a fetched page is known by what it holds; an error only with the address echoed.
DetectSsrf(page, base, point) ==
  LET some == IF point.urllike THEN SsrfMetadata \o SsrfFile \o SsrfInternal
              ELSE SubSeq(SsrfMetadata, 1, 2) \o SubSeq(SsrfFile, 1, 1) \o SubSeq(SsrfInternal, 1, 2)
      sent == FillHost(some, {SsrfMetadata[11], SsrfInternal[10]}, point)
  IN Try("ssrf", sent, 0, page, base).hit

\* xss.detect: the probe must come back before a breaker is tried, and a breaker in HTML.
DetectXss(page) ==
  LET probe == Ask(page, 1, "probe") IN
  IF ~probe.ok \/ ~probe.echo THEN Nothing
  ELSE Try("xss", SubSeq(XssBreakers, 1, 3), 1, page, probe).hit

DetectCrlf(page, base, point) ==
  LET own == Ask(page, 1, "original") IN
  IF ~own.ok THEN Nothing
  ELSE Try("crlf", SubSeq(CrlfPayloads, 1, IF point.headerlike THEN 6 ELSE 2), 1, page,
           [own |-> own, first |-> base]).hit

DetectRedirect(page, base, point) ==
  Try("redirect", FillHost(RedirectPayloads, {7}, point), 0, page, base).hit

-----------------------------------------------------------------------------
(* Latency (sqli.detect_time, cmdi._time).                                 *)

Larger(a, b) == IF a > b THEN a ELSE b

LateExactly(ms, delay) == ms >= delay * 1000
Late(ms, delay) == ms >= (delay - 1) * 1000
ConfirmsFast(ms, half) == ms <= (half + 2) * 1000
\* A real delay scales: asked for half, the answer comes around half, not still at the whole.
Confirms(ms, half) == ms \in (half - 1) * 1000 .. (half + 2) * 1000

Half(delay) == Larger(1, delay \div 2)

\* One dialect: a control, the delay, and half of it to confirm.
AskDialect(acc, kind, d, page, base, delay) ==
  LET control == Ask(page, acc.n + 1, [d |-> d, delay |-> 0])
      slow == Ask(page, acc.n + 2, [d |-> d, delay |-> delay])
      floor == Larger(control.ms, base.ms)
      confirm == Ask(page, acc.n + 3, [d |-> d, delay |-> Half(delay)])
  IN IF ~control.ok \/ ~slow.ok THEN [acc EXCEPT !.over = TRUE]
     ELSE IF ~Late(slow.ms - floor, delay) THEN [acc EXCEPT !.n = @ + 2]
     ELSE IF ~confirm.ok THEN [acc EXCEPT !.hit = Hit(kind, "MEDIUM", d)]
     ELSE IF Confirms(confirm.ms - floor, Half(delay)) THEN [acc EXCEPT !.hit = Hit(kind, "HIGH", d)]
     ELSE [acc EXCEPT !.n = @ + 3]

\* The dialects one after the other.
Time(kind, dialects, n, page, base, delay) ==
  LET asked[k \in 0..Len(dialects)] ==
        IF k = 0 THEN [n |-> n, over |-> FALSE, hit |-> Nothing]
        ELSE IF asked[k - 1].over \/ asked[k - 1].hit # Nothing THEN asked[k - 1]
        ELSE AskDialect(asked[k - 1], kind, dialects[k], page, base, delay)
  IN asked[Len(dialects)].hit

DetectTime(page, base, delay) == Time("sqli-time", SqliTime, 0, page, base, delay)

\* cmdi._echo: the product after the marker; then, for a shell's parameter, the latency.
CmdiEcho(page, base, point) ==
  LET posix == Try("cmdi posix", IF point.shell THEN CmdiPosix ELSE CmdiCanary, 0, page, base)
  IN IF posix.over \/ posix.hit # Nothing THEN posix
     ELSE Try("cmdi windows", CmdiWindows, posix.n, page, base)

DetectCmdi(page, base, point, delay) ==
  LET echo == CmdiEcho(page, base, point)
  IN IF echo.hit = Nothing /\ point.timed /\ point.shell
     THEN Time("cmdi", CmdiTime, echo.n, page, base, delay) ELSE echo.hit

-----------------------------------------------------------------------------
(* Two answers that differ (sqli.detect_boolean, xpath, ldap, _diff.py).   *)

TwoSidedSplit(base, t, f) == t.body = base.body /\ f.body # base.body
StatusSplit(base, t, f) ==
  /\ t.status \div 100 = base.status \div 100 /\ f.status \div 100 # t.status \div 100
  /\ t.body = base.body
WiderThenSame(base, t, f) == 10 * t.len >= 13 * base.len /\ f.body = base.body

\* sqli._split: pages that only differ by status are the thinner signal.
SqliSplit(base, t, f) ==
  IF TwoSidedSplit(base, t, f) THEN "HIGH" ELSE IF StatusSplit(base, t, f) THEN "MEDIUM" ELSE "no"

\* The confidence of a difference, or "no".
Split(kind, base, t, f) ==
  CASE kind = "sqli-boolean" -> SqliSplit(base, t, f)
    [] kind = "xpath" -> IF TwoSidedSplit(base, t, f) THEN "MEDIUM" ELSE "no"
    [] kind = "ldap" -> IF WiderThenSame(base, t, f) THEN "MEDIUM" ELSE "no"

SimilarStatus(r, base) == r.status \div 100 = base.status \div 100
Similar(r, base) == r.status \div 100 = base.status \div 100 /\ r.body = base.body

StableUnasked(restated, base) == [requests |-> 0, holds |-> TRUE]
\* The page must be stable between two identical requests, or the split is noise.
Stable(restated, base) == [requests |-> 1, holds |-> restated.ok /\ Similar(restated, base)]

\* A pair that shows a difference, and shows it again; for SQL with the unchanged value, which
\* is what the point is asked with otherwise, sent in between.
Differential(kind, pairs, n, page, base, value) ==
  LET Step(acc, k) ==
        IF acc.over \/ acc.hit # Nothing THEN acc
        ELSE LET A(i, side) == Ask(page, acc.n + i, [pair |-> k, side |-> side])
                 t == A(1, "true")
                 f == A(2, "false")
                 guard == IF kind = "sqli-boolean"
                          THEN Stable(Ask(page, acc.n + 3, [pair |-> 0, side |-> value]), base)
                          ELSE [requests |-> 0, holds |-> TRUE]
                 m == acc.n + 2 + guard.requests
                 t2 == Ask(page, m + 1, [pair |-> k, side |-> "true"])
                 f2 == Ask(page, m + 2, [pair |-> k, side |-> "false"])
             IN CASE ~t.ok \/ ~f.ok -> [acc EXCEPT !.over = TRUE, !.n = @ + 2]
                  [] Split(kind, base, t, f) = "no" -> [acc EXCEPT !.n = @ + 2]
                  [] ~guard.holds -> [acc EXCEPT !.over = TRUE, !.n = m]
                  [] ~t2.ok \/ ~f2.ok -> [acc EXCEPT !.over = TRUE, !.n = m + 2]
                  [] Split(kind, base, t2, f2) = "no" -> [acc EXCEPT !.n = m + 2]
                  [] OTHER -> [acc EXCEPT !.hit = Hit(kind, Split(kind, base, t, f), k), !.n = m + 2]
  IN FoldLeft(Step, [n |-> n, over |-> FALSE, hit |-> Nothing], pairs)

BooleanPairs(n, page, base, value) ==
  Differential("sqli-boolean", SqliBooleanPairs, n, page, base, value)

\* detect_boolean: an empty field that shows nothing is tried again with a seed in it.
DetectBoolean(page, base, empty) ==
  LET plain == BooleanPairs(0, page, base, "original")
      seeded == Ask(page, plain.n + 1, [pair |-> 0, side |-> "seed"])
  IN IF plain.hit # Nothing \/ ~empty \/ ~seeded.ok \/ Similar(seeded, base) THEN plain.hit
     ELSE BooleanPairs(plain.n + 1, page, seeded, "seed").hit

\* xpath.detect and ldap.detect: an error first, then a difference that repeats.
ErrorThen(kind, probes, pairs, page, base) ==
  LET error == Try(kind, [k \in 1..probes |-> [pair |-> 0, side |-> k]], 0, page, base)
  IN IF error.over \/ error.hit # Nothing THEN error.hit
     ELSE Differential(kind, pairs, error.n, page, base, "original").hit

DetectXpath(page, base) == ErrorThen("xpath", 5, <<1, 2, 3>>, page, base)
DetectLdap(page, base) == ErrorThen("ldap", 5, <<1, 2>>, page, base)

-----------------------------------------------------------------------------
(* Template and expression languages (ssti.py, el.py).                     *)

\* The arithmetic payloads: the engines each hint names.
ArithPayloads == <<"Jinja2/Twig", "Freemarker/EL", "ERB/EJS", "Groovy/Twig", "Thymeleaf", "Razor",
                   "Smarty", "Slim/Pug">>
Named(engine) ==
  CASE engine = "Jinja2" -> {"Jinja2/Twig"} [] engine = "Twig" -> {"Jinja2/Twig", "Groovy/Twig"}
    [] engine = "Freemarker" -> {"Freemarker/EL"} [] engine = "ERB" -> {"ERB/EJS"}
    [] engine = "Smarty" -> {"Smarty"} [] OTHER -> {}
TemplateErrors == <<"Jinja2", "Twig", "Freemarker", "Velocity", "Smarty", "Mako", "ERB", "Handlebars">>
NoTypeProbe == {"JEXL", "MVEL", "Unified EL"}
CanaryLimit == 4

\* engine_first: the payloads that name the engine of the error, then the others.
EngineFirst(list, engine) ==
  SelectSeq(list, LAMBDA h : h \in Named(engine)) \o SelectSeq(list, LAMBDA h : h \notin Named(engine))

Arithmetic(engine, full) ==
  LET list == EngineFirst(ArithPayloads, engine)
  IN IF full THEN list ELSE SubSeq(list, 1, CanaryLimit)

\* identify_engine asks one more request when no error named the engine.
Engine(engine, n, page) ==
  IF engine # "nothing" THEN engine
  ELSE LET r == Ask(page, n, [form |-> "engine", probe |-> ""])
       IN CASE ~r.ok -> "unknown" [] "sevens" \in r.signs -> "Jinja2/Nunjucks"
            [] "49" \in r.signs -> "Twig" [] OTHER -> "unknown"

Expr(form) == [form |-> form, probe |-> ""]
Forms(list) == [k \in DOMAIN list |-> Expr(list[k])]

DetectSsti(page, base, point) ==
  LET polyglot == Ask(page, 1, Expr("polyglot"))
      engine == FirstNew(polyglot, base, TemplateErrors)
      found == Try("arithmetic", Forms(Arithmetic(engine, point.commandlike)), 1, page, base)
  IN IF ~polyglot.ok \/ found.hit = Nothing THEN Nothing
     ELSE found.hit @@ [name |-> Engine(engine, found.n + 1, page)]

\* A delimiter both families use is sent once, under its label.
Label(hint) ==
  CASE hint = "Freemarker/EL" -> "dollar" [] hint = "Slim/Pug" -> "hash" [] hint = "Thymeleaf" -> "star"
    [] OTHER -> hint
CategoryByFamily(form) ==
  CASE form = "percent" -> "ognl"
    [] form \in {"dollar", "hash", "star", "bare", "bare-escape"} -> "bare" [] OTHER -> "template"
Category(form) ==
  CASE form = "percent" -> "ognl" [] form \in {"dollar", "hash", "star"} -> "ambiguous"
    [] form \in {"bare", "bare-escape"} -> "bare" [] OTHER -> "template"

ElFormsNarrow(templates, full, engine) ==
  IF templates THEN LET list == Arithmetic(engine, full) IN [k \in DOMAIN list |-> Label(list[k])]
  ELSE <<"dollar", "hash", "percent", "bare">>

\* _forms: the template payloads, then the expression forms they do not already cover.
ElForms(templates, full, engine) ==
  LET list == IF templates THEN Arithmetic(engine, full) ELSE <<>>
      sent == [k \in DOMAIN list |-> Label(list[k])]
      extras == CASE templates /\ full -> <<"percent", "bare", "bare-escape">>
                  [] templates -> <<"hash", "percent", "bare">>
                  [] full -> <<"dollar", "hash", "star", "percent", "bare", "bare-escape">>
                  [] OTHER -> <<"dollar", "hash", "percent", "bare">>
  IN sent \o SelectSeq(extras, LAMBDA e : e \notin Range(sent))

ProbeDialects(form, signature) ==
  CASE Category(form) = "ognl" -> <<"OGNL">>
    [] signature \in NoTypeProbe -> <<>>
    [] signature # "nothing" -> <<signature>>
    [] OTHER -> <<"SpEL", "OGNL">>

\* _probe_type_access: the dialect whose static call ran, or the first error a refusal named.
ProbeTypeAccess(form, n, page, base, dialects) ==
  FoldLeft(LAMBDA acc, d :
             IF acc.over \/ acc.dialect # "nothing" THEN acc
             ELSE LET r == Ask(page, acc.n + 1, [form |-> form, probe |-> d])
                  IN IF ~r.ok THEN [acc EXCEPT !.over = TRUE]
                     ELSE IF New(r, base, "typed") THEN [acc EXCEPT !.dialect = d]
                     ELSE [acc EXCEPT !.n = @ + 1,
                             !.refused = IF @ = "nothing" THEN FirstNew(r, base, ElErrors) ELSE @],
           [n |-> n, over |-> FALSE, dialect |-> "nothing", refused |-> "nothing"], dialects)

ElHit(form, name) == Hit("el", "HIGH", form) @@ [name |-> name]

\* _classify: what evaluated the arithmetic.
Classify(form, n, page, base, engine, signature, templates) ==
  LET probed == ProbeTypeAccess(form, n, page, base, ProbeDialects(form, signature))
      named == IF probed.refused # "nothing" THEN probed.refused ELSE signature
      Template(m) == Hit("ssti", "HIGH", form) @@ [name |-> Engine(engine, m, page)]
  IN CASE Category(form) = "template" -> Template(n + 1)
       [] probed.dialect # "nothing" -> ElHit(form, probed.dialect)
       [] Category(form) = "ognl" -> ElHit(form, "OGNL")
       [] named # "nothing" -> ElHit(form, named)
       [] Category(form) = "bare" -> ElHit(form, "unknown")
       [] templates -> Template(probed.n + 1)
       [] OTHER -> Nothing

\* _run: the polyglot, the arithmetic, and an unterminated expression when nothing evaluated.
DetectEl(page, base, point, templates) ==
  LET full == point.commandlike \/ point.exprlike
      polyglot == Ask(page, 1, Expr("polyglot"))
      engine == IF templates THEN FirstNew(polyglot, base, TemplateErrors) ELSE "nothing"
      signature == FirstNew(polyglot, base, ElErrors)
      loop == Try("arithmetic", Forms(ElForms(templates, full, engine)), 1, page, base)
      parsed == Try("unterminated", Forms(<<"open dollar", "open percent">>), loop.n, page, base)
  IN CASE ~polyglot.ok \/ loop.over -> Nothing
       [] loop.hit # Nothing ->
            Classify(loop.hit.payload, loop.n, page, base, engine, signature, templates)
       [] signature # "nothing" -> SignatureHit(signature)
       [] OTHER -> IF full THEN parsed.hit ELSE Nothing

-----------------------------------------------------------------------------
(* Stored XSS (stored._detect): a marker on a page of the recrawl.         *)

\* Whether a page of the recrawl counts: its URL, whether it is HTML, the marker's texts in it
\* and the context.
RendersAnywhere(marker, page, before) ==
  /\ page.html
  /\ \E p \in marker.payloads \intersect page.shows : page.url \in DOMAIN before => p \notin before[page.url]

Renders(marker, page, before) ==
  /\ page.html /\ marker.payloads \intersect page.shows # {}
  /\ \E p \in marker.payloads \intersect page.shows :
       /\ page.url \in DOMAIN before => p \notin before[page.url]
       /\ page.url = marker.url => marker.method = "POST"

StoredHit(marker, pages, before) ==
  LET rendered == SelectSeq(pages, LAMBDA g : Renders(marker, g, before))
      first == Head(rendered)
  IN IF rendered = <<>> THEN Nothing
     ELSE Hit("xss-stored",
              IF first.context \in {"html body", "attribute"} /\ first.url # marker.url
              THEN "HIGH" ELSE "MEDIUM", first.url)

-----------------------------------------------------------------------------
(* The checks that turn hits into findings (checks.py, engine.py).         *)

\* The kind of hit each check claims.
KindOfCheck ==
  [c \in {"xss.reflected", "sqli.error-based", "sqli.boolean-based", "sqli.time-based",
           "traversal.path", "redirect.open", "xss.stored", "cmdi.os", "ssti", "el", "crlf", "xxe",
           "ssrf.metadata", "ssrf.internal", "ldap", "xpath", "ssi"} |->
     CASE c = "xss.reflected" -> "xss" [] c = "sqli.error-based" -> "sqli-error"
       [] c = "sqli.boolean-based" -> "sqli-boolean" [] c = "sqli.time-based" -> "sqli-time"
       [] c = "traversal.path" -> "traversal" [] c = "redirect.open" -> "redirect"
       [] c = "xss.stored" -> "xss-stored" [] c = "cmdi.os" -> "cmdi"
       [] c = "ssrf.metadata" -> "ssrf-metadata" [] c = "ssrf.internal" -> "ssrf-internal"
       [] OTHER -> c]

Claimed(hit, enabled) == {c \in enabled : KindOfCheck[c] = hit.kind}
=============================================================================
