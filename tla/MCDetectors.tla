---------------------------- MODULE MCDetectors ----------------------------
(* Pages for the detectors of Detectors, and what must hold of every verdict. *)
EXTENDS Detectors

CONSTANT MaxDelay

-----------------------------------------------------------------------------
(* Pages.  An answer has every field; a page fills those its detector reads. *)

Answer(n, fails, signs, echo) ==
  [ok |-> n # fails, status |-> 200, signs |-> signs, echo |-> echo, html |-> TRUE,
   context |-> "html body", body |-> "rows", len |-> 10, ms |-> 100]

Base(signs) == Answer(1, 0, signs, FALSE)

\* A page that shows some text whatever is asked and may repeat the value, a marker of
\* which cmd.exe's echo would print too; it evaluates nothing.
TextSigns == {"MySQL", "passwd", "xml error", "date", "directive error", "AWS", "Redis",
              "connection error", "product", "needle", "Jinja2", "SpEL", "ldap error", "xpath error"}
TextDetectors == {"sqli-error", "traversal", "xxe", "ssi", "ssrf", "crlf", "cmdi", "ssti", "el",
                  "ssti+el", "ldap", "xpath"}
Points == [method : {"GET", "POST"}, urllike : BOOLEAN, shell : BOOLEAN, headerlike : {TRUE},
           commandlike : BOOLEAN, exprlike : {FALSE}, timed : {FALSE}, bracketed : {FALSE}]
TextInputs == [detector : TextDetectors, standing : TextSigns, echo : BOOLEAN, fails : 0..2,
               point : Points]

Verdict(d, page, base, point) ==
  CASE d = "sqli-error" -> DetectSqliError(page, base) [] d = "traversal" -> DetectTraversal(page, base)
    [] d = "xxe" -> DetectXxe(page, base, point) [] d = "ssi" -> DetectSsi(page, base)
    [] d = "ssrf" -> DetectSsrf(page, base, point) [] d = "crlf" -> DetectCrlf(page, base, point)
    [] d = "cmdi" -> DetectCmdi(page, base, point, 5) [] d = "ssti" -> DetectSsti(page, base, point)
    [] d = "el" -> DetectEl(page, base, point, FALSE)
    [] d = "ssti+el" -> DetectEl(page, base, point, TRUE)
    [] d = "ldap" -> DetectLdap(page, base) [] d = "xpath" -> DetectXpath(page, base)
    [] d = "xss" -> DetectXss(page) [] d = "redirect" -> DetectRedirect(page, base, point)

\* A page is known by its kind and by what is chosen of it.
Of(kind, in) == [kind |-> kind, in |-> in]

TextAnswer(in, n) ==
  Answer(n, in.fails, {in.standing} \union {s \in {"marker"} : in.echo}, in.echo)
TextVerdict(in) == Verdict(in.detector, Of("text", in), Base({in.standing}), in.point)

\* A page that gives its sign for one payload only.
Signs == {"MySQL", "win.ini", "passwd", "xml error", "environment", "AWS", "Redis",
          "connection error", "header", "split body", "needle", "location", "meta"}
ProofInputs == [detector : TextDetectors \union {"xss", "redirect"}, at : 1..8, sign : Signs,
                fails : {0, 3}, point : Points]
ProofAnswer(in, n) == Answer(n, in.fails, {s \in {in.sign} : n = in.at}, TRUE)
ProofVerdict(in) == Verdict(in.detector, Of("proof", in), Base({}), in.point)

\* A page whose content depends on when it is asked, not on what.
NoiseInputs == [switches : {w \in SUBSET (1..14) : Cardinality(w) <= 2}, alternate : BOOLEAN,
                phase : {0, 1}, status : {200, 500}, empty : BOOLEAN, injectable : {FALSE}]
Turned(in, n) ==
  (IF in.alternate THEN n + in.phase ELSE Cardinality({w \in in.switches : w <= n})) % 2 = 1
NoiseAnswer(in, n) ==
  IF Turned(in, n) THEN [Answer(n, 0, {}, FALSE) EXCEPT !.body = "none", !.status = in.status]
  ELSE Answer(n, 0, {}, FALSE)
NoiseVerdict(in) ==
  DetectBoolean(Of("noise", in), Answer(1, 0, {}, FALSE), in.empty)

\* A page that evaluates one pair's quoting, and only when a value that matches is there.
RowsInputs == [pair : 1..4, empty : BOOLEAN, status : {200, 404}, broken : {200, 500}, injectable : {TRUE}]
Shows(body, status) == [Answer(1, 0, {}, FALSE) EXCEPT !.body = body, !.status = status]
Plain(in) == IF in.empty THEN Shows("none", 200) ELSE Shows("rows", 200)
RowsAnswer(in, p) ==
  IF p.side = "seed" THEN Shows("rows", 200)
  ELSE IF p.pair = 0 THEN Plain(in)
  ELSE IF p.pair # in.pair THEN Shows("error", in.broken)
  ELSE IF p.side = "true" THEN Shows("rows", 200) ELSE Shows("none", in.status)
RowsVerdict(in) == DetectBoolean(Of("rows", in), Plain(in), in.empty)

\* A page that sleeps when its dialect is asked to, one that is late once, and one that does not.
TimeInputs == [delay : 1..MaxDelay, sleeper : 0..4, spike : {0, 1, 2, 3, 5, 6, 8}, late : {2000, 5000, 9000},
               jitter : {0, 900}, slowbase : BOOLEAN, fails : 0..6]
TimeAnswer(in, n, p) ==
  [Answer(n, in.fails, {}, FALSE) EXCEPT !.ms =
     100 + (IF in.sleeper # 0 /\ p.d = SqliTime[in.sleeper] THEN 1000 * p.delay ELSE 0)
         + (IF n = in.spike THEN in.late ELSE 0) + (IF p.delay > 0 THEN in.jitter ELSE 0)]
TimeVerdict(in) ==
  DetectTime(Of("time", in), [Base({}) EXCEPT !.ms = IF in.slowbase THEN 900 ELSE 100], in.delay)

\* An evaluator: the forms it evaluates, its dialect, the error its polyglot draws.
AllForms == Range(ArithPayloads) \union {"dollar", "hash", "star", "percent", "bare", "bare-escape"}
EvalInputs == [forms : {{}, {"dollar"}, {"hash"}, {"star"}, {"percent"}, {"bare"}, {"Jinja2/Twig"},
                        {"Groovy/Twig", "Jinja2/Twig"}, {"Razor"}, {"Smarty"}, {"ERB/EJS"}},
               dialect : {"none", "SpEL", "OGNL"},
               error : {"none"} \union Range(TemplateErrors) \union {"SpEL", "MVEL"},
               refusal : {"none", "OGNL", "Unified EL"},
               commandlike : BOOLEAN, exprlike : BOOLEAN]
EvalAnswer(in, n, p) ==
  LET labels == in.forms \union {h \in Range(ArithPayloads) : Label(h) \in in.forms}
      shown == CASE p.form = "polyglot" -> {in.error}
                 [] p.probe = "" -> {s \in {"needle"} : p.form \in labels}
                 [] p.probe = in.dialect -> {"typed"}
                 [] OTHER -> {in.refusal}
  IN Answer(n, 0, shown, FALSE)
EvalVerdicts(in) ==
  LET page == Of("eval", in)
      point == [commandlike |-> in.commandlike, exprlike |-> in.exprlike]
  IN [ssti |-> DetectSsti(page, Base({}), point), el |-> DetectEl(page, Base({}), point, FALSE),
      both |-> DetectEl(page, Base({}), point, TRUE)]

\* A marker and up to two pages fetched after it.
Marker == {"m1", "m2"}
StoredPages == [url : {"form", "list"}, html : BOOLEAN, shows : SUBSET Marker,
                context : {"html body", "script"}]
StoredInputs == [method : {"GET", "POST"}, pages : StoredPages \X StoredPages,
                 before : [{"form", "list"} -> {{}, {"m1"}}]]
StoredVerdict(in) ==
  StoredHit([url |-> "form", method |-> in.method, payloads |-> Marker], in.pages, in.before)

-----------------------------------------------------------------------------
PageAnswer(page, n, p) ==
  CASE page.kind = "text" -> TextAnswer(page.in, n) [] page.kind = "proof" -> ProofAnswer(page.in, n)
    [] page.kind = "noise" -> NoiseAnswer(page.in, n) [] page.kind = "rows" -> RowsAnswer(page.in, p)
    [] page.kind = "time" -> TimeAnswer(page.in, n, p) [] page.kind = "eval" -> EvalAnswer(page.in, n, p)

VARIABLES topic, input, output

Pending == [kind |-> "pending"]

Page(t, In) == topic = t /\ input \in In
Init ==
  /\ \/ Page("text", TextInputs) \/ Page("proof", ProofInputs) \/ Page("noise", NoiseInputs)
     \/ Page("rows", RowsInputs) \/ Page("time", TimeInputs) \/ Page("eval", EvalInputs)
     \/ Page("stored", StoredInputs)
  /\ output = Pending

Judge(t, Out(_)) ==
  /\ topic = t /\ output = Pending
  /\ output' = Out(input)
  /\ UNCHANGED <<topic, input>>

Next ==
  \/ Judge("text", TextVerdict) \/ Judge("proof", ProofVerdict) \/ Judge("noise", NoiseVerdict)
  \/ Judge("rows", RowsVerdict) \/ Judge("time", TimeVerdict) \/ Judge("eval", EvalVerdicts)
  \/ Judge("stored", StoredVerdict)

Spec == Init /\ [][Next]_<<topic, input, output>>

Done(t) == topic = t /\ output # Pending

-----------------------------------------------------------------------------
(* Properties.                                                             *)

\* A page that evaluates nothing is never reported for what it shows anyway, nor for sending
\* the payload back, whatever detector reads it and whichever request fails.
StandingTextIsNoProof == Done("text") => output = Nothing

\* A hit names the request that gave the proof, and exactly one check turns it into a finding.
EveryHitIsClaimed ==
  topic \in {"text", "proof", "noise", "rows", "time", "stored"} /\ output \notin {Pending, Nothing} =>
    Cardinality(Claimed(output, DOMAIN KindOfCheck)) = 1

\* A page that alternates, or changes twice by itself while it is tested, is not SQL injection.
NoiseIsNoInjection == Done("noise") => output = Nothing

\* A page that runs one of the pairs is found by that pair, even behind a field that ships
\* empty and shows nothing until it is filled.
InjectionIsFound == Done("rows") => output # Nothing /\ output.payload = input.pair

\* One late answer proves nothing for a delay of four seconds or more; with the confirmation
\* unanswered it is at most a MEDIUM.
OneSpikeIsNoProof ==
  Done("time") /\ input.sleeper = 0 /\ input.delay >= 4 =>
    output = Nothing \/ (output.confidence = "MEDIUM" /\ input.fails # 0)

\* A database that sleeps as long as it is told, within a second, is found whatever the delay.
SleeperIsFound ==
  Done("time") /\ input.sleeper # 0 /\ input.fails = 0 /\ input.spike = 0 =>
    output # Nothing /\ output.confidence = "HIGH"

\* With both languages selected the shared turn reports every page that either detector alone
\* would have reported.
SharedTurnLosesNothing ==
  Done("eval") /\ (output.ssti # Nothing \/ output.el # Nothing) => output.both # Nothing

\* A delimiter that template engines share is an expression language only with evidence of
\* one: a static call that ran, or an error of its own.
AmbiguousNeedsEvidence ==
  Done("eval") =>
    \A h \in {output.el, output.both} :
      h # Nothing /\ h.kind = "el" /\ h.payload \in {"dollar", "hash", "star"} =>
        input.dialect # "none" \/ {input.error, input.refusal} \intersect Range(ElErrors) # {}

\* A marker seen on the very page it was sent to by GET is a reflection; HIGH is kept for
\* another page that did not show it before.
ReflectedIsNotStored ==
  Done("stored") /\ output # Nothing =>
    /\ output.payload = "form" => input.method = "POST" /\ output.confidence = "MEDIUM"
    /\ \E g \in {input.pages[1], input.pages[2]} :
         g.url = output.payload /\ g.shows \ input.before[g.url] # {}
=============================================================================
