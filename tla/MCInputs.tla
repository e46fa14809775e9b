------------------------------- MODULE MCInputs -------------------------------
(* Targets, recordings, descriptions, libraries and reports, and what must hold of what is made
   of them. *)
EXTENDS Imports, Dependencies

-----------------------------------------------------------------------------
(* Hosts.                                                                  *)

Name(labels) == [form |-> "name", labels |-> labels]
Shop == <<<<"shop">>, <<"com">>>>
Hosts == {Name(Shop), Name(<<<<"www">>>> \o Shop), Name(<<<<"evil", "shop">>, <<"com">>>>),
          Name(<<<<"api">>, <<"www">>>> \o Shop), Name(<<<<"com">>>>), Name(<<<<"app">>>>),
          Name(<<<<"evil">>, <<"app">>>>), Name(<<<<"shop">>, <<"co">>, <<"uk">>>>),
          Name(<<<<"www">>, <<"shop">>, <<"co">>, <<"uk">>>>), Name(<<<<"bank">>, <<"co">>, <<"uk">>>>),
          Name(<<<<"shop">>, <<"com">>, <<"evil">>>>),
          [form |-> "ip4", labels |-> <<<<"10">>, <<"0">>, <<"0">>, <<"5">>>>],
          [form |-> "ip4", labels |-> <<<<"9">>, <<"9">>, <<"0">>, <<"5">>>>],
          [form |-> "ip6", labels |-> <<<<"::1">>>>], [form |-> "zone", labels |-> <<<<"fe80::1%eth0">>>>],
          [form |-> "number", labels |-> <<<<"127">>>>], Nobody}
Typed == [scheme : {"none", "http", "https", "mailto"}, host : Hosts, brackets : BOOLEAN,
          port : {0, 80, 443, 8080}]
ScopeInputs == [raw : Typed, scope : {"host", "subdomains"}, other : Hosts]
ScopeResult(in) ==
  LET parsed == Parse(in.raw)
  IN IF ~parsed.ok THEN [kind |-> "refused"]
     ELSE LET t == [host |-> parsed.host, entry |-> parsed.entry, scope |-> in.scope]
          IN [kind |-> "target", target |-> t, inside |-> InScope(t, in.other)]

Target(scope) == [host |-> Name(Shop), scope |-> scope,
                  entry |-> [host |-> Name(Shop), brackets |-> FALSE, scheme |-> "https", port |-> 0]]

-----------------------------------------------------------------------------
(* Recordings: plain entries, and entries that differ from one in one way. *)

Param(n, secret, long) == [name |-> n, value |-> 7, secret |-> secret, long |-> long, file |-> FALSE]
NoBody == [kind |-> "none", params |-> <<>>, text |-> <<>>, doc |-> <<>>]
Basket == <<[kind |-> "object",
             to |-> <<[len |-> 1, node |-> 2], [len |-> 9, node |-> 2], [len |-> 2, node |-> 3]>>],
           [kind |-> "scalar", to |-> <<>>], [kind |-> "array", to |-> <<[len |-> 0, node |-> 2]>>]>>
Get == [broken |-> FALSE, long |-> FALSE, scheme |-> "https", host |-> Name(Shop), method |-> "GET",
        session |-> FALSE, type |-> "dynamic", mime |-> "none", extension |-> "none",
        path |-> [rank |-> 1, words |-> {}], query |-> <<Param(1, FALSE, FALSE)>>, body |-> NoBody]
Post(body) == [Get EXCEPT !.method = "POST", !.query = <<>>, !.body = body]
Form(kind, params, text) == [NoBody EXCEPT !.kind = kind, !.params = params, !.text = text]
Plain == Param(1, FALSE, FALSE)
Secret == Param(2, TRUE, FALSE)
Blob == Param(3, FALSE, TRUE)
File == [Param(3, FALSE, FALSE) EXCEPT !.file = TRUE]
Entries ==
  {Get, [Get EXCEPT !.query = <<>>], [Get EXCEPT !.query = <<Secret>>], [Get EXCEPT !.query = <<Blob>>],
   [Get EXCEPT !.query = <<Param(0, FALSE, FALSE)>>], [Get EXCEPT !.query = <<[Plain EXCEPT !.value = 8]>>],
   [Get EXCEPT !.broken = TRUE, !.session = TRUE], [Get EXCEPT !.long = TRUE, !.session = TRUE],
   [Get EXCEPT !.long = TRUE, !.scheme = "data"], [Get EXCEPT !.scheme = "http", !.session = TRUE],
   [Get EXCEPT !.host = Name(<<<<"evil", "shop">>, <<"com">>>>), !.session = TRUE],
   [Get EXCEPT !.host = Name(<<<<"api">>>> \o Shop)], [Get EXCEPT !.path.rank = 2],
   [Get EXCEPT !.method = "PUT", !.session = TRUE], [Get EXCEPT !.type = "static", !.session = TRUE],
   [Get EXCEPT !.extension = "map"], [Get EXCEPT !.type = "unknown", !.mime = "static"],
   [Get EXCEPT !.type = "unknown", !.mime = "page", !.extension = "static"],
   [Get EXCEPT !.type = "unknown", !.extension = "static"],
   Post(NoBody), Post(Form("urlencoded", <<Plain, Secret>>, <<>>)), Post(Form("urlencoded", <<>>, <<Secret>>)),
   Post(Form("multipart", <<File>>, <<Plain, Secret, File>>)), Post(Form("multipart", <<Plain, Blob, File>>, <<>>)),
   Post(Form("other", <<>>, <<>>)), Post([NoBody EXCEPT !.kind = "json", !.doc = Basket])}
  \union {[Get EXCEPT !.path.words = {w}] : w \in {"login", "order", "wipe"}}
HarInputs ==
  [file : [problem : {"none"}, entries : [1..2 -> Entries]], limit : {1, 9}, scope : {"host", "subdomains"}]
  \union [file : [problem : {"none"}, entries : {<<a, Get, b, a>> : a \in Entries, b \in Entries}],
          limit : {1, 2}, scope : {"host"}]
  \union [file : [problem : {"url", "missing", "json"}, entries : {<<>>}], limit : {1}, scope : {"host"}]
HarResult(in) == LoadHar(Target(in.scope), in.file, in.limit)

-----------------------------------------------------------------------------
(* Descriptions: schemas of three nodes that may refer to each other, and  *)
(* the items that use them.                                                *)

Keys == {<<>>} \union {<<[len |-> 1, node |-> n]>> : n \in 1..3}
        \union {<<[len |-> 2, node |-> n], [len |-> 1, node |-> m]>> : n \in 1..3, m \in 1..3}
Nodes == [kind : {"object"}, to : Keys]
         \union {[kind |-> k, to |-> <<[len |-> 0, node |-> n]>>] : k \in {"array", "ref"}, n \in 1..3}
         \union [kind : {"scalar", "external", "junk"}, to : {<<>>}]
NoOp == [there |-> FALSE, words |-> {}, params |-> <<>>, content |-> "none", node |-> 1]
OpOf(content) == [NoOp EXCEPT !.there = TRUE, !.content = content]
Item(rank, get, post) == [kind |-> "item", path |-> [rank |-> rank, words |-> {}], shared |-> <<>>,
                          GET |-> get, POST |-> post]
Root == [rank |-> 0, words |-> {}]
Source(items, doc) == [problem |-> "none", url |-> FALSE, host |-> Nobody, items |-> items, doc |-> doc,
                       server |-> [absolute |-> FALSE, host |-> Nobody, path |-> Root]]
Twice == <<Item(2, NoOp, OpOf("json")), Item(1, NoOp, OpOf("json"))>>
SchemaInputs == [source : {Source(Twice, doc) : doc \in [1..3 -> Nodes]}, limit : {9}]

Doc == <<[kind |-> "object",
          to |-> <<[len |-> 1, node |-> 2], [len |-> 9, node |-> 2], [len |-> 2, node |-> 3]>>],
         [kind |-> "scalar", to |-> <<>>], [kind |-> "external", to |-> <<>>]>>
Queries == <<[in |-> "query", name |-> 1], [in |-> "header", name |-> 2], [in |-> "query", name |-> 0]>>
Operations ==
  {NoOp, OpOf("json"), OpOf("form"), [OpOf("none") EXCEPT !.params = Queries],
   [OpOf("none") EXCEPT !.params = <<[in |-> "formData", name |-> 1]>>], [OpOf("json") EXCEPT !.node = 3]}
  \union {[OpOf("none") EXCEPT !.words = {w}] : w \in {"login", "order", "wipe"}}
Items == {Item(r, g, p) : r \in 1..2, g \in Operations, p \in {NoOp, OpOf("form"), OpOf("json")}}
         \union {[Item(1, OpOf("none"), NoOp) EXCEPT !.path.words = {w}] : w \in {"login", "order"}}
         \union {[Item(1, OpOf("none"), NoOp) EXCEPT !.kind = k] : k \in {"external", "junk"}}
Shared == [Item(1, OpOf("none"), NoOp) EXCEPT !.shared = Queries]
Paths == {Root, [rank |-> 1, words |-> {}], [rank |-> 1, words |-> {"login"}]}
Servers == [absolute : BOOLEAN, host : {Name(Shop), Name(<<<<"evil">>, <<"com">>>>)}, path : Paths]
DocInputs ==
  [source : {Source(<<a, b, Shared>>, Doc) : a \in Items, b \in Items}, limit : {1, 2, 9}]
  \union [source : {[Source(<<a, Shared>>, Doc) EXCEPT !.server = s] : a \in Items, s \in Servers}, limit : {2}]
  \union [source : {Source(<<a, Shared>>, [Doc EXCEPT ![2].kind = "junk"]) : a \in Items}, limit : {9}]
  \union [source : {[Source(<<Shared>>, Doc) EXCEPT !.url = TRUE, !.host = h, !.problem = p] :
                      h \in Hosts, p \in {"none", "not JSON", "status"}}, limit : {1}]
DocResult(in) == LoadOpenApi(Target("host"), in.source, in.limit)

\* A recording that is added to a description, with entries below its base path.
MergeInputs ==
  [recorded : [1..2 -> Entries], described : Items, base : {Root}]
  \union [recorded : {<<[e EXCEPT !.path = Below(b, e.path)], e>> : e \in Entries, b \in Paths},
          described : Items, base : Paths]
MergeResult(in) ==
  LET har == LoadHar(Target("host"), [problem |-> "none", entries |-> in.recorded], 9).operations
      source == [Source(<<in.described>>, Doc) EXCEPT !.server.path = in.base]
      api == LoadOpenApi(Target("host"), source, 9).operations
  IN [kind |-> "merged", har |-> har, api |-> api, all |-> Merge(api, har)]

-----------------------------------------------------------------------------
(* Libraries, advisories and reports.                                      *)

Detected(n, v, m) == [name |-> n, version |-> v, method |-> m]
Resources == [url : {1, 2}, inline : {FALSE}, inside : BOOLEAN, crawled : BOOLEAN, fetch : {"answered", "failed"},
              byUrl : {<<>>, <<Detected("a", 0, "uri")>>, <<Detected("a", 1, "filename")>>},
              byBody : {<<>>, <<Detected("a", 1, "hash"), Detected("b", 0, "filecontent")>>}]
Inline == [url |-> 9, inline |-> TRUE, inside |-> TRUE, crawled |-> TRUE, fetch |-> "failed",
           byUrl |-> <<>>, byBody |-> <<Detected("b", 2, "filecontent")>>]
OtherInline == [Inline EXCEPT !.byBody = <<Detected("b", 0, "filecontent"), Detected("c", 3, "filecontent")>>]
LibraryInputs == [resources : Resources \X Resources \X {Inline} \X {OtherInline}]
LibraryResult(in) == Fingerprint(in.resources)

Found == {Detected("a", 1, "hash"), Detected("a", 3, "uri"), Detected("b", 2, "filename"), Detected("b", 0, "uri")}
Vulnerabilities == [ids : {{1}, {2}, {1, 2}}, severity : {0, 1, 4},
                    ranges : {{<<0, 2>>}, {<<1, 3>>}, {<<2, 0>>}, {<<0, 2>>, <<3, 5>>},
                              {<<0, 2>>, <<1, 4>>}}]
Flaw == [ids |-> {3}, severity |-> 3, ranges |-> {<<0, 3>>}]
NoServer == [batch |-> 0, hits |-> {}, down |-> {}, records |-> <<>>]
OfflineInputs == [detections : SUBSET Found, entries : {[a |-> <<x, y>>, b |-> <<Flaw>>] :
                    x \in Vulnerabilities, y \in Vulnerabilities}, online : {FALSE}, server : {NoServer}]
Asked == {<<"a", 1>>, <<"a", 3>>, <<"b", 2>>}
Affects(name, fixed) == [npm |-> TRUE, name |-> name, fixed |-> fixed]
Record(id, ids, label, band) == [shape |-> "usual", id |-> id, ids |-> ids, label |-> label, band |-> band,
                                 affected |-> {Affects("a", 4), Affects("", 5), Affects("other", 2)}]
Shaped(shape) == [Record(TRUE, {7}, 0, 0) EXCEPT !.shape = shape]
RecordLists == {<<>>, <<Record(FALSE, {9}, 4, 0)>>, <<Record(TRUE, {1}, 0, 4)>>,
                <<Record(TRUE, {1, 3}, 1, 4), Record(TRUE, {7}, 0, 0)>>,
                <<Shaped("junk"), Record(TRUE, {1}, 0, 4)>>, <<Record(TRUE, {1}, 0, 4), Shaped("odd")>>,
                <<[Shaped("odd") EXCEPT !.id = FALSE]>>}
OsvServers == [batch : 0..2, hits : SUBSET Asked, down : SUBSET Asked, records : RecordLists]
OnlineInputs == [detections : SUBSET Found, online : {TRUE}, server : OsvServers,
                 entries : {[a |-> <<[Flaw EXCEPT !.ids = {1}]>>, b |-> <<Flaw>>]}]
AdvisoryResult(in) == Report(in.detections, in.entries, in.online, in.server)

Characters == {"a", "b"}
ScrubInputs == [secret : BoundedSeq(Characters, 3) \ {<<>>}, other : BoundedSeq(Characters, 3),
                encoded : BOOLEAN, before : {<<>>, <<"z">>, <<"z", "z">>}, after : {<<>>, <<"z">>}]
Encoded(s) == FlattenSeq([k \in DOMAIN s |-> IF s[k] = "b" THEN <<"%", "b">> ELSE <<s[k]>>])
Echoed(in) == IF in.encoded THEN Encoded(in.secret) ELSE in.secret
ScrubResult(in) ==
  LET both == [s \in {in.secret, in.other} |-> {s, Encoded(s)}]
  IN [text |-> Scrub({in.secret, in.other}, 2, both, in.before \o Echoed(in) \o in.after)]

-----------------------------------------------------------------------------
VARIABLES topic, input, output

Pending == [kind |-> "pending"]

Given(t, In) == topic = t /\ input \in In
Init ==
  /\ \/ Given("scope", ScopeInputs) \/ Given("har", HarInputs) \/ Given("schema", SchemaInputs)
     \/ Given("document", DocInputs) \/ Given("merge", MergeInputs)
     \/ Given("library", LibraryInputs) \/ Given("offline", OfflineInputs)
     \/ Given("online", OnlineInputs) \/ Given("scrub", ScrubInputs)
  /\ output = Pending

Read(t, Result(_)) ==
  /\ topic = t /\ output = Pending
  /\ output' = Result(input)
  /\ UNCHANGED <<topic, input>>

Next ==
  \/ Read("scope", ScopeResult) \/ Read("har", HarResult) \/ Read("schema", DocResult)
  \/ Read("document", DocResult) \/ Read("merge", MergeResult)
  \/ Read("library", LibraryResult) \/ Read("offline", AdvisoryResult)
  \/ Read("online", AdvisoryResult) \/ Read("scrub", ScrubResult)

Spec == Init /\ [][Next]_<<topic, input, output>>

Done(t) == topic = t /\ output # Pending

-----------------------------------------------------------------------------
(* Properties.                                                             *)

\* With subdomains a scan reaches the hosts of its own site and no other: no name that only
\* ends alike, no second site of a public suffix, nothing next to an address or a short name.
OneSite(a, b) ==
  \E k \in 2..3 : /\ k <= Len(a) /\ k <= Len(b)
                  /\ k = (IF SubSeq(a, Len(a) - 1, Len(a)) \in PublicSuffixes THEN 3 ELSE 2)
                  /\ \A j \in 0..(k - 1) : a[Len(a) - j] = b[Len(b) - j]
ScopeIsTheSite ==
  Done("scope") /\ output.kind = "target" =>
    (output.inside <=> \/ input.other = input.raw.host
                       \/ /\ input.scope = "subdomains"
                          /\ input.raw.host.form = "name" /\ input.other.form = "name"
                          /\ OneSite(input.raw.host.labels, input.other.labels))

\* The entry URL of a target is read back as the same target, which is in its own scope: the
\* scan row keeps the URL, and the crawl starts from it.
ParsedReadsBack ==
  Done("scope") /\ output.kind = "target" =>
    LET again == Parse(output.target.entry)
    IN again.ok /\ again.host = output.target.host /\ again.entry = output.target.entry
       /\ InScope(output.target, again.host)

\* What two operations that are one have in common.
Identity(op) == <<op.method, op.path, [k \in DOMAIN op.query |-> op.query[k].name],
                  [k \in DOMAIN op.form |-> op.form[k].name], op.json>>
Seeds ==
  IF topic \in {"har", "schema", "document"} /\ output.kind \in {"har", "openapi"}
  THEN ToSet(output.operations) ELSE {}

\* No import seeds a login or a change that its list knows, and a recording not one of the
\* crawler's list either.  The base path of a description is not looked at.
BaseWords == IF Done("document") THEN input.source.server.path.words ELSE {}
SeedsAreSafe ==
  /\ \A op \in Seeds : ~Skip(op.path.words \ BaseWords)
  /\ Done("har") => \A op \in Seeds : ~LooksUnsafe(op.path.words)

\* Every entry read is counted under one reason, every operation kept is a seed or told of, and
\* an entry beyond the cap too.
EveryEntryIsCounted ==
  Done("har") /\ output.kind = "har" =>
    /\ MapThenSumSet(LAMBDA r : output.tally[r], Reasons) = output.read
    /\ output.tally["kept"] = Len(output.operations) \/ "operations" \in output.warnings
    /\ output.read = Len(input.file.entries) \/ "entries" \in output.warnings
    /\ \A e \in ToSet(First(input.file.entries, MaxEntries)) :
         Reason(Target(input.scope), e, <<>>) = "kept" /\ "operations" \notin output.warnings =>
           \E op \in Seeds : Identity(op) = Identity(Operation(e).op)

\* Of a secret-named or long parameter the name is kept and the recorded value never.
SecretsStayBehind ==
  Done("har") => \A op \in Seeds : \A p \in ToSet(op.query) \union ToSet(op.form) :
                   p.name \in {2, 3} => p.value = 0

\* A recording is called logged in exactly when a request to the target carried a session,
\* an asset or a method that is not imported included.
LoginIsNoticed ==
  Done("har") /\ output.kind = "har" =>
    (output.authenticated <=>
       \E e \in ToSet(First(input.file.entries, MaxEntries)) :
         e.session /\ ~e.broken /\ ~e.long /\ ~OutOfScope(Target(input.scope), e))

RECURSIVE Size(_), Depth(_)
Sizes(keys) == FoldLeft(LAMBDA n, k : n + 1 + k.len + Size(k.value), 0, keys)
Size(json) ==
  CASE json.kind = "list" -> 1 + Size(json.of) [] json.kind = "object" -> 1 + Sizes(json.keys)
    [] OTHER -> 0
Depth(json) ==
  CASE json.kind = "list" -> 1 + Depth(json.of)
    [] json.kind = "object" -> 1 + Max({0} \union {Depth(k.value) : k \in ToSet(json.keys)})
    [] OTHER -> 0

\* However the schemas refer to each other, a body ends, stays within its own allowance, and
\* all bodies of a document together within theirs.
BodiesShareOneAllowance ==
  /\ \A op \in Seeds : Size(op.json) <= BodyUnits /\ Depth(op.json) <= MaxDepth
  /\ Done("schema") \/ Done("document") =>
       MapThenSumSet(LAMBDA k : Size(output.operations[k].json),
                     IF output.kind = "openapi" THEN DOMAIN output.operations ELSE {}) <= DocUnits

\* What a description says stands, in its order; every recorded operation is there once.
DescriptionStands ==
  Done("merge") =>
    /\ IsPrefix(output.api, output.all)
    /\ \A op \in ToSet(output.har) : \E m \in ToSet(output.all) : Identity(m) = Identity(op)
    /\ \A i, j \in DOMAIN output.all :
         i # j /\ j > Len(output.api) => Identity(output.all[i]) # Identity(output.all[j])

\* A version told by any script that was judged is not lost to a script that tells none, what a
\* URL tells survives the fetch that failed, and each inline script of a page has its say.
KnownVersionWins ==
  Done("library") =>
    /\ \A d, e \in output.detections : d.name = e.name /\ d.version # 0 => e.version # 0
    /\ \A k \in {1, 2} :
         LET r == input.resources[k]
         IN ~(r.inside /\ r.crawled) /\ ~output.cut /\ (k = 2 => input.resources[1].url # r.url) =>
              \A d \in ToSet(r.byUrl) : \E e \in output.detections :
                e.name = d.name /\ (d.version # 0 => e.version = d.version)
    /\ \A k \in {3, 4} : \A d \in ToSet(input.resources[k].byBody) : \E e \in output.detections :
         e.name = d.name /\ (d.version # 0 => e.version = d.version)

Affected(v, e) == \E r \in e.ranges : v \in r[1]..(IF r[2] = 0 THEN 9 ELSE r[2] - 1)
FindingsOf(d) == {f \in output.findings : f.name = d.name /\ f.version = d.version}
\* Without the lookup a library is reported exactly when a vendored range holds its version,
\* once, with every identifier and no less than any known severity.
AffectedIsReported ==
  Done("offline") =>
    \A d \in {e \in input.detections : e.version # 0} :
      LET hits == {e \in ToSet(input.entries[d.name]) : Affected(d.version, e)}
      IN /\ Cardinality(FindingsOf(d)) = (IF hits = {} THEN 0 ELSE 1)
         /\ \A f \in FindingsOf(d), e \in hits : e.ids \subseteq f.ids /\ f.severity >= e.severity

\* The version an upgrade is advised to is the end of a range that was matched, and leaves a
\* matched range of every entry that has one with an end, entries that were merged included.
\* Of ranges that overlap it is the one that ends first.
AdviceIsAnUpgrade ==
  Done("offline") =>
    \A f \in output.findings :
      LET EndsOf(e) == {r[2] : r \in {q \in e.ranges : f.version \in q[1]..(q[2] - 1)}}
          entries == {e \in ToSet(input.entries[f.name]) : EndsOf(e) # {}}
      IN /\ f.upgrade \in {0} \union UNION {EndsOf(e) : e \in entries}
         /\ \A e \in entries : f.upgrade >= Min(EndsOf(e))

\* A query that failed costs the advisories of its own library, a batch that failed those of the
\* lookup, a record that is none or has no id itself: everything else is reported as if nothing
\* had failed, and each failure is told.  Only a record of an odd shape, in an answer that came,
\* costs the whole scan.
FailureCostsItsOwn ==
  Done("online") =>
    LET server == input.server
        sane == SelectSeq(server.records, LAMBDA r : r.id /\ r.shape = "usual")
        healthy == [server EXCEPT !.down = {}, !.batch = 0, !.records = sane]
        Best(s) == Report(input.detections, input.entries, TRUE, s).findings
        asked == server.hits \intersect {<<d.name, d.version>> : d \in input.detections}
        failed == output.warnings = 1 /\ output.findings = Best([healthy EXCEPT !.hits = {}])
    IN IF output.kind = "aborted"
       THEN asked \ server.down # {} /\ \E r \in ToSet(server.records) : r.id /\ r.shape = "odd"
       ELSE \/ server.batch # 0 /\ failed
            \/ /\ output.warnings = Cardinality(asked \intersect server.down)
               /\ \A f \in Best(healthy) :
                    <<f.name, f.version>> \notin server.down => f \in output.findings

\* A secret in a report is replaced whole, however it was echoed and even when another secret
\* is a part of it; what is too short to be a secret is left.
SecretIsReplacedWhole ==
  /\ Done("scrub") /\ Len(input.secret) >= 2 => output.text = input.before \o Redacted \o input.after
  /\ Done("scrub") /\ Len(input.secret) < 2 /\ Len(input.other) < 2 =>
       output.text = input.before \o Echoed(input) \o input.after

\* A scan stays with its target and keeps what it was trusted with: it reaches the target's own
\* hosts, seeds no request that logs in or destroys, and repeats no secret.
ScanStaysHome ==
  /\ ScopeIsTheSite /\ ParsedReadsBack /\ SeedsAreSafe /\ SecretsStayBehind
  /\ SecretIsReplacedWhole

\* Nothing that was read is lost or made up: an entry, a description, a version, an advisory or
\* the answers beside a lookup that failed.
NothingReadIsLost ==
  /\ EveryEntryIsCounted /\ LoginIsNoticed /\ DescriptionStands /\ KnownVersionWins
  /\ AffectedIsReported /\ AdviceIsAnUpgrade /\ FailureCostsItsOwn
=============================================================================
