------------------------------ MODULE Imports ------------------------------
(***************************************************************************)
(* The target of a scan and its scope (core/target.py), and the operations *)
(* the scan is seeded with: those of a browser recording (crawler/har.py)  *)
(* and of an API description (crawler/openapi.py).  Hosts are sequences of *)
(* labels, paths are numbers with the words they hold, and bodies are      *)
(* trees cut by the size allowances of the code.                           *)
(***************************************************************************)
EXTENDS Integers, Sequences, FiniteSets, SequencesExt, FiniteSetsExt

CONSTANTS BodyUnits, DocUnits,   \* what one body, and all bodies of a document, may grow to
          MaxDepth, MaxKeys, MaxName,
          MaxEntries             \* entries of a recording that are read

ASSUME BoundsAssumption ==
  {BodyUnits, DocUnits, MaxDepth, MaxKeys, MaxName, MaxEntries} \subseteq Nat

-----------------------------------------------------------------------------
(* The target.  A host is [form, labels]; a label is the sequence of words *)
(* it runs together, so that "evilshop" can end in "shop".                 *)

Nobody == [form |-> "none", labels |-> <<>>]
PublicSuffixes == {<<<<"co">>, <<"uk">>>>, <<<<"github">>, <<"io">>>>}
DefaultPort == [http |-> 80, https |-> 443]

IsValidHost(h) == h.form \in {"name", "ip4", "ip6"}
IsDomainName(h) == h.form = "name" /\ Len(h.labels) > 1
UrlHostBare(h) == [host |-> h, brackets |-> FALSE]
UrlHost(h) == [host |-> h, brackets |-> h.form = "ip6"]

RegistrableDomain(labels) ==
  LET n == Len(labels)
  IN IF n <= 2 THEN labels
     ELSE IF SubSeq(labels, n - 1, n) \in PublicSuffixes THEN SubSeq(labels, n - 2, n)
     ELSE SubSeq(labels, n - 1, n)
Text(labels) == Tail(FlattenSeq([k \in DOMAIN labels |-> <<".">> \o labels[k]]))

InScopeByEnding(t, h) ==
  /\ h.form # "none"
  /\ \/ h = t.host
     \/ /\ t.scope = "subdomains" /\ IsDomainName(t.host)
        /\ IsSuffix(Text(RegistrableDomain(t.host.labels)), Text(h.labels))
InScope(t, h) ==
  /\ h.form # "none"
  /\ \/ h = t.host
     \/ /\ t.scope = "subdomains" /\ IsDomainName(t.host)
        /\ LET base == RegistrableDomain(t.host.labels)
           IN h.labels = base \/ IsSuffix(<<".">> \o Text(base), Text(h.labels))

\* Target.parse.  What was typed is [scheme, host, brackets, port], port 0 for none.  A host with
\* a port and no scheme reads as a scheme unless it starts with a digit or a bracket, and an
\* IPv6 address without its brackets has no host.
ReadsAsScheme(raw) == raw.scheme = "none" /\ raw.port # 0 /\ raw.host.form = "name"
Parse(raw) ==
  LET scheme == IF raw.scheme = "none" THEN "https" ELSE raw.scheme
      host == IF raw.host.form = "ip6" /\ ~raw.brackets THEN Nobody ELSE raw.host
  IN IF ReadsAsScheme(raw) \/ scheme \notin {"http", "https"} \/ ~IsValidHost(host)
     THEN [ok |-> FALSE]
     ELSE [ok |-> TRUE, host |-> host,
           entry |-> UrlHost(host) @@
             [scheme |-> scheme, port |-> IF raw.port = DefaultPort[scheme] THEN 0 ELSE raw.port]]

-----------------------------------------------------------------------------
(* Operations.  A path is [rank, words], rank in the order of the URLs; a  *)
(* parameter is [name, value] with value 0 for the placeholder.            *)

\* The words of the importers' own list, and of the safety list of the crawler.
Skip(words) == words \intersect {"login", "delete", "order"} # {}
LooksUnsafe(words) == words \intersect {"login", "delete", "wipe"} # {}

Names(pairs) == [k \in DOMAIN pairs |-> pairs[k].name]
KeyWithValues(op) == <<op.method, op.path, op.query, op.form, op.json>>
Key(op) == <<op.method, op.path, Names(op.query), Names(op.form), op.json>>

\* The order of the seeds: by URL, method and names; recordings here have one query parameter
\* at most.  The sort is stable.
Rank(op) == <<op.path.rank, IF op.method = "GET" THEN 0 ELSE 1,
              IF op.query = <<>> THEN -1 ELSE op.query[1].name>>
Before(a, b) ==
  \E k \in 1..3 : a[k] < b[k] /\ \A j \in 1..(k - 1) : a[j] = b[j]
Sorted(ops) ==
  LET Less(i, j) == Before(Rank(ops[i]), Rank(ops[j])) \/ (Rank(ops[i]) = Rank(ops[j]) /\ i < j)
      order == SetToSortSeq(DOMAIN ops, Less)
  IN [k \in DOMAIN ops |-> ops[order[k]]]
First(s, n) == SubSeq(s, 1, Min({Len(s), n}))

\* merge_operations: the description's operations, then those of the recording it does not have.
Merge(primary, secondary) ==
  LET Add(acc, op) == IF \E k \in DOMAIN acc : Key(acc[k]) = Key(op) THEN acc ELSE Append(acc, op)
  IN FoldLeft(Add, primary, secondary)

-----------------------------------------------------------------------------
(* Bodies.  A JSON value or a schema is a node of a document: [kind, to],  *)
(* kind "object" with keys [len, node], "array", "scalar", "ref" to        *)
(* another node, "external" for a reference out of the document, "junk".   *)

Leaf == [kind |-> "leaf"]
Cut == [kind |-> "empty"]
List(of) == [kind |-> "list", of |-> of]
Object(keys) == [kind |-> "object", keys |-> keys]

\* _shape: what is kept of a recorded JSON body; a key that is too long or does not fit is left out.
RECURSIVE Shape(_, _, _, _)
Shape(doc, n, left, depth) ==
  LET v == doc[n]
      AddKey(acc, k) ==
        IF k.len > MaxName \/ 1 + k.len > acc.left THEN acc
        ELSE LET r == Shape(doc, k.node, acc.left - 1 - k.len, depth + 1)
             IN [json |-> Append(acc.json, [len |-> k.len, value |-> r.json]), left |-> r.left]
      keys == FoldLeft(AddKey, [json |-> <<>>, left |-> left - 1], First(v.to, MaxKeys))
      item == Shape(doc, v.to[1].node, left - 1, depth + 1)
  IN IF v.kind \notin {"object", "array"} THEN [json |-> Leaf, left |-> left]
     ELSE IF depth >= MaxDepth \/ left < 1 THEN [json |-> Cut, left |-> left]
     ELSE IF v.kind = "object" THEN [json |-> Object(keys.json), left |-> keys.left]
     ELSE IF v.to = <<>> THEN [json |-> Cut, left |-> left - 1]
     ELSE [json |-> List(item.json), left |-> item.left]

\* _resolve: a chain of references ends at a node, or at nothing for one that leaves the
\* document or comes back.
RECURSIVE Resolve(_, _, _)
Resolve(doc, n, seen) ==
  IF doc[n].kind = "external" THEN [node |-> [kind |-> "scalar", to |-> <<>>], external |-> TRUE]
  ELSE IF doc[n].kind # "ref" THEN [node |-> doc[n], external |-> FALSE]
  ELSE IF doc[n].to[1].node \in seen THEN [node |-> [kind |-> "scalar", to |-> <<>>], external |-> FALSE]
  ELSE Resolve(doc, doc[n].to[1].node, seen \union {doc[n].to[1].node})

\* _synth_object: a body made from a schema; the first key that does not fit ends its object.
RECURSIVE Synth(_, _, _, _)
Synth(doc, n, left, depth) ==
  LET at == Resolve(doc, n, {})
      AddKey(acc, k) ==
        IF acc.full \/ 1 + k.len > acc.left THEN [acc EXCEPT !.full = TRUE]
        ELSE LET r == Synth(doc, k.node, acc.left - 1 - k.len, depth + 1)
             IN [json |-> Append(acc.json, [len |-> k.len, value |-> r.json]), left |-> r.left,
                 full |-> FALSE, external |-> acc.external \/ r.external]
      keys == FoldLeft(AddKey, [json |-> <<>>, left |-> left - 1, full |-> FALSE,
                                external |-> at.external], First(at.node.to, MaxKeys))
      item == Synth(doc, at.node.to[1].node, left - 1, depth + 1)
  IN IF at.node.kind = "junk" THEN [json |-> Leaf, left |-> left, external |-> at.external]
     ELSE IF depth >= MaxDepth \/ left < 1 THEN [json |-> Cut, left |-> left, external |-> at.external]
     ELSE IF at.node.kind = "object"
     THEN [json |-> Object(keys.json), left |-> keys.left, external |-> keys.external]
     ELSE IF at.node.kind = "array"
     THEN [json |-> List(item.json), left |-> item.left, external |-> item.external]
     ELSE [json |-> Leaf, left |-> left - 1, external |-> at.external]

\* _synth_json: one body takes what it may from the allowance all bodies share.
SynthJsonAlone(doc, n, docleft) ==
  LET r == Synth(doc, n, BodyUnits, 0)
  IN [r EXCEPT !.left = Max({0, docleft - (BodyUnits - r.left)})]
SynthJson(doc, n, docleft) ==
  LET allowance == Min({BodyUnits, docleft})
      r == Synth(doc, n, allowance, 0)
  IN [r EXCEPT !.left = docleft - (allowance - r.left)]

-----------------------------------------------------------------------------
(* The recording.                                                          *)

\* _scrub and _pairs: a secret-named or long value becomes the placeholder; an entry with a
\* name that is empty or too long (0) is not used.
Scrubbed(p) == [name |-> p.name, value |-> IF p.secret \/ p.long THEN 0 ELSE p.value]
Pairs(raw) == [ok |-> \A k \in DOMAIN raw : raw[k].name # 0,
               pairs |-> [k \in DOMAIN raw |-> Scrubbed(raw[k])]]

\* _body: the recorded fields, without the files, else those of the text.
TextFields(body) == SelectSeq(body.params, LAMBDA p : ~p.file)
Fields(body) ==
  IF body.kind \notin {"urlencoded", "multipart"} THEN <<>>
  ELSE IF TextFields(body) # <<>> THEN TextFields(body)
  ELSE IF body.kind = "multipart" THEN SelectSeq(body.text, LAMBDA p : ~p.file) ELSE body.text
NoJson == [kind |-> "none"]
Json(body) ==
  IF body.kind = "json" /\ body.doc[1].kind \in {"object", "array"}
  THEN Shape(body.doc, 1, BodyUnits, 0).json ELSE NoJson

PlainBody(body) ==
  LET raw == Fields(body)
  IN [ok |-> \A k \in DOMAIN raw : raw[k].name # 0,
      pairs |-> [k \in DOMAIN raw |-> [name |-> raw[k].name, value |-> raw[k].value]]]
FormBody(body) == Pairs(Fields(body))

\* _operation: a GET has no body; a body of another kind is left out, its request is not.
Operation(e) ==
  LET query == Pairs(e.query)
      form == IF e.method = "POST" THEN FormBody(e.body) ELSE Pairs(<<>>)
  IN [ok |-> query.ok /\ form.ok,
      op |-> [method |-> e.method, path |-> e.path, query |-> query.pairs, form |-> form.pairs,
              json |-> IF e.method = "POST" THEN Json(e.body) ELSE NoJson]]

\* _is_static: the browser's type, else the response's, else the extension of the path.
IsStatic(e) ==
  \/ e.extension = "map"
  \/ e.type = "static"
  \/ e.type = "unknown" /\ (e.mime = "static" \/ (e.mime = "none" /\ e.extension = "static"))

OutOfScope(t, e) == e.scheme # t.entry.scheme \/ ~InScope(t, e.host)
SkipOnly(words) == Skip(words)
IsUnsafe(words) == Skip(words) \/ LooksUnsafe(words)

\* The loop of load_har: what becomes of an entry.
Reason(t, e, kept) ==
  CASE e.broken \/ (e.long /\ e.scheme \in {"http", "https"}) -> "malformed"
    [] OutOfScope(t, e) -> "out of scope"
    [] e.method \notin {"GET", "POST"} -> "other method"
    [] IsStatic(e) -> "static"
    [] ~Operation(e).ok -> "malformed"
    [] IsUnsafe(e.path.words) -> "unsafe"
    [] \E k \in DOMAIN kept : Key(kept[k]) = Key(Operation(e).op) -> "duplicate"
    [] OTHER -> "kept"
Reasons == {"malformed", "out of scope", "other method", "static", "unsafe", "duplicate", "kept"}
SeesLoginWhenKept(reason, e) == e.session /\ reason = "kept"
SeesLogin(reason, e) == e.session /\ ~(reason = "malformed" /\ (e.broken \/ e.long)) /\ reason # "out of scope"
CountFirsts(tally, reason) == IF reason = "duplicate" THEN tally ELSE [tally EXCEPT ![reason] = @ + 1]
Count(tally, reason) == [tally EXCEPT ![reason] = @ + 1]
Walk(t, acc, e) ==
  LET reason == Reason(t, e, acc.kept)
  IN [tally |-> Count(acc.tally, reason),
      kept |-> IF reason = "kept" THEN Append(acc.kept, Operation(e).op) ELSE acc.kept,
      authenticated |-> acc.authenticated \/ SeesLogin(reason, e)]

LoadHar(t, file, limit) ==
  LET entries == First(file.entries, MaxEntries)
      all == FoldLeft(LAMBDA acc, e : Walk(t, acc, e),
                      [tally |-> [r \in Reasons |-> 0], kept |-> <<>>, authenticated |-> FALSE], entries)
  IN IF file.problem # "none" THEN [kind |-> "error"]
     ELSE [kind |-> "har", read |-> Len(entries), tally |-> all.tally,
           authenticated |-> all.authenticated, operations |-> First(Sorted(all.kept), limit),
           warnings |-> {w \in {"entries"} : Len(file.entries) > MaxEntries}
                          \union {w \in {"operations"} : Len(all.kept) > limit}
                          \union {w \in {"nothing"} : limit = 0 \/ all.kept = <<>>}]

-----------------------------------------------------------------------------
(* The description.                                                        *)

\* _base_url: the document's server gives the base path and never the host.
Base(t, server) ==
  [host |-> t.host, path |-> server.path, foreign |-> server.absolute /\ server.host # t.host]
Below(base, path) == [rank |-> 10 * base.rank + path.rank, words |-> base.words \union path.words]

\* _body: what the request body of an operation is made of.  A form has the top-level names of
\* its schema; a Swagger 2.0 body comes from the parameters.
FormFields(doc, n) ==
  LET node == Resolve(doc, n, {}).node
  IN IF node.kind # "object" THEN <<>>
     ELSE [k \in 1..Min({Len(node.to), MaxKeys}) |-> [name |-> node.to[k].len, value |-> 0]]
\* A property of a form that is no mapping raises, and ends the import.
FormRaises(doc, n) ==
  LET node == Resolve(doc, n, {}).node
  IN node.kind = "object" /\ \E k \in 1..Min({Len(node.to), MaxKeys}) :
                               Resolve(doc, node.to[k].node, {}).node.kind = "junk"
FormIsExternal(doc, n) ==
  LET at == Resolve(doc, n, {})
  IN at.external \/ (at.node.kind = "object" /\ \E k \in 1..Min({Len(at.node.to), MaxKeys}) :
                       Resolve(doc, at.node.to[k].node, {}).external)
OfKind(params, in) == SelectSeq(params, LAMBDA p : p.in = in /\ p.name # 0)
Values(params, in) ==
  [k \in DOMAIN OfKind(params, in) |-> [name |-> OfKind(params, in)[k].name, value |-> 0]]
Body(doc, op, params, docleft) ==
  LET nothing == [form |-> <<>>, json |-> NoJson, left |-> docleft, external |-> FALSE]
      made == SynthJson(doc, op.node, docleft)
  IN CASE op.content = "form" -> [nothing EXCEPT !.form = FormFields(doc, op.node),
                                                 !.external = FormIsExternal(doc, op.node)]
       [] op.content = "json" -> [form |-> <<>>, json |-> made.json, left |-> made.left,
                                  external |-> made.external]
       [] OTHER -> [nothing EXCEPT !.form = Values(params, "formData")]

\* _operations_for: GET, then POST, of one path; one that looks like a login or a change is
\* dropped before its body is made, by its own path and id: the base path is joined after.
OperationsFor(acc, item, doc, base) ==
  LET Add(a, m) ==
        LET op == item[m]
            params == item.shared \o op.params
            body == Body(doc, op, params, a.left)
        IN IF ~op.there \/ Skip(item.path.words \union op.words) THEN a
           ELSE [ops |-> Append(a.ops, [method |-> m, path |-> Below(base.path, item.path),
                                        query |-> Values(params, "query"), form |-> body.form,
                                        json |-> body.json]),
                 left |-> body.left, external |-> a.external \/ body.external,
                 raised |-> a.raised \/ (op.content = "form" /\ FormRaises(doc, op.node))]
  IN IF item.kind = "external" THEN [acc EXCEPT !.external = TRUE]
     ELSE IF item.kind = "junk" THEN acc
     ELSE FoldLeft(Add, acc, <<"GET", "POST">>)

LoadOpenApi(t, source, limit) ==
  LET base == Base(t, source.server)
      all == FoldLeft(LAMBDA acc, item : OperationsFor(acc, item, source.doc, base),
                      [ops |-> <<>>, left |-> DocUnits, external |-> FALSE, raised |-> FALSE],
                      source.items)
  IN IF source.problem # "none" \/ (source.url /\ ~InScope(t, source.host)) THEN [kind |-> "error"]
     ELSE IF all.raised THEN [kind |-> "raised"]
     ELSE [kind |-> "openapi", host |-> base.host, operations |-> First(Sorted(all.ops), limit),
           warnings |-> {w \in {"server"} : base.foreign} \union {w \in {"external"} : all.external}
                          \union {w \in {"operations"} : Len(all.ops) > limit}
                          \union {w \in {"nothing"} : limit = 0 \/ all.ops = <<>>}]
=============================================================================
