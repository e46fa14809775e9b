---------------------------- MODULE Dependencies ----------------------------
(***************************************************************************)
(* The libraries of a site and their advisories (checks/deps): what the    *)
(* fingerprint pass detects, the ranges of the vendored database, the      *)
(* lookup at OSV.dev, the merge of both and the finding made of it; and    *)
(* the scrubbing of a finished report (auth/scrub.py).  Versions are       *)
(* numbers, 0 for one that is not known or not given.                      *)
(***************************************************************************)
EXTENDS Integers, Sequences, FiniteSets, SequencesExt, FiniteSetsExt

CONSTANTS MaxFetches,   \* scripts fetched by the fingerprint pass
          QueryBatch    \* queries of one batch request

ASSUME CapsAssumption == MaxFetches \in Nat /\ QueryBatch \in Nat \ {0}

-----------------------------------------------------------------------------
(* The fingerprint pass.  A resource is [url, inline, inside, crawled,     *)
(* byUrl, byBody, fetch]: where it is, and what its URL and its body tell, *)
(* each a detection [name, version, method].                               *)

Strength == [hash |-> 4, filename |-> 2, filecontent |-> 2, uri |-> 1]

\* identify: by the URL, and by the body when there is one.
Identify(r, body) == r.byUrl \o (IF body THEN r.byBody ELSE <<>>)
Fetched(r) == r.fetch = "answered"
IdentifyFetched(r) == IF Fetched(r) THEN Identify(r, TRUE) ELSE <<>>
IdentifyOwn(r) == Identify(r, Fetched(r))

\* _dedupe: for one library and version the first of the strongest methods; no version is said
\* only of a library of which none is known.
StrongestFirst(best, d) ==
  LET same == {b \in best : b.name = d.name /\ b.version = d.version}
  IN IF \A b \in same : Strength[d.method] > Strength[b.method] THEN (best \ same) \union {d} ELSE best
Dedupe(raw) ==
  LET best == FoldLeft(StrongestFirst, {}, raw)
  IN {d \in best : d.version # 0 \/ ~\E b \in best : b.name = d.name /\ b.version # 0}

\* scan: every inline script is judged as it is, a URL once and, when it is elsewhere, by itself;
\* what is here and the crawl did not fetch is fetched, up to a cap that is told.
Fingerprint(resources) ==
  LET See(acc, r) == IF ~r.inline /\ \E k \in DOMAIN acc : ~acc[k].inline /\ acc[k].url = r.url
                     THEN acc ELSE Append(acc, r)
      seen == FoldLeft(See, <<>>, resources)
      own == SelectSeq(seen, LAMBDA r : r.inside /\ ~r.inline /\ ~r.crawled)
      tried == SubSeq(own, 1, Min({Len(own), MaxFetches}))
      rest == SelectSeq(seen, LAMBDA r : r.inline \/ ~r.inside)
      raw == FlattenSeq([k \in DOMAIN rest |-> Identify(rest[k], rest[k].inline)])
               \o FlattenSeq([k \in DOMAIN tried |-> IdentifyOwn(tried[k])])
  IN [detections |-> Dedupe(raw), cut |-> Len(own) > MaxFetches]

-----------------------------------------------------------------------------
(* Advisories: [ids, severity, upstream, safe].                            *)

Medium == 2
Known(severity) == severity \in 1..4
SafeOf(versions) == IF versions = {} THEN 0 ELSE Min(versions)

\* The vendored database: an entry is [ids, severity, ranges], a range <<atOrAbove, below>>.
InRangeInclusive(v, r) == (r[1] = 0 \/ v >= r[1]) /\ (r[2] = 0 \/ v <= r[2])
InRange(v, r) == (r[1] = 0 \/ v >= r[1]) /\ (r[2] = 0 \/ v < r[2])
Match(entries, v) ==
  LET matched(e) == {r \in e.ranges : InRange(v, r)}
      hits == SelectSeq(entries, LAMBDA e : matched(e) # {})
  IN [k \in DOMAIN hits |->
        [ids |-> hits[k].ids, upstream |-> Known(hits[k].severity),
         severity |-> IF Known(hits[k].severity) THEN hits[k].severity ELSE Medium,
         safe |-> SafeOf({r[2] : r \in matched(hits[k])} \ {0})]]

\* merge_advisories: an advisory joins the first bucket it shares an identifier with.
Earliest(bucket) == SafeOf({a.safe : a \in ToSet(bucket)} \ {0})
Safest(bucket) == Max({a.safe : a \in ToSet(bucket)})
Coalesce(bucket) ==
  [ids |-> UNION {a.ids : a \in ToSet(bucket)},
   severity |-> Max({a.severity : a \in ToSet(bucket)}),
   upstream |-> \E a \in ToSet(bucket) : a.upstream,
   safe |-> Safest(bucket)]
MergeAdvisories(advisories) ==
  LET Add(buckets, a) ==
        LET shared == {k \in DOMAIN buckets : \E b \in ToSet(buckets[k]) : a.ids \intersect b.ids # {}}
        IN IF shared = {} THEN Append(buckets, <<a>>)
           ELSE [buckets EXCEPT ![Min(shared)] = Append(@, a)]
      all == FoldLeft(Add, <<>>, advisories)
  IN [k \in DOMAIN all |-> Coalesce(all[k])]

-----------------------------------------------------------------------------
(* OSV.dev.  A record is [shape, id, ids, label, band, affected], affected *)
(* a set of [npm, name, fixed]; label and band are severities, 0 for none. *)
(* Its shape is "usual", "junk" (no mapping) or "odd", a mapping with a    *)
(* part of another type than it is read as.                                *)

\* _severity, _first_safe, _to_advisory: a record without an id is dropped.
Severity(record) ==
  IF Known(record.label) THEN record.label ELSE IF Known(record.band) THEN record.band ELSE Medium
FirstSafe(record, name, v) ==
  SafeOf({a.fixed : a \in {b \in record.affected : b.npm /\ b.name \in {"", name} /\ b.fixed > v}})
ToAdvisories(records, name, v) ==
  LET usable == SelectSeq(records, LAMBDA r : r.id /\ r.shape # "junk")
  IN [k \in DOMAIN usable |->
        [ids |-> usable[k].ids, severity |-> Severity(usable[k]),
         upstream |-> Known(usable[k].label) \/ Known(usable[k].band),
         safe |-> FirstSafe(usable[k], name, v)]]

\* _querybatch: batches in order, the first that fails or has the wrong length ends the lookup.
VersionedPairs(detections) == {<<d.name, d.version>> : d \in {e \in detections : e.version # 0}}
Batches(pairs) == (Cardinality(pairs) + QueryBatch - 1) \div QueryBatch

\* Reading the parts of a record raises when one is not what it is read as: no handler is there.
Raises(records) == \E r \in ToSet(records) : r.id /\ r.shape = "odd"

\* lookup: one query for each pair the batch has a hit for; one that fails costs its own pair, one
\* whose record raises the lookup, and not as an OsvLookupError.  The server is [batch, hits, down,
\* records]: the batch that fails, the pairs it has hits for, those it fails, what it answers.
AnsweredUntilFailure(pair, pairs, server) ==
  pair \in server.hits /\ \A p \in pairs \intersect server.hits : p \in server.down => p[2] > pair[2]
Answered(pair, pairs, server) == pair \in server.hits /\ pair \notin server.down
Lookup(detections, server) ==
  LET pairs == VersionedPairs(detections)
      answered == {p \in pairs : Answered(p, pairs, server)}
      found == {p \in answered : ToAdvisories(server.records, p[1], p[2]) # <<>>}
  IN IF pairs # {} /\ server.batch \in 1..Batches(pairs) THEN [kind |-> "failed"]
     ELSE IF answered # {} /\ Raises(server.records) THEN [kind |-> "raised"]
     ELSE [kind |-> "answered", failed |-> pairs \intersect server.hits \intersect server.down,
           advisories |-> [p \in found |-> ToAdvisories(server.records, p[1], p[2])]]

\* _osv_lookup and the two checks of checks/deps/check.py.  A lookup that failed is told, and the
\* vendored advisories stand; one that raised anything else ends the scan.
Osv(detections, online, server) ==
  LET offline == [aborted |-> FALSE, advisories |-> <<>>, warnings |-> 0]
      r == Lookup(detections, server)
  IN CASE ~online -> offline
       [] online /\ r.kind = "failed" -> [offline EXCEPT !.warnings = 1]
       [] online /\ r.kind = "raised" -> [offline EXCEPT !.aborted = TRUE]
       [] OTHER -> [offline EXCEPT !.advisories = r.advisories, !.warnings = Cardinality(r.failed)]
Confidence(method) == CASE method = "hash" -> "HIGH" [] method = "uri" -> "LOW" [] OTHER -> "MEDIUM"
Finding(d, merged) ==
  [name |-> d.name, version |-> d.version, severity |-> Max({merged[k].severity : k \in DOMAIN merged}),
   confidence |-> Confidence(d.method), ids |-> UNION {merged[k].ids : k \in DOMAIN merged},
   upgrade |-> Max({merged[k].safe : k \in DOMAIN merged})]
Report(detections, entries, online, server) ==
  LET osv == Osv(detections, online, server)
      Of(d) == MergeAdvisories(Match(entries[d.name], d.version)
                 \o (IF <<d.name, d.version>> \in DOMAIN osv.advisories
                     THEN osv.advisories[<<d.name, d.version>>] ELSE <<>>))
      versioned == {d \in detections : d.version # 0}
  IN IF osv.aborted THEN [kind |-> "aborted"]
     ELSE [kind |-> "reported", warnings |-> osv.warnings,
           findings |-> {Finding(d, Of(d)) : d \in {e \in versioned : Of(e) # <<>>}},
           undetermined |-> {d.name : d \in detections \ versioned}]

-----------------------------------------------------------------------------
(* The report.  A text is a sequence of characters; a secret that is too   *)
(* short to be one is left alone.                                          *)

Redacted == <<"#">>
Occurs(s, text, k) == k + Len(s) - 1 <= Len(text) /\ SubSeq(text, k, k + Len(s) - 1) = s
\* str.replace: from the left, each occurrence after the last one replaced.
Replace(s, text) ==
  LET f[k \in 1..(Len(text) + 1)] ==
        IF k > Len(text) THEN <<>>
        ELSE IF Occurs(s, text, k) THEN Redacted \o f[k + Len(s)] ELSE <<text[k]>> \o f[k + 1]
  IN f[1]
Longer(a, b) == Len(a) > Len(b)
Shorter(a, b) == Len(a) < Len(b)
ScrubOrderShortest(spellings) == SetToSortSeq(spellings, Shorter)
ScrubOrder(spellings) == SetToSortSeq(spellings, Longer)
\* _Scrubber: every spelling of every secret, the longest first.
Scrub(secrets, minimum, spellings, text) ==
  LET spelled == UNION {spellings[s] : s \in {t \in secrets : Len(t) >= minimum}} \ {<<>>}
  IN FoldLeft(LAMBDA t, s : Replace(s, t), text, ScrubOrder(spelled))
=============================================================================
