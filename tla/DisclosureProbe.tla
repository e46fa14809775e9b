---------------------------- MODULE DisclosureProbe ----------------------------
(* The information-disclosure probe (checks/disclosure/probe.py): learn what "not found" looks
   like from three random paths, request a catalogue of well-known paths and some derived ones,
   and keep the answers that are neither.

   A URL is a directory (its segments) and a name in it.  Ask(site, n, url) answers the n-th request
   with [ok, status, body, len, valid]: equal bodies have equal hashes, and valid says whether
   the body passes the validator of the entry that asks.                                     *)
EXTENDS Site, Integers, FiniteSets, SequencesExt, TLC

CONSTANTS RequestCap, MaxDerivedDirs

LenMin == 256          \* a shorter body is not recognised by its length
RandomNames == <<"random", "random.env", "random/">>
Is2xx(status) == status \in 200..299

-----------------------------------------------------------------------------
(* What "not found" looks like.                                            *)

Learn(answers) ==
  LET heard == SelectSeq(answers, LAMBDA a : a.ok)
      got == ToSet(heard)
  IN [statuses |-> {a.status : a \in got}, lengths |-> {a.len : a \in got},
      shells |-> {a.body : a \in {b \in got : Is2xx(b.status)}},
      inconclusive |-> \/ heard = <<>>
                       \/ /\ \A a \in got : Is2xx(a.status)
                          /\ Len(heard) > 1 /\ Cardinality({a.body : a \in got}) = Len(heard)]

Calibrate(site) ==
  Learn([k \in DOMAIN RandomNames |-> Ask(site, k, [dir |-> <<>>, name |-> RandomNames[k]])])

Gap(m, n) == IF m > n THEN m - n ELSE n - m

\* A slip in Close: any length can be told from another.
CloseAlways(length, base) == Gap(length, base) <= (base * 15) \div 100
Close(length, base) == base >= LenMin /\ Gap(length, base) <= (base * 15) \div 100

\* A slip in LooksMissing: a page served with 200 is known by its status and length only.
LooksMissingByStatus(learned, a) ==
  /\ ~learned.inconclusive
  /\ a.status \in learned.statuses
  /\ a.status >= 400 \/ \E l \in learned.lengths : Close(a.len, l)
LooksMissing(learned, a) ==
  /\ ~learned.inconclusive
  /\ \/ a.body \in learned.shells
     \/ /\ a.status \in learned.statuses
        /\ a.status >= 400 \/ \E l \in learned.lengths : Close(a.len, l)

-----------------------------------------------------------------------------
(* What is asked for.                                                      *)

\* A backup's confidence follows from how its kind is validated.
BackupEntry(name, archive) ==
  [name |-> name, vcs |-> FALSE, ok |-> {200, 206}, confidence |-> IF archive THEN "HIGH" ELSE "MEDIUM"]
SourcemapEntry(name) == [name |-> name, vcs |-> FALSE, ok |-> {200, 206}, confidence |-> "HIGH"]

\* Every prefix of the path of a page that was fetched by GET, a file's own name included.
DiscoveredDirs(pages) ==
  LET Dirs(p) == IF p.ok /\ p.get THEN [d \in DOMAIN p.path |-> SubSeq(p.path, 1, d)] ELSE <<>>
      Add(dirs, d) == IF d \in ToSet(dirs) THEN dirs ELSE Append(dirs, d)
  IN FoldLeft(Add, <<>>, FlattenSeq([k \in DOMAIN pages |-> Dirs(pages[k])]))

\* Catalogue, backups named after the host, the maps of referenced scripts, and version control
\* below each directory found: each URL once.
Targets(catalogue, backups, maps, pages) ==
  LET Under(dir, entries) ==
        [k \in DOMAIN entries |-> [entry |-> entries[k], url |-> [dir |-> dir, name |-> entries[k].name]]]
      dirs == DiscoveredDirs(pages)
      derived == SubSeq(dirs, 1, IF Len(dirs) < MaxDerivedDirs THEN Len(dirs) ELSE MaxDerivedDirs)
      vcs == SelectSeq(catalogue, LAMBDA e : e.vcs)
      Add(out, t) == IF \E k \in DOMAIN out : out[k].url = t.url THEN out ELSE Append(out, t)
  IN FoldLeft(Add, <<>>,
       Under(<<>>, catalogue) \o Under(<<>>, backups)
       \o [k \in DOMAIN maps |-> [entry |-> SourcemapEntry(maps[k].name), url |-> maps[k]]]
       \o FlattenSeq([k \in DOMAIN derived |-> Under(derived[k], vcs)]))

-----------------------------------------------------------------------------
(* One request, and the control that a forbidden directory needs.          *)

\* A slip in ControlOf: one control at the root stands for every directory.
ControlAtRoot(dir) == [dir |-> <<>>, name |-> "wvcontrol/"]
ControlOf(dir) == [dir |-> dir, name |-> "wvcontrol/"]

\* Asked once for a directory; a control that fails counts as not forbidden, for good.
Answers403(s, dir, site) ==
  IF dir \in DOMAIN s.forbids THEN s
  ELSE LET a == Ask(site, s.sent + 1, ControlOf(dir))
       IN [s EXCEPT !.sent = @ + 1, !.forbids = @ @@ (dir :> (a.ok /\ a.status = 403))]

Probe(s, t, learned, site) ==
  LET a == Ask(site, s.sent + 1, t.url)
      asked == [s EXCEPT !.sent = @ + 1]
      forbidden == Answers403(asked, t.url.dir, site)
      Hit(now, confidence) ==
        [now EXCEPT !.hits = @ \union {[url |-> t.url, confidence |-> confidence]}]
  IN IF ~a.ok \/ a.status \notin t.entry.ok \/ LooksMissing(learned, a) THEN asked
     ELSE IF a.status = 403
          THEN (IF forbidden.forbids[t.url.dir] THEN forbidden ELSE Hit(forbidden, "MEDIUM"))
     ELSE IF a.valid THEN Hit(asked, t.entry.confidence)
     ELSE asked

ProbeRun(catalogue, backups, maps, pages, site) ==
  LET learned == Calibrate(site)
      all == Targets(catalogue, backups, maps, pages)
      cut == Len(all) > RequestCap
      targets == IF cut THEN SubSeq(all, 1, RequestCap) ELSE all
      Step(s, t) == Probe(s, t, learned, site)
      none == [d \in {} |-> FALSE]
      last == FoldLeft(Step, [sent |-> Len(RandomNames), forbids |-> none, hits |-> {}], targets)
  IN [hits |-> last.hits, sent |-> last.sent, probed |-> {t.url : t \in ToSet(targets)},
      warnings |-> {w \in {"calibration", "cap"} : IF w = "cap" THEN cut ELSE learned.inconclusive}]
=============================================================================
