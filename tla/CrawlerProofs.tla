---------------------------- MODULE CrawlerProofs ----------------------------
(***************************************************************************)
(* The crawl, for every site, every configuration and any limits: its caps *)
(* and the order of its phases; what is asked for, and what is left; what  *)
(* is submitted, and the tally.                                            *)
(***************************************************************************)
EXTENDS Crawler, ListProofs, FiniteSetTheorems, TLAPS

-----------------------------------------------------------------------------
(* The caps and the order of the phases.                                   *)

\* The tally has its four fields, the two that are capped being counters.
Tallied ==
  \E f, o \in Nat : \E s, v :
    summary = [forms |-> f, operations |-> o, skipped |-> s, overCap |-> v]

\* Nothing is fetched before the seed.
SeedFirst == config \in Configs /\ pages \in Nat /\ (at = "seed" => pages = 0)

\* The POST phase begins, and begins again, when the queue is drained or the pages are used up.
DrainedFirst == at = "post" => walk.queue = <<>> \/ pages >= config.maxPages

Inv == Tallied /\ SeedFirst /\ DrainedFirst /\ BudgetsHold

LEMMA InitEstablishes == ASSUME Init PROVE Inv
  <1>1. Tallied
    BY DEF Init, Tallied
  <1>2. summary.forms + summary.operations = 0
    BY DEF Init
  <1> QED
    BY <1>1, <1>2, SiteAssumption DEF Init, Inv, SeedFirst, DrainedFirst, BudgetsHold

\* A step of the drain or before it: one more page while there is room, or none.
Walks ==
  /\ UNCHANGED <<config, summary>>
  /\ pages' = pages \/ (pages' = pages + 1 /\ pages < config.maxPages)
  /\ at' # "seed"
  /\ at' = "post" => DrainedFirst'

LEMMA WalksPreserves == ASSUME Inv, Walks PROVE Inv'
  <1>1. config \in Configs /\ config.maxPages \in Nat /\ pages \in Nat
    BY SiteAssumption DEF Inv, SeedFirst
  <1>2. config' = config /\ summary' = summary /\ pages' \in Nat
    BY <1>1 DEF Walks
  <1>3. Tallied'
    BY <1>2 DEF Inv, Tallied
  <1>4. SeedFirst'
    BY <1>1, <1>2 DEF Walks, SeedFirst
  <1>5. DrainedFirst'
    BY DEF Walks, DrainedFirst
  <1>6. pages <= config.maxPages => pages' <= config.maxPages
    BY <1>1 DEF Walks
  <1>7. BudgetsHold'
    BY <1>2, <1>6 DEF Inv, BudgetsHold
  <1> QED
    BY <1>3, <1>4, <1>5, <1>7 DEF Inv

LEMMA WalkingSteps ==
  ASSUME Inv, FetchSeed \/ FetchSitemap \/ SitemapsEnd \/ SkipByRobots \/ FetchNext \/ DrainEnds
  PROVE  Walks
  <1>1. config \in Configs /\ config.maxPages \in Nat /\ config.maxPages > 0 /\ pages \in Nat
    BY SiteAssumption DEF Inv, SeedFirst
  <1>2. CASE FetchSeed
    BY <1>1, <1>2 DEF FetchSeed, Answer, Walks, Inv, SeedFirst
  <1>3. CASE FetchSitemap \/ SitemapsEnd
    BY <1>3 DEF FetchSitemap, SitemapsEnd, Walks
  <1>4. CASE SkipByRobots \/ FetchNext
    BY <1>4 DEF SkipByRobots, FetchNext, Draining, Answer, Walks
  <1>5. CASE DrainEnds
    BY <1>1, <1>5 DEF DrainEnds, Draining, Walks, DrainedFirst
  <1> QED
    BY <1>2, <1>3, <1>4, <1>5

LEMMA SubmitPreserves == ASSUME Inv, Submit PROVE Inv'
  <1>1. /\ config \in Configs /\ config.maxPages \in Nat /\ config.postCap \in Nat
        /\ pages \in Nat
    BY SiteAssumption DEF Inv, SeedFirst
  <1>2. PICK f, o \in Nat : \E s, v :
          summary = [forms |-> f, operations |-> o, skipped |-> s, overCap |-> v]
    BY DEF Inv, Tallied
  <1>3. PICK s, v : summary = [forms |-> f, operations |-> o, skipped |-> s, overCap |-> v]
    BY <1>2
  <1>4. f + o < config.postCap /\ pages < config.maxPages
    BY <1>3 DEF Submit, MaySubmit
  <1>5. pages' = pages + 1 /\ config' = config /\ at' = "drain"
    BY DEF Submit, Submission, Answer
  <1>6. PICK k : \/ summary' = [forms |-> f + 1, operations |-> o, skipped |-> k, overCap |-> v]
                 \/ summary' = [forms |-> f, operations |-> o + 1, skipped |-> k, overCap |-> v]
    BY <1>3 DEF Submit, Submission
  <1> QED
    BY <1>1, <1>4, <1>5, <1>6 DEF Inv, Tallied, SeedFirst, DrainedFirst, BudgetsHold

LEMMA TallyPreserves == ASSUME Inv, Tally PROVE Inv'
  <1>1. PICK f, o \in Nat : \E s, v :
          summary = [forms |-> f, operations |-> o, skipped |-> s, overCap |-> v]
    BY DEF Inv, Tallied
  <1>2. PICK s, v : summary = [forms |-> f, operations |-> o, skipped |-> s, overCap |-> v]
    BY <1>1
  <1>3. PICK t, w : summary' = [forms |-> f, operations |-> o, skipped |-> t, overCap |-> w]
    BY <1>2 DEF Tally
  <1> QED
    BY <1>2, <1>3 DEF Tally, Inv, Tallied, SeedFirst, DrainedFirst, BudgetsHold

LEMMA NextPreserves == ASSUME Inv, [Next]_vars PROVE Inv'
  <1>1. CASE UNCHANGED vars
    BY <1>1 DEF vars, Inv, Tallied, SeedFirst, DrainedFirst, BudgetsHold
  <1>2. CASE Next
    BY <1>2, WalkingSteps, WalksPreserves, SubmitPreserves, TallyPreserves DEF Next
  <1> QED
    BY <1>1, <1>2

LEMMA Invariance == Spec => []Inv
  BY InitEstablishes, NextPreserves, PTL DEF Spec

\* _drain and _post_phase share max_pages, and a submission counts against both caps before it
\* is sent, so neither is exceeded whatever the site shows.
THEOREM CapsHold == Spec => []BudgetsHold
  BY Invariance, PTL DEF Inv

\* _post_phase submits nothing while a link found so far waits for its request: each answer's
\* links are drained before the next submission.
THEOREM SubmissionsWait == Spec => FlowsAreFollowed
  <1>1. ASSUME Inv, [Next]_vars PROVE [submitted' # submitted => walk.queue = <<>>]_vars
    <2>1. CASE submitted' = submitted
      BY <2>1
    <2>2. CASE submitted' # submitted
      <3>1. Submit
        BY <1>1, <2>2
        DEF Next, vars, FetchSeed, FetchSitemap, SitemapsEnd, SkipByRobots, FetchNext, DrainEnds,
            Tally
      <3>2. at = "post" /\ pages < config.maxPages
        BY <3>1 DEF Submit, MaySubmit
      <3>3. pages \in Nat /\ config.maxPages \in Nat
        BY <1>1, SiteAssumption DEF Inv, SeedFirst
      <3> QED
        BY <1>1, <3>2, <3>3 DEF Inv, DrainedFirst
    <2> QED
      BY <2>1, <2>2
  <1> QED
    BY <1>1, Invariance, PTL DEF Spec, FlowsAreFollowed

-----------------------------------------------------------------------------
(* What reading an answer does to the walk.                                *)

Limits == {"links", "forms", "sitemaps", "sitemapURLs"}
Walk == [queue : Seq(Urls), seen : SUBSET Urls, forms : Seq(Forms), skipped : Nat,
         limits : SUBSET Limits]

Queued(w) == ToSet(w.queue)
Distinct(q) == \A i, j \in 1..Len(q) : q[i] = q[j] => i = j

\* A URL the walk queues when it meets it for the first time.
Welcome(u) == u \notin Outside \union Logout /\ (config.authenticated => u \notin Destructive)

\* r is what w becomes: nothing is lost; what is queued anew had not been seen, is welcome and is
\* seen from then on; and what is seen anew is queued if it is welcome.
Grown(w, r) ==
  /\ w \in Walk /\ r \in Walk
  /\ w.seen \subseteq r.seen /\ w.limits \subseteq r.limits /\ ToSet(w.forms) \subseteq ToSet(r.forms)
  /\ Queued(w) \subseteq Queued(r)
  /\ \A u \in Queued(r) \ Queued(w) : u \in r.seen \ w.seen /\ Welcome(u)
  /\ \A u \in r.seen \ w.seen : Welcome(u) => u \in Queued(r)
  /\ Distinct(w.queue) /\ Queued(w) \subseteq w.seen => Distinct(r.queue)

LEMMA GrownItself == ASSUME NEW w \in Walk PROVE Grown(w, w)
  BY DEF Grown

LEMMA GrownTwice == ASSUME NEW a, NEW b, NEW c, Grown(a, b), Grown(b, c) PROVE Grown(a, c)
  <1>1. \A u \in Queued(c) \ Queued(a) : u \in c.seen \ a.seen /\ Welcome(u)
    BY DEF Grown
  <1>2. \A u \in c.seen \ a.seen : Welcome(u) => u \in Queued(c)
    BY DEF Grown
  <1>3. ASSUME Distinct(a.queue), Queued(a) \subseteq a.seen PROVE Distinct(c.queue)
    <2>1. Distinct(b.queue) /\ Queued(b) \subseteq b.seen
      BY <1>3 DEF Grown
    <2> QED
      BY <2>1 DEF Grown
  <1>4. /\ a \in Walk /\ c \in Walk
        /\ a.seen \subseteq c.seen /\ a.limits \subseteq c.limits /\ ToSet(a.forms) \subseteq ToSet(c.forms)
        /\ Queued(a) \subseteq Queued(c)
    BY DEF Grown
  <1> QED
    BY <1>1, <1>2, <1>3, <1>4 DEF Grown

\* A queue with one URL more.
LEMMA Appending ==
  ASSUME NEW S, NEW q \in Seq(S), NEW u \in S
  PROVE  /\ Append(q, u) \in Seq(S) /\ ToSet(Append(q, u)) = ToSet(q) \union {u}
         /\ Distinct(q) /\ u \notin ToSet(q) => Distinct(Append(q, u))
  <1> DEFINE r == Append(q, u)
  <1>1. /\ r \in Seq(S) /\ Len(r) = Len(q) + 1 /\ Len(q) \in Nat
        /\ DOMAIN q = 1..Len(q) /\ DOMAIN r = 1..(Len(q) + 1)
        /\ r[Len(q) + 1] = u /\ \A i \in 1..Len(q) : r[i] = q[i]
    OBVIOUS
  <1> HIDE DEF r
  <1>2. \A i \in 1..(Len(q) + 1) : i = Len(q) + 1 \/ i \in 1..Len(q)
    BY <1>1
  <1>3. Len(q) + 1 \in 1..(Len(q) + 1) /\ \A i \in 1..Len(q) : i \in 1..(Len(q) + 1)
    BY <1>1
  <1>4. ToSet(r) = ToSet(q) \union {u}
    BY <1>1, <1>2, <1>3 DEF ToSet
  <1>5. Distinct(q) /\ u \notin ToSet(q) => Distinct(r)
    BY <1>1, <1>2 DEF ToSet, Distinct
  <1> QED
    BY <1>1, <1>4, <1>5 DEF r

\* _maybe_enqueue: a URL is seen from then on, out of scope, or told of as a limit.
LEMMA EnqueueGrows ==
  ASSUME NEW w \in Walk, NEW u \in Urls
  PROVE  /\ Grown(w, MaybeEnqueue(w, u)) /\ MaybeEnqueue(w, u).forms = w.forms
         /\ MaybeEnqueue(w, u).limits = {} => u \in Outside \union MaybeEnqueue(w, u).seen
  <1> DEFINE new == u \notin Outside \union w.seen
             kept == new /\ Cardinality(w.seen) < config.seenCap
             declined == config.authenticated /\ u \in Destructive \ Logout
             queues == kept /\ u \notin Logout /\ ~declined
             seen == IF kept THEN w.seen \union {u} ELSE w.seen
             queue == IF queues THEN Append(w.queue, u) ELSE w.queue
             skipped == IF kept /\ declined THEN w.skipped + 1 ELSE w.skipped
             limits == IF new /\ ~kept THEN w.limits \union {"links"} ELSE w.limits
             r == MaybeEnqueue(w, u)
  <1>1. /\ w.queue \in Seq(Urls) /\ w.seen \in SUBSET Urls /\ w.forms \in Seq(Forms)
        /\ w.skipped \in Nat /\ w.limits \in SUBSET Limits
    BY DEF Walk
  <1>2. r = [w EXCEPT !.seen = seen, !.queue = queue, !.skipped = skipped, !.limits = limits]
    BY DEF MaybeEnqueue
  <1>3. seen \in SUBSET Urls /\ skipped \in Nat /\ limits \in SUBSET Limits
    <2>1. seen \in SUBSET Urls
      BY <1>1
    <2>2. skipped \in Nat
      BY <1>1
    <2>3. limits \in SUBSET Limits
      <3>1. "links" \in Limits
        BY DEF Limits
      <3> QED
        BY <1>1, <3>1
    <2> QED
      BY <2>1, <2>2, <2>3
  <1>4. queue \in Seq(Urls)
    BY <1>1, Appending
  <1>5. /\ w.seen \subseteq seen /\ w.limits \subseteq limits
        /\ limits = {} => u \in Outside \union seen
        /\ \A v \in seen \ w.seen : v = u /\ kept
        /\ queues => u \in seen \ w.seen /\ Welcome(u)
        /\ kept /\ Welcome(u) => queues
    BY DEF Welcome
  <1>6. /\ queues => ToSet(queue) = ToSet(w.queue) \union {u}
        /\ ~queues => queue = w.queue
        /\ queues /\ Distinct(w.queue) /\ u \notin ToSet(w.queue) => Distinct(queue)
    BY <1>1, Appending
  <1> HIDE DEF seen, queue, skipped, limits, kept, queues, r
  <1>7. /\ r \in Walk /\ r.seen = seen /\ r.queue = queue /\ r.limits = limits /\ r.forms = w.forms
    BY <1>2, <1>3, <1>4 DEF Walk
  <1>8. Grown(w, r)
    <2>1. Queued(w) \subseteq Queued(r) /\ \A v \in Queued(r) \ Queued(w) : v = u /\ queues
      BY <1>6, <1>7 DEF Queued
    <2>2. queues => u \in Queued(r)
      BY <1>6, <1>7 DEF Queued
    <2>3. Distinct(w.queue) /\ Queued(w) \subseteq w.seen => Distinct(r.queue)
      BY <1>5, <1>6, <1>7 DEF Queued
    <2> QED
      BY <1>5, <1>7, <2>1, <2>2, <2>3 DEF Grown
  <1> QED
    BY <1>5, <1>7, <1>8 DEF r

\* All the URLs of a list, one after the other.
LEMMA EnqueueAllGrows ==
  ASSUME NEW w \in Walk, NEW urls \in Seq(Urls)
  PROVE  /\ Grown(w, EnqueueAll(w, urls)) /\ EnqueueAll(w, urls).forms = w.forms
         /\ EnqueueAll(w, urls).limits = {} =>
              ToSet(urls) \subseteq Outside \union EnqueueAll(w, urls).seen
  <1> DEFINE n == Len(urls)
             Step(f, i) == IF i = 0 THEN w ELSE MaybeEnqueue(f[i - 1], urls[i])
             read == CHOOSE f : f = [i \in 0..n |-> Step(f, i)]
             step == [i \in 1..n |-> [x \in Walk |-> MaybeEnqueue(x, urls[i])]]
  <1>1. EnqueueAll(w, urls) = read[n]
    BY DEF EnqueueAll
  <1>2. n \in Nat /\ \A i \in 1..n : urls[i] \in Urls
    OBVIOUS
  <1>3. IsStep(n, Walk, step)
    <2>1. \A i \in 1..n : \A x \in Walk : MaybeEnqueue(x, urls[i]) \in Walk
      BY <1>2, EnqueueGrows DEF Grown
    <2> QED
      BY <2>1 DEF IsStep
  <1>4. PICK g : IsRecursive(n, Walk, w, step, g)
    <2> HIDE DEF step, n
    <2> QED
      BY <1>2, <1>3, Recursion
  <1>5. /\ g \in [0..n -> Walk] /\ g[0] = w
        /\ \A i \in 1..n : g[i - 1] \in Walk /\ g[i] = MaybeEnqueue(g[i - 1], urls[i])
    <2>1. \A i \in 1..n : g[i - 1] \in Walk
      BY <1>2, <1>4 DEF IsRecursive
    <2> QED
      BY <1>4, <2>1 DEF IsRecursive
  <1>6. g = [i \in 0..n |-> Step(g, i)]
    <2>1. \A i \in 0..n : g[i] = Step(g, i)
      BY <1>2, <1>5
    <2> QED
      BY <1>5, <2>1
  <1>7. read = [i \in 0..n |-> Step(read, i)]
    BY <1>6
  <1>8. \A i \in 0..n : read[i] = Step(read, i)
    <2> HIDE DEF read, Step
    <2> QED
      BY <1>7
  <1>9. read[0] = w /\ \A i \in 1..n : read[i] = MaybeEnqueue(read[i - 1], urls[i])
    <2> HIDE DEF read
    <2> QED
      BY <1>2, <1>8
  <1> HIDE DEF read, n, Step, step
  <1> DEFINE Done(i) == /\ Grown(w, read[i]) /\ read[i].forms = w.forms
                        /\ read[i].limits = {} =>
                             \A k \in 1..i : urls[k] \in Outside \union read[i].seen
             Ns == {i \in 0..n : Done(i)}
  <1>10. 0 \in Ns
    BY <1>2, <1>9, GrownItself
  <1>11. ASSUME NEW i \in 1..n, i - 1 \in Ns PROVE i \in Ns
    <2> DEFINE a == read[i - 1]
               b == read[i]
    <2>1. Grown(w, a) /\ a.forms = w.forms /\ a \in Walk
      BY <1>11 DEF Grown
    <2>2. /\ Grown(a, b) /\ b.forms = a.forms
          /\ b.limits = {} => urls[i] \in Outside \union b.seen
      BY <1>2, <1>9, <2>1, EnqueueGrows
    <2>3. Grown(w, b)
      BY <2>1, <2>2, GrownTwice
    <2>4. ASSUME b.limits = {}, NEW k \in 1..i PROVE urls[k] \in Outside \union b.seen
      <3>1. a.limits = {} /\ a.seen \subseteq b.seen
        BY <2>2, <2>4 DEF Grown
      <3>2. CASE k = i
        BY <2>2, <2>4, <3>2
      <3>3. CASE k # i
        <4>1. k \in 1..(i - 1)
          BY <1>2, <3>3
        <4> QED
          BY <1>11, <3>1, <4>1
      <3> QED
        BY <3>2, <3>3
    <2> QED
      BY <2>1, <2>2, <2>3, <2>4
  <1>12. n \in Ns
    <2>1. \A i \in 1..n : i - 1 \in Ns => i \in Ns
      BY <1>11
    <2> HIDE DEF Ns
    <2>2. 0..n \subseteq Ns
      BY <1>2, <1>10, <2>1, Upto
    <2> QED
      BY <1>2, <2>2
  <1>13. ToSet(urls) = {urls[k] : k \in 1..n}
    BY DEF ToSet, n
  <1> QED
    BY <1>1, <1>12, <1>13

LEMMA EnqueueLinksGrows ==
  ASSUME NEW w \in Walk, NEW links \in Seq(Urls)
  PROVE  /\ Grown(w, EnqueueLinks(w, links)) /\ EnqueueLinks(w, links).forms = w.forms
         /\ EnqueueLinks(w, links).limits = {} =>
              ToSet(links) \subseteq Outside \union EnqueueLinks(w, links).seen
  <1> DEFINE more == Len(links) > LinksPerPage
             limits == IF more THEN w.limits \union {"links"} ELSE w.limits
             v == [w EXCEPT !.limits = limits]
             first == SubSeq(links, 1, IF more THEN LinksPerPage ELSE Len(links))
             r == EnqueueAll(v, first)
  <1>1. EnqueueLinks(w, links) = r
    BY DEF EnqueueLinks
  <1>2. limits \in SUBSET Limits /\ w.limits \subseteq limits /\ (more => limits # {})
    <2>1. "links" \in Limits /\ w.limits \in SUBSET Limits
      BY DEF Limits, Walk
    <2> QED
      BY <2>1
  <1>3. /\ first \in Seq(Urls) /\ (~more => first = links)
    <2>1. LinksPerPage \in Nat /\ Len(links) \in Nat
      BY SiteAssumption
    <2>2. SubSeq(links, 1, Len(links)) = links
      OBVIOUS
    <2>3. CASE more
      <3>1. LinksPerPage \in 0..Len(links)
        BY <2>1, <2>3
      <3>2. SubSeq(links, 1, LinksPerPage) \in Seq(Urls)
        BY <2>1, <3>1
      <3> QED
        BY <2>3, <3>2
    <2> QED
      BY <2>2, <2>3
  <1> HIDE DEF more, limits, first
  <1>4. /\ v \in Walk /\ v.seen = w.seen /\ v.queue = w.queue /\ v.forms = w.forms
        /\ v.limits = limits
    BY <1>2 DEF Walk
  <1> HIDE DEF v
  <1>5. Grown(w, v)
    BY <1>2, <1>4 DEF Grown, Queued
  <1>6. /\ Grown(v, r) /\ r.forms = v.forms
        /\ r.limits = {} => ToSet(first) \subseteq Outside \union r.seen
    BY <1>3, <1>4, EnqueueAllGrows
  <1>7. Grown(w, r)
    BY <1>5, <1>6, GrownTwice
  <1>8. r.limits = {} => ~more
    BY <1>2, <1>4, <1>6 DEF Grown
  <1> QED
    BY <1>1, <1>3, <1>4, <1>6, <1>7, <1>8

LEMMA CollectGrows ==
  ASSUME NEW w \in Walk, NEW f \in Forms PROVE Grown(w, CollectForm(w, f))
  <1> DEFINE known == f \in ToSet(w.forms)
             room == Len(w.forms) < MaxForms
             forms == IF ~known /\ room THEN Append(w.forms, f) ELSE w.forms
             limits == IF ~known /\ ~room THEN w.limits \union {"forms"} ELSE w.limits
             kept == [w EXCEPT !.forms = forms, !.limits = limits]
             skipped == kept.skipped + 1
             declined == [kept EXCEPT !.skipped = skipped]
             r == CollectForm(w, f)
  <1>1. /\ r = kept \/ r = declined
           \/ (f \in GetForms /\ Action[f] # None /\ r = MaybeEnqueue(kept, Action[f]))
    BY DEF CollectForm
  <1>2. /\ w.queue \in Seq(Urls) /\ w.seen \in SUBSET Urls /\ w.forms \in Seq(Forms)
        /\ w.skipped \in Nat /\ w.limits \in SUBSET Limits
    BY DEF Walk
  <1>3. forms \in Seq(Forms) /\ ToSet(w.forms) \subseteq ToSet(forms)
    BY <1>2, Appending
  <1>4. limits \in SUBSET Limits /\ w.limits \subseteq limits
    <2>1. "forms" \in Limits
      BY DEF Limits
    <2> QED
      BY <1>2, <2>1
  <1> HIDE DEF forms, limits, r
  <1>5. /\ kept \in Walk /\ kept.queue = w.queue /\ kept.seen = w.seen /\ kept.forms = forms
        /\ kept.limits = limits
    BY <1>3, <1>4 DEF Walk
  <1>6. skipped \in Nat
    BY <1>5 DEF Walk
  <1> HIDE DEF kept, skipped
  <1>7. /\ declined \in Walk /\ declined.queue = w.queue /\ declined.seen = w.seen
        /\ declined.forms = forms /\ declined.limits = limits
    BY <1>5, <1>6 DEF Walk
  <1> HIDE DEF declined
  <1>8. Grown(w, kept) /\ Grown(w, declined)
    BY <1>3, <1>4, <1>5, <1>7 DEF Grown, Queued
  <1>9. CASE f \in GetForms /\ Action[f] # None /\ r = MaybeEnqueue(kept, Action[f])
    <2>1. Action[f] \in Urls
      BY <1>9, SiteAssumption
    <2> QED
      BY <1>5, <1>8, <1>9, <2>1, EnqueueGrows, GrownTwice DEF r
  <1> QED
    BY <1>1, <1>8, <1>9 DEF r

LEMMA CollectFormsGrows ==
  ASSUME NEW w \in Walk, NEW forms \in Seq(Forms) PROVE Grown(w, CollectForms(w, forms))
  <1> DEFINE n == Len(forms)
             Step(f, i) == IF i = 0 THEN w ELSE CollectForm(f[i - 1], forms[i])
             read == CHOOSE f : f = [i \in 0..n |-> Step(f, i)]
             step == [i \in 1..n |-> [x \in Walk |-> CollectForm(x, forms[i])]]
  <1>1. CollectForms(w, forms) = read[n]
    BY DEF CollectForms
  <1>2. n \in Nat /\ \A i \in 1..n : forms[i] \in Forms
    OBVIOUS
  <1>3. IsStep(n, Walk, step)
    <2>1. \A i \in 1..n : \A x \in Walk : CollectForm(x, forms[i]) \in Walk
      BY <1>2, CollectGrows DEF Grown
    <2> QED
      BY <2>1 DEF IsStep
  <1>4. PICK g : IsRecursive(n, Walk, w, step, g)
    <2> HIDE DEF step, n
    <2> QED
      BY <1>2, <1>3, Recursion
  <1>5. /\ g \in [0..n -> Walk] /\ g[0] = w
        /\ \A i \in 1..n : g[i - 1] \in Walk /\ g[i] = CollectForm(g[i - 1], forms[i])
    <2>1. \A i \in 1..n : g[i - 1] \in Walk
      BY <1>2, <1>4 DEF IsRecursive
    <2> QED
      BY <1>4, <2>1 DEF IsRecursive
  <1>6. g = [i \in 0..n |-> Step(g, i)]
    <2>1. \A i \in 0..n : g[i] = Step(g, i)
      BY <1>2, <1>5
    <2> QED
      BY <1>5, <2>1
  <1>7. read = [i \in 0..n |-> Step(read, i)]
    BY <1>6
  <1>8. \A i \in 0..n : read[i] = Step(read, i)
    <2> HIDE DEF read, Step
    <2> QED
      BY <1>7
  <1>9. read[0] = w /\ \A i \in 1..n : read[i] = CollectForm(read[i - 1], forms[i])
    <2> HIDE DEF read
    <2> QED
      BY <1>2, <1>8
  <1> HIDE DEF read, n, Step, step
  <1> DEFINE Ns == {i \in 0..n : Grown(w, read[i])}
  <1>10. 0 \in Ns
    BY <1>2, <1>9, GrownItself
  <1>11. ASSUME NEW i \in 1..n, i - 1 \in Ns PROVE i \in Ns
    <2>1. Grown(w, read[i - 1]) /\ read[i - 1] \in Walk
      BY <1>11 DEF Grown
    <2>2. Grown(read[i - 1], read[i])
      BY <1>2, <1>9, <2>1, CollectGrows
    <2> QED
      BY <2>1, <2>2, GrownTwice
  <1>12. n \in Ns
    <2>1. \A i \in 1..n : i - 1 \in Ns => i \in Ns
      BY <1>11
    <2> HIDE DEF Ns
    <2>2. 0..n \subseteq Ns
      BY <1>2, <1>10, <2>1, Upto
    <2> QED
      BY <1>2, <2>2
  <1> QED
    BY <1>1, <1>12

\* _fetch and the two reads of its page.
LEMMA AnswerGrows ==
  ASSUME NEW w \in Walk, Answer(w)
  PROVE  /\ Grown(w, walk')
         /\ \E links \in Seq(Urls) :
              /\ shown' = shown \union ToSet(links)
              /\ walk'.limits = {} => ToSet(links) \subseteq Outside \union walk'.seen
  <1>1. PICK links \in LinkLists, forms \in FormLists :
          walk' = CollectForms(EnqueueLinks(w, links), forms) /\ shown' = shown \union ToSet(links)
    BY DEF Answer
  <1>2. links \in Seq(Urls) /\ forms \in Seq(Forms)
    BY ListsAssumption
  <1> DEFINE v == EnqueueLinks(w, links)
  <1>3. Grown(w, v) /\ v \in Walk /\ (v.limits = {} => ToSet(links) \subseteq Outside \union v.seen)
    BY <1>2, EnqueueLinksGrows DEF Grown
  <1>4. Grown(v, walk')
    BY <1>1, <1>2, <1>3, CollectFormsGrows
  <1>5. Grown(w, walk')
    BY <1>3, <1>4, GrownTwice
  <1>6. walk'.limits = {} => ToSet(links) \subseteq Outside \union walk'.seen
    BY <1>3, <1>4 DEF Grown
  <1> QED
    BY <1>1, <1>2, <1>5, <1>6

-----------------------------------------------------------------------------
(* What is asked for, and what is left.                                    *)

\* With the walk w, the requests a and the URLs s shown so far: what is queued is seen, welcome
\* and queued once; what was asked for is seen, was asked for once and might be; what is seen and
\* may be asked for is queued or was asked for; and what was shown is seen or a limit is told of.
Fine(w, a, s) ==
  /\ w \in Walk /\ a \in [Urls -> Nat]
  /\ Distinct(w.queue) /\ Queued(w) \subseteq w.seen /\ \A u \in Queued(w) : Welcome(u)
  /\ \A u \in Urls :
       /\ a[u] <= 1 /\ (a[u] > 0 => u \in w.seen /\ u \notin Queued(w))
       /\ a[u] > 0 /\ u # Seed => MayAsk(u)
  /\ Seed \in w.seen /\ a[Seed] = 1
  /\ \A u \in w.seen : MayAsk(u) => u \in Queued(w) \/ a[u] > 0
  /\ w.limits = {} => s \subseteq Outside \union w.seen

WInv ==
  /\ config \in Configs /\ pages \in Nat
  /\ at # "seed" => Fine(walk, asked, shown)
  /\ at = "seed" =>
       /\ walk \in Walk /\ walk.queue = <<>> /\ walk.seen = {Seed} /\ walk.limits = {}
       /\ asked = [u \in Urls |-> 0] /\ shown = ToSet(ExtraSeeds)
  /\ at \in {"post", "done"} /\ pages < config.maxPages => walk.queue = <<>>

LEMMA FineGrows ==
  ASSUME NEW w, NEW r, NEW a, NEW s, NEW links, Fine(w, a, s), Grown(w, r),
         r.limits = {} => links \subseteq Outside \union r.seen
  PROVE  Fine(r, a, s \union links)
  <1>1. w.seen \subseteq r.seen /\ w.limits \subseteq r.limits /\ Queued(w) \subseteq Queued(r) /\ r \in Walk
    BY DEF Grown
  <1>2. \A u \in Queued(r) \ Queued(w) : u \in r.seen \ w.seen /\ Welcome(u)
    BY DEF Grown
  <1>3. Distinct(r.queue) /\ Queued(r) \subseteq r.seen /\ \A u \in Queued(r) : Welcome(u)
    BY <1>1, <1>2 DEF Fine, Grown
  <1>4. \A u \in Urls :
          /\ a[u] <= 1 /\ (a[u] > 0 => u \in r.seen /\ u \notin Queued(r))
          /\ a[u] > 0 /\ u # Seed => MayAsk(u)
    BY <1>1, <1>2 DEF Fine
  <1>5. \A u \in r.seen : MayAsk(u) => u \in Queued(r) \/ a[u] > 0
    <2>1. \A u : MayAsk(u) => Welcome(u)
      BY DEF MayAsk, Welcome
    <2> QED
      BY <1>1, <2>1 DEF Fine, Grown
  <1>6. r.limits = {} => s \union links \subseteq Outside \union r.seen
    BY <1>1 DEF Fine
  <1> QED
    BY <1>1, <1>3, <1>4, <1>5, <1>6 DEF Fine

LEMMA AnswerIsFine ==
  ASSUME NEW w \in Walk, Answer(w), NEW a, Fine(w, a, shown) PROVE Fine(walk', a, shown')
  <1>1. Grown(w, walk')
    BY AnswerGrows
  <1>2. PICK links \in Seq(Urls) :
          /\ shown' = shown \union ToSet(links)
          /\ walk'.limits = {} => ToSet(links) \subseteq Outside \union walk'.seen
    BY AnswerGrows
  <1> QED
    BY <1>1, <1>2, FineGrows

\* A step after the seed, the walk being r by then, leaves the invariant.
LEMMA FineIsEnough ==
  ASSUME config \in Configs, config' = config, pages' \in Nat, at' # "seed",
         Fine(walk', asked', shown'),
         at' \in {"post", "done"} /\ pages' < config.maxPages => walk'.queue = <<>>
  PROVE  WInv'
  <1>1. (at # "seed" => Fine(walk, asked, shown))'
    BY DEF Fine, Welcome, MayAsk
  <1> QED
    BY <1>1 DEF WInv

LEMMA SeedIsFine == ASSUME WInv, FetchSeed PROVE WInv'
  <1>1. PICK more \in BOOLEAN :
          Answer(EnqueueAll([walk EXCEPT !.limits = IF more THEN {"sitemaps"} ELSE {}], ExtraSeeds))
    BY DEF FetchSeed
  <1> DEFINE limits == IF more THEN {"sitemaps"} ELSE {}
             w == [walk EXCEPT !.limits = limits]
             v == EnqueueAll(w, ExtraSeeds)
             a == asked'
  <1>2. /\ at = "seed" /\ at' = "sitemaps" /\ config' = config /\ asked' = [asked EXCEPT ![Seed] = @ + 1]
        /\ pages' = pages + 1 /\ shown = ToSet(ExtraSeeds)
        /\ walk \in Walk /\ walk.queue = <<>> /\ walk.seen = {Seed} /\ asked = [u \in Urls |-> 0]
    BY DEF FetchSeed, Answer, WInv
  <1>3. limits \in SUBSET Limits
    BY DEF Limits
  <1> HIDE DEF limits
  <1>4. w \in Walk /\ w.queue = <<>> /\ w.seen = {Seed} /\ w.limits = limits
    BY <1>2, <1>3 DEF Walk
  <1> HIDE DEF w
  <1>5. Answer(v)
    BY <1>1 DEF w, limits
  <1>6. a \in [Urls -> Nat] /\ a[Seed] = 1 /\ \A u \in Urls \ {Seed} : a[u] = 0
    BY <1>2, SiteAssumption
  <1>7. Fine(w, a, {})
    <2>1. Queued(w) = {} /\ Distinct(w.queue)
      BY <1>4 DEF Queued, Distinct, ToSet
    <2> HIDE DEF a
    <2> QED
      BY <1>4, <1>6, <2>1 DEF Fine
  <1>8. /\ Grown(w, v) /\ v \in Walk
        /\ v.limits = {} => ToSet(ExtraSeeds) \subseteq Outside \union v.seen
    BY <1>4, ListsAssumption, EnqueueAllGrows DEF Grown
  <1> HIDE DEF v, a
  <1>9. Fine(v, a, shown)
    <2>1. Fine(v, a, {} \union ToSet(ExtraSeeds))
      BY <1>7, <1>8, FineGrows
    <2>2. {} \union ToSet(ExtraSeeds) = shown
      BY <1>2
    <2> QED
      BY <2>1, <2>2
  <1>10. Fine(walk', a, shown')
    BY <1>5, <1>8, <1>9, AnswerIsFine
  <1> QED
    BY <1>2, <1>10, FineIsEnough DEF a, WInv

LEMMA SitemapsAreFine == ASSUME WInv, FetchSitemap \/ SitemapsEnd PROVE WInv'
  <1>1. at = "sitemaps" /\ UNCHANGED <<config, pages, asked>> /\ at' \in {"sitemaps", "drain"}
    BY DEF FetchSitemap, SitemapsEnd
  <1>2. Fine(walk, asked, shown) /\ walk \in Walk
    BY <1>1 DEF WInv, Fine
  <1>3. CASE FetchSitemap
    <2>1. PICK links \in LinkLists : walk' = EnqueueAll(walk, links) /\ shown' = shown \union ToSet(links)
      BY <1>3 DEF FetchSitemap
    <2>2. links \in Seq(Urls)
      BY ListsAssumption
    <2>3. Grown(walk, walk') /\ (walk'.limits = {} => ToSet(links) \subseteq Outside \union walk'.seen)
      BY <1>2, <2>1, <2>2, EnqueueAllGrows
    <2>4. Fine(walk', asked, shown')
      BY <1>2, <2>1, <2>3, FineGrows
    <2> QED
      BY <1>1, <2>4, FineIsEnough DEF WInv
  <1>4. CASE SitemapsEnd
    <2> DEFINE limits == IF sitemaps.left > 0 THEN walk.limits \union {"sitemapURLs"} ELSE walk.limits
    <2>1. walk' = [walk EXCEPT !.limits = limits] /\ shown' = shown
      BY <1>4 DEF SitemapsEnd
    <2>2. limits \in SUBSET Limits /\ walk.limits \subseteq limits
      <3>1. walk.limits \in SUBSET Limits /\ "sitemapURLs" \in Limits
        BY <1>2 DEF Walk, Limits
      <3> QED
        BY <3>1
    <2> HIDE DEF limits
    <2>3. /\ walk' \in Walk /\ walk'.queue = walk.queue /\ walk'.seen = walk.seen
          /\ walk'.limits = limits
      BY <1>2, <2>1, <2>2 DEF Walk
    <2>4. Fine(walk', asked, shown')
      BY <1>2, <2>1, <2>2, <2>3 DEF Fine, Queued
    <2> QED
      BY <1>1, <2>4, FineIsEnough DEF WInv
  <1> QED
    BY <1>3, <1>4

\* A URL taken off the queue: refused by robots.txt, or asked for now.
LEMMA TakenOff ==
  ASSUME NEW S, NEW q \in Seq(S), q # <<>>, Distinct(q)
  PROVE  /\ Head(q) \in ToSet(q) /\ Tail(q) \in Seq(S) /\ Distinct(Tail(q))
         /\ ToSet(Tail(q)) = ToSet(q) \ {Head(q)}
  <1>1. /\ Tail(q) \in Seq(S) /\ Len(Tail(q)) = Len(q) - 1 /\ Len(q) \in Nat /\ Len(q) >= 1
        /\ Head(q) = q[1] /\ DOMAIN q = 1..Len(q) /\ DOMAIN Tail(q) = 1..(Len(q) - 1)
        /\ \A i \in 1..(Len(q) - 1) : Tail(q)[i] = q[i + 1]
    OBVIOUS
  <1> DEFINE r == Tail(q)
  <1> HIDE DEF r
  <1>2. \A i \in 1..Len(q) : i = 1 \/ (i - 1 \in 1..(Len(q) - 1) /\ r[i - 1] = q[i])
    BY <1>1 DEF r
  <1>3. \A i \in 1..(Len(q) - 1) : i + 1 \in 1..Len(q) /\ i + 1 # 1 /\ r[i] = q[i + 1]
    BY <1>1 DEF r
  <1>4. 1 \in 1..Len(q)
    BY <1>1
  <1>5. ToSet(r) = ToSet(q) \ {q[1]}
    <2>1. ToSet(q) = {q[i] : i \in 1..Len(q)} /\ ToSet(r) = {r[i] : i \in 1..(Len(q) - 1)}
      BY <1>1 DEF ToSet, r
    <2>2. \A i \in 1..(Len(q) - 1) : r[i] \in ToSet(q) /\ r[i] # q[1]
      BY <1>3, <1>4, <2>1 DEF Distinct
    <2>3. \A i \in 1..Len(q) : q[i] = q[1] \/ q[i] \in ToSet(r)
      BY <1>2, <2>1
    <2> QED
      BY <2>1, <2>2, <2>3
  <1>6. Distinct(r)
    <2>1. ASSUME NEW i \in 1..(Len(q) - 1), NEW j \in 1..(Len(q) - 1), r[i] = r[j] PROVE i = j
      <3>1. i + 1 = j + 1
        BY <1>3, <2>1 DEF Distinct
      <3> QED
        BY <1>1, <3>1
    <2> QED
      BY <1>1, <2>1 DEF Distinct, r
  <1> QED
    BY <1>1, <1>4, <1>5, <1>6 DEF ToSet, r

\* The URL at the head of the queue has not been asked for, and robots.txt alone may forbid it.
LEMMA HeadIsDue ==
  ASSUME WInv, Draining
  PROVE  LET u == Head(walk.queue)
         IN u \in walk.seen /\ Welcome(u) /\ asked[u] = 0 /\ u \in Urls /\ u # Seed
  <1> DEFINE u == Head(walk.queue)
  <1>1. /\ Fine(walk, asked, shown) /\ walk \in Walk /\ walk.queue \in Seq(Urls)
        /\ Distinct(walk.queue) /\ walk.queue # <<>>
    BY DEF Draining, WInv, Fine, Walk
  <1>2. u \in Queued(walk)
    BY <1>1, TakenOff DEF Queued
  <1> HIDE DEF u
  <1>3. u \in walk.seen /\ Welcome(u) /\ u \in Urls /\ asked[Seed] = 1 /\ Seed \in Urls
    BY <1>1, <1>2, SiteAssumption DEF Fine, Walk
  <1>4. asked[u] \in Nat /\ ~(asked[u] > 0)
    BY <1>1, <1>2, <1>3 DEF Fine
  <1> QED
    BY <1>3, <1>4 DEF u

LEMMA DrainIsFine == ASSUME WInv, SkipByRobots \/ FetchNext PROVE WInv'
  <1> DEFINE u == Head(walk.queue)
             rest == Tail(walk.queue)
             w == [walk EXCEPT !.queue = rest]
  <1>1. at = "drain" /\ walk.queue # <<>> /\ config' = config /\ at' = "drain" /\ pages' \in Nat
    BY DEF SkipByRobots, FetchNext, Draining, Answer, WInv
  <1>2. Fine(walk, asked, shown) /\ walk \in Walk /\ walk.queue \in Seq(Urls) /\ Distinct(walk.queue)
    BY <1>1 DEF WInv, Fine, Walk
  <1>3. /\ u \in Queued(walk) /\ rest \in Seq(Urls) /\ Distinct(rest)
        /\ ToSet(rest) = Queued(walk) \ {u}
    BY <1>1, <1>2, TakenOff DEF Queued
  <1>4. SkipByRobots => /\ Refused(u) /\ UNCHANGED <<asked, shown>> /\ walk' = w
    BY DEF SkipByRobots
  <1>5. FetchNext => /\ ~Refused(u) /\ asked' = [asked EXCEPT ![u] = @ + 1] /\ Answer(w)
    BY DEF FetchNext
  <1> HIDE DEF u, rest
  <1>6. /\ w \in Walk /\ w.queue = rest /\ w.seen = walk.seen /\ w.limits = walk.limits
        /\ Queued(w) = Queued(walk) \ {u}
    <2>1. w \in Walk /\ w.queue = rest /\ w.seen = walk.seen /\ w.limits = walk.limits
      BY <1>2, <1>3 DEF Walk
    <2> QED
      BY <1>3, <2>1 DEF Queued
  <1> HIDE DEF w
  <1>7. u \in walk.seen /\ Welcome(u) /\ asked[u] = 0 /\ u \in Urls /\ u # Seed
    <2>1. Draining
      BY DEF SkipByRobots, FetchNext
    <2> QED
      BY <2>1, HeadIsDue DEF u
  <1>8. CASE SkipByRobots
    <2>1. ~MayAsk(u)
      BY <1>4, <1>8 DEF Refused, MayAsk
    <2>2. Fine(w, asked, shown)
      BY <1>2, <1>3, <1>6, <2>1 DEF Fine
    <2> QED
      BY <1>1, <1>4, <1>8, <2>2, FineIsEnough DEF WInv
  <1>9. CASE FetchNext
    <2> DEFINE a == asked'
    <2>1. MayAsk(u)
      BY <1>5, <1>7, <1>9 DEF Refused, MayAsk, Welcome
    <2>2. a \in [Urls -> Nat] /\ a[u] = 1 /\ \A v \in Urls \ {u} : a[v] = asked[v]
      BY <1>2, <1>5, <1>7, <1>9 DEF Fine
    <2> HIDE DEF a
    <2>3. Fine(w, a, shown)
      <3>1. \A v \in Urls : /\ a[v] <= 1 /\ (a[v] > 0 => v \in w.seen /\ v \notin Queued(w))
                            /\ a[v] > 0 /\ v # Seed => MayAsk(v)
        BY <1>2, <1>6, <1>7, <2>1, <2>2 DEF Fine
      <3>2. \A v \in w.seen : MayAsk(v) => v \in Queued(w) \/ a[v] > 0
        <4>1. w.seen \subseteq Urls
          BY <1>6 DEF Walk
        <4> QED
          BY <1>2, <1>6, <2>2, <4>1 DEF Fine
      <3>3. a[Seed] = 1
        BY <1>2, <1>7, <2>2, SiteAssumption DEF Fine
      <3> QED
        BY <1>2, <1>3, <1>6, <2>2, <3>1, <3>2, <3>3 DEF Fine
    <2>4. Fine(walk', a, shown')
      BY <1>5, <1>6, <1>9, <2>3, AnswerIsFine
    <2> QED
      BY <1>1, <2>4, FineIsEnough DEF WInv, a
  <1> QED
    BY <1>8, <1>9

LEMMA LaterStepsAreFine == ASSUME WInv, DrainEnds \/ Submit \/ Tally PROVE WInv'
  <1>1. CASE DrainEnds \/ Tally
    <2>1. UNCHANGED <<config, walk, pages, asked, shown>> /\ at # "seed" /\ at' \in {"post", "done"}
      BY <1>1 DEF DrainEnds, Tally
    <2>2. pages < config.maxPages => walk.queue = <<>>
      BY <1>1 DEF DrainEnds, Draining, Tally, WInv
    <2> QED
      BY <2>1, <2>2, FineIsEnough DEF WInv
  <1>2. CASE Submit
    <2>1. at = "post" /\ at' = "drain" /\ UNCHANGED <<config, asked>> /\ Answer(walk) /\ pages' = pages + 1
      BY <1>2 DEF Submit, Submission, Answer
    <2>2. Fine(walk, asked, shown) /\ walk \in Walk /\ pages' \in Nat
      BY <2>1 DEF WInv, Fine
    <2>3. Fine(walk', asked, shown')
      BY <2>1, <2>2, AnswerIsFine
    <2> QED
      BY <2>1, <2>2, <2>3, FineIsEnough DEF WInv
  <1> QED
    BY <1>1, <1>2

LEMMA WInvIsKept == ASSUME WInv, [Next]_vars PROVE WInv'
  <1>1. CASE UNCHANGED vars
    BY <1>1 DEF vars, WInv, Fine, Welcome, MayAsk
  <1> QED
    BY <1>1, SeedIsFine, SitemapsAreFine, DrainIsFine, LaterStepsAreFine DEF Next

LEMMA InitIsFine == ASSUME Init PROVE WInv
  <1>1. walk \in Walk
    BY SiteAssumption DEF Init, Walk
  <1> QED
    BY <1>1 DEF Init, WInv

LEMMA WInvariance == Spec => []WInv
  BY InitIsFine, WInvIsKept, PTL DEF Spec

-----------------------------------------------------------------------------
(* What is submitted, and the tally.                                       *)

\* A candidate that is done was found, and none is submitted that is not done.
DoneInv ==
  /\ done \subseteq ToSet(walk.forms) \union ToSet(Operations) /\ done \subseteq Candidates
  /\ IsFiniteSet(done) /\ submitted \in [Candidates -> Nat]
  /\ \A c \in Candidates : submitted[c] <= 1 /\ (submitted[c] > 0 => c \in done \intersect Eligible)

\* Until the end, what is done is submitted or skipped.
TallyInv ==
  /\ summary \in [forms : Nat, operations : Nat, skipped : Nat, overCap : Nat]
  /\ at # "done" => /\ summary.overCap = 0
                    /\ summary.forms + summary.operations + summary.skipped = Cardinality(done)
  /\ at = "done" /\ config.post => TallyAdds

PInv == DoneInv /\ TallyInv

\* What a list of positions holds is no more than they are.
LEMMA Held ==
  ASSUME NEW S, IsFiniteSet(S), NEW f
  PROVE  IsFiniteSet({f[x] : x \in S}) /\ Cardinality({f[x] : x \in S}) <= Cardinality(S)
  <1> DEFINE T == {f[x] : x \in S}
             g == [x \in S |-> f[x]]
  <1>1. g \in Surjection(S, T)
    BY DEF Surjection
  <1> HIDE DEF g, T
  <1>2. IsFiniteSet(T) /\ Cardinality(T) <= Cardinality(S)
    BY <1>1, FS_Surjection
  <1> QED
    BY <1>2 DEF T

\* The positions 1..n of inv hold the candidates in C, and those in d are done: F is where the
\* candidates X are, K the ones to skip, and E the positions over the cap.
Splits(n, inv, C, L, d, E, K, F, X) ==
  /\ d \subseteq C /\ d \subseteq {inv[i] : i \in 1..n}
  /\ E = {i \in 1..n : inv[i] \in C \ d /\ inv[i] \in L}
  /\ K = {inv[i] : i \in {j \in 1..n : inv[j] \in C \ d /\ inv[j] \notin L}}
  /\ F = {i \in 1..n : inv[i] \in C} /\ X = {inv[i] : i \in F}

LEMMA Counted ==
  ASSUME NEW n \in Nat, NEW inv, NEW C, NEW L, NEW d, IsFiniteSet(d), NEW E, NEW K, NEW F, NEW X,
         Splits(n, inv, C, L, d, E, K, F, X)
  PROVE  /\ IsFiniteSet(K) /\ IsFiniteSet(E)
         /\ Cardinality(d \union K) = Cardinality(d) + Cardinality(K)
         /\ Cardinality(X) <= Cardinality(d) + Cardinality(K) + Cardinality(E)
         /\ Cardinality(d) + Cardinality(K) + Cardinality(E) <= Cardinality(F)
  <1> DEFINE D == d \union K
             Y == {inv[i] : i \in E}
             B == {i \in F : inv[i] \in D}
             J == {j \in 1..n : inv[j] \in C \ d /\ inv[j] \notin L}
  <1> USE DEF Splits
  <1>1. IsFiniteSet(1..n)
    BY PositionsAreFinite
  <1>2. /\ IsFiniteSet(E) /\ IsFiniteSet(F) /\ IsFiniteSet(B) /\ IsFiniteSet(J)
        /\ Cardinality(E) \in Nat /\ Cardinality(F) \in Nat /\ Cardinality(B) \in Nat
    <2>1. E \in SUBSET (1..n) /\ F \in SUBSET (1..n) /\ B \in SUBSET (1..n) /\ J \in SUBSET (1..n)
      OBVIOUS
    <2> HIDE DEF B, J
    <2>2. IsFiniteSet(E) /\ IsFiniteSet(F) /\ IsFiniteSet(B) /\ IsFiniteSet(J)
      BY <1>1, <2>1, FS_Subset
    <2> QED
      BY <2>2, FS_CardinalityType
  <1>3. K = {inv[i] : i \in J}
    OBVIOUS
  <1>4. /\ IsFiniteSet(K) /\ Cardinality(K) \in Nat /\ Cardinality(d) \in Nat
        /\ IsFiniteSet(Y) /\ Cardinality(Y) \in Nat /\ Cardinality(Y) <= Cardinality(E)
    <2> HIDE DEF J, Splits
    <2>1. IsFiniteSet(K)
      BY <1>2, <1>3, Held
    <2>2. IsFiniteSet(Y) /\ Cardinality(Y) <= Cardinality(E)
      <3>1. \A S : IsFiniteSet(S) => /\ IsFiniteSet({inv[i] : i \in S})
                                    /\ Cardinality({inv[i] : i \in S}) <= Cardinality(S)
        BY Held
      <3> QED
        BY <1>2, <3>1
    <2> HIDE DEF Y
    <2> QED
      BY <2>1, <2>2, FS_CardinalityType
  <1>5. d \intersect K = {}
    OBVIOUS
  <1>6. IsFiniteSet(D) /\ Cardinality(D) = Cardinality(d) + Cardinality(K)
    <2> HIDE DEF J, Y
    <2>1. IsFiniteSet(D) /\ Cardinality(D) = Cardinality(d) + Cardinality(K) - Cardinality(d \intersect K)
      BY <1>4, FS_Union
    <2>2. Cardinality(d \intersect K) = 0
      BY <1>5, FS_EmptySet
    <2> QED
      BY <1>4, <2>1, <2>2
  <1>7. X = D \union Y
    <2>1. \A i \in F : inv[i] \in d \/ inv[i] \in K \/ i \in E
      OBVIOUS
    <2>2. D \subseteq X /\ Y \subseteq X
      OBVIOUS
    <2> QED
      BY <2>1, <2>2
  <1>8. Cardinality(X) <= Cardinality(D) + Cardinality(Y)
    <2>1. /\ Cardinality(D \union Y) = Cardinality(D) + Cardinality(Y) - Cardinality(D \intersect Y)
      BY <1>4, <1>6, FS_Union
    <2>2. Cardinality(D \intersect Y) \in Nat
      BY <1>6, FS_Intersection, FS_CardinalityType
    <2>3. Cardinality(D) \in Nat
      BY <1>6, FS_CardinalityType
    <2> HIDE DEF D, Y, Splits
    <2> QED
      BY <1>4, <1>7, <2>1, <2>2, <2>3
  <1>9. Cardinality(D) <= Cardinality(B)
    <2>1. D = {inv[i] : i \in B}
      OBVIOUS
    <2> HIDE DEF B, D
    <2> QED
      BY <1>2, <2>1, Held
  <1>10. Cardinality(B) + Cardinality(E) <= Cardinality(F)
    <2>1. B \intersect E = {} /\ B \union E \in SUBSET F
      OBVIOUS
    <2> HIDE DEF B, J
    <2>2. Cardinality(B \union E) = Cardinality(B) + Cardinality(E) - Cardinality(B \intersect E)
      BY <1>2, FS_Union
    <2>3. Cardinality(B \intersect E) = 0
      BY <2>1, FS_EmptySet
    <2>4. Cardinality(B \union E) <= Cardinality(F)
      BY <1>2, <2>1, FS_Subset
    <2> QED
      BY <1>2, <2>1, <2>2, <2>3, <2>4
  <1> HIDE DEF D, Y, B
  <1>11. Cardinality(D) \in Nat /\ Cardinality(X) \in Nat
    <2>1. IsFiniteSet(X)
      BY <1>2, Held
    <2> QED
      BY <1>6, <2>1, FS_CardinalityType
  <1>12. Cardinality(X) <= Cardinality(d) + Cardinality(K) + Cardinality(E)
    BY <1>2, <1>4, <1>6, <1>8, <1>11
  <1>13. Cardinality(d) + Cardinality(K) + Cardinality(E) <= Cardinality(F)
    BY <1>2, <1>4, <1>6, <1>9, <1>10, <1>11
  <1> QED
    BY <1>2, <1>4, <1>6, <1>12, <1>13 DEF D

\* The inventory is a list, and what it holds is what the pages and the imports showed.
LEMMA InventoryHolds ==
  ASSUME walk \in Walk
  PROVE  /\ Len(Inventory) \in Nat /\ DOMAIN Inventory = 1..Len(Inventory)
         /\ {Inventory[i] : i \in 1..Len(Inventory)} = ToSet(walk.forms) \union ToSet(Operations)
  <1> DEFINE f == walk.forms
             g == Operations
             m == Len(f)
             k == Len(g)
             inv == f \o g
  <1>1. f \in Seq(Forms) /\ g \in Seq(Candidates)
    BY ListsAssumption DEF Walk
  <1> HIDE DEF f, g
  <1>2. /\ f \in Seq(Forms \union Candidates) /\ g \in Seq(Forms \union Candidates)
        /\ m \in Nat /\ k \in Nat /\ DOMAIN f = 1..m /\ DOMAIN g = 1..k
    BY <1>1
  <1>3. /\ inv \in Seq(Forms \union Candidates) /\ Len(inv) = m + k /\ DOMAIN inv = 1..(m + k)
        /\ \A i \in 1..(m + k) : inv[i] = IF i <= m THEN f[i] ELSE g[i - m]
    BY <1>2
  <1> HIDE DEF inv, m, k
  <1>4. \A i \in 1..(m + k) : (i \in 1..m /\ i <= m) \/ (i - m \in 1..k /\ ~(i <= m))
    BY <1>2
  <1>5. \A i \in 1..m : i \in 1..(m + k) /\ i <= m
    BY <1>2
  <1>6. \A i \in 1..k : i + m \in 1..(m + k) /\ ~(i + m <= m) /\ (i + m) - m = i
    BY <1>2
  <1>7. {inv[i] : i \in 1..(m + k)} = {f[i] : i \in 1..m} \union {g[i] : i \in 1..k}
    <2>1. \A i \in 1..(m + k) : inv[i] \in {f[j] : j \in 1..m} \union {g[j] : j \in 1..k}
      BY <1>3, <1>4
    <2>2. \A i \in 1..m : inv[i] = f[i]
      BY <1>3, <1>5
    <2>3. ASSUME NEW i \in 1..k PROVE inv[i + m] = g[i]
      <3>1. inv[i + m] = g[(i + m) - m]
        <4> DEFINE j == i + m
        <4>1. j \in 1..(m + k) /\ ~(j <= m)
          BY <1>6
        <4> HIDE DEF j
        <4>2. inv[j] = g[j - m]
          BY <1>3, <4>1
        <4> QED
          BY <4>2 DEF j
      <3>2. (i + m) - m = i
        BY <1>6
      <3> QED
        BY <3>1, <3>2
    <2> QED
      BY <1>5, <1>6, <2>1, <2>2, <2>3
  <1>8. Inventory = inv
    BY DEF Inventory, inv, f, g
  <1>9. ToSet(walk.forms) = {f[i] : i \in 1..m} /\ ToSet(Operations) = {g[i] : i \in 1..k}
    BY <1>2 DEF ToSet, f, g
  <1>10. Len(Inventory) = m + k /\ m + k \in Nat /\ DOMAIN Inventory = 1..(m + k)
    BY <1>2, <1>3, <1>8
  <1> QED
    BY <1>7, <1>8, <1>9, <1>10

\* What no step takes away: what was seen, shown, met or told.
Keeps(w) ==
  /\ w \in Walk /\ ToSet(walk.forms) \subseteq ToSet(w.forms)
  /\ walk.seen \subseteq w.seen /\ walk.limits \subseteq w.limits

LEMMA AnswerKeeps ==
  ASSUME NEW w \in Walk, Keeps(w), Answer(w)
  PROVE  Keeps(walk') /\ \E links \in Seq(Urls) : shown' = shown \union ToSet(links)
  <1>1. Grown(w, walk') /\ \E links \in Seq(Urls) : shown' = shown \union ToSet(links)
    BY AnswerGrows
  <1> QED
    BY <1>1 DEF Keeps, Grown

LEMMA StepsKeep ==
  ASSUME WInv, Next
  PROVE  Keeps(walk') /\ (shown' = shown \/ \E links \in Seq(Urls) : shown' = shown \union ToSet(links))
  <1>1. walk \in Walk /\ Keeps(walk)
    BY DEF WInv, Fine, Keeps
  <1>2. CASE FetchSeed
    <2>1. PICK more \in BOOLEAN :
            Answer(EnqueueAll([walk EXCEPT !.limits = IF more THEN {"sitemaps"} ELSE {}], ExtraSeeds))
      BY <1>2 DEF FetchSeed
    <2> DEFINE limits == IF more THEN {"sitemaps"} ELSE {}
               w == [walk EXCEPT !.limits = limits]
               v == EnqueueAll(w, ExtraSeeds)
    <2>2. limits \in SUBSET Limits /\ walk.limits = {}
      BY <1>2 DEF Limits, FetchSeed, WInv
    <2> HIDE DEF limits
    <2>3. w \in Walk /\ w.forms = walk.forms /\ w.seen = walk.seen
      BY <1>1, <2>2 DEF Walk
    <2> HIDE DEF w
    <2>4. v \in Walk /\ v.forms = w.forms /\ w.seen \subseteq v.seen
      BY <2>3, ListsAssumption, EnqueueAllGrows DEF Grown
    <2>5. Answer(v)
      BY <2>1 DEF v, w, limits
    <2> HIDE DEF v
    <2> QED
      BY <2>2, <2>3, <2>4, <2>5, AnswerKeeps DEF Keeps
  <1>3. CASE FetchSitemap
    <2>1. PICK links \in LinkLists : walk' = EnqueueAll(walk, links) /\ shown' = shown \union ToSet(links)
      BY <1>3 DEF FetchSitemap
    <2>2. links \in Seq(Urls)
      BY ListsAssumption
    <2> QED
      BY <1>1, <2>1, <2>2, EnqueueAllGrows DEF Grown, Keeps
  <1>4. CASE SitemapsEnd
    <2> DEFINE limits == IF sitemaps.left > 0 THEN walk.limits \union {"sitemapURLs"} ELSE walk.limits
    <2>1. walk' = [walk EXCEPT !.limits = limits] /\ shown' = shown
      BY <1>4 DEF SitemapsEnd
    <2>2. limits \in SUBSET Limits /\ walk.limits \subseteq limits
      <3>1. walk.limits \in SUBSET Limits /\ "sitemapURLs" \in Limits
        BY <1>1 DEF Walk, Limits
      <3> QED
        BY <3>1
    <2> HIDE DEF limits
    <2> QED
      BY <1>1, <2>1, <2>2 DEF Walk, Keeps
  <1>5. CASE SkipByRobots \/ FetchNext
    <2> DEFINE w == [walk EXCEPT !.queue = Tail(walk.queue)]
    <2>1. Tail(walk.queue) \in Seq(Urls)
      BY <1>1, <1>5 DEF Walk, SkipByRobots, FetchNext, Draining
    <2>2. w \in Walk /\ Keeps(w)
      BY <1>1, <2>1 DEF Walk, Keeps
    <2>3. (walk' = w /\ shown' = shown) \/ Answer(w)
      BY <1>5 DEF SkipByRobots, FetchNext
    <2> HIDE DEF w
    <2> QED
      BY <2>2, <2>3, AnswerKeeps
  <1>6. CASE Submit
    <2>1. Answer(walk)
      BY <1>6 DEF Submit, Submission
    <2> QED
      BY <1>1, <2>1, AnswerKeeps
  <1>7. CASE DrainEnds \/ Tally
    BY <1>1, <1>7 DEF DrainEnds, Tally
  <1> QED
    BY <1>2, <1>3, <1>4, <1>5, <1>6, <1>7 DEF Next

LEMMA WalkingTalliesNothing ==
  ASSUME WInv, PInv, FetchSeed \/ FetchSitemap \/ SitemapsEnd \/ SkipByRobots \/ FetchNext \/ DrainEnds
  PROVE  PInv'
  <1>1. ToSet(walk.forms) \subseteq ToSet(walk'.forms)
    BY StepsKeep DEF Next, Keeps
  <1>2. /\ UNCHANGED <<config, done, summary, submitted>> /\ at # "done"
        /\ (at' = "done" => ~config.post)
    BY DEF FetchSeed, FetchSitemap, SitemapsEnd, SkipByRobots, FetchNext, DrainEnds, Draining
  <1>3. DoneInv'
    BY <1>1, <1>2 DEF PInv, DoneInv
  <1>4. TallyInv'
    BY <1>2 DEF PInv, TallyInv
  <1> QED
    BY <1>3, <1>4 DEF PInv

\* The least position that may be submitted, when there is one.
LEMMA FirstIsEligible ==
  ASSUME walk \in Walk
  PROVE  /\ FirstEligible # 0 => FirstEligible \in Pending /\ IsEligible(FirstEligible)
         /\ FirstEligible = 0 => {i \in Pending : IsEligible(i)} = {}
  <1> DEFINE open == {i \in Pending : IsEligible(i)}
  <1>1. Pending \subseteq Nat \ {0}
    <2>1. \A i \in 1..Len(Inventory) : i \in Nat \ {0}
      BY InventoryHolds
    <2> QED
      BY <2>1, InventoryHolds DEF Pending
  <1>2. ASSUME open # {} PROVE Min(open) \in open
    <2>1. open \subseteq Nat
      BY <1>1
    <2> HIDE DEF open
    <2>2. PICK n \in open : \A m \in open : n <= m
      BY <1>2, <2>1, LeastNumber
    <2> QED
      BY <2>2 DEF Min
  <1>3. FirstEligible = IF open = {} THEN 0 ELSE Min(open)
    BY DEF FirstEligible
  <1> QED
    BY <1>1, <1>2, <1>3

\* The candidate _pending yields: found, not done, and one that may be submitted.
LEMMA NextIsDue ==
  ASSUME walk \in Walk, FirstEligible # 0
  PROVE  LET c == Inventory[FirstEligible]
         IN /\ c \in Candidates \ done /\ c \in Eligible
            /\ c \in ToSet(walk.forms) \union ToSet(Operations)
  <1>1. FirstEligible \in Pending /\ IsEligible(FirstEligible)
    BY FirstIsEligible
  <1> QED
    BY <1>1, InventoryHolds DEF Pending, IsEligible

\* _post_phase: a candidate is marked done as it is submitted or skipped.
LEMMA SubmittingTallies == ASSUME WInv, PInv, Submit PROVE PInv'
  <1> DEFINE n == FirstEligible
             c == Inventory[n]
             K == Passed(n)
  <1>1. /\ at = "post" /\ at' = "drain" /\ n # 0 /\ submitted' = [submitted EXCEPT ![c] = @ + 1]
        /\ done' = done \union K \union {c}
        /\ summary' = [summary EXCEPT !.skipped = @ + Cardinality(K),
                                      !.forms = IF c \in PostForms THEN @ + 1 ELSE @,
                                      !.operations = IF c \in PostForms THEN @ ELSE @ + 1]
    BY DEF Submit, Submission
  <1>2. walk \in Walk /\ ToSet(walk.forms) \subseteq ToSet(walk'.forms)
    <2>1. walk \in Walk
      BY DEF WInv, Fine
    <2> QED
      BY <2>1, StepsKeep DEF Next, Keeps
  <1>3. /\ c \in Candidates \ done /\ c \in Eligible
        /\ c \in ToSet(walk.forms) \union ToSet(Operations)
    BY <1>1, <1>2, NextIsDue
  <1>4. /\ K \subseteq Candidates \ done /\ c \notin K
        /\ K \subseteq ToSet(walk.forms) \union ToSet(Operations)
    <2>1. K \subseteq {Inventory[i] : i \in Pending} /\ c \notin K
      BY <1>3 DEF Passed, IsEligible
    <2> QED
      BY <1>2, <2>1, InventoryHolds DEF Pending
  <1>5. IsFiniteSet(K)
    <2>1. Pending \in SUBSET (1..Len(Inventory)) /\ IsFiniteSet(1..Len(Inventory))
      BY <1>2, InventoryHolds, PositionsAreFinite DEF Pending
    <2> DEFINE T == {j \in Pending : j <= n /\ ~IsEligible(j)}
    <2>2. T \in SUBSET (1..Len(Inventory))
      BY <2>1
    <2> HIDE DEF T
    <2>3. IsFiniteSet(T)
      BY <2>1, <2>2, FS_Subset
    <2>4. IsFiniteSet({Inventory[i] : i \in T})
      BY <2>3, Held
    <2> QED
      BY <2>4 DEF Passed, T
  <1> HIDE DEF n, c, K
  <1>6. /\ IsFiniteSet(done) /\ done \subseteq Candidates
        /\ done \subseteq ToSet(walk.forms) \union ToSet(Operations)
        /\ submitted \in [Candidates -> Nat]
        /\ \A d \in Candidates : submitted[d] <= 1 /\ (submitted[d] > 0 => d \in done \intersect Eligible)
    BY DEF PInv, DoneInv
  <1>7. /\ IsFiniteSet(done') /\ Cardinality(K) \in Nat /\ Cardinality(done) \in Nat
        /\ Cardinality(done') = Cardinality(done) + Cardinality(K) + 1
    <2>1. /\ IsFiniteSet(done \union K)
          /\ Cardinality(done \union K) = Cardinality(done) + Cardinality(K) - Cardinality(done \intersect K)
      BY <1>5, <1>6, FS_Union
    <2>2. Cardinality(done \intersect K) = 0
      <3>1. done \intersect K = {}
        BY <1>4
      <3> QED
        BY <3>1, FS_EmptySet
    <2>3. IsFiniteSet(done') /\ Cardinality(done') = Cardinality(done \union K) + 1
      BY <1>1, <1>3, <1>4, <2>1, FS_AddElement
    <2>4. Cardinality(K) \in Nat /\ Cardinality(done) \in Nat
      BY <1>5, <1>6, FS_CardinalityType
    <2> QED
      BY <2>1, <2>2, <2>3, <2>4
  <1>8. DoneInv'
    <2>1. done' \subseteq ToSet(walk'.forms) \union ToSet(Operations) /\ done' \subseteq Candidates
      BY <1>1, <1>2, <1>3, <1>4, <1>6
    <2>2. submitted[c] = 0
      BY <1>3, <1>6
    <2>3. submitted' \in [Candidates -> Nat] /\ submitted'[c] = 1
          /\ \A d \in Candidates \ {c} : submitted'[d] = submitted[d]
      BY <1>1, <1>3, <1>6, <2>2
    <2>4. c \in done' /\ done \subseteq done'
      BY <1>1
    <2>5. \A d \in Candidates : submitted'[d] <= 1 /\ (submitted'[d] > 0 => d \in done' \intersect Eligible)
      BY <1>3, <1>6, <2>3, <2>4
    <2> QED
      BY <1>7, <2>1, <2>3, <2>5 DEF DoneInv
  <1>9. TallyInv'
    <2> DEFINE f == IF c \in PostForms THEN summary.forms + 1 ELSE summary.forms
               o == IF c \in PostForms THEN summary.operations ELSE summary.operations + 1
               k == summary.skipped + Cardinality(K)
    <2>1. /\ summary \in [forms : Nat, operations : Nat, skipped : Nat, overCap : Nat]
          /\ summary.overCap = 0
          /\ summary.forms + summary.operations + summary.skipped = Cardinality(done)
      BY <1>1 DEF PInv, TallyInv
    <2>2. /\ f \in Nat /\ o \in Nat /\ k \in Nat
          /\ f + o + k = Cardinality(done) + Cardinality(K) + 1
      BY <1>7, <2>1
    <2>3. summary' = [summary EXCEPT !.skipped = k, !.forms = f, !.operations = o]
      BY <1>1
    <2> HIDE DEF f, o, k
    <2>4. /\ summary' \in [forms : Nat, operations : Nat, skipped : Nat, overCap : Nat]
          /\ summary'.overCap = 0 /\ summary'.forms = f /\ summary'.operations = o
          /\ summary'.skipped = k
      BY <2>1, <2>2, <2>3
    <2> QED
      BY <1>1, <1>7, <2>2, <2>4 DEF TallyInv
  <1> QED
    BY <1>8, <1>9 DEF PInv

\* The end of _post_phase: what is left is skipped or over the cap.
LEMMA TallyingAdds == ASSUME WInv, PInv, Tally PROVE PInv'
  <1> DEFINE inv == Inventory
             n == Len(inv)
             K == Passed(n)
             E == {i \in Pending : IsEligible(i)}
             F == {i \in DOMAIN inv : inv[i] \in Candidates}
             J == {j \in 1..n : inv[j] \in Candidates \ done /\ inv[j] \notin Eligible}
  <1>1. /\ at = "post" /\ at' = "done" /\ UNCHANGED <<config, walk, pages, submitted>>
        /\ ~MaySubmit \/ FirstEligible = 0
        /\ done' = done \union K
        /\ summary' = [summary EXCEPT !.skipped = @ + Cardinality(K), !.overCap = Cardinality(E)]
    BY DEF Tally
  <1>2. walk \in Walk
    BY <1>1 DEF WInv, Fine
  <1>3. /\ n \in Nat /\ DOMAIN inv = 1..n
        /\ {inv[i] : i \in 1..n} = ToSet(walk.forms) \union ToSet(Operations)
    BY <1>2, InventoryHolds
  <1>4. /\ IsFiniteSet(done) /\ done \subseteq Candidates /\ done \subseteq {inv[i] : i \in 1..n}
        /\ submitted \in [Candidates -> Nat]
        /\ \A d \in Candidates : submitted[d] <= 1 /\ (submitted[d] > 0 => d \in done \intersect Eligible)
    BY <1>3 DEF PInv, DoneInv
  <1>5. /\ E = {i \in 1..n : inv[i] \in Candidates \ done /\ inv[i] \in Eligible}
        /\ F = {i \in 1..n : inv[i] \in Candidates}
    BY <1>3 DEF Pending, IsEligible
  <1>6. K = {inv[i] : i \in J}
    <2>1. J = {j \in Pending : j <= n /\ ~IsEligible(j)}
      BY <1>3 DEF Pending, IsEligible
    <2> QED
      BY <2>1 DEF Passed
  <1>7. ~MaySubmit \/ E = {}
    BY <1>1, <1>2, FirstIsEligible
  <1> DEFINE X == {inv[i] : i \in F}
  <1>8. /\ IsFiniteSet(K) /\ IsFiniteSet(E) /\ IsFiniteSet(done')
        /\ Cardinality(X) <= Cardinality(done) + Cardinality(K) + Cardinality(E)
        /\ Cardinality(done) + Cardinality(K) + Cardinality(E) <= Cardinality(F)
    <2> HIDE DEF inv, n, K, E, F, J, X
    <2>1. /\ IsFiniteSet(K) /\ IsFiniteSet(E)
          /\ Cardinality(X) <= Cardinality(done) + Cardinality(K) + Cardinality(E)
          /\ Cardinality(done) + Cardinality(K) + Cardinality(E) <= Cardinality(F)
      <3>1. Splits(n, inv, Candidates, Eligible, done, E, K, F, X)
        BY <1>3, <1>4, <1>5, <1>6 DEF Splits, J, X
      <3> QED
        BY <1>3, <1>4, <3>1, Counted
    <2> QED
      BY <1>1, <1>4, <2>1, FS_Union
  <1>9. K \subseteq Candidates /\ K \subseteq {inv[i] : i \in 1..n}
    BY <1>6
  <1>10. Cardinality(done) \in Nat /\ Cardinality(K) \in Nat /\ Cardinality(E) \in Nat
    BY <1>4, <1>8, FS_CardinalityType
  <1>11. Inventory' = inv
    BY <1>1 DEF Inventory
  <1>12. E = {} => Cardinality(E) = 0
    BY FS_EmptySet
  <1> HIDE DEF inv, n, K, E, J
  <1>13. DoneInv'
    BY <1>1, <1>3, <1>4, <1>8, <1>9 DEF DoneInv
  <1>14. /\ summary \in [forms : Nat, operations : Nat, skipped : Nat, overCap : Nat]
         /\ summary.forms + summary.operations + summary.skipped = Cardinality(done)
    BY <1>1 DEF PInv, TallyInv
  <1>15. /\ summary' \in [forms : Nat, operations : Nat, skipped : Nat, overCap : Nat]
         /\ summary'.forms = summary.forms /\ summary'.operations = summary.operations
         /\ summary'.skipped = summary.skipped + Cardinality(K) /\ summary'.overCap = Cardinality(E)
    <2> DEFINE k == summary.skipped + Cardinality(K)
               e == Cardinality(E)
    <2>1. k \in Nat /\ e \in Nat
      BY <1>10, <1>14
    <2>2. summary' = [summary EXCEPT !.skipped = k, !.overCap = e]
      BY <1>1
    <2> HIDE DEF k, e
    <2>3. /\ summary' \in [forms : Nat, operations : Nat, skipped : Nat, overCap : Nat]
          /\ summary'.forms = summary.forms /\ summary'.operations = summary.operations
          /\ summary'.skipped = k /\ summary'.overCap = e
      BY <1>14, <2>1, <2>2
    <2> QED
      BY <2>3 DEF k, e
  <1>16. summary'.forms + summary'.operations + summary'.skipped + summary'.overCap
           = Cardinality(done) + Cardinality(K) + Cardinality(E)
    BY <1>10, <1>14, <1>15
  <1>17. summary'.overCap > 0 => ~MaySubmit'
    <2>1. MaySubmit' => MaySubmit
      BY <1>1, <1>15 DEF MaySubmit
    <2> QED
      BY <1>7, <1>12, <1>15, <2>1
  <1>18. TallyAdds'
    <2> HIDE DEF X, F
    <2>1. F = {i \in DOMAIN Inventory' : Inventory'[i] \in Candidates}
      BY <1>11 DEF F
    <2>2. X = {Inventory'[i] : i \in F}
      BY <1>11 DEF X
    <2> DEFINE told == summary'.forms + summary'.operations + summary'.skipped + summary'.overCap
    <2>3. Cardinality(X) <= told /\ told <= Cardinality(F)
      BY <1>8, <1>16
    <2> HIDE DEF told
    <2> QED
      BY <1>17, <2>1, <2>2, <2>3 DEF TallyAdds, told
  <1> QED
    BY <1>1, <1>13, <1>15, <1>18 DEF PInv, TallyInv

LEMMA PInvIsKept == ASSUME WInv, PInv, [Next]_vars PROVE PInv'
  <1>1. CASE UNCHANGED vars
    <2>1. DoneInv'
      BY <1>1 DEF vars, PInv, DoneInv
    <2>2. TallyAdds => TallyAdds'
      BY <1>1 DEF vars, TallyAdds, Inventory, MaySubmit
    <2>3. TallyInv'
      BY <1>1, <2>2 DEF vars, PInv, TallyInv
    <2> QED
      BY <2>1, <2>3 DEF PInv
  <1>2. CASE Next
    BY <1>2, WalkingTalliesNothing, SubmittingTallies, TallyingAdds DEF Next
  <1> QED
    BY <1>1, <1>2

LEMMA InitTalliesNothing == ASSUME Init PROVE PInv
  <1>1. done = {} /\ IsFiniteSet(done) /\ Cardinality(done) = 0
    BY FS_EmptySet DEF Init
  <1>2. DoneInv
    BY <1>1 DEF Init, DoneInv
  <1>3. TallyInv
    BY <1>1 DEF Init, TallyInv
  <1> QED
    BY <1>2, <1>3 DEF PInv

LEMMA PInvariance == Spec => [](WInv /\ PInv)
  <1>1. Init => WInv /\ PInv
    BY InitIsFine, InitTalliesNothing
  <1>2. WInv /\ PInv /\ [Next]_vars => WInv' /\ PInv'
    BY WInvIsKept, PInvIsKept
  <1> QED
    BY <1>1, <1>2, PTL DEF Spec

\* _maybe_enqueue marks a URL seen before it is queued and asks the safety words of every URL,
\* whichever of a page, a form, a sitemap, an import or a submission's answer showed it, and
\* _post_phase marks a candidate before it is sent: no request is repeated, and none is forbidden.
THEOREM CrawlAsksOnceAndSafely == Spec => []AsksOnceAndSafely
  <1>1. ASSUME WInv, PInv PROVE AsksOnceAndSafely
    <2>1. at = "seed" => AskedOnce /\ AsksOnlySafe
      BY <1>1 DEF WInv, AskedOnce, AsksOnlySafe
    <2>2. at # "seed" => AskedOnce /\ AsksOnlySafe
      BY <1>1 DEF WInv, Fine, AskedOnce, AsksOnlySafe
    <2>3. SubmitsOnce
      BY <1>1 DEF PInv, DoneInv, SubmitsOnce
    <2> QED
      BY <2>1, <2>2, <2>3 DEF AsksOnceAndSafely
  <1> QED
    BY <1>1, PInvariance, PTL

\* Every cap that drops a URL leaves a word of it: a crawl that ends with pages to spare and no
\* limit told of has asked for every URL the site showed it that it might ask for.
THEOREM CrawlForgetsNothing == Spec => []NothingForgotten
  <1>1. ASSUME WInv PROVE NothingForgotten
    <2> SUFFICES ASSUME at = "done", pages < config.maxPages, walk.limits = {},
                        NEW u \in shown, MayAsk(u)
                 PROVE  asked[u] > 0
      BY DEF NothingForgotten
    <2>1. Fine(walk, asked, shown) /\ walk.queue = <<>>
      BY <1>1 DEF WInv
    <2>2. u \in walk.seen
      BY <2>1 DEF Fine, MayAsk
    <2>3. u \notin Queued(walk)
      BY <2>1 DEF Queued, ToSet
    <2> QED
      BY <2>1, <2>2, <2>3 DEF Fine
  <1> QED
    BY <1>1, PInvariance, PTL

\* The scan warning accounts for every candidate of the inventory: what _post_phase submitted,
\* skipped and left over the cap is all there is, however long the inventory grew meanwhile.
THEOREM TheTallyAddsUp == Spec => []TallyAdds
  <1>1. ASSUME WInv, PInv PROVE TallyAdds
    <2>1. CASE at = "done" /\ config.post
      BY <1>1, <2>1 DEF PInv, TallyInv
    <2>2. CASE ~(at = "done" /\ config.post)
      BY <2>2 DEF TallyAdds
    <2> QED
      BY <2>1, <2>2
  <1> QED
    BY <1>1, PInvariance, PTL
-----------------------------------------------------------------------------
(* The refinement: the crawl implements SiteSearch.                        *)

\* Up to the drain only the seed was asked for, one answer was read and nothing is done; what is
\* done and may be submitted was submitted, and the tally counts it.
SearchInv ==
  /\ shown \subseteq Urls
  /\ at = "post" => config.post
  /\ at \in {"seed", "sitemaps"} => Asked \subseteq {Seed}
  /\ at = "sitemaps" => pages = 1
  /\ done \intersect Eligible \subseteq Submitted
  /\ IsFiniteSet(Submitted) /\ Cardinality(Submitted) = summary.forms + summary.operations

LEMMA InitSearches == ASSUME Init PROVE SearchInv
  <1>1. shown \subseteq Urls
    BY ListsAssumption DEF Init, ToSet
  <1>2. Submitted = {} /\ Asked = {} /\ summary.forms + summary.operations = 0
    BY DEF Init, Submitted, Asked
  <1> QED
    BY <1>1, <1>2, FS_EmptySet DEF Init, SearchInv

\* What a submission adds to what was asked, done and counted.
LEMMA SubmitAdds ==
  ASSUME WInv, PInv, SearchInv, Submit
  PROVE  LET c == Inventory[FirstEligible]
         IN /\ c \in Offers \ Submitted /\ Submitted' = Submitted \union {c}
            /\ done' \intersect Eligible = (done \intersect Eligible) \union {c}
            /\ summary'.forms + summary'.operations = summary.forms + summary.operations + 1
  <1> DEFINE c == Inventory[FirstEligible]
             K == Passed(FirstEligible)
  <1>1. /\ at = "post" /\ FirstEligible # 0 /\ submitted' = [submitted EXCEPT ![c] = @ + 1]
        /\ done' = done \union K \union {c}
        /\ summary' = [summary EXCEPT !.skipped = @ + Cardinality(K),
                                      !.forms = IF c \in PostForms THEN @ + 1 ELSE @,
                                      !.operations = IF c \in PostForms THEN @ ELSE @ + 1]
    BY DEF Submit, Submission
  <1>2. walk \in Walk
    BY <1>1 DEF WInv, Fine
  <1>3. /\ c \in Candidates \ done /\ c \in Eligible
        /\ c \in ToSet(walk.forms) \union ToSet(Operations)
    BY <1>1, <1>2, NextIsDue
  <1>4. K \intersect Eligible = {}
    BY DEF Passed, IsEligible
  <1> HIDE DEF c, K
  <1>5. /\ submitted \in [Candidates -> Nat]
        /\ \A d \in Candidates : submitted[d] > 0 => d \in done
        /\ summary \in [forms : Nat, operations : Nat, skipped : Nat, overCap : Nat]
    BY DEF PInv, DoneInv, TallyInv
  <1>6. c \in Offers \ Submitted
    BY <1>1, <1>3, <1>5 DEF Offers, Submitted, SearchInv
  <1>7. Submitted' = Submitted \union {c}
    <2>1. submitted'[c] > 0 /\ \A d \in Candidates \ {c} : submitted'[d] = submitted[d]
      BY <1>1, <1>3, <1>5
    <2> QED
      BY <1>3, <2>1 DEF Submitted
  <1>8. done' \intersect Eligible = (done \intersect Eligible) \union {c}
    BY <1>1, <1>3, <1>4
  <1>9. summary'.forms + summary'.operations = summary.forms + summary.operations + 1
    <2> DEFINE f == IF c \in PostForms THEN summary.forms + 1 ELSE summary.forms
               o == IF c \in PostForms THEN summary.operations ELSE summary.operations + 1
               k == summary.skipped + Cardinality(K)
    <2>1. f + o = summary.forms + summary.operations + 1
      BY <1>5
    <2>2. summary' = [summary EXCEPT !.skipped = k, !.forms = f, !.operations = o]
      BY <1>1
    <2> HIDE DEF f, o, k
    <2>3. summary'.forms = f /\ summary'.operations = o
      BY <1>5, <2>2
    <2> QED
      BY <2>1, <2>3
  <1> QED
    BY <1>6, <1>7, <1>8, <1>9 DEF c

LEMMA SearchInvIsKept ==
  ASSUME Inv, WInv, PInv, SearchInv, [Next]_vars PROVE SearchInv'
  <1>1. CASE UNCHANGED vars
    BY <1>1 DEF vars, SearchInv, Asked, Submitted
  <1>2. CASE Next
    <2>1. (shown \subseteq Urls)'
      <3>1. shown' = shown \/ \E links \in Seq(Urls) : shown' = shown \union ToSet(links)
        BY <1>2, StepsKeep
      <3>2. \A links \in Seq(Urls) : ToSet(links) \subseteq Urls
        BY DEF ToSet
      <3> QED
        BY <3>1, <3>2 DEF SearchInv
    <2>2. (at = "post" => config.post)'
      BY <1>2 DEF Next, FetchSeed, FetchSitemap, SitemapsEnd, SkipByRobots, FetchNext, DrainEnds,
                  Submit, Submission, Tally, Draining, SearchInv
    <2>3. /\ (at \in {"seed", "sitemaps"} => Asked \subseteq {Seed})'
          /\ (at = "sitemaps" => pages = 1)'
      <3>1. CASE FetchSeed
        <4>1. asked' = [asked EXCEPT ![Seed] = @ + 1] /\ asked = [u \in Urls |-> 0] /\ pages' = pages + 1
          BY <3>1 DEF FetchSeed, Answer, WInv
        <4>2. pages = 0
          BY <3>1 DEF FetchSeed, Inv, SeedFirst
        <4>3. \A u \in Urls \ {Seed} : ~(asked'[u] > 0)
          BY <4>1, SiteAssumption
        <4> QED
          BY <4>1, <4>2, <4>3 DEF Asked
      <3>2. CASE FetchSitemap
        BY <3>2 DEF FetchSitemap, SearchInv, Asked
      <3>3. CASE ~FetchSeed /\ ~FetchSitemap
        <4>1. at' \notin {"seed", "sitemaps"}
          BY <1>2, <3>3 DEF Next, SitemapsEnd, SkipByRobots, FetchNext, DrainEnds, Submit, Tally,
                            Draining
        <4> QED
          BY <4>1
      <3> QED
        BY <3>1, <3>2, <3>3
    <2>4. CASE Submit
      <3>1. PICK c : /\ c \in Offers \ Submitted /\ Submitted' = Submitted \union {c}
                     /\ done' \intersect Eligible = (done \intersect Eligible) \union {c}
                     /\ summary'.forms + summary'.operations = summary.forms + summary.operations + 1
        BY <2>4, SubmitAdds
      <3>2. IsFiniteSet(Submitted') /\ Cardinality(Submitted') = Cardinality(Submitted) + 1
        BY <3>1, FS_AddElement DEF SearchInv
      <3> QED
        BY <2>1, <2>2, <2>3, <3>1, <3>2 DEF SearchInv
    <2>5. CASE ~Submit
      <3>1. submitted' = submitted /\ summary'.forms = summary.forms
            /\ summary'.operations = summary.operations
            /\ done' \intersect Eligible = done \intersect Eligible
        <4>1. CASE Tally
          <5> DEFINE k == summary.skipped + Cardinality(Passed(Len(Inventory)))
                     e == Cardinality({i \in Pending : IsEligible(i)})
          <5>1. /\ done' = done \union Passed(Len(Inventory)) /\ submitted' = submitted
                /\ summary' = [summary EXCEPT !.skipped = k, !.overCap = e]
            BY <4>1 DEF Tally
          <5> HIDE DEF k, e
          <5>2. Passed(Len(Inventory)) \intersect Eligible = {}
            BY DEF Passed, IsEligible
          <5>3. summary \in [forms : Nat, operations : Nat, skipped : Nat, overCap : Nat]
            BY DEF PInv, TallyInv
          <5> QED
            BY <5>1, <5>2, <5>3
        <4>2. CASE ~Tally
          BY <1>2, <2>5, <4>2 DEF Next, FetchSeed, FetchSitemap, SitemapsEnd, SkipByRobots, FetchNext,
                                  DrainEnds
        <4> QED
          BY <4>1, <4>2
      <3>2. Submitted' = Submitted
        BY <3>1 DEF Submitted
      <3> QED
        BY <2>1, <2>2, <2>3, <3>1, <3>2 DEF SearchInv
    <2> QED
      BY <2>4, <2>5
  <1> QED
    BY <1>1, <1>2

LEMMA SearchInvariance == Spec => [](Inv /\ WInv /\ PInv /\ SearchInv)
  <1>1. Init => Inv /\ WInv /\ PInv /\ SearchInv
    BY InitEstablishes, InitIsFine, InitTalliesNothing, InitSearches
  <1>2. Inv /\ WInv /\ PInv /\ SearchInv /\ [Next]_vars => Inv' /\ WInv' /\ PInv' /\ SearchInv'
    BY NextPreserves, WInvIsKept, PInvIsKept, SearchInvIsKept
  <1> QED
    BY <1>1, <1>2, PTL DEF Spec

\* The limits of a crawl do not change, and every step learns as a search does.
LEMMA StepLearns ==
  ASSUME WInv, WInv', SearchInv', Next
  PROVE  /\ Search!Learns /\ UNCHANGED <<{u \in Urls : MayAsk(u)}, [answers |-> config.maxPages, sent |-> config.postCap]>>
  <1>1. config' = config /\ at' # "seed"
    BY DEF Next, FetchSeed, FetchSitemap, SitemapsEnd, SkipByRobots, FetchNext, DrainEnds, Submit,
           Submission, Tally, Draining
  <1>2. /\ walk' \in Walk /\ ToSet(walk.forms) \subseteq ToSet(walk'.forms)
        /\ walk.seen \subseteq walk'.seen /\ walk.limits \subseteq walk'.limits
        /\ shown \subseteq shown'
    BY StepsKeep DEF Keeps
  <1>3. walk'.seen \subseteq Urls /\ shown' \subseteq Urls
    BY <1>2 DEF Walk, SearchInv
  <1>4. Offers \subseteq Offers' /\ Offers' \subseteq Candidates
    BY <1>1, <1>2 DEF Offers
  <1>5. walk'.limits = {} => shown' \subseteq Outside \union walk'.seen
    BY <1>1 DEF WInv, Fine
  <1>6. walk'.limits = {} => shown' \intersect {u \in Urls : MayAsk(u)} \subseteq walk'.seen
    BY <1>5 DEF MayAsk
  <1>7. Search!Learns
    BY <1>2, <1>3, <1>4, <1>6 DEF Search!Learns
  <1> QED
    BY <1>1, <1>7 DEF MayAsk

\* With an empty queue there is nothing left to visit.
LEMMA DrainedIsVisited ==
  ASSUME WInv, at # "seed", walk.queue = <<>> PROVE Search!NothingToVisit
  <1>1. Fine(walk, asked, shown) /\ Queued(walk) = {}
    BY DEF WInv, Queued, ToSet
  <1> QED
    BY <1>1 DEF Fine, Search!NothingToVisit, Asked

LEMMA SeedVisits ==
  ASSUME Inv, WInv, WInv', SearchInv', FetchSeed PROVE Search!Visit(Seed)
  <1>1. Search!Learns /\ UNCHANGED <<{u \in Urls : MayAsk(u)}, [answers |-> config.maxPages, sent |-> config.postCap]>>
    BY StepLearns DEF Next
  <1>2. /\ at = "seed" /\ at' = "sitemaps" /\ asked' = [asked EXCEPT ![Seed] = @ + 1]
        /\ pages' = pages + 1 /\ submitted' = submitted
        /\ walk.seen = {Seed} /\ asked = [u \in Urls |-> 0]
    BY DEF FetchSeed, Answer, WInv
  <1>3. pages < config.maxPages
    BY <1>2, SiteAssumption DEF Inv, SeedFirst
  <1>4. Asked = {} /\ Asked' = {Seed} /\ Submitted' = Submitted
    <2>1. asked'[Seed] > 0 /\ \A u \in Urls \ {Seed} : ~(asked'[u] > 0)
      BY <1>2, SiteAssumption
    <2> QED
      BY <1>2, <2>1, SiteAssumption DEF Asked, Submitted
  <1> QED
    BY <1>1, <1>2, <1>3, <1>4 DEF Search!Visit

LEMMA SitemapsPrepare ==
  ASSUME WInv, WInv', SearchInv, SearchInv', FetchSitemap \/ SitemapsEnd PROVE Search!Prepare
  <1>1. Search!Learns /\ UNCHANGED <<{u \in Urls : MayAsk(u)}, [answers |-> config.maxPages, sent |-> config.postCap]>>
    BY StepLearns DEF Next
  <1>2. at = "sitemaps" /\ at' \in {"sitemaps", "drain"} /\ UNCHANGED <<pages, asked, submitted>>
    BY DEF FetchSitemap, SitemapsEnd
  <1>3. Asked = {Seed} /\ pages = 1
    <2>1. asked[Seed] = 1 /\ Seed \in Urls
      BY <1>2, SiteAssumption DEF WInv, Fine
    <2> QED
      BY <1>2, <2>1 DEF SearchInv, Asked
  <1>4. Asked' = Asked /\ Submitted' = Submitted
    BY <1>2 DEF Asked, Submitted
  <1> QED
    BY <1>1, <1>2, <1>3, <1>4 DEF Search!Prepare

LEMMA FetchVisits ==
  ASSUME WInv, WInv', SearchInv', FetchNext PROVE Search!Visit(Head(walk.queue))
  <1> DEFINE u == Head(walk.queue)
  <1>1. Search!Learns /\ UNCHANGED <<{v \in Urls : MayAsk(v)}, [answers |-> config.maxPages, sent |-> config.postCap]>>
    BY StepLearns DEF Next
  <1>2. /\ at = "drain" /\ at' = at /\ asked' = [asked EXCEPT ![u] = @ + 1] /\ ~Refused(u)
        /\ pages < config.maxPages /\ pages' = pages + 1 /\ submitted' = submitted
    BY DEF FetchNext, Draining, Answer
  <1>3. u \in walk.seen /\ Welcome(u) /\ asked[u] = 0 /\ u \in Urls /\ u # Seed
    BY HeadIsDue DEF FetchNext
  <1> HIDE DEF u
  <1>4. MayAsk(u) /\ Seed \in Asked /\ asked \in [Urls -> Nat]
    BY <1>2, <1>3, SiteAssumption DEF Refused, Welcome, MayAsk, Asked, WInv, Fine
  <1>5. u \notin Asked /\ Asked' = Asked \union {u} /\ Submitted' = Submitted
    <2>1. asked'[u] > 0 /\ \A v \in Urls \ {u} : asked'[v] = asked[v]
      BY <1>2, <1>3, <1>4
    <2> QED
      BY <1>2, <1>3, <2>1 DEF Asked, Submitted
  <1> QED
    BY <1>1, <1>2, <1>3, <1>4, <1>5 DEF Search!Visit, u

\* A URL passed over, and the end of a drain, are nothing to a user.
LEMMA QuietSteps ==
  ASSUME UNCHANGED vars \/ SkipByRobots \/ (DrainEnds /\ at' = "post"), WInv PROVE UNCHANGED Search!vars
  <1>1. /\ UNCHANGED <<config, pages, asked, submitted, shown>> /\ (at' = "done") = (at = "done")
        /\ walk'.seen = walk.seen /\ walk'.limits = walk.limits /\ walk'.forms = walk.forms
    <2>1. CASE UNCHANGED vars
      BY <2>1 DEF vars
    <2>2. CASE SkipByRobots
      <3>1. walk \in Walk /\ walk' = [walk EXCEPT !.queue = Tail(walk.queue)]
        BY <2>2 DEF SkipByRobots, WInv, Fine
      <3> QED
        BY <2>2, <3>1 DEF SkipByRobots, Draining, Walk
    <2>3. CASE DrainEnds /\ at' = "post"
      BY <2>3 DEF DrainEnds
    <2> QED
      BY <2>1, <2>2, <2>3
  <1> QED
    BY <1>1 DEF Search!vars, Asked, Submitted, Offers, MayAsk

\* SiteSearch counts with a Cardinality of its own, which is this one.
LEMMA CountsAlike == ASSUME NEW S PROVE Search!Cardinality(S) = Cardinality(S)
  BY DEF Search!Cardinality, Cardinality, Search!IsFiniteSet, IsFiniteSet

LEMMA SubmitSends ==
  ASSUME Inv, WInv, WInv', PInv, SearchInv, SearchInv', Submit
  PROVE  Search!Send(Inventory[FirstEligible])
  <1> DEFINE c == Inventory[FirstEligible]
  <1>1. Search!Learns /\ UNCHANGED <<{u \in Urls : MayAsk(u)}, [answers |-> config.maxPages, sent |-> config.postCap]>>
    BY StepLearns DEF Next
  <1>2. /\ at = "post" /\ at' = "drain" /\ asked' = asked /\ pages' = pages + 1
        /\ summary.forms + summary.operations < config.postCap /\ pages < config.maxPages
    BY DEF Submit, Submission, Answer, MaySubmit
  <1>3. c \in Offers \ Submitted /\ Submitted' = Submitted \union {c}
    BY SubmitAdds
  <1> HIDE DEF c
  <1>4. Search!NothingToVisit
    BY <1>2, DrainedIsVisited DEF WInv
  <1>5. Seed \in Asked /\ Asked' = Asked
    BY <1>2, SiteAssumption DEF WInv, Fine, Asked
  <1>6. Cardinality(Submitted) < config.postCap
    BY <1>2 DEF SearchInv
  <1> QED
    BY <1>1, <1>2, <1>3, <1>4, <1>5, <1>6, CountsAlike DEF Search!Send, c

\* The crawl is over when its drain is and there is no POST phase, or when that has been tallied.
LEMMA LastStepEnds ==
  ASSUME WInv, PInv, SearchInv, Tally \/ (DrainEnds /\ at' = "done") PROVE Search!End
  <1>1. /\ at \in {"drain", "post"} /\ at' = "done"
        /\ UNCHANGED <<config, walk, pages, asked, submitted, shown>>
    BY DEF Tally, DrainEnds
  <1>2. Fine(walk, asked, shown) /\ Seed \in Asked
    BY <1>1, SiteAssumption DEF WInv, Fine, Asked
  <1>3. pages < config.maxPages => Search!NothingToVisit
    <2>1. pages < config.maxPages => walk.queue = <<>>
      BY DEF Tally, DrainEnds, Draining, WInv
    <2> QED
      BY <1>1, <2>1, DrainedIsVisited
  <1>4. ASSUME pages < config.maxPages, Cardinality(Submitted) < config.postCap
        PROVE  Offers \subseteq Submitted
    <2>1. CASE DrainEnds
      BY <1>1, <2>1 DEF DrainEnds, Offers
    <2>2. CASE Tally
      <3>1. FirstEligible = 0
        BY <1>4, <2>2 DEF Tally, MaySubmit, SearchInv
      <3>2. walk \in Walk
        BY <1>2 DEF Fine
      <3>3. {i \in Pending : IsEligible(i)} = {}
        BY <3>1, <3>2, FirstIsEligible
      <3>4. ASSUME NEW c \in Offers PROVE c \in done
        <4>1. c \in Candidates /\ c \in Eligible /\ c \in ToSet(walk.forms) \union ToSet(Operations)
          BY DEF Offers
        <4>2. PICK i \in DOMAIN Inventory : Inventory[i] = c
          BY <3>2, <4>1, InventoryHolds
        <4> QED
          BY <3>3, <4>1, <4>2 DEF Pending, IsEligible
      <3>5. Offers \subseteq Eligible
        BY DEF Offers
      <3> QED
        BY <3>4, <3>5 DEF SearchInv
    <2> QED
      BY <2>1, <2>2
  <1>5. UNCHANGED <<{u \in Urls : MayAsk(u)}, Asked, Submitted, Offers>>
    BY <1>1 DEF MayAsk, Asked, Submitted, Offers
  <1> QED
    BY <1>1, <1>2, <1>3, <1>4, <1>5, CountsAlike DEF Search!End

LEMMA StepSearches ==
  ASSUME Inv, WInv, WInv', PInv, SearchInv, SearchInv', [Next]_vars
  PROVE  [Search!Next]_(Search!vars)
  <1>1. CASE FetchSeed
    <2>1. Search!Visit(Seed) /\ Seed \in Urls
      BY <1>1, SeedVisits, SiteAssumption
    <2> QED
      BY <2>1 DEF Search!Next
  <1>2. CASE FetchSitemap \/ SitemapsEnd
    BY <1>2, SitemapsPrepare DEF Search!Next
  <1>3. CASE FetchNext
    <2>1. Search!Visit(Head(walk.queue)) /\ Head(walk.queue) \in Urls
      BY <1>3, FetchVisits, HeadIsDue DEF FetchNext
    <2> QED
      BY <2>1 DEF Search!Next
  <1>4. CASE Submit
    <2>1. Search!Send(Inventory[FirstEligible]) /\ Inventory[FirstEligible] \in Candidates
      BY <1>4, SubmitSends, SubmitAdds DEF Offers
    <2> QED
      BY <2>1 DEF Search!Next
  <1>5. CASE Tally \/ (DrainEnds /\ at' = "done")
    BY <1>5, LastStepEnds DEF Search!Next
  <1>6. CASE UNCHANGED vars \/ SkipByRobots \/ (DrainEnds /\ at' = "post")
    BY <1>6, QuietSteps
  <1>7. DrainEnds => at' \in {"post", "done"}
    BY DEF DrainEnds
  <1> QED
    BY <1>1, <1>2, <1>3, <1>4, <1>5, <1>6, <1>7 DEF Next

LEMMA InitIsSearch == ASSUME Init PROVE Search!Init
  <1>1. config \in Configs /\ at = "seed" /\ walk.seen = {Seed} /\ walk.limits = {} /\ pages = 0
    BY DEF Init
  <1>2. Asked = {} /\ Submitted = {} /\ Offers \subseteq Candidates
    BY DEF Init, Asked, Submitted, Offers
  <1>3. [answers |-> config.maxPages, sent |-> config.postCap] \in [answers : Nat \ {0}, sent : Nat]
    BY <1>1, SiteAssumption
  <1>4. shown \subseteq Urls
    BY InitSearches DEF SearchInv
  <1> QED
    BY <1>1, <1>2, <1>3, <1>4 DEF Search!Init

\* Crawler.discover is the search it promises to be, for every site, configuration and cap: each
\* step of the seed, the sitemaps, the drain and the POST phase is one of a search, or nothing.
THEOREM CrawlImplementsSearch == Spec => CrawlRefinesSearch
  <1>1. Init => Search!Init
    BY InitIsSearch
  <1>2. /\ Inv /\ WInv /\ PInv /\ SearchInv /\ [Next]_vars => WInv' /\ SearchInv'
    BY WInvIsKept, SearchInvIsKept
  <1>3. Inv /\ WInv /\ PInv /\ SearchInv /\ [Next]_vars => [Search!Next]_(Search!vars)
    BY <1>2, StepSearches
  <1> QED
    BY <1>1, <1>3, SearchInvariance, PTL DEF Spec, CrawlRefinesSearch, Search!Spec
=============================================================================
