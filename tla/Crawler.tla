------------------------------ MODULE Crawler ------------------------------
(***************************************************************************)
(* The crawl of a scan: src/webvigil/crawler/crawler.py.                   *)
(*                                                                         *)
(* One task fetches pages breadth-first, then submits POST forms and API   *)
(* operations one at a time, following what each answer links to.  A step  *)
(* is one request and all that is done with its answer.  The site is what  *)
(* its answers show: any list of links and forms, on any page, and a       *)
(* redirect inside the scope may land elsewhere than the URL asked for.  A *)
(* failed page, or one that is not HTML, shows nothing.                    *)
(*                                                                         *)
(* A URL is a name; what the crawler decides from its spelling (the scope, *)
(* the logout and the state-changing words of safety.py, robots.txt) is    *)
(* given by constant sets of names.                                        *)
(***************************************************************************)
EXTENDS Integers, FiniteSets, Sequences, SequencesExt

CONSTANTS
  Urls,
  Seed,             \* the target's entry URL
  Outside,          \* URLs Target.in_scope refuses
  Logout,           \* URLs is_logout matches
  Destructive,      \* URLs is_destructive matches
  Disallowed,       \* URLs robots.txt disallows
  None,
  GetForms,
  Action,           \* the URL a GET form's submission asks for
  Withheld,         \* GET forms is_auth_form or is_logout matches
  DestructiveForms, \* GET forms whose action is_destructive matches
  PostForms,
  Operations,       \* the POST operations of the imports, in order, by their _op_key
  Eligible,         \* POST forms and operations that may be submitted
  ExtraSeeds,       \* the GET operations of an API import, in order
  Configs,          \* the configurations to choose from
  LinksPerPage,     \* Crawler._links_per_page
  MaxForms,         \* _MAX_FORMS
  MaxSitemaps,      \* sitemap.MAX_SITEMAPS
  MaxSitemapUrls,   \* sitemap.MAX_URLS
  LinkLists,        \* bound: the lists of links an answer shows
  FormLists         \* bound: the lists of forms an answer shows

ASSUME SiteAssumption ==
  /\ Seed \in Urls /\ None \notin Urls
  /\ Outside \subseteq Urls /\ Seed \notin Outside
  /\ Logout \subseteq Urls /\ Destructive \subseteq Urls /\ Disallowed \subseteq Urls
  /\ Action \in [GetForms -> Urls \union {None}]
  /\ Withheld \subseteq GetForms /\ DestructiveForms \subseteq GetForms
  /\ GetForms \intersect PostForms = {}
  /\ Configs \subseteq [authenticated : BOOLEAN, submitForms : BOOLEAN, post : BOOLEAN,
                        robots : BOOLEAN, maxPages : Nat \ {0}, postCap : Nat, seenCap : Nat]
  /\ {LinksPerPage, MaxForms, MaxSitemaps, MaxSitemapUrls} \subseteq Nat

Forms == GetForms \union PostForms
Candidates == PostForms \union ToSet(Operations)

ASSUME ListsAssumption ==
  /\ LinkLists \subseteq Seq(Urls) /\ FormLists \subseteq Seq(Forms)
  /\ ExtraSeeds \in Seq(Urls) /\ Operations \in Seq(Candidates)

VARIABLES
  config,     \* what the crawler reads of ScanConfig
  at,         \* where discover() is
  walk,       \* what reading an answer changes: queue, seen, forms, skipped, limits
  sitemaps,   \* the sitemaps left to fetch, and the URLs they may still give
  pages,      \* len(pages)
  byRobots,   \* _skipped_by_robots
  done,       \* _post_done, of the candidates
  summary,    \* PostSummary
  asked,      \* history: how often each URL was asked for
  submitted,  \* history: how often each candidate was submitted
  shown       \* history: the URLs the site has shown

vars == <<config, at, walk, sitemaps, pages, byRobots, done, summary,
          asked, submitted, shown>>

-----------------------------------------------------------------------------
(* What the crawler does with what a page shows.                           *)

\* Variant: a URL becomes seen when it is fetched, not when it is queued.
MaybeEnqueueUnseen(w, u) ==
  IF u \in Outside \union w.seen THEN w ELSE [w EXCEPT !.queue = Append(@, u)]

\* Variant: what does not fit is dropped without a word.
MaybeEnqueueSilently(w, u) ==
  LET new      == u \notin Outside \union w.seen
      kept     == new /\ Cardinality(w.seen) < config.seenCap
      declined == config.authenticated /\ u \in Destructive \ Logout
  IN [w EXCEPT
        !.seen    = IF kept THEN @ \union {u} ELSE @,
        !.queue   = IF kept /\ u \notin Logout /\ ~declined THEN Append(@, u) ELSE @,
        !.skipped = IF kept /\ declined THEN @ + 1 ELSE @]

\* A URL the walk declines is marked seen but never queued.
MaybeEnqueue(w, u) ==
  LET new      == u \notin Outside \union w.seen
      kept     == new /\ Cardinality(w.seen) < config.seenCap
      declined == config.authenticated /\ u \in Destructive \ Logout
  IN [w EXCEPT
        !.seen    = IF kept THEN @ \union {u} ELSE @,
        !.queue   = IF kept /\ u \notin Logout /\ ~declined THEN Append(@, u) ELSE @,
        !.skipped = IF kept /\ declined THEN @ + 1 ELSE @,
        !.limits  = IF new /\ ~kept THEN @ \union {"links"} ELSE @]

EnqueueAll(w, urls) ==
  LET read[i \in 0..Len(urls)] == IF i = 0 THEN w ELSE MaybeEnqueue(read[i - 1], urls[i])
  IN read[Len(urls)]

EnqueueLinks(w, links) ==
  EnqueueAll([w EXCEPT !.limits = IF Len(links) > LinksPerPage THEN @ \union {"links"} ELSE @],
             SubSeq(links, 1, IF Len(links) > LinksPerPage THEN LinksPerPage ELSE Len(links)))

\* Every form joins the inventory once; a GET form is followed wherever it shows.
CollectForm(w, f) ==
  LET known    == f \in ToSet(w.forms)
      room     == Len(w.forms) < MaxForms
      kept     == [w EXCEPT !.forms  = IF ~known /\ room THEN Append(@, f) ELSE @,
                            !.limits = IF ~known /\ ~room THEN @ \union {"forms"} ELSE @]
      follows  == (known \/ room) /\ config.submitForms /\ f \in GetForms \ Withheld
      declined == config.authenticated /\ f \in DestructiveForms
  IN IF follows /\ declined THEN [kept EXCEPT !.skipped = @ + 1]
     ELSE IF follows /\ Action[f] # None THEN MaybeEnqueue(kept, Action[f])
     ELSE kept

CollectForms(w, forms) ==
  LET read[i \in 0..Len(forms)] == IF i = 0 THEN w ELSE CollectForm(read[i - 1], forms[i])
  IN read[Len(forms)]

\* What one answer shows, after the redirects the client has followed inside the scope, and
\* what the crawler makes of it.
Answer(w) ==
  /\ \E links \in LinkLists, forms \in FormLists :
       /\ walk' = CollectForms(EnqueueLinks(w, links), forms)
       /\ shown' = shown \union ToSet(links)
  /\ pages' = pages + 1

-----------------------------------------------------------------------------
(* Crawler.discover.                                                       *)

Init ==
  /\ config \in Configs
  /\ at = "seed"
  /\ walk = [queue |-> <<>>, seen |-> {Seed}, forms |-> <<>>, skipped |-> 0, limits |-> {}]
  /\ sitemaps = [left |-> 0, budget |-> MaxSitemapUrls]
  /\ pages = 0
  /\ byRobots = 0
  /\ done = {}
  /\ summary = [forms |-> 0, operations |-> 0, skipped |-> 0, overCap |-> 0]
  /\ asked = [u \in Urls |-> 0]
  /\ submitted = [c \in Candidates |-> 0]
  /\ shown = ToSet(ExtraSeeds)

\* robots.txt, the seed page whatever robots.txt says, then the imported seeds
\* before the page's own links; and the sitemaps robots.txt declares.
FetchSeed ==
  /\ at = "seed"
  /\ at' = "sitemaps"
  /\ asked' = [asked EXCEPT ![Seed] = @ + 1]
  /\ \E n \in 1..(MaxSitemaps + 1), more \in BOOLEAN :
       /\ more => n >= MaxSitemaps
       /\ sitemaps' = [sitemaps EXCEPT !.left = n]
       /\ Answer(EnqueueAll([walk EXCEPT !.limits = IF more THEN {"sitemaps"} ELSE {}], ExtraSeeds))
  /\ UNCHANGED <<config, byRobots, done, summary, submitted>>

\* One sitemap; the next is not fetched once the URLs are used up.
FetchSitemap ==
  /\ at = "sitemaps" /\ sitemaps.left > 0 /\ sitemaps.budget > 0
  /\ \E links \in LinkLists :
       /\ Len(links) <= sitemaps.budget
       /\ walk' = EnqueueAll(walk, links)
       /\ sitemaps' = [left |-> sitemaps.left - 1, budget |-> sitemaps.budget - Len(links)]
       /\ shown' = shown \union ToSet(links)
  /\ UNCHANGED <<config, at, pages, byRobots, done, summary, asked, submitted>>

SitemapsEnd ==
  /\ at = "sitemaps" /\ (sitemaps.left = 0 \/ sitemaps.budget = 0)
  /\ walk' = [walk EXCEPT !.limits = IF sitemaps.left > 0 THEN @ \union {"sitemapURLs"} ELSE @]
  /\ at' = "drain"
  /\ UNCHANGED <<config, sitemaps, pages, byRobots, done, summary, asked,
                 submitted, shown>>

-----------------------------------------------------------------------------
(* Crawler._drain.                                                         *)

Draining == at = "drain" /\ walk.queue # <<>> /\ pages < config.maxPages

\* Variant: robots.txt binds passive crawls only.
RefusedPassively(u) == config.robots /\ ~config.post /\ u \in Disallowed

Refused(u) == config.robots /\ u \in Disallowed

\* Variant: "continue" before the URL is taken off the queue.
SkipByRobotsStaying ==
  /\ Draining
  /\ Refused(Head(walk.queue))
  /\ UNCHANGED vars

SkipByRobots ==
  /\ Draining
  /\ Refused(Head(walk.queue))
  /\ walk' = [walk EXCEPT !.queue = Tail(@)]
  /\ byRobots' = byRobots + 1
  /\ UNCHANGED <<config, at, sitemaps, pages, done, summary, asked, submitted, shown>>

FetchNext ==
  /\ Draining
  /\ LET u == Head(walk.queue)
     IN /\ ~Refused(u)
        /\ asked' = [asked EXCEPT ![u] = @ + 1]
        /\ Answer([walk EXCEPT !.queue = Tail(@)])
  /\ UNCHANGED <<config, at, sitemaps, byRobots, done, summary, submitted>>

DrainEnds ==
  /\ at = "drain" /\ ~Draining
  /\ at' = IF config.post THEN "post" ELSE "done"
  /\ UNCHANGED <<config, walk, sitemaps, pages, byRobots, done, summary, asked,
                 submitted, shown>>

-----------------------------------------------------------------------------
(* Crawler._post_phase.                                                    *)

\* Forms in inventory order, then operations; two operations may have one key.
Inventory == walk.forms \o Operations

\* Where the candidates are that have not been done, and the first that may be submitted, or 0.
Pending == {i \in DOMAIN Inventory : Inventory[i] \in Candidates \ done}
IsEligible(i) == Inventory[i] \in Eligible

\* Variant: the generator ends at the first candidate that may not be submitted.
FirstOrNone ==
  IF Pending = {} THEN 0 ELSE IF IsEligible(Min(Pending)) THEN Min(Pending) ELSE 0

FirstEligible ==
  LET open == {i \in Pending : IsEligible(i)} IN IF open = {} THEN 0 ELSE Min(open)

\* The ones the generator passes on its way to position n are tallied once.
Passed(n) == {Inventory[i] : i \in {j \in Pending : j <= n /\ ~IsEligible(j)}}

\* Variant: the page cap is the drain's business.
MaySubmitAnyway == summary.forms + summary.operations < config.postCap

MaySubmit == summary.forms + summary.operations < config.postCap /\ pages < config.maxPages

\* The request for candidate c, once the ones before it have been tallied.
Submission(c, passed) ==
  /\ submitted' = [submitted EXCEPT ![c] = @ + 1]
  /\ summary' = [summary EXCEPT !.skipped = @ + Cardinality(passed),
                                !.forms = IF c \in PostForms THEN @ + 1 ELSE @,
                                !.operations = IF c \in PostForms THEN @ ELSE @ + 1]
  /\ Answer(walk)
  /\ UNCHANGED <<config, sitemaps, byRobots, asked>>

\* Variant: a candidate is marked done only when it is passed over.
SubmitUnmarked ==
  /\ at = "post" /\ MaySubmit /\ FirstEligible # 0
  /\ Submission(Inventory[FirstEligible], Passed(FirstEligible))
  /\ done' = done \union Passed(FirstEligible)
  /\ at' = "drain"

\* Variant: the next candidate does not wait for the answer's links.
SubmitOnly ==
  /\ at = "post" /\ MaySubmit /\ FirstEligible # 0
  /\ Submission(Inventory[FirstEligible], Passed(FirstEligible))
  /\ done' = done \union Passed(FirstEligible) \union {Inventory[FirstEligible]}
  /\ at' = "post"

\* One submission; its answer feeds the queue, which is drained before the next.
Submit ==
  /\ at = "post" /\ MaySubmit /\ FirstEligible # 0
  /\ Submission(Inventory[FirstEligible], Passed(FirstEligible))
  /\ done' = done \union Passed(FirstEligible) \union {Inventory[FirstEligible]}
  /\ at' = "drain"

\* Variant: what is left is all counted as over the cap.
TallyAll ==
  /\ at = "post" /\ (~MaySubmit \/ FirstEligible = 0)
  /\ summary' = [summary EXCEPT !.overCap = Cardinality(Pending)]
  /\ at' = "done"
  /\ UNCHANGED <<config, walk, sitemaps, pages, byRobots, done, asked, submitted, shown>>

\* The cap is reached or nothing may be submitted any more: the rest is tallied.
Tally ==
  /\ at = "post" /\ (~MaySubmit \/ FirstEligible = 0)
  /\ LET passed == Passed(Len(Inventory))
     IN /\ done' = done \union passed
        /\ summary' = [summary EXCEPT !.skipped = @ + Cardinality(passed),
                                      !.overCap = Cardinality({i \in Pending : IsEligible(i)})]
  /\ at' = "done"
  /\ UNCHANGED <<config, walk, sitemaps, pages, byRobots, asked, submitted, shown>>

-----------------------------------------------------------------------------

Next ==
  \/ FetchSeed \/ FetchSitemap \/ SitemapsEnd
  \/ SkipByRobots \/ FetchNext \/ DrainEnds
  \/ Submit \/ Tally

\* The crawl is one task: it goes on as soon as its request has ended.
Spec == Init /\ [][Next]_vars /\ WF_vars(Next)

-----------------------------------------------------------------------------
(* Properties.                                                             *)

TypeOK ==
  /\ config \in Configs
  /\ at \in {"seed", "sitemaps", "drain", "post", "done"}
  /\ walk.queue \in Seq(Urls \ Outside) /\ walk.seen \subseteq Urls \ Outside
  /\ walk.forms \in Seq(Forms) /\ walk.skipped \in Nat
  /\ walk.limits \subseteq {"links", "forms", "sitemaps", "sitemapURLs"}
  /\ sitemaps.left \in 0..(MaxSitemaps + 1) /\ sitemaps.budget \in 0..MaxSitemapUrls
  /\ pages \in Nat /\ byRobots \in Nat
  /\ done \subseteq Candidates
  /\ summary \in [forms : Nat, operations : Nat, skipped : Nat, overCap : Nat]
  /\ asked \in [Urls -> Nat] /\ submitted \in [Candidates -> Nat]
  /\ shown \subseteq Urls

\* A URL is asked for once, however many pages, forms and sitemaps show it, and also
\* when the drain resumes after a submission.
AskedOnce == \A u \in Urls : asked[u] <= 1

\* max_pages bounds GET pages and POST answers together, max_post_submissions the
\* submissions.
BudgetsHold ==
  /\ pages <= config.maxPages
  /\ summary.forms + summary.operations <= config.postCap

MayAsk(u) ==
  /\ u \notin Outside \union Logout
  /\ config.robots => u \notin Disallowed
  /\ config.authenticated => u \notin Destructive

\* Whatever the site shows, but for the seed the crawler asks for nothing out of
\* scope, no logout, nothing robots.txt disallows and, authenticated, nothing that
\* looks state-changing.
AsksOnlySafe == \A u \in Urls \ {Seed} : asked[u] > 0 => MayAsk(u)

\* Each distinct candidate is submitted once, and only one that may be.
SubmitsOnce == \A c \in Candidates : submitted[c] <= IF c \in Eligible THEN 1 ELSE 0

\* What the crawler sends it sends once, and only what it may: URLs, forms and operations,
\* whichever of a page, a form, a sitemap, an import or a submission's answer showed them.
AsksOnceAndSafely == AskedOnce /\ AsksOnlySafe /\ SubmitsOnce

\* The crawl leaves nothing out in silence: when it ends short of max_pages, every
\* URL the site has shown and the crawler may ask for was asked for, unless it
\* reports a limit it hit.
NothingForgotten ==
  at = "done" /\ pages < config.maxPages /\ walk.limits = {} =>
    \A u \in shown : MayAsk(u) => asked[u] > 0

\* The scan warning's tally: every POST candidate of the inventory is submitted, skipped or
\* over the cap, exactly one of the three unless operations share a key (the second of two that
\* do may go untold), and none is over a cap that was not reached.
TallyAdds ==
  at = "done" /\ config.post =>
    /\ LET told == summary.forms + summary.operations + summary.skipped + summary.overCap
           found == {i \in DOMAIN Inventory : Inventory[i] \in Candidates}
       IN Cardinality({Inventory[i] : i \in found}) <= told /\ told <= Cardinality(found)
    /\ summary.overCap > 0 => ~MaySubmit

\* A multi-step flow is followed: nothing is submitted while a link found so far
\* waits to be fetched.
FlowsAreFollowed == [][submitted' # submitted => walk.queue = <<>>]_vars

\* A crawl is what SiteSearch says of one: whatever the site shows, it goes on while it has
\* room and knows of a URL it may ask for or has met a candidate it may submit, asks for and
\* submits nothing else, and what it leaves out of its queue, for any of the caps, it tells.
Offers ==
  IF config.post THEN (ToSet(walk.forms) \union ToSet(Operations)) \intersect Candidates \intersect Eligible
  ELSE {}
Asked == {u \in Urls : asked[u] > 0}
Submitted == {c \in Candidates : submitted[c] > 0}

Search == INSTANCE SiteSearch WITH
  allowed <- {u \in Urls : MayAsk(u)},
  room    <- [answers |-> config.maxPages, sent |-> config.postCap],
  known   <- walk.seen,
  offers  <- Offers,
  told    <- walk.limits # {},
  visited <- Asked,
  sent    <- Submitted,
  answers <- pages,
  ended   <- at = "done"

CrawlRefinesSearch == Search!Spec

\* The crawl ends, whatever the site shows.
CrawlEnds == <>(at = "done")
=============================================================================
