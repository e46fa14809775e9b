# A verification of WebVigil

WebVigil is a web-application scanner: a command line and a local web API start
a scan, one asyncio task crawls a target through a rate-limited HTTP client,
logs in again whenever the target forgets the session, runs a series of passes
and checks over what it found, and stores or prints the result.

This directory holds TLA+ models of the parts of it where the order of events
or the outcome of a decision matters, the TLC configurations that check them,
and TLAPS proofs of what holds for every size of the system. `PROJECT.json` maps
every definition to the lines it stands for.

| module | what it models | checked by | proved in |
|---|---|---|---|
| `ScanRunner` | the API's scan queue: dispatch loop, routes, start, stop, crash | `scan_safety`, `scan_live`, `scan_loop_dies` | `ScanRunnerProofs` |
| `ScanLifecycle` | what a client of the API is promised about a scan's status | as a property of `scan_live` | `ScanRunnerProofs` |
| `ScanPipeline` | one engine run: passes, failures, concurrent checks, report | `pipeline` | `ScanPipelineProofs` |
| `LoginSession` | concurrent requests, drop detection and re-login | `login_safety`, `login_live` | `LoginSessionProofs` |
| `HttpExchange` | rate limiter, scope guard, retries, redirects, counters | `exchange` | `HttpExchangeProofs` |
| `Crawler` | the breadth-first crawl and the POST phase | `crawl` | `CrawlerProofs` |
| `SiteSearch` | what a user is promised of a crawl | as a property of `crawl` | `CrawlerProofs` |
| `InjectionPass` | injection points, nested budgets, detectors in turn, stored pass | `injection` | `InjectionPassProofs` |
| `Site`, `Detectors` | what each injection detector asks and concludes | `passes` | latency: `InjectionPassProofs` |
| `ActivePasses` | the upload, CSRF and envelope passes | `passes` | budgets: `InjectionPassProofs` |
| `SessionPass` | weak session ids, fixation, logout | `passes` | |
| `DisclosureProbe` | files that should not be there, told from error pages | `passes` | |
| `Imports` | targets, scope, HAR recordings, OpenAPI descriptions | `inputs` | |
| `Dependencies` | library fingerprints, advisories, OSV lookup, scrubbing | `inputs` | |
| `BodyLimit` | the web API's limit on request bodies | `web_api` | `WebApiProofs` |
| `Accounts` | setup, login, throttle, change of password, tokens | `web_api` | `WebApiProofs` |
| `Lists` | what a Python comprehension keeps of a list | in `web_api`, `injection` | `ListProofs` |

`MC*` modules instantiate them. Where a module is a pure algorithm, its MC module
also holds the family of inputs and the properties: `MCDetectors` and `MCPasses`
the pages and sites, `MCInputs` the targets, files, libraries and reports.

## Inventory

Paths are below `src/src/webvigil`.

**Scan runner and queue** (`api/runner.py`, `api/routes/scans.py`, `api/app.py`).
State: the scan table; `_dispatch` (a lock), `_event`, `_stopped`, `_current`
(the registered scan and its task). Operations: create, cancel and delete a
scan; the dispatch loop's claim, registration and wait; the scan task's load,
run and store; `stop`; recovery at start-up. Everything runs on one event loop,
but every database helper runs on a worker thread and is a read followed by a
write. Hard: a cancellation does not stop the thread the cancelled task waits
for; the claim commits before the scan is registered; rows are deleted without
the lock; SQLite uses ids again; the process may die anywhere. Correct means:
one scan at a time, no scan that cancel or stop can miss, a cancelled queued
scan never runs, statuses only move as promised, no lost wake-up, stop returns.

**Scan pipeline** (`core/orchestrator.py`, `checks/registry.py`). State: the
session, the warnings, each pass's hits. Operations: login, imports, crawl, the
selection of checks, nine passes, then all checks concurrently, then
de-duplication. Hard: which failures end the scan; passes that change the
target's state or end the session must come last; checks end in any order.
Correct means: nothing is sent in Active Mode without the attestation, every
failure is reported, no pass runs after the session was ended, and the report
does not depend on scheduling.

**Login session** (`http/session.py`, `auth/login.py`, `http/client.py`).
State: a live and a pending cookie jar, a generation, counters, a lock, the
URLs known to bounce. Operations: a request notes the generation, absorbs
cookies, and asks for a recovery when it was answered as logged out; a recovery
asks the reference page and logs in again. Hard: many requests notice one drop;
answers of the old session arrive during and after the handshake; any of the
handshake's requests fails. Correct means: recoveries do not overlap, one login
per drop, at most `max_relogins`, the login's own cookies are what is committed,
no request waits for ever.

**HTTP exchange** (`http/client.py`, `http/policy.py`, `http/scope_guard.py`).
State: a semaphore, the next start time of each host, the statistics.
Operations: take a slot, sleep, send, retry, follow a redirect. Hard: permits
held over sleeps and exceptions, start times granted in one order and used in
another, requests that were acted on although no answer came. Correct means:
the rate and the concurrency are bounded, nothing leaves the scope at any hop,
nothing unsafe is sent twice, the counters mean what the report says of them.

**Crawler** (`crawler/crawler.py`, `robots.py`, `sitemap.py`). State: the queue,
the seen URLs, the form inventory, the POST candidates done, counters.
Operations: seed, sitemaps, drain, submit, tally. Hard: forms and links appear in
the middle of a phase, five caps interact. Correct means: each URL asked once and
only if it may be, caps kept, nothing dropped in silence, the tally adds up,
multi-step flows are followed, it ends.

**Injection pass** (`checks/injection/{engine,models,points,stored}.py`,
`Crawler.recrawl`). State: the points, the scan's, the point's and the sleeps'
budget, the warnings. Operations: one point, one detector, one request after the
other; then the stored pass submits markers, fetches the pages again and looks.
Hard: a budget is charged before a request that may fail, and a detector sees the
same `None` for both. Correct means: the budgets nest, no point starves the others,
a stop is told, every detector has one turn.

**Detectors, upload, CSRF, envelope, session checks, disclosure probe**
(`checks/injection/detect`, `checks/upload`, `checks/csrf`, `checks/envelope`,
`checks/session`, `checks/disclosure/probe.py`). No shared state but a budget each:
sequences of requests whose number and meaning depend on the answers before. Hard: an
answer that is late, missing, noisy or shows anyway what is looked for. Correct
means: what a safe site does is not reported, what an unsafe one does is found, and
the budget is kept.

**Inputs** (`core/target.py`, `crawler/{har,openapi,safety}.py`, `checks/deps`,
`auth/scrub.py`). Each reads something long or hostile in one
pass. Hard: the order of rules and caps, allowances shared by several parts, partial
failures. Correct means: the scan stays on the target's site, no secret is kept or
repeated, nothing is lost untold, no allowance is passed.

**Body limit** (`api/body_limit.py`). State: the bytes received, whether the answer has
started, whether the body was refused. Operations: a declared length, a chunk that arrives, a
message the application sends. Hard: the application may read and answer in two tasks, and
the refusal is itself two messages. Correct means: one answer on the wire, the limit exact,
a body within it untouched.

**Accounts** (`api/routes/setup.py`, `auth.py`, `api/security.py`, `throttle.py`,
`deps.py`, `cli.py`). State: the user table, the failure table, tokens in cookies.
Handlers run on a thread pool, and a password check takes long. Hard: check-then-act
in setup, in the throttle and between a login and a change of password. Correct
means: setup closes, guessing is slow, a change of password decides who is in.

**Not program logic or pure input and output**: passive checks, configuration, page
parsing, reporting, the command line, the dashboard (it polls the API and keeps no
state that matters), database set-up and migrations, the TLS probe's sockets, tests,
documentation, vendored data.

The components meet in few places. A route puts a row in the scan table and
wakes the runner; the runner runs the pipeline as a task; the pipeline owns one
HTTP client, one session and one crawler and runs the passes in order; every pass
and the crawler call `HttpClient.request`, which goes through the session
(`LoginSession`), the scope guard, the limiter and the retries (`HttpExchange`). So the
models compose by abstraction: to the runner a scan is one step that may take for
ever, to the pipeline a pass is a step that leaves hits or raises, to a pass a request
is an answer or a failure, to the session an answer is authenticated or not. What one
level assumes, the level below is checked for: the injection pass takes a detector as
the stages of requests it may send, `Detectors` says what it concludes from them.

## How state and actions correspond to the code

An action is what one coroutine does between two awaits, or what one worker
thread does between two database calls. Where the code decides and acts without
an await in between, so does the model; where it does not, the model has two
actions and everything else may happen between them. Beside some definitions stands
a second form of them with a fault the code does not have (their comment says
*Variant*, or their name says which: `DelayLate`, `TakeUnpaid`, `OrderLogoutEarly`);
these show that a property can fail, and no specification uses them.

**ScanRunner.** `rows` and `found` are the database; `lock`, `event`, `stopped`,
`current` the runner's attributes; `task` and `call` the scan's task and the
database call it awaits; `late` the calls whose task was cancelled and which go
on unobserved; `loop`, `cancel`, `delete`, `stopper` say where each coroutine is.
`ClaimRead` and `ClaimWrite` are the two halves of `_claim_next_queued`, `Register`
is the assignment of `_current`; `CancelCurrent` and `CancelOther` are the two
branches of `cancel`; `MarkRead` and `MarkWrite` are `_mark_cancelled`;
`CancelTask` is `Task.cancel`, which leaves a late call behind when the task was
waiting for one. `Crash` loses everything but the rows, `Restart` is the recovery.
Timestamps, the event log and the findings' contents are left out.

**ScanLifecycle** is the abstract specification: rows that are created, claimed,
settled, cancelled and recovered, with no lock, thread or task. The runner implements
it under the identity mapping of `rows`.

**ScanPipeline.** `pc` walks `Order`, the passes in the order `run` calls them; `cfg`
and `disabled` are the configuration; `sent` records what went to the target and
under which session; `hits` the passes that left something for their checks. A step
may raise, which costs a warning or the scan according to its handler in the code. The
selection of the checks loads plug-ins, which may raise and has no handler; the OSV lookup
may raise `OsvLookupError`, which is a warning, or anything else, which ends the scan.
The selected checks end in any order (`CheckEnds`, `CheckRaises`); `Report` keeps one
finding of each fingerprint. A cancellation may come at any await.

**LoginSession.** A session is a token; 0 is the anonymous one a server hands out
in place of one it has forgotten. `req` is each task's request, with the
generation and the token it was sent with; `valid` and `issued` are the server's.
`Receive` is what `request` does with an answer: absorb, then end, or look for a
recovery, or, on the second try, learn the URL. `Ask`, `Asked`, `LoginServed`,
`Commit` and `LoginFails` are the handshake under the lock. `Reference` is the page a
recovery asks, `check_url` or the page the last committed login landed on; `Commit`
replaces that page by wherever this login landed, which may be another page or none. With
no page to ask a recovery logs in at once, and `blind` counts those of such logins that a
page caused that bounces whatever the session. The form, its fields and the rules that
verify a login are one step that succeeds or fails; a refused login the rules take for an
accepted one, and a public landing page (which answers alike in and out of a session), are
not modelled.

**HttpExchange.** `free`, `next` and `now` are the limiter and the clock; `req` is
each task's attempt; `stats` is `HttpStats`; `sent` and `exchanges` record what
was sent. The limiter's lock is never held over an await, so `Acquire` grants the
permit and the start time in one step, and `Transmit` happens at that time or
later. The outcomes of an attempt are one action each.

**Crawler.** `walk` holds what reading an answer changes, `at` the phase. What the
site answers is any list of links and forms of a given set; that a URL is a
logout, destructive, disallowed or out of scope is given by sets of names, so the
regular expressions that decide it are not modelled, what follows from them is.
The crawl implements `SiteSearch`, the abstract specification: a search that visits what it
knows of and may visit, once and within its room, sends a candidate only when nothing it knows
of is left, tells what it does not keep in mind, and ends only when nothing it may do is left
or no room is. The mapping takes `known` from `walk.seen`, `told` from `walk.limits`, and
`room` and `allowed` from the configuration; the queue, the sitemaps' counters, the phase and
the tally have no counterpart, so a URL that robots.txt refuses and the passage from the drain
to the POST phase are stutters. Two
candidates of the POST phase may share the key they are remembered by
(`crawler.py:630-638`: an operation without an id is its method and path, although a
recording tells operations by their parameters too); the second is then neither submitted
nor counted. So `TallyAdds` puts the tally between the number of distinct candidates and the
number of all; the two are equal whenever no key is shared.

**InjectionPass.** `points` is `enumerate_points` of the crawl's `surface`; `budget`
is `ActiveBudget`; `kinds` are the detectors still to run on a point, `left` what is
left of the stage in hand. `Probe` sends one request or is refused one; a detector
ends with a hit, goes on, or gives up at a refusal. `Submit`, `Refetch` and `EndStored`
are the stored pass; `frontier` counts what `recrawl` has still to fetch.

**Passes.** `Site` declares one operator, `Ask(site, n, request)`: what a site answers
to the n-th request of a pass. `Detectors`, `ActivePasses` and `DisclosureProbe` are
written against it, one operator per function of the code, a recursive function or a fold
where the code loops. A payload is a record of what matters of it (its side of a pair, its dialect,
its delay), an answer a record of what is read of it (its status, a name for its
body, its time, the signatures it shows). `MCDetectors` and `MCPasses` give sites to
`Ask`; one step of `Judge` runs a pass over one of them.

**Imports, Dependencies.** The loops of the loaders as folds over their
entries, with every reason to leave one out. `Shape` and `Synth` are the
construction of a body from a schema, with its allowances passed along. Hosts are
sequences of labels and labels of words, so that one name can end in another.

**BodyLimit.** `received`, `rejected` and `started` are the variables of `__call__`; `at`
says where it is, in `_reject` or before the application's next read; `sender` is the message
`guarded_send` has let through and the server has not taken yet. `Receive` is
`limited_receive`, `Send` the first half of `guarded_send` (its test and its assignment, with
no await between them) and `Sent` the second. `arrived`, `given`, `answered` and `body` are
what the properties compare.

**Accounts.** Each handler is cut where another thread of the pool may come in:
before and after Argon2, between the read of a row and the commit, and while the
throttle's table is walked. A failure is recorded for the client (`LoginVerify`) and then for
the name (`LoginRecord`), and other requests may come in between. A token is its claims with, beside them, the password it
was obtained with and when the row had been read, which only the properties look at.

## Runs

Every run finishes in under two minutes on two workers. A property that has parts is
a conjunction; its parts are named in the second table.

| run | question | bounds |
|---|---|---|
| `scan_safety` | one slot; no unregistered run; no cancelled scan runs | two rows, three creations (so an id is used again), two cancel handlers, one delete handler, two process starts |
| `scan_live` | the promised lifecycle, findings with their commit, no lost wake-up, cancel and stop take effect | two rows, one cancel handler, two starts, one database fault, no deletion |
| `scan_loop_dies` | does the loop run until stopped? (no) | one start, one delete handler |
| `pipeline` | the attestation, the session's end, failures, the report | both modes, 64 option sets, five sets of checks, two steps that raise, a cancellation anywhere (112,672 states) |
| `login_safety` | serial recoveries, the cap, the committed cookie | three tasks, three requests, two drops, one fault, a server that replaces cookies |
| `login_live` | one login per drop, authenticated answers, every request ends | two tasks, two drops, one fault, with and without a `check_url`, logins that land on two pages or on none (507,953 states) |
| `exchange` | rate, permits, scope, replays, counters, progress | three tasks, two permits, one delay tick, three attempts, one hop, three requests |
| `crawl` | asked once, caps, refusals, tally, the search it promises (nothing forgotten, flows followed), end | six URLs, five forms, one operation, four configurations (16,828 states) |
| `injection` | three nested budgets, their warnings, each detector's turn | three surfaces of two to six points, six detector kinds, eleven requests, six a point, two sleeps, three markers (56,725 states) |
| `passes` | what is reported of a site, and at which cost | some 312,000 pages and sites (see below) |
| `inputs` | what is taken in and let out | some 172,000 targets, files, libraries and reports (see below) |
| `web_api` | setup, throttle and change of password among concurrent requests; one whole answer under an exact body limit | two clients, two names, two passwords, three attempts, three seconds, a table of three keys; a limit of three bytes, lengths and chunks below, at and above it, four reads, an answer of a start and two parts (2,473,594 states) |

| property | its parts |
|---|---|
| `RecoveryIsOrderly` | `RecoveryIsSerial`, `CapRespected` |
| `LoadIsBounded` | `RateBounded`, `PermitsAreConserved` |
| `AsksOnceAndSafely` | `AskedOnce`, `AsksOnlySafe`, `SubmitsOnce` |
| `FailuresAreTold` | `NothingSilent`, `OnlyTheseAbort` |
| `BudgetsAreShared` | `BudgetsNest`, `EveryPointGetsItsShare` |
| `SafeIsNotReported` | standing text, noise, one late answer, shared delimiters, reflections, sanitised names, protected forms, ended sessions, fixation, samples of ids, closed directories, error pages |
| `UnsafeIsFound` | row-changing pages, sleepers, the shared turn of two template languages, uploaded scripts, open forms, one open cookie, exposed files |
| `PassesAccount` | budgets, the price of an upload form that keeps nothing, one check for a hit, one report for a page, refutals that were answered |
| `ScanStaysHome` | scope, targets read back, safe seeds, secrets of a recording, secrets in a report |
| `NothingReadIsLost` | entries, the session of a recording, descriptions, versions, advisories, upgrades, partial lookups |
| `ThrottleHolds` | `TableInOrder`, `GuessingIsSlow` |
| `ChangeDecides` | `OnlyRacesOutliveAChange`, `ChangerStaysIn` |

Three properties are stated and proved but have no run of their own, because one that is
checked says more: a search that tells what it leaves out and sends only when nothing is
left to visit (`CrawlRefinesSearch`) forgets nothing (`NothingForgotten`) and follows a
flow (`FlowsAreFollowed`); a client that gets the 413 alone or the application's messages
in their order (`BodyLimitIsExact`) gets one answer (`OneAnswerOnTheWire`). `MCWebApi` runs
`Accounts` and `BodyLimit` side by side, one of them at rest: they share no state.

Why the bounds are enough. Every hazard of the runner takes one scan that is
cancelled and one that follows it, one handler that holds a stale read and one
that changes what it read; a third creation is there because only then an id is
used again. A drop of the session concerns a request that notices it, one that is
late, and one that is answered meanwhile: three tasks, and a second drop to tell
"once per drop" from "once". Two permits and three tasks make one wait for a slot
while another sleeps; three attempts are the code's own number. The crawl's lists
hold each kind of link and form, together and apart, and each cap is both reached
and not reached in some configuration. In the pipeline the options are those whose
passes interact, the others come together; at most four checks are left enabled, so
that every order of them is explored, and each pass has its check in one of the sets.
The injection budgets are such that the scan's, the point's and the sleeps' limit each
refuse a request on some path, both passes run out of theirs, and the fetches reach their
cap. In `Accounts` a race takes two requests; the third attempt is the one that should have been stopped, and a token lives for two
of the three seconds, so that it is met both alive and expired. Three bytes are enough for
the body limit: a chunk of one byte passes it after one that reached it, and the largest
passes it alone; four reads leave room for what comes after the refusal.

The inputs of `passes` are products of the traits a pass tells apart. For example an
upload site refuses nothing, scripts or pages; answers all uploads alike or not;
links, serves from a usual place or hides what it stores; runs, shows, downloads or
prints it; lets a name climb or not; takes PUT or not; and may lose a request; the
budget ends the pass early, in the middle or not at all. A time-based page has its
dialect, one late answer at any request and one lost at any request, for every delay
from 1 to 8 seconds. `inputs` likewise: every pair of recorded entries that each
differ from a plain one in one way, every schema of three nodes that may refer to
each other, every two vendored advisories of a library, their ranges apart or overlapping,
with every set of detections, and records of OSV that are usual, carry nothing usable or are
of a shape the parser does not expect.
Properties that need a healthy answer
say so in their premise, and the rest of the family has the failures.

What bounds time is named in the constants: `MaxCreates`, `MaxStarts`, `MaxFaults`,
`MaxDrops`, `MaxRequests`, `MaxIdleTime`, `MaxTries`, `MaxClock`, `MaxReads`,
`MaxParts`. A system that has used them up stops, and so does a finished scan, so the runs say `CHECK_DEADLOCK FALSE`. That
nobody is stuck before is a property of its own where it matters: `QueueDrains`,
`StopReturns`, `RequestsEnd`, `NobodyIsStuck`, `CrawlEnds`.

### Fairness

The event loop runs every coroutine that is ready and the thread pool every
call, so their steps are weakly fair. `asyncio.Lock` and `Semaphore` serve their
waiters in arrival order, so a coroutine that waits for the dispatch lock or the
recovery lock gets it although it is taken and released in between: strong fairness
for exactly those steps. Nothing is assumed of the orchestrator (a scan may take for
ever), of clients (they may never call) or of faults. `QueueDrains` alone assumes
that scans end, and says so in its formula; it and `CancelTakesEffect` except a
dead loop, which is a finding. In `LoginSession` the server answers every request
or the request times out; the client's timeout is the reason. The crawl is a single
coroutine. The other models state safety only and no fairness.

## What the checks found

Deleting a scan while its cancellation is being marked makes the mark raise, and the
exception ends the dispatch loop (`scan_loop_dies`): nothing is dispatched until a
restart. A database error in the same place does the same.

### Known limits

The models show more, which the properties allow for where they speak of it. Each
follows from the lines its definition maps to.

*Runner.* Cancelling a scan whose result is being stored can leave a `CANCELLED` scan
with findings: the commit goes on in its thread while `_mark_cancelled` reads and
writes the status in two steps. `SettledButForTheRace` delimits it: no settled status
changes but by one of those two calls. Scan ids are used again after the newest row
was deleted; `CancelledNeverRuns` holds all the same.

*Session.* An answer to a request sent under the old session may replace the cookie a
re-login has just committed, which costs a second login; `OneLoginPerDrop` is therefore
checked with a server that leaves the cookie of a dead session alone. When the reference
page cannot be fetched, a URL that noticed a real drop is remembered as one that always
bounces; `AnswersAreAuthenticated` allows for it. Every committed login replaces the page
to ask, by none when it landed on no usable page, and even a login that could not be
confirmed is committed: from then on, without `check_url`, each request to a page that
always bounces may cost a login although nothing was dropped. `OneLoginPerDrop` counts those
logins (`blind`) beside the drops, and they are the only ones beside them.

*HTTP and crawl.* A body that cannot be decoded leaves `HttpClient.request` as an
exception outside the classes it catches. A link that redirects to a logout is followed
into it: redirects are judged by scope only.

*Accounts.* A token minted in the same second as a change of password, or by a login
that had read the row before the commit, survives the change
(`OnlyRacesOutliveAChange` allows for exactly these). As many guesses as are in flight
together pass the throttle at once (`GuessingIsSlow` counts them). Setups that counted
none before the first commit all create an account (`SetupOnlyRaces`). For one key the
removal, the cap and the insert are one step here, as is the removal of both after a success;
and the two keys of a failure are recorded within the second it was timed in, while
`record_failure` reads its clock once, before the loop. Threads that are interrupted there
may put the table over its cap by one each, and out of order by as long as they waited.

*Injection.* The caps on markers and refetched pages end the stored pass with one
warning at most, a marker cap with none. With a delay of 1 to 3 seconds the band of the
half delay begins at zero, so one late answer may confirm a sleep
(`OneSpikeIsNoProof` starts at four); XPath and LDAP have no guard against a page that
changes by itself; a failed request in the arithmetic loop of the EL detector loses the
polyglot's signature.

*Upload, CSRF, envelope, logout.* The cap per upload form ends without a warning. A
server that answers all uploads alike and keeps only some types is missed, and one that
serves from an unusual directory makes a sanitised name look like a traversal
(`SanitisedNameIsNoTraversal` names the usual ones). An envelope budget that ends inside
the last URL gives no warning. A server that refuses with the page it shows on success
cannot be told from one that accepts. A second logout with a stale token and a reused id
is reported wrongly (the premise of `EndedSessionIsNotReported`).

*Disclosure.* The calibration speaks for the root only. A failed control request counts as
"not forbidding", for the rest of the pass. A page shown only for missing directories is
taken for a repository if the third calibration request was lost, and a file whose length
is within 15% of a large error page is missed. `DeniedDirectoryIsNoEvidence`,
`NotFoundIsNoHit` and `ExposedIsFound` say so.

*Pipeline.* A plug-in that cannot be imported ends the scan when its checks are selected,
after the crawl. So does an OSV lookup that raises anything but `OsvLookupError`.
`OnlyTheseAbort` names both.

*Inputs.* A record of OSV whose parts are of an unexpected type (`affected: 3`) raises
outside the `try` (`osv.py:397`) and the whole lookup is lost, and the scan with it, although
`osv.py:16-18` and `docs/dependency-fingerprinting.md:85-87` say that a failure is told as a
warning and costs its own enrichment only. `FailureCostsItsOwn` allows it for such a record
alone. Advisories merge with the first bucket they share an identifier with: one that
bridges two buckets does not join them. The version advised is the lowest upper bound of the
matched ranges: it is newer than what was detected (`AdviceIsAnUpgrade`), but it may lie inside
another of them when ranges overlap, and it is advised although another has no end. Words in
a server's base path (`/delete/v1`) are not looked at by the rule that skips operations
(`openapi.py:41-46`), only those in the path below it. A script the crawl itself fetched is not fingerprinted from its body.
Public suffixes that are not listed count as one label. A malformed port is a plain
`ValueError`, and `host:port` without a scheme is refused. Secrets in a recorded path are
kept. `properties: {a: true}` in a form body of a description raises `TypeError`, and the
scan ends before its crawl (`LoadOpenApi`). Scope
compares hosts, not ports. Words joined by an underscore (`place_order`) or a plural
(`orders`) are not recognised by `safety.py`. After an answer has begun, or after the
413, further chunks of a body are passed uncounted (`BodyLimitIsExact` counts
what arrived before the answer was begun).

## Proofs

`ScanRunnerProofs` proves, for any number of rows, handlers, restarts and faults,
`TypeOK`, `OneSlot`, `RunningIsRegistered` and `CancelledNeverRuns`. `OneSlot` is not
inductive. The argument: the loop holds the lock from the claim to the
registration and a cancel handler while it writes (`LockDiscipline`), so a row that
the claim has read as queued is neither cancelled nor claimed before the claim
commits (`PickIsFree`); where the loop is says whether a scan is picked or
registered (`Registration`); a task returns only after its row has left `RUNNING`
(`ReturnSettles`); hence a `RUNNING` row is the one just claimed or the registered
one, or this process claims nothing more (`Slot`). There is one lemma per action or
group of actions. Assumed: the bounds are naturals, and `None` and the handlers'
names are not ids.

It also proves the refinement of `ScanLifecycle`: every behaviour of the runner is, row for
row, one of `ScanLifecycle`; with it `SettledButForTheRace` and
`FindingsFollowCompletion`. The mapping needs to know that what a thread has read is
still true when it writes. The invariant adds to the runner's: ids have no gaps
(`Contiguous`), the row picked is still the oldest (`PickIsOldest`), the row a cancel
handler read is still queued (`CancelIsDue`), the claimed row runs until its own task
or the call that task left behind settles it (`CurrentRuns`), each cancelled task
leaves one call at most, and no other may settle its row (`LateIsAlone`), and a new
process starts clean (`DownIsClean`). For the findings, a call left behind has stored
nothing yet (`Stored`). Assumed besides: no deletions (`Deleters = {}`), as in
`scan_live`; with them the abstract lifecycle would have rows vanish at any time and
promise little.

`ScanPipelineProofs` proves, for any set of configurations, checks and findings and any
finite number of faults, `TypeOK`, `AttestedOnly`, `SessionOutlivesPasses`, and both
parts of `FailuresAreTold`. The invariant says where a scan can be (`Places`), that
whatever was sent or is still to come has passed the gate (`Gated`), that from the
login to the logout test the session is what the login opened (`SessionFollows`), and
that a scan that goes on has told what failed and what it may not do (`Told`). An abort is
the gate's, with nothing failed before, or that of a step with no handler for what it raised
(`Uncaught`): then that step failed, and whatever else had failed is among the warnings.
`ReportIsComplete` says that a report is the same in every order the checks may end in. It
rests on what the loop of `_dedupe` computes: the first finding of each fingerprint
(`DedupeKeepsFirsts`), so that lists without a common fingerprint are de-duplicated each on
its own (`DedupeOfBoth`). A fingerprint holds the check's id, and a check reports under its
own id (`base.py:105`), which no other has (`registry.py:44-52`): that is what
`SiteAssumption` asks of findings.

`LoginSessionProofs` proves, for any number of tasks, URLs, sessions, faults and
logins, `TypeOK`, `RecoveryIsSerial`, `CapRespected` and `CommitsTheLogin`. The
inductive invariant says what the lock means: its holder is exactly the task that is
recovering (`LockIsRecovery`), the pending jar collects only while that task logs in
and holds the newest session once the form was accepted (`JarIsTheLogin`), a login is
begun within the budget (`WithinBudget`), and a request that is not idle has a URL
(`Named`), without which `known` is not well typed. Two lemmas carry most steps: a
task that stays outside a recovery changes none of this (`StaysOutside`), and one that
gives up the lock leaves no jar behind (`LeavesRecovery`). Assumed: `None` is neither a
URL nor a token, and the name of the free lock is not a task.

`OneLoginPerDrop` and `AnswersAreAuthenticated` are theorems with hypotheses about the
target and the settings, the same that `login_live` is run with: the server leaves the
cookie of a dead session alone (`CookiesKept`), a page that may be asked does not always
bounce (`ReferencesTell`; a `check_url` is configured as one that answers differently,
`config.py:175`, and a login that ends on a login page has no landing page,
`login.py:309-314`), and for the second a login is allowed at all (`MayLogInAgain`). Without
the first, the run of the model with a server that replaces cookies has two logins for one
drop. The invariants: whatever was sent under the present generation was sent with the
live token unless it is a retry (`SentUnder`); a logged-out answer to a page that does not
always bounce means that its session is dead, and a login under way is due to a dead
session or `Accounted` for by one begun blind (`Told`); so every committed login retired a
session of its own or was begun blind (`Counts`); and while nothing failed, one session
ended at most and no login was begun blind, what is known to bounce does and no login is
lost (`SInv`). The page to ask may change with every commit: nothing is assumed of it but
that it is one of `CheckUrls` and `Landings`.

`HttpExchangeProofs` proves, for any finite number of tasks and any number of hosts,
permits, attempts, hops and any delay, `TypeOK`, both parts of `LoadIsBounded`,
`ScopeKept`, `NoReplay` and `AccountsAdd`. What is in flight has passed the scope
guard (`Guarded`); every exchange is still to be sent or was counted, and a retry is
one that was counted before (`Ledger`), so the counters add up when nothing is in
flight. Sets of tasks are counted by one lemma: a step of one task changes a
cardinality by what it does to that task (`OneTaskMoves`). The rate takes an invariant
of its own, because a task that wakes late may be overtaken: the next start leaves a
delay for every grant there has been (`Spaced`), and at any time from now on, the
requests sent and the starts due by then are at most one per delay (`Paced`). At the
present time that is `RateBounded`.

`CrawlerProofs` proves, for every site and any limits, that pages and submissions stay
within their caps (`BudgetsHold`), that nothing is submitted while a URL found before it
waits (`FlowsAreFollowed`), and `AsksOnceAndSafely`, `NothingForgotten` and `TallyAdds`.
For the first two: the tally has its counters (`Tallied`), the seed comes first
(`SeedFirst`), and the POST phase is entered, and entered again, only with an empty queue
or no page left (`DrainedFirst`). For what is asked and forgotten: a URL is queued when it
is first seen, if it is welcome, and never again; it is queued until it is asked for; and
what a page showed is seen or a limit has been told of (`Fine`). Each loop over a page's
links or forms is shown to do no more than that to the walk (`Grown`: `EnqueueAllGrows`,
`CollectFormsGrows`, `AnswerGrows`). For the tally: a candidate that is done was found, and
was submitted once or skipped (`DoneInv`, `TallyInv`). Assumed of a site: lists of links
and forms are lists of the URLs and forms there are, and the seed is in scope.

It also proves the refinement of `SiteSearch` (`CrawlImplementsSearch`). Every step learns as a
search does: nothing seen, shown, met or told of is taken away (`StepsKeep`), and what was
shown is in mind or told of, which is the last part of `Fine`. The head of the queue is due
(`HeadIsDue`), so a fetch is a visit; an empty queue means that nothing is left to visit
(`DrainedIsVisited`), so a submission and the end come in time. What the tally counts as
submitted is the number of the candidates that were (`SearchInv`), and what is done and might
be submitted was, so the crawl does not end before an offer it had room for.

`InjectionPassProofs` proves, for every surface, every script of a detector and any
limits, `BudgetsNest`, `EveryPointGetsItsShare` and `StopsAreTold`. The share needs what
the points before have cost: all that was spent but the point in hand's part is at
most one point limit for each point begun (`Share`). The warning needs that the scan's
limit, once it has refused, stays reached (`RefusedForGood`); `SubmitAtRest` says that the
stored pass starts with nothing in hand. `EachKindOnce` holds for any base order and any
heuristics: what a comprehension keeps, a move to the front and the merge of the two
template languages each leave a list that names every kind once (`OnlyTurns`,
`ToFrontTurns`, `MergeElTurns`), and the detectors that have run and those left are always
the whole of that list (`TurnsInv`). Assumed: the base order names no kind twice and does
not name the merged entry (`engine.py:98-114`).

Of latency it proves, for any set of dialects, any site and any delay, what the runs show on
a family of pages. `OneSpikeProvesNothing`: on a site that answers promptly but for one
request, `Time` concludes nothing at a delay of four seconds or more, or a MEDIUM hit whose
confirmation went unanswered, because the half of the delay is then two seconds at least and a
HIGH hit needs two late answers (`AHitIsSuspected`: every hit rests on three requests in a
row). `SleepersAreFound`: when every request is answered and one of the dialects makes the
site sleep as long as it is told, give or take a second, there is a hit, and it is HIGH. What
one dialect comes to is one lemma (`OneDialect`), and the list of them is walked by the
induction of `ListProofs` (`TimeIsAsked`). Assumed: latencies are milliseconds.

Of the upload and the envelope pass it proves the budgets, whatever the site answers, fails or
refuses and however the loops nest. `UploadKeepsItsBudget`: no more is sent than the budget,
and when something was left out for want of it there is a warning. `EnvelopeKeepsItsBudget`:
the same bound, a warning only when the budget is spent, and without one every sampled URL was
begun. The invariant is the set of what a pass may carry (`Carried`): spent never passes the
budget, and `cut` is only set once it is reached, which every step of a probe keeps (`Sending`,
`Looking`, `Retrieving`, `TryingPayload`, `ProbingForm`, `Putting`; `TryingVector`,
`PoisoningHost`, `AskingOptions`, `ProbingUrl`, `Tracing`). Assumed: the answers are of some
set; an upload's answer links a list of places; and the sample of the envelope pass holds the
entry.

`WebApiProofs` proves `SetupOnlyRaces`, `ChangeDecides` and `ThrottleHolds` for any
number of clients, names and passwords and any limits. Setup: the accounts and the setups
still under way that had counted none (`Counted`) are together no more than those that
were under way when the first account was committed. A change of credentials: whatever a
handler or a cookie holds was obtained with the row's present password, or before the
moment the row was last committed (`Obtained`), and this is kept by any step that never
removes a row and stamps one it writes (`Advances`). The throttle: the table stays sorted
by its last failure with one entry for each key, although another request may come in while
it is walked (`Sorted`), and the failures of a key are bounded by the time between its
first and its last, with an allowance for the attempts in flight (`Slow`). The delay
doubles with each failure; that it is never less than one second is all that the bound needs
(`DoubledIsAnInterval`).

Of the body limit it proves `BodyTypeOK`, `OneAnswerOnTheWire` and `BodyLimitIsExact`, for any
limit, any lengths and chunks and any number of messages. The properties speak of the wire and
of histories; the invariant says what they are by the variables of `__call__`: the declared
length was too much and nothing was read (`Refused`), the limit was passed and only the 413 is
or will be on the wire (`CutOff`), or all went through, the answer one message late at most
(`PassedOn`). What makes it inductive is that the limit is never passed once an answer has
begun, because `started` is set in the same step in which a message is let through.

**Lists and recursion.** What a loop over a list computes is proved by induction on the
length of the list. The library states induction for an operator given as a parameter, which
the provers cannot instantiate; `ListProofs` states it for a set of numbers instead. From
the well-foundedness of finite sets every set of numbers that is not empty has a least
element (`LeastNumber`), hence a set that contains 0 and with each number the next contains
them all (`Upto`), and a recursive function exists (`Recursion`). On these rest what `At`
selects (`AtSelects`, `AtLength`) and the loops of the crawler, the pipeline, the injection
pass, `Time`, and the upload and envelope passes, which are therefore written as recursive
functions and not as folds.

**Only model-checked.** Liveness (`QueueDrains`, `CancelTakesEffect`, `StopReturns`,
`RequestsEnd`, `CrawlEnds`) and `NobodyIsStuck`, which speaks of `ENABLED`: both are beyond
the prover. (`PermitsComeBack` proves of the latter what the guards come to: some request in
flight waits for no permit, or finds one free.) The properties of `passes` and `inputs`
(`SafeIsNotReported`, `UnsafeIsFound`, `PassesAccount`, `ScanStaysHome`, `NothingReadIsLost`,
`BodiesShareOneAllowance`) relate what an algorithm concludes to what a given site or file is,
over a family of inputs; the loaders' modules are recursive over trees of data. Three of their
parts are proved in a general form, as theorems of their own: `OneSpikeIsNoProof`,
`SleeperIsFound` and `BudgetIsKept`. The refinement with deletions, as said above.
`LoopRunsUntilStopped` is false.

## Not modelled

Passive checks are functions of one fetched page, a table of headers, texts and
patterns: their selection and their failures are in `ScanPipeline`, what they match is
not. Configuration is read and validated by a library; the settings that matter are
constants. Page parsing and `safety.py` are HTML and regular expressions; what they decide
enters as sets or nondeterministic choices, as does the text of robots.txt and sitemaps.
Payload texts, signatures and the similarity of two bodies are names and equality: two
bodies are similar when they are equal. Version strings and CVSS vectors are numbers. The
TLS probe is sockets under one slot of the limiter. Reports, the command line, the
dashboard, the schemas and routes that only read, migrations and SQLite's own guarantees
beyond "a commit is atomic and isolated" are input and output. Cookies are one token per
session, not names, paths and expiry; the login form's discovery is one step that succeeds
or fails. Wall-clock time is a counter. Argon2 and JWT are what they promise. A second
server process on the same database is outside the code's own assumptions, but for
`reset-password`, which `Accounts` has.
