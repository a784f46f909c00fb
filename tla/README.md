# A TLA+ model of realtime-cpi-crawler

The crawler is one Go process. It accepts crawl jobs over HTTP, keeps them in
memory, hands them through a bounded queue to a fixed set of workers, fetches
and persists every page of a job, publishes what it persisted, and reports its
progress through an event hub into Postgres. This directory models the parts
where goroutines, contexts, failing writes and shutdown meet, checks them with
TLC on small instances and proves every safety property among them with TLAPS, for
all values of the constants.
Line references are to the Go source; `PROJECT.json` maps every definition to the
lines it stands for.

## 1. Inventory

| Part | State | Operations | Interacts with | What makes it hard |
|---|---|---|---|---|
| Job API (`api/server.go`) | none of its own | submit, cancel, status, result | job store, dispatcher | each request is a goroutine; a submission may wait 5 s for the queue; the result is read in two calls |
| Job store (`storage/memory/job_store.go`) | job records, page rows | create, update, record page, read | API and workers | last writer wins |
| Queue, dispatcher | a buffered channel | enqueue, dequeue, close | API, workers, shutdown | full queue, cancelled contexts, send on a closed channel |
| Worker job loop (`worker.go`, `Run`, `processJob`) | locals of one job | take, start, loop, finish | store, queue, hub, contexts | deadline and shutdown may come between any two steps |
| Page pipeline (`worker.go`, `handleURL` and below) | locals of one page | policy, retries, promotion, seven writes | fetchers, blob store, job store, retrieval store, publisher | partial failure, unknown outcome of a failed write |
| Request parameters (`api/server.go`) | none | `toJobParameters`, `applyDefaults` | API, fetchers | a field left out against a zero or a false |
| Probe fetcher, robots transport (`fetcher/colly`) | shared HTTP client, robots cache, rules and visited set of colly | Fetch, RoundTrip, retries, fallback | page pipeline | clones share a client, calls outlive their contexts, caches that are never cleared |
| Headless detector (`heuristic.go`) | none | ShouldPromote | page pipeline | index arithmetic over malformed pages |
| Headless fetcher (`chromedp.go`) | a channel of slots, the document events of a call | acquire, navigate, capture, release, Close | page pipeline | slot leaks, two contexts, events in any order |
| Progress hub (`progress/hub.go`) | channel, batch, timer, closed flag | Emit, run loop, Close | workers, sinks, shutdown | Emit races with Close, timer handling, back-pressure |
| Store sink, progress repository, retrieval store | `job_runs`, `site_stats`, retrieval rows | Consume; three upserts; ensureJobRun and INSERT | hub goroutine, workers | two writers without a common transaction, batches given up halfway |
| Progress read API (`progress_handlers.go`) | none | list runs, get run, list sites | progress repository | paging while rows are inserted |
| Configuration (`config.go`) | none | Load: file, environment, defaults, DSN, Validate | process lifecycle | defaults that meet tests for "not set" |
| Process lifecycle (`main.go`, `server/fx.go`) | the application's parts | Build, Run, Close | everything | parts that may be missing, order of closing, nobody waits for the workers |
| Rate limiter | token buckets per domain | Wait | page pipeline | blocking under a context |
| Blob stores, publishers, telemetry, identifiers | little or none | output | | mostly pure or external |

What correctness means, part by part: a submitted job is crawled once or not at
all and, until the process exits, its answer says which; the record, the page rows and the events of a job
agree; what is published exists; retries and browser slots are bounded and every
page ends; robots.txt and the client's choices are honoured by both fetchers
whatever calls overlap, and a fetch keeps its time-outs; the hub loses nothing it accepted while it runs; the
process closes what it uses last and does exit; the database never contradicts
what the worker reported, and paging through it skips nothing as long as the queries
are answered in full. The hazards behind these are listed, each at its line, in
`PROJECT.json`.

## 2. Modules

| Module | Models |
|---|---|
| `JobStore` | the job store's methods as operators over the job map |
| `JobLifecycle` | abstract: what the service promises about one job |
| `CrawlService` | API handlers, queue, worker job loop, shutdown; implements `JobLifecycle` |
| `PagePipeline` | one call of `handleURL`, with the headless slots |
| `JobParameters` | operators: from a submission to the parameters of a job |
| `ProbeFetch` | the probe fetcher, its robots transports, and colly as far as calls share it |
| `Detector` | operators: the promotion heuristic, and a reference definition for its loop |
| `HeadlessFetch` | the headless fetcher: slots, time-outs in ticks, captured documents |
| `PageFetch` | composes the four: how one page is fetched and promoted |
| `ProgressHub` | the event hub |
| `Configuration` | operators: `config.Load` |
| `AppLifecycle` | composes `Configuration` and `ProgressHub`: load, build, run, close, exit |
| `ProgressStore` | store sink, progress repository (writes), retrieval store |
| `ProgressRead` | operators: handlers and queries of the progress read API |
| `CrawlServiceProofs`, `CrawlServiceRecordProofs`, `PagePipelineProofs`, `ProbeFetchProofs`, `PageFetchProofs`, `ProgressHubProofs`, `AppLifecycleProofs`, `ProgressStoreProofs` | the theorems |
| `MC...` | instances for TLC: constants and symmetry sets |

The modules meet in a few places. `CrawlService` uses `JobStore` directly. It takes
`handleURL` as one step with the outcomes that `PagePipeline` shows it to have
(`OutcomeMatchesArtifacts`: succeeded with everything stored, failed with or without
a page row, neither counted nor stored). `ProgressStore` takes the hub as a FIFO
that may drop at the entrance and is cut into batches anywhere, which is what
`ProgressHub` shows (`NothingLostOrReordered`, `EmitDrop`), and refines the
`retrieval` write of `PagePipeline` into its two statements. `PageFetch` is a closer
view of the two steps in which `PagePipeline` calls a fetcher; that a fetch returns is
what the fairness of `PagePipeline` assumes, and `HeadlessBounded` and the select of
`runCollector` are why it does. In `AppLifecycle` the hub exists if the configuration
asks for it, its emitters are workers that nobody waits for, its first sink writes
through the pool of the progress repository, and the one call of its `Close` is a step
of the application's; the sizes of the hub must be those of the configuration
(`HubConfigAssumption`).

### JobStore and JobLifecycle
A job record keeps status, error text, counters and whether `Started` and
`Finished` are set; times are not kept, and an error text is one of the texts the
code can produce. `UpdateJobStatus` overwrites everything, as the code does.
`JobLifecycle` says: submitted once, started at most once and then "running",
finished at most once and then terminal; a cancel may overwrite the status at any
time and does nothing else. When the process stops, every job is gone, in whatever
state it was.

### CrawlService
State and code: `jobs`/`pages` are the store's maps, `queue` the channel, `req[j]` the
POST request of job `j` and its answer, `wpc`/`wjob`/`local` a worker's place in
`Run`/`processJob`, its item and its local variables, `phase` the process, `reader` the
result requests; `emitted` and `apiCanceled` are history. Every access to the store,
the queue, the emitter or a context is a step of its own, so that every other
goroutine can come between two of them. `Submit` is `enqueueJob` up to `CreateJob`;
then `Enqueue`, `EnqueueDeadline`, `EnqueueCanceled` or `EnqueuePanics` ends the request.
Worker steps follow `processJob` line by line. `Signal`, `CloseQueue` and `Exit` are
`App.Run`, `App.Close` and the return of `main`. Requests and workers go on until then,
also those that outlast the ten seconds of `srv.Shutdown` (`Alive`); a send after
`CloseQueue` panics (`QueueOpen`). `Exit` empties the queue and takes every worker with
the job it holds: both are memory of the process, and nobody waits for them. `jobs` and
`pages` then keep what a client could see last.

Requests refused with 400 or 404 change nothing and are left out. The answer is the
handler's; whether a client is still there to read it does not matter.
`server.timeout_seconds` (60 s by default) is taken to be longer than the 5 s of a
submission. `jobs` and `pages` are in memory only, so a crash leaves nothing to
recover.

### PagePipeline
`pc` follows `handleURL`; the labels after promotion are the artifacts in the order in
which `persistAndPublish` writes them. A write fails with or without effect; the page
row is the exception, since `RecordPage` appends in memory and cannot fail. Errors of
the hasher and of the page id happen before the first write and look like a failure
of it without effect. `limiter` is the length of the slot channel. `max_parallel`
greater than 0 is assumed; without a limit there is nothing to check.

### JobParameters, ProbeFetch, Detector, HeadlessFetch, PageFetch
`JobParameters` keeps the difference between a pointer that is nil and one to a zero,
since `applyDefaults` does not: a zero becomes the default in either case, a false
only if the field was left out.

`ProbeFetch` has one call of `Fetch` per element of `Fetches`, `fpc` its collector
goroutine and `out` what the caller has been given: the two part when the context ends
(`FetchCanceled`). `installed` is the transport in the client that all clones share, so a
lookup that begins late goes through another call's `robotsAwareTransport` and marks
that call's state (`look[f].via`). `cache` is `RobotsCacheTransport`'s, `robotsMap` and
`visited` are colly's; none is ever cleared. A robots.txt is the set of paths it
forbids, and a site may serve another one each time. Of colly only what the comment at
the head of the module names is used.

`Detector` reads a body as a sequence of tokens with byte lengths, which is all that
`scriptDensityHigh` can tell apart. `HeadlessFetch` counts time in ticks of a millisecond:
`elapsed` since the call began, `nav` since the slot was taken. The navigation timeout is
built from milliseconds, as in `fx.go:382`. `meta` is `responseMeta`, overwritten by every
document event, a frame's too. The body of a response and the location are read from the
page at the end, its status, headers and URL come from `meta`, and nothing in the code ties
the two together; bodies are left out of the module. `PageFetch` adds `stage`, the worker's place between the two fetchers.

### Configuration and AppLifecycle
A configuration file, with the `CRAWLER_` variables laid over it, is a function from the
settings it gives to their values. `AppLifecycle` builds and closes the parts in the
order of the code, one step each; a part that is not configured stays nil and is
skipped. `BuildFails` leaves open what was built, as `main` does. Between `CloseHub` and
`HubClosed` every step of the hub's goroutine and of the workers can happen, and Close
may give up (`HubCloseFails`), after which the goroutine goes on while the pool is closed.

### ProgressHub
`Emit` is two steps (test of the flag, send), a flush is one step per sink, time is a
tick counter, `timer = Off` means stopped. While a sink works, the goroutine reacts
to nothing, so ticks are only counted while it waits. Sink errors are logged and
ignored by the code and do not appear. Invalid events are discarded before the
send and do not appear either.

### ProgressStore
`runs[j][t]` is the row of `job_runs` with key `(j, t)`; keeping the time in the key makes
two rows for one job possible, which is what `OneRunPerJob` excludes. SQL statements
are modelled by their effect, each one step, each with a failing version that may
have taken effect. A `site_stats` row exists exactly when it has visits. Bytes are
added like visits and are left out. `ProgressRead` has the reading side as operators
over the tables, since a read changes nothing: parameters, limits, status filter,
order and paging. A query may fail (500), and a result that is cut short by a time-out or a
lost connection is answered 200 like a whole one, since `rows.Err()` is not asked
(`QueryAnswer`). `UpsertSiteStats` is an UPDATE and, if it finds no row, an INSERT; they are
one step because the sink is the only writer. `ensureJobRun` and the sink write one table, which
is so as long as `database.progress_table` is `job_runs`. A statement that takes effect only *after* the
next one has been issued (a connection cut by a timeout) is not modelled.

## 3. Runs

| Run | Question | Bounds | Distinct states |
|---|---|---|---|
| `service_safety` | is an accepted job lost before the exit, or any job run twice or reported inconsistently? can a result contradict itself? does the service implement `JobLifecycle`? | 2 jobs of 1 URL, 2 workers, queue of 1, 1 reader | 874 000 |
| `service_completion` | do events, counters and page rows agree over several URLs? does an accepted job complete, do workers stop? | jobs of 1 and 2 URLs, 2 workers, one without probe fetcher, queue of 1 | 201 000 |
| `service_cancel` (violation) | is a cancel honoured? | 1 job, 1 worker | |
| `graceful_drain` (violation) | is work that was begun brought to an end before the exit? | 1 job, 1 worker | |
| `page` | dangling references, counters, retries, slots; does every page end? | 2 pages, 1 slot, 2 retries, everything configured | 49 000 |
| `page_fetch` | are robots.txt and the client's choices honoured, are time-outs kept, does every visit end? | 2 calls for one host; a job that refuses both the browser and robots.txt, and one that allows the browser and leaves robots.txt to the server; 1 back-off, 1 slot, time-outs of 2 ticks, 2 documents | 250 000 |
| `template_ignored` (violation) | does a template's `headless_allowed` count? | 1 call, the template of config.yaml | |
| `headless_timeout` (violation) | does `RequestTimeout` bound a headless fetch? | 1 call, no navigation time-out set | |
| `app` | does the shutdown end, and in an order that loses nothing? is anything in the hub lost, duplicated, reordered or forgotten? | 4 files, 3 values of PORT, 2 emitters of 2 events, channel of 2, batches of 3, 2 sinks | 126 000 |
| `hub_close_drains` (violation) | is the channel empty after Close? | 2 emitters of 1 event | |
| `hub_batch_wait` (violation) | is a batch ever older than MaxBatchWait? | 2 emitters of 2 events | |
| `store` | are run rows unique, truthful, final, and there when needed? are the counters sound, exact when nothing is lost, and is a completed job shown? | 1 job of 3 pages, 2 times, 2 sites, 3 status classes | 158 000 |

The bounds are the smallest with which each case occurs: a queue of one place that two
jobs compete for, a job whose counters need more than one page, one more page than
slots, a second retry, a channel smaller than what is emitted, a batch larger than the
channel. In `page_fetch` the second call installs its transport while the first is
looking robots.txt up, finds the cache filled or not, and competes for the slot; with
one back-off both the retry and the fallback happen. The four files of `app` are one
with the hub, one with every other part, one with the local blob store, one that
`Validate` refuses. `store` has one job: every row and every property is of one job, and
what a second one could do to it through a batch they share, namely have the rest of the
batch given up, a failing statement of its own does as well; the proofs cover any
number. The jobs and workers of `service_safety` and the emitters of the hub runs are
interchangeable, so symmetry is used there; runs with liveness properties go without it.
That `page` has one configuration and two pages is made good by the proofs, which cover
all of them.
Deadlock is not checked:
every system here may stop (all jobs done, process exited, channel closed); the
liveness properties say that it does not stop too early.

**Pure operators** are checked against reference definitions by assumptions that TLC
evaluates before a run: `CoverageIsBytesInScripts(5)` in `page_fetch` (every body of at
most five tokens, against an automaton), and in `store` `ListingIsComplete(4)`
(a client that pages through the runs misses none that was there when it began,
wherever rows are inserted meanwhile), `ListedIsFound(4)`, `SitesArePartitioned(4)` and
`LimitsAreKept`.

**Fairness.** Goroutines are scheduled by the Go runtime, so a step that stays enabled
is taken: weak fairness of each worker, of the hub's goroutine, and of a submission,
whose wait is bounded by 5 s. A page ends because each call in it is bounded by a
timeout (`RequestTimeout`, the navigation timeout, the back-off timer). A collector
goroutine goes on because the HTTP client's timeout ends every exchange (`ProbeFairness`);
nothing is assumed of its caller. In `app` the goroutine of the hub and the closing steps
of `main` are scheduled, a sink returns by its timeout, and time passes (`AppFairness`);
that the context of `Close` ever ends is *not* assumed, so `ShutdownCompletes` does not
rest on it. Nothing is assumed of clients, of signals, of deadlines, of workers that
emit, or of how long the shutdown takes.

### What the violation runs show
* `CancelIsHonored`: `cancelJob` overwrites the record and tells nobody. A queued job
  that was cancelled is started and shown as running, and a running one ends with the
  worker's status. INSTRUCTIONS.md:261 says workers honour the cancellation.
* `InFlightWorkEnds`: `App.Run` starts `dispatch.Run` in a goroutine and never waits for it, so
  the process exits with jobs in the hands of workers and in the queue. doc.go:28 of
  `cmd/webcrawler` promises a "graceful drain and shutdown of workers". `AnswerTellsFate` is
  what an accepted job can rely on, and it ends with the process.
* `BrowserHonoursTemplate`: `applyDefaults` takes a template's `headless_allowed` only together
  with `headless_provided`, a key that no file of the repository has, and else the server's
  setting. The template of config.yaml:71 says no, and the browser opens its pages. The same
  happens to `respect_robots` (server.go:360). `BrowserHonoursClient` is about custom jobs, whose
  requests set the flag.
* `HeadlessWithinRequestTimeout`: the caller's context ends only the wait for a slot. worker.go:35-40
  says a headless fetch "will never exceed" `RequestTimeout`; `HeadlessBounded` is the bound
  the code does keep.
* `CloseDrains`: an `Emit` that has passed the test of the flag may send after the final
  drain. The event stays in the channel and is not even counted as dropped.
* `FlushedWithinMaxBatchWait`: every event re-arms the timer, so a trickle of events
  delays a flush. `BatchAgeBounded` is the bound the code does keep.

Met while modelling and without a run of their own, since a single step or the text shows them:
* `setDefaults` gives the database port a value (config.go:289), so `resolveDSN` never finds
  "nothing set" and refuses a file without a database, which INSTRUCTIONS.md:111 calls
  optional and `setupDatabase` has a branch for (`DatabaseIsRequired`, evaluated in `app`);
* `capture` keeps the last document, be it a frame's (chromedp.go:199-203), and the location is
  only used when there was none, where README.md:134 calls what is stored the "final URL
  fetched";
* a submission that finds the queue full is answered 408 or 500, where INSTRUCTIONS.md:239
  announces 429;
* `nav_timeout_seconds` is multiplied by a millisecond (fx.go:382), so the 25 of the
  default end a navigation before the 500 ms that `runHeadless` sleeps are over;
* the robots status of a response may be another call's, since the mark goes to the
  transport that was installed last;
* `ensureJobRun` writes the table of `database.progress_table` (retrieval_store.go:170) while the sink
  writes `job_runs` and `site_stats` whatever the settings say (progress_store.go:52 and 98);
  INSTRUCTIONS.md:113 and 185 present the table as configured;
* a list of runs or sites that a time-out or a lost connection cuts short is answered 200
  (progress_store.go:215-230), where progress_handlers.go:45-47 announces 500 if the
  repository call fails;
* a page that robots.txt forbids can be reached by a redirect: colly asks for the URL it is
  given, and not again;
* PORT replaces a port that was set explicitly, where config.go:245 says it does not;
* `retrieval_table` has no default, where INSTRUCTIONS.md:112 gives one.

## 4. Proofs
TLAPS proves the following for every value of the constants that satisfies the
named assumptions of the modules. Every invariant and every action property that a
passing run checks on its instance is the statement of one of these theorems; what
remains with TLC is liveness and the pure operators.

| Theorem | Module | States |
|---|---|---|
| `TypeCorrectness` | `CrawlServiceProofs` | types; the queue never exceeds its capacity |
| `OneHolder` | `CrawlServiceProofs` | `AtMostOneHolder`: no job is crawled twice |
| `Fate` | `CrawlServiceProofs` | `AnswerTellsFate`: until the exit an accepted job is queued, with a worker or completed; a refused one is never touched |
| `EventOrder` | `CrawlServiceRecordProofs` | `EventsWellFormed` |
| `CompletionRecord` | `CrawlServiceRecordProofs` | `CompletionMatchesRecord` |
| `RecordCounters` | `CrawlServiceRecordProofs` | `CountersMatchPages` |
| `ResultCounters` | `CrawlServiceRecordProofs` | `ResultCoversCounters` |
| `TerminalRecord` | `CrawlServiceRecordProofs` | `TerminalIsFinal` (action property) |
| `Refinement` | `CrawlServiceRecordProofs` | `ImplementsLifecycle`: the service implements `JobLifecycle` |
| `TypeCorrectness` | `PagePipelineProofs` | types; never more than `MaxParallel` slots in use |
| `References` | `PagePipelineProofs` | `NoDanglingReference` |
| `Outcome` | `PagePipelineProofs` | `OutcomeMatchesArtifacts` |
| `Retries` | `PagePipelineProofs` | `RetryBudget` |
| `Slots` | `PagePipelineProofs` | `SlotsMatchNavigations` |
| `Cache` | `ProbeFetchProofs` | `CacheHoldsServedFiles` |
| `Robots` | `ProbeFetchProofs` | `RobotsHonoured`: both halves, for any overlap of calls |
| `Composition` | `PageFetchProofs` | the probe fetcher below the browser is `ProbeSpec`; so `PageRobots`, `PageCache` |
| `TypeCorrectness` | `PageFetchProofs` | types of both fetchers |
| `Bounded` | `PageFetchProofs` | `HeadlessBounded` |
| `Browser` | `PageFetchProofs` | `BrowserHonoursClient`: no browser for a client that said no, none past robots.txt |
| `TypeCorrectness` | `ProgressHubProofs` | types; channel and batch keep to their sizes |
| `Delivery` | `ProgressHubProofs` | `NothingLostOrReordered` |
| `TimerArmed` | `ProgressHubProofs` | `WaitingBatchHasTimer` |
| `AgeBound` | `ProgressHubProofs` | `BatchAgeBounded` |
| `CloseFlushes` | `ProgressHubProofs` | `CloseFlushesEarlierEvents` |
| `HubInApp` | `AppLifecycleProofs` | the hub inside the process is `ProgressHub`'s; so `HubKeepsItsPromises` |
| `AppTypes` | `AppLifecycleProofs` | `AppTypeOK` |
| `Pool` | `AppLifecycleProofs` | `PoolOpenWhileUsed` |
| `TypeCorrectness` | `ProgressStoreProofs` | types |
| `OneRun`, `RetrievalRun` | `ProgressStoreProofs` | `OneRunPerJob`, `RetrievalHasRun` |
| `Truthful`, `Final` | `ProgressStoreProofs` | `FinishedRunIsTruthful`, `FinishedRunIsFinal` (action property) |
| `Stats`, `ExactStats` | `ProgressStoreProofs` | `StatsSound`, `StatsExact` |

Each module proves that its inductive invariant holds of every reachable state, from a
lemma about the initial states and one about the steps, and the theorems above follow
from it. The invariants were checked by TLC on the instances of section 3 before they
were proved.

**CrawlServiceProofs.** Assumed: the queue has at least one place, every job at least one
URL, `NoJob` is no job. None of the properties is inductive alone. `AtMostOneHolder` needs to
know that a worker holds a job exactly between `Dequeue` and the completion event
(`WorkerInv`), and that no event exists for a job before its 202 (`RequestInv`): otherwise
`Enqueue` could add a job that has already been worked on. `AnswerTellsFate` needs, in addition, that an
accepted job is in the store, since `processJob` drops a job whose first status update
fails. The exit takes queue and workers away, after which nothing moves (`ExitStep`, `ExitedStays`). `Kinds` sorts the steps of the service into the few that touch the queue, the
holders, the answers or the events; `EnqueueFacts` and `DequeueFacts` say what the two
channel operations do to a queue without duplicates; `EmitFacts` says what an event does to the
history. `HolderStep`, `StatusStep`, `SilentStep` and `AcceptedStep` then take one case per kind.

**CrawlServiceRecordProofs.** Builds on `IInv` of `CrawlServiceProofs`. What the record says of the page
rows and the events is true only between the writes of one worker, so `RInv` says for
every worker what its locals mean at each label (`FreshInv`, `LoopInv`, `FinalInv`), how they
relate to the events and rows of its job (`CountInv`), and what of them is already in the
record (`WrittenInv`); and for every job that its record is not terminal before the final
write (`OpenInv`), besides the properties themselves. `CountersMatchPages` needs all of it, since a record is
overwritten with counters collected long before. Every step is one of requests or of the
process (`Outside`) or of one worker (`StepIsLocal`). Each action of a worker has a lemma for its own
part; that the parts of the others are kept follows from `AtMostOneHolder`, once for all
actions (`WorkerKept`, `JobKept`). The refinement uses the same split: a step maps to `Submit`, `Start`,
`Finish`, `Refuse` or `Cancel` of the one job it touches, and leaves the others' lives alone; `Exit` is
`Stop` of all of them.

**PagePipelineProofs.** Assumed: at least one retry and one slot; the options are Boolean.
`NoDanglingReference` alone does not say what is stored when `pc` reaches an artifact, so
`StoredInv` does, label by label, and `ShotInv` does it for the optional screenshot. `RetryInv`
ties the attempt number to the number of fetches; without it neither the type of
`attempt` nor `RetryBudget` is kept. Each part has a lemma with one case per action.
`SlotInv` counts: the slots taken are as many as the pages that navigate, a finite set even if `Pages` is
not. A step adds at most one page to that set or removes one (`SlotKinds`), and the
cardinality theorems of the library do the rest.

**ProbeFetchProofs.** Assumed: files are sets of paths, `NoRules` is none of them, submissions are
of the two kinds, `Backoffs` is a natural number. `RobotsHonoured` speaks of the moment of the
page request, long after the lookup: `PastRobotsInv` extends it to the labels on the way,
`LookInv` says the rules of a finished lookup come from its host, and `MapInv` says it of the
rules colly keeps. It is about the URL asked for: redirects are colly's. What comes from a host goes on doing so because the history only
grows (`Frame`, `Growth`), and `RespectIsAsked` shows that the defaults of `toJobParameters` and
`applyDefaults` give every client what it asked for (a template asks only with its companion flag). The theorems are about `ProbeSpec`;
`Composition` carries them over to `PageFetch`.

**PageFetchProofs.** Assumed, besides: both fetchers serve the same pages, the time-out of a request is
positive, documents have a number as status. The navigation time-out may be anything, as
the code replaces what is not positive. `HeadlessBounded` is a bound on the sum of two phases:
`TimeInv` bounds the wait by its time-out and, during the navigation, the whole by the
time-out of the wait plus the ticks of the navigation. `BrowserHonoursClient` needs to follow robots.txt through the end of the visit and the answer of
`Fetch` (`ReturnInv`) to the start of the browser, possibly long after (`BrowserInv`); `BrowserStarts`
shows that nothing but `maybePromote` starts it, and `NoMeansNo` that the defaults never turn a
client's refusal round. Nothing is used of the detector, so the theorem holds whatever it answers.

**ProgressHubProofs.** Assumed: sizes, sinks and the wait are positive. `BatchInv` says a batch
at rest has room, without which neither its type nor the end of the flush is kept.
`AgeInv` is `age + timer <= Len(batch) * MaxBatchWait`: an event adds `MaxBatchWait` to the right and
at most that to the left. `CloseInv` says that once the drain has found the channel empty,
at most what was accepted after Close is in it; with `NothingLostOrReordered` and the empty batch
of a goroutine that has ended this gives `CloseFlushesEarlierEvents`. `ReceiveMovesBorder` and
`SendAppends` are the two facts about sequences behind `DeliveryStep`. The theorems are about
`Spec` of `ProgressHub`; `HubInApp` carries them over to `AppLifecycle`.

**AppLifecycleProofs.** Assumed: what the hub needs; of the configuration files nothing is used. `LifeInv` says
where in the two orders the process is (`BuildPos`, `ClosePos`) and what that means for the hub and for
the repository: past the hub, it is not there, its goroutine has ended, or Close has
given up (`HubIsOver`), and that stays so (`OverStays`). `Orders` is the fact about the code that matters,
the hub after the repository in `Build` and before it in `Close`; `StoreSinkHasRepo` shows that the
configuration gives a hub with a store sink a repository to write through.

**ProgressStoreProofs.** Assumed: clock readings are positive, status classes are the five of the code.
`OneRunPerJob` and `RetrievalHasRun` need that an event carries the clock reading of its job and that a worker
past `ensureJobRun` has its row (`WorkerInv`, `EventInv`). `FinishedRunIsTruthful` and `FinishedRunIsFinal` rest on order: in the batch
and the channel behind it, the start of a job comes before its other events and its
completion after them (`OrderInv`), so once the completion is applied nothing of the job is left
that could reopen its row (`EventInv`). For the statistics, `BalanceInv` accounts for every page fetched: in
the table, collected in `delta`, in the batch or in the channel. How often a sequence holds
a visit is the cardinality of a set of indices, so that no induction over sequences is
needed; that cutting a batch off the channel keeps the count is shown by a bijection
(`VisitsCut`).

**Only model-checked.** All liveness: `AcceptedCompletes`, `ShutdownStopsWorkers`, `PagesTerminate`, `VisitEnds`, `AcceptedIsOffered`,
`ShutdownCompletes` and `CompletedIsShown`, since fairness and ENABLED are out of the prover's reach. The pure
operators against their reference definitions (`CoverageIsBytesInScripts` and those of `ProgressRead`), over
bounded inputs only: what a recursive function computes for every input takes an induction
that the prover cannot be given.

## 5. Not modelled
Metrics and log sinks, telemetry, logging, middleware, identifiers, clock, hashing and URL
normalisation: output or stateless helpers, see `PROJECT.json`. Blob stores, publishers and
the rate limiter appear only as calls of `PagePipeline` that succeed or fail, since what
they do is done by libraries. Within the modelled parts: request decoding, blob paths
and payloads; torn reads of the transport field that calls of the probe fetcher write
without synchronisation; what happens inside colly, the browser and Postgres, the redirects
that the probe follows among it; the bodies of responses;
configuration settings that only tune or label; rows of the progress tables with equal
times, whose order the queries leave open.

## 6. Plan
1. Done: the job path, the page pipeline, the hub, the database writes; the first
   inductive invariants.
2. Done: request parameters, both fetchers with robots.txt and promotion, configuration,
   startup and shutdown composed with the hub, the read API.
3. Done: proofs of every invariant and action property that the runs check, of the
   refinement of `JobLifecycle`, and that the composed specifications contain their parts.
4. Open: an abstract token bucket per domain shared by the workers; theorems about the
   operators themselves, such as what `LoadSucceeds` guarantees to the parts that are built.
