# Verification of the Miami Beach emergency management dashboard

TLA+ models of the dashboard's own logic, the TLC runs that check them on small instances, and TLAPS proofs that hold
for every value of the constants. Paths are relative to the repository root; `api.py:94` means `api/app/api.py`,
`nws.py` a file of `api/app/adapters/`, and `lib/api.ts`, `components/...`, `hooks/...` files of `web/src/`.

## 1. The system

Four processes and one browser share three stores.

| Part | State it keeps | Operations | Talks to |
| --- | --- | --- | --- |
| Worker: scheduler (`worker.py`) | jobs and intervals, heartbeat key | fire a job per source, reschedule PulsePoint, reconcile sources at start | runner, Redis |
| Worker: ingestion runner (`ingestion.py`) | per poll: `previous`, attempt, records | `run`, `_attempt`, `_record_failure`, `_save_snapshot` | Redis lock, publishers through adapters, repository, snapshot volume |
| Feed adapters (`adapters/`, `registry.py`) | parameters only | `fetch`, `normalize` | one publisher each |
| Repository (`repository.py`, `models.py`) | `canonical_records`, `source_health`, `raw_snapshots` | upsert with retirement, mark stale, set health, list | PostgreSQL, one transaction per call |
| Read API (`api.py`) | none | summary, twelve groups, source health | repository |
| HTTP shell (`main.py`) | rate counters in Redis | rate limit, readiness, SPA fallback | Redis, PostgreSQL |
| AI gateway client (`ai.py`) | none | `extract`, `readiness`; dormant in the configured deployment | gateway |
| Browser data layer (`sw.js`, `lib/api.ts`, `hooks/`) | worker cache, `localStorage` snapshot, query data | fetch, fall back, retry, show | read API |
| Radar player (`components/OperationalMap.tsx`, `map/`) | selection, window, interval, kiosk timeout | play, step, latest, window, full screen | radar group response |
| Layers, panels (`store/`, `components/Dashboard.tsx`) | layer switches, drawers | toggle, mode, preset, render | query data |
| Backup scripts (`scripts/`) | a directory per backup | dump, archive, checksum; restore test | PostgreSQL, snapshot volume |

What is hard about it, and what makes each part correct:

* **Ingestion** is a sequence of awaits under a lock that expires by itself, over a row read before the fetch and used
  after it, with three separate commits per poll (snapshot, records or labels, health row). Correct means: polls of a
  source exclude each other, nothing read early is stale when used, records and status agree whenever no write is
  outstanding, a failure keeps and labels what was known, and a recovered publisher is seen to recover.
* **Snapshots and backups** have only the order of their steps: file before row, dump before archive.
* **The read API** assembles one response from many statements, each with its own view of the database. Correct means
  that the parts agree about every source that did not move meanwhile.
* **The browser** has three layers that each may be stale (worker cache, snapshot, retained data), written without
  being awaited and shared between tabs. Correct means that what is shown without a mark is live.
* **The radar player** leaves closures running that keep values of an earlier render.
* **The scheduler** loses runs by design (coalescing, one instance per job, a misfire grace) and keeps its state in two
  keys that expire. Correct means that no source is lost for good, that the heartbeat stops only for cause, and that
  PulsePoint's pace is that of the flag its last poll set.
* **The rate limiter** counts and sets the expiry in two calls with other requests between them, either of which may
  fail. Correct means that the limit is neither passed nor held against a client that kept to it.
* **The adapters** turn answers that are late, empty, reordered or partly unusable into records with identities of
  their own making. Correct means that the table shows the last accepted answer, each fact once, and that joins, unions
  and cuts keep what the publisher said.
* **AI extraction** trusts nothing that comes back. Correct means that what is returned answers this request and is
  grounded in its text.

The list of hazards with their lines and the properties that cover them is in `PROJECT.json`.

## 2. The modules

| Module | Models | Composed with |
| --- | --- | --- |
| `LastKnownGood` | what a source promises: records leave only by expiry or by a complete answer, reports follow the records | abstract |
| `SourceDisplay` | the same as a reader sees it, without lifetimes | abstract; `LastKnownGood` implements it |
| `SourceIngestion` | `run`, `_attempt`, `_record_failure` and the repository calls they commit | implements `LastKnownGood` and `SourceDisplay` (`INSTANCE ... WITH`) |
| `SourceRegistry` | the 49 sources of `registry.py`, and what limits, critical feeds, KPIs and locks say of the same sources | gives `MCWorkerScheduler` its times |
| `WorkerScheduler` | `worker.py`: reconciliation, jobs, PulsePoint's pace, heartbeat, stop and restart | |
| `FeedRecords`, `TimedFeeds`, `MapFeeds`, `PageFeeds` | `fetch` and `normalize` of every adapter, as operators from an answer to its records | used by `FeedPolls` |
| `FeedPolls` | a feed polled over and over, its records filed by `upsert_records` with retirement; the page and the panel that show the next hour | |
| `SnapshotArchive` | `_save_snapshot`, `save_snapshot`, `backup.sh` | |
| `DashboardReads` | `list_records`, `list_health`, the summary and the group responses | each of its sources is one of `SourceDisplay` |
| `DashboardFigures` | the critical feeds of a summary, `_source_health_summary` | extends `DashboardReads` |
| `RateLimiter` | the limiter of `request_context` | |
| `HttpShell` | the API process around its routes: limiter, readiness, AI readiness, single-page fallback | extends `RateLimiter` and implements it |
| `GroundedExtraction` | `GatewayNormalizer.extract` | |
| `BrowserCache` | service worker, `fetchDashboard`, the query around it | |
| `RadarPlayback` | `RadarLayer`, `windowedRadarFrames` | |
| `MC*` | constant values for TLC; `MCHttpShell` runs `HttpShell` and `GroundedExtraction` beside each other | |
| `*Proofs` | theorems and proofs | extend the module they are about |

Every module holds a few operators marked "Seeded fault". No action uses them: each is what a definition above or below
it would look like with a plausible bug, and replacing the one by the other makes a property fail (`mutants` in
`PROJECT.json`).

### SourceIngestion

One configured source, any number of workers. A poll is a walk through `read_health`, `fetch`, `backoff`, `upsert`,
`set_healthy` or `count`, `mark`, `set_failed`, then `release`; an action is the code between two awaits that matter, and
ends in one commit or one answer of the publisher. The outside world is one variable: the publisher answers, is
`rejecting` (an error the except clause names), `malformed` (the adapter trips with an exception the clause does not
name), or the infrastructure is `faulty`, and a poll may `Escape` with an exception from any database or Redis call. A
worker may `Crash` at every point and leaves the lock behind.

* Time is relative: the lock stores what it has left, a record how long until `expires_at`, the health row how long since
  `last_attempt`; `Tick` moves them all, and ages and failure counts saturate where the code only compares. No
  counter needs a bound. A poll may not stay in a stage longer than its deadline: `Backoff` between attempts, `DbMax` in
  a call of the database or Redis, and in `fetch` `FetchMax == Requests * Phases * Timeout + LocalMax`. httpx applies
  `timeout_seconds` to each phase of a request (a connect, each read), so `Phases` says how many of them may be slow;
  `LocalMax` is what an attempt takes for its raw snapshot and for `normalize` in a thread. The code bounds neither: what
  rests on them is said where it does.
* Each repository call is one atomic transaction. Taking an occupied lock is a stutter; an open circuit releases it.
* `rows[r].mark` tells an adapter's own staleness (`aged`) from the label of a failed refresh and from the retirement
  label; the health states DELAYED, STALE and HALF_OPEN exist in `schemas.py` but nothing produces them. An adapter may
  call a record stale beside a healthy row (a late frame, `radar.py:153`, or `pulsepoint.py:70`), so `LastKnownGood` and
  `SourceDisplay` keep `aged` records apart from `doubted` ones.
* Left out: logging and metrics. The PulsePoint flag and `reconcile_configured_sources` are in `WorkerScheduler`.

### SourceRegistry

Of each source its identifier, category, interval, timeout and the rounds of requests one fetch makes. The module has no
behaviour: it states as named assumptions, which TLC evaluates, facts that tie together tables kept in four files:
identifiers are unique, every category has a display limit and every limit a category, no critical group is empty, and
the two places where the road sources are counted differ (`RoadsDiffer`). `LongestRun` is the longest poll of a source
for a number of slow phases per request and a number of seconds an attempt spends beside them. With one slow phase and
up to four such seconds exactly the sources with one request per fetch are covered by their lock
(`LockCoversOneRequest`); with two slow phases none is (`NoLockCoversTwoPhases`).

### WorkerScheduler

A tick is 15 seconds. `Start` reconciles the tables with the registry of the release that starts and adds the jobs;
`Stop` is a shutdown or a crash, which keeps Redis and the tables. A job that is due runs (`RunJob`) or is given up
(`SkipRun`: an instance is under way, or it is later than its grace); of several missed run times the latest counts. A
poll may set PulsePoint's flag (`SetFlag`) and commit records (`Store`), both again in a retry, and ends in `Return`
(for PulsePoint the new pace, read from the flag; then the heartbeat), in `BeatRaises` (the job is rescheduled and
setting the heartbeat fails) or in `Raise`. `MaxStall` bounds how late the event loop may be, `PollMax` how long a poll
may take: in the run the latter is `LongestRun` of the registry for one slow phase and a second of other work per attempt,
44 seconds for PulsePoint. The jitter of the intervals is left out: it moves run times by seconds within a tick.

### The feeds

A behaviour of `FeedPolls` is about one feed: time passes, the publisher answers anything of the run's list, the
adapter makes records of the answer or refuses it as a whole, and `UpsertRecords` files them and retires what is absent.
The table keeps the rows a reader would be given, so an expired row is gone from it. The unit of time is half an hour;
the radar's frames have a clock in seconds beside it. `TimedFeeds` holds PulsePoint, the weather service, CO-OPS and
EIA; `MapFeeds` the storms with their KMZ documents, ArcGIS services, dissolved flood zones and GTFS; `PageFeeds` the
radar capabilities and the web pages. A record is its identity, the fact it speaks of, what it says, its time and its
expiry; a shape is the set of cells it covers, a page the sequence of its headings, texts, scripts and comments (the
active section of a page takes the comments in it, the text of a node does not). The parsing of JSON, XML, ZIP and KML,
titles, severities and the arithmetic of geometry are abstracted: an item is usable or not, as the adapter's tests decide,
and the rings of a feature are taken as `make_valid` leaves them, among them a line, which is accepted, and scraps without
a polygon, which are not. `NextHour` takes the instant the weather panel was mounted; `NextHourIsNext` asks it of a panel
mounted now. An older one shows no other hour but the current one, since the hours before it have expired.

### RateLimiter and HttpShell

A tick is 30 seconds, a minute two ticks, an expiry three. A request under `/api/` goes through `Arrive`, `Incr`,
`Expire` and `Check`, and either call of Redis may raise, before or after it took effect; other requests step in
between. Assumed: a call of Redis is answered or raises within 30 seconds of the end of the request's minute. `tried`
and `passed` are histories. `HttpShell` adds the routes: readiness is a walk through Postgres, Redis, Maxun and Hermes,
each with its failure. How long a probe takes is left open: Postgres and Redis have no timeout here, and nothing is
claimed about the health check that waits for the answer. The headers that leave with a response are presentation and
are not modelled.

### GroundedExtraction

A text is the set of the phrases it contains and a phrase a word in one of two cases, because evidence is compared to
the letter and claims without case. The gateway may answer anything the schema lets through, with any request's
identity; answers that are malformed, late or not grounded cost an attempt or end the call as in the code. The client is
dormant in the configured deployment. It shares no state with the API's requests; the run takes its steps while no
request is under way.

### SnapshotArchive

Files by digest, rows by digest, writers that test, open, write and record, any of which may raise or die; and
`backup.sh` as the script it is: a sequence of commands, with tar reading files one by one while writers go on.

### DashboardReads

`Pages` is `list_records`: the records that match, those not marked stale first, in any order otherwise, cut at the limit.
A record is stale with the label of a failed refresh or by its adapter's own mark (`aged`, for the records in `Ageing`).
A request is the walk the code makes; between two of its queries any source may answer, fail, report or lose records by
expiry. `Relevant` and `Verdict` are `relevant_health` and `source_health` of `_metadata`;
`UnavailableCritical` of `DashboardFigures` are the critical feeds a summary counts as unavailable. `kept` (the records read
with the label of a failed refresh), `quiet` and `present` are histories: `quiet` are the sources with nothing unreported
at their query and unmoved since, `present` the categories that had a record.

### BrowserCache

One tab with the service worker, and the other tabs as an environment that may finish puts and store snapshots at any
moment. A body is the number of the answer it carries, or `Garbage` (a 200 that is no dashboard). A put may complete
late, out of order or never; a tab without a worker is one whose puts are all lost. `storage` may fill up and be freed,
or be blocked for good. The query's retries, its pause while the browser knows itself offline and the data it retains
after an error are the query library's, modelled from how `useDashboard.ts` uses them. Schema changes between releases
and eviction of caches are not modelled; the tab is visible.

### RadarPlayback

A frame is its age in frame instants. The two effects are modelled by what they leave running: `interval` is the list the
interval's closure captured, `timer` the minutes left and the captured newest frame; each action re-runs exactly the
effects whose dependencies it changes. The feed is monotone: instants are not taken back.

## 3. The runs

| Run | Question | Bounds and why they are enough |
| --- | --- | --- |
| `ingest_one_worker` | Do records, labels and status agree through every failure and crash, and does the source implement `LastKnownGood`? | One worker, two records (one may be retired while the other stays), answers without expiry, already expired or expiring next tick, one retry, a circuit of two failures |
| `ingest_two_workers` | Does the lock exclude, is `previous` current, is an open circuit quiet, does the source recover and degrade? | Two workers, one record, one request per fetch with one slow phase; timeout 3 and one tick of local work per attempt, so polls take several ticks and the lock's slack is the one the formula gives |
| `ingest_unclassified` (violation) | "A failed poll retains last-known-good records and marks them stale" (`README.md:53`) | One worker, one record, `malformed` answers |
| `scheduler` | Is nothing of a removed source shown, does the heartbeat stop only for cause, is the pace that of the flag the last poll set, is every source polled for ever? | PulsePoint, and a source whose polls may outlast its interval and which one of two releases lacks; times of the registry for one slow phase per request, an event loop one tick late |
| `feeds` | Does the table hold the last accepted answer, each fact once, and do joins, unions and cuts keep what was said? | Eighteen feeds, one for each way an adapter works; answers that are empty, reordered, repeated, partly or wholly unusable, pages of up to four pieces; five instants half an hour apart, so windows move past a forecast of three periods |
| `next_hour` (violation) | Is what the panel calls "Next-hour forecast" (`Dashboard.tsx:475`, `Dashboard.test.tsx:335`) the next hour? | A forecast of four hours and a page of two, in place of 156 and 40 |
| `archive` | Do rows have files, do backups cover their rows and hold what the volume holds? | One writer with every fault, two bodies, backups one after another |
| `archive_truncated` (violation) | Does the file of a row hold the body that was hashed (`docs/ARCHITECTURE.md:22`)? | The same |
| `reads` | Do the parts of a response agree, is a group's verdict that of its own records, does a good verdict hide a failing source, is every category represented, are the critical feeds judged as their records show them? | Three sources; two share a category whose limit they exceed and a critical feed, the third is alone and may call its record stale itself. One kind of failing state; sources of one category are interchangeable (symmetry). Groups of one category, at a limit that holds both of its records |
| `shell` | Is the limit neither passed nor held against the innocent, is what extraction returns grounded? | Limit 1, two clients, two requests at a time and three in all: one within the limit, one above it, one of the next minute; four instants 30 seconds apart, so a key expires within the run. A text with one word in two cases, one allowed record and one other, two request identities |
| `browser` | Is unmarked data live, does a failed refresh show, are outages seen and left? | Three answers (an old, a cached and a new one), one retry, storage that fills up; the bound on answers means the API repeats itself, so late puts go on |
| `radar` | Are the closures current, does playback stay in its window and come around, does the kiosk return? | Windows of 1, 2 and 3 instants, a kiosk interval of two ticks |

What the violation runs show: an exception outside the except clause ends a poll with the old records unlabelled and the
row healthy; a write that stops half-way leaves a truncated file that every later poll takes for the snapshot; and
of a forecast longer than its display limit the page keeps the hours furthest ahead, so the hour the panel shows as the
next one is days away.

### Observed while modelling, without a run

* The lock's timeout counts one request per attempt. The sources that make two or three (`nws-forecast`, `nws-hourly`,
  `nws-observation`, `nhc-current-storms`) may outlast it, and a second worker would start, although "Redis locks prevent
  concurrent runs" (`docs/ARCHITECTURE.md:27`). It counts one wait per request too: a publisher that is slow to connect
  and slow to answer may make the poll of any source outlast its lock. The compose file runs one worker, so today this
  needs an overlapping deployment. The condition is `LockCoversRun` of the proofs; `LockCoversOneRequest` and
  `NoLockCoversTwoPhases` say which sources fail it.
* With two slow phases in each attempt a poll of PulsePoint takes up to 80 seconds, and with its idle pace and a late event
  loop that is past the 120 of the heartbeat, which then only the polls of other sources keep alive. Its flag holds.
* Every newer radar frame restarts the kiosk timeout (`OperationalMap.tsx:274`), so with a feed livelier than the
  interval the kiosk does not return, against `docs/DEPLOYMENT.md:33`; the Latest button pins a frame (`:345`), so a
  map that nobody plays need not be "static at the latest frame" (`docs/ARCHITECTURE.md:58`); the first step of a
  playback that starts from no selection shows a frame other than the preloaded one (`:239` takes index -1 for 0).
* Where `localStorage` is refused, an HTTP error leaves old data unmarked although the worker's cache, "the second
  last-known-good layer" (`lib/api.ts:43`), holds the summary.
* Maxun and Hermes are probed one after the other (`main.py:164-182`), with three seconds for each phase of a request,
  inside the four seconds of the container's health check (`compose.yaml:67`). Two services that answer successfully
  after 2.1 seconds each fail the check with nothing wrong, and so do slow phases of either; `docs/DEPLOYMENT.md:38-40` says
  optional services are "reported independently", `docs/TROUBLESHOOTING.md:24-25` that they "do not make the process
  restart-loop". The probes of Postgres and Redis (`main.py:146-162`) have no timeout here: one that hangs for some seconds
  and then answers fails the check too, though readiness would have said 200. All this is a sum of waits, and no property
  of `HttpShell` is about it.
* A Redis that answers `ping` with a falsy value is reported but still 200. A 429 leaves before the security and cache
  headers are set.
* One storm product that cannot be read fails the poll of all storms. A polygon whose outer ring has fewer than four
  pairs makes an inner ring the outer one. A web section whose end heading disappears runs to the end of the page, and
  a comment inside the section, an old notice perhaps, becomes part of the active one (`web.py:193-200`). An
  incident that is both active and recent is filed as recent while the flag says active. A GTFS row without `stop_id`
  raises a `KeyError` outside the except clause.
* The road KPI leaves `fdem-fhp-closures` out of its stamp (`api.py:354-363`), and healthy cameras make the critical
  roads feed healthy. An empty group takes the verdict of every source (`api.py:193`), so a group whose source was never
  polled is called healthy when others are, and one with nothing to report is called unavailable or delayed for the
  failures of others. A group with records leaves out its failing sources that have none. KPI counts are taken of
  display-limited lists (`api.py:276`). `stale_threshold_seconds` is compared with anything only by the radar adapter
  (`radar.py:123`).
* Both attempts of an extraction share one request identity, so a late answer to the first passes for the second; the
  prompt is cut at 12000 characters while validation reads the whole text.

### Fairness

* `SourceIngestion`: weak fairness of each worker's polls and restarts (APScheduler fires an interval job again and again,
  the event loop runs what is ready, compose restarts a dead container) and strong fairness of `Tick`, which a poll at
  its deadline disables for a moment. Nothing is assumed of the publisher or of crashes: `Recovery` and
  `Degradation` are about worlds that come to rest.
* `BrowserCache`: weak fairness of the query and its fetch. Puts, networks and other tabs owe nothing.
* `RadarPlayback`: weak fairness of the interval's step and of the kiosk timer. Feed, operator and document owe nothing.
* `WorkerScheduler`: weak fairness of `Tick`, of `Start` (the restart policy), and for each source of running or skipping
  a due job and of ending a poll (every adapter has timeouts). A poll need not succeed, and the worker may stop again and
  again: `PollsRecur` is about sources that stay configured.
* The other modules check safety only.

## 4. The proofs

Checked by TLAPS for any workers, records, retries, windows, answers, categories and limits.

| Theorem | Assumes | Inductive invariant |
| --- | --- | --- |
| `SourceIngestionProofs!TypeCorrect` | the constants' assumptions | `Typed` |
| `LockExcludes`, `NoLostUpdate`, `SuccessNeverErased`, `RecordsAgreeWithStatus`, `OneVerdict`, `FlagCoversShown`, `CircuitKeepsQuiet`, `ImplementsLastKnownGood`, `ImplementsSourceDisplay` | `LockCoversRun`: the lock's timeout exceeds the longest run | see below; `QuietInv` for the circuit |
| `SnapshotArchiveProofs!RowsHaveFiles`, `SealedBackupsCover` | none beyond the constants', any number of writers | `FileInv` (a writer at `record` has its file in place), `BackupInv` (a dumped row's file is in the listing or the archive) |
| `SealedBackupsMatch`, `RecordedFilesSettle` | `OneWriter`: at most one writer at a time, as the lock of the poll provides | `SettledInv` |
| `DashboardReadsProofs!QuietSourcesTellOneStory`, `GroupMetadataAreItsOwn`, `GoodVerdictsHideNoFailure`, `NoCategoryCrowdedOut`, `CriticalFeedsAsShown` | the constants' assumptions | `IInv` |
| `SourcesKeepPromises`, `PromisesAreAllTold` | the constants' assumptions | the types: the database half is `SourceDisplay` for each source, in both directions |
| `FeedPollsProofs!LastAnswerIsShown`, `NoticesAreActive`, `RoutesAreReached` | the constants' assumptions: any publisher, any list of answers | `ShownIsLast /\ LastIsTaken` |
| `NothingIsToldTwice` | `HoursNumberedOnce`, `TimesMeasuredOnce`: what the publisher numbers or times, it does so once in an answer | the same |
| `StormsAreComplete` | `StormsNamedOnce`: an answer names a storm once | the same |
| `DissolvingKeepsArea` | `ZonesStand`: no flood zone has an expiry, none bears a dissolved zone's identity | the same |
| `WorkerSchedulerProofs!NothingUnconfigured` | the constants' assumptions | the property itself with the types |
| `WorkerSchedulerProofs!HeartbeatLasts` | `HeartbeatFits`: idle pace, lateness and longest poll are below the heartbeat's 120 s | `Beating` |
| `WorkerSchedulerProofs!PaceIsTheAnswers` | `FlagFits`: the longest poll is below the flag's 120 s | `Pacing` |
| `HttpShellProofs!LimitHolds`, `NoLockOut`, `ShellImplementsLimiter` | the constants' assumptions, any number of clients, requests and ticks | `LimiterInv` |
| `HttpShellProofs!ExtractionIsGrounded` | the constants' assumptions, any words, records and answers | the property with the request's state |
| `BrowserCacheProofs!FailuresAreVisible`, `UnmarkedDataIsLive` | the constants' assumptions | `FailureInv`, `DateInv` |
| `RadarPlaybackProofs!IntervalStaysCurrent`, `TimerStaysCurrent`, `PlaybackStaysInWindow` | the constants' assumptions | `Inv` |

* **The lock.** `MutualExclusion` is not inductive: a running worker must also still hold the lock for the rest of its
  run. `LockInv` says that the running worker owns it and that what it has left exceeds the largest time the rest of the
  run may take, by the stage it is in and the attempts it has left (`Budget`, `Later`). The condition
  `LockCoversRun` is what the four sources with several requests fail to meet while each request is slow in one phase
  (`LockCoversOneRequest`), and what all fail to meet where requests are slow in two (`NoLockCoversTwoPhases`).
* **Records and status.** Under exclusion, `AgreeInv` ties records, labels, row and the outstanding commit to the place
  the one running poll has reached: at `set_healthy` nothing is labelled, at `set_failed` everything is. The refinement
  follows from it: each commit of records is `Replace` or `Doubt`, each health write a report, `Tick` is `Elapse`, all
  else stutters.
* **The open circuit.** `QuietInv` adds that the stored circuit is open exactly from `Threshold` failures on, and that
  whoever is past its health read found the circuit closed or its cooldown over, which stays so because nobody else
  writes the row meanwhile.
* **The archive.** With two writers the file of a row may still change: one finds it absent, the other writes and records
  it, the first opens it again. Under `OneWriter` no row points at a file that is open (`Writing`), so recorded files
  have settled (`RecordedFilesSettle`), and what tar has read of them is what they hold (`Faithful`).
* **Worker and readers together.** A source of the worker implements `SourceDisplay`; a source of `DashboardReads`
  does what `SourceDisplay` allows and can do all of it. So the theorems about responses are about any number of
  workers' sources side by side: a moment in which records of several expire is one `Expires` of the reads.
* **Reads.** `IInv` carries, for every quiet source, the agreement of its slice of the page with its present row;
  a slice is read while the database agrees (the invariant just proved of ingestion), and categories are distinct
  (`InOrder`), so none is read twice. For a good verdict it adds that a page that leaves records out is full
  (`PageFull`), so a failing source with records is on it, or crowded out by fresh ones.
* **Browser.** `DateInv` bounds every put, cached body, snapshot and shown answer by `answers`, and an unhit reply
  from below by the moment of asking.
* **Radar.** `Inv` is the conjunction of type, `IntervalIsCurrent` and `TimerIsCurrent`; the lemmas about `Windowed` say
  which answers leave it unchanged.
* **Feeds.** Filing an answer over any table shows the same as filing it over an empty one, because what is absent
  expires at once (`FiledAnew`); and what is current later is current of what is current now. So the table is the last
  accepted answer (`ShownIsLast`), and that answer is what the adapter makes of something its publisher may say
  (`LastIsTaken`): what an adapter's operator does to every answer, the table shows of every poll. Of each adapter there
  is a lemma saying which records it makes of which items; from those follow the joins, unions and cuts. Hypotheses
  beyond that are what the code takes for granted of a publisher and tests nowhere. They are named in `FeedPolls` under
  "Publishers", each theorem has only those it needs, and `MCFeedPolls` has TLC confirm them of the answers of the run.
  Facts about lists (filters, gathered lists, the fold of an answer over the table) rest on `<` being well-founded on
  `Nat` and are argued from a least counterexample, as the induction theorems are not usable here.
* **Scheduler.** The heartbeat is never older than what PulsePoint's job has spent of its interval, its lateness and its
  poll (`Beating`); the flag is never older than the poll that set it (`Pacing`). With requests slow in one phase both
  conditions hold: 3 + 1 + 3 < 8, and 3 < 8. With two slow phases a poll of PulsePoint takes six ticks: the flag's condition
  still holds, the heartbeat's does not.
* **Limiter.** The requests of a minute that were counted within the limit and are not answered, with those let through,
  are never more than the limit, nor more than the key's value while the minute may still be counted: the key expires
  too late to be begun again. The other direction needs that the key's value and the requests still to be counted are
  never more than the requests made. The shell's own steps leave the limiter as it is, so its specification implements
  the limiter's and inherits both.

Only model-checked: liveness (`Recovery`, `Degradation`, `OutageShows`, `Recovers`, `AnimationCycles`,
`KioskReturnsAtRest`, `PollsRecur`), which is out of this prover's reach. Every safety property a passing run checks is
also a theorem.

## 5. What is not modelled

* **KPIs** (`_kpis`, `api.py:263`): their values are counts of lists the module has, but their stamps need the instants of
  records and polls that `DashboardReads` leaves out. `RoadsDiffer` states the one disagreement between their tables.
* **Layer store and map** (`store/`, Leaflet): independent flags, each set by one click; a property of them would
  restate an assignment.
* **Dashboard panels**: presentation, but for the banner of a cached snapshot (`BrowserCache`) and the choice of the next
  hour (`FeedPolls`). Old releases of the page against a newer API, and the application shell the service worker
  installs, are left out: `BrowserCache` has one release.
* **The restore itself** (`restore-smoke.sh`) runs against a throw-away database and keeps nothing; its checksum test is
  part of what a sealed backup means.
* **Configuration, logging and metrics**: nothing in the system reads them back. **Migrations and deployment files** are
  declarative; the restart policy, the single worker and the health checks are assumptions named where they are used.
* **The probe script and operator skills**: a sequential read-only probe, and prose.

Worth proving next: under which conditions the three violated statements hold, as theorems: `FailedPollMarksStale` where
every failure of a poll is of a class the except clause names and no call escapes, `RowsAreWhole` where no write stops
half-way, `NextHourIsNext` where a forecast is no longer than its display limit.
