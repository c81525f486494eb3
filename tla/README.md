# Vahan360: TLA+ models and proofs

Vahan360 scrapes Indian transport portals: an API accepts *scrape jobs*, workers
run them over BullMQ queues with pooled browsers, and read APIs serve what was
persisted.  This directory holds TLA+ models of the parts whose correctness rests
on the order of asynchronous steps, TLC configurations that check them on small
instances, and TLAPS proofs for all instances.  Paths below are relative to the
repository; definitions keep the names of the code where TLA+ allows it.

## 1. Inventory

| Component | State it keeps | Operations | Hard behaviour | What makes it correct |
| --- | --- | --- | --- | --- |
| Ingest workers, `apps/worker-ingest/src/index.js` | row of `ingest.scrape_jobs`; Bull jobs on master, child, DLQ and retry queues; `system.failed_jobs` | `processMasterJob`, `processChildJob`, `processRetryJob`, "failed" handlers, `markFailed` | concurrent deliveries, late handlers, crashes, lapsed locks, id reuse | a job is claimed before it fans out, settles, is recorded when it fails for good, is replayed a bounded number of times |
| Submission, `apps/api-express/src/routes/scrapeJobs.js`, `lib/ingestQueue.js` | the row, the master Bull job | `POST`, idempotency lookup, enqueue | create/enqueue not atomic, key race | one row per key; a row accepted by the queue is processed |
| Replay, `routes/adminQueues.js`, `api-nest/src/failed-job-replay.service.ts` | DLQ, `failed_jobs` | Express replay, Nest replay, retry worker | three doors, best-effort removal, a cap per process | replay counts stay within the cap of an open door |
| Tenant quota, `lib/tenantQuota.js` | counter and waiter list per tenant | `withQuota`, timer, release | signal to re-check window, timers | cap, no lost wake-up |
| Browser pool, `packages/browser-pool/src/index.js` | browsers, waiters, launches in flight | acquire, release, recycle, idle clean-up | choose/count window, closing browsers, failing launches | caps, exact counters, nobody stranded |
| Browser manager, `browserManagerServer.js` | leases, Redis quota counter | acquire, release, TTL sweep, shutdown | TTL against release, Redis errors, vanished workers | a lease ends once, the counter covers the leases, places come back |
| Database poller, `workers/ingestJobPoller.js` | the row | claim and complete | several pollers, crash after claim | each row taken once and run once |
| Event stream, `scrapeJobs.js` SSE | cursor per connection | tick, close | overlapping ticks | no event skipped, every event arrives |
| Artifact persistence, `persistJobArtifacts.js` | raw tables, compliance snapshot | inserts, merge | read-merge-upsert, no transaction | rows complete and single, summaries coherent, merges lost only to an overlap |
| Sessions, `routes/auth.js` | `refreshSession`, `tokenVersion` | login, refresh, logout | concurrent logins and refreshes, lost answers | only the latest login works, an ended session stays ended |
| Legacy scraper, `browserAutomationService.js` | one run state | start, stop, end, daily trigger | flags reset before awaited writes, polls and stops meanwhile | a run ends, and the row tells of it |
| Leads, `leadLifecycle.js`, `vehicleAggregator.js`, `routes/vehicle.js` | `vehicle_trip_summary` | sync, save | read, derive, write without a transaction | what people set stays |
| Read APIs of Nest, `vehicle.service.ts`, `compliance.service.ts`, `vehicle-cache.ts` | Redis cache | summary, risk, CSV export | slow readers, offset paging | caches catch up, an export misses only what moved |
| Guards, error classifier, web UI, telemetry, deployment | none or advisory | | | |

How they interact: the API writes the row and adds the master job; a master
worker claims the row with a conditional `updateMany` and adds two child jobs;
the `persist_stub_result` child writes the artifacts and sets `succeeded`;
"failed" handlers run as event callbacks beside later attempts, copy exhausted
jobs to the DLQ and `failed_jobs`, and set `failed`; operators put work back by
the Express route, the retry queue or the Nest service.  During a master job the
optional smoke visit takes a browser context: the tenant quota wraps the pool.

## 2. Plan

Built, in this order, the most important behaviour first:

1. `JobLifecycle` (abstract) and `IngestPipeline` (detailed, implements it).
2. `TenantQuota` and `BrowserPool`, composed by `WorkerBrowsers`.
3. `BrowserLease` (abstract) and `BrowserManager` (detailed, implements it).
4. `IdempotentSubmit` (abstract), and `JobSubmission`, `JobPoller` and `JobStream`
   over `JobTable`, composed by `ScrapeApi`, which implements it.
5. `ArtifactStore` and `ComplianceReads`, composed by `Compliance`.
6. `AuthSessions`.
7. `LeadLifecycle`, `VehicleLeads`, `LegacyScraper`.

Left, in the order in which it would be taken up:

- replay of retry-queue rows and the optional fan-out of every child type in
  `IngestPipeline`; `shutdownPool` of a pool with callers in `WorkerBrowsers`;
- the selector health monitor and the tenant and role guards, as pure operators.

## 3. Modules

| Module | Models |
| --- | --- |
| `JobLifecycle` | What a reader of the status column may rely on: only queued or failed jobs start, records are written only for jobs somebody took, success only over written records |
| `IngestPipeline` | Rows, Bull jobs, executions, handlers, DLQ, retry queue, replays |
| `BrowserCalls` | The constant both browser modules share |
| `TenantQuota` | `withQuota` |
| `BrowserPool` | One engine of `createPoolEngine` |
| `WorkerBrowsers` | `acquirePlaywrightContext`: quota around pool, one visit at a time per caller |
| `BrowserLease` | What the lease API promises: a lease is granted once, ends once, and a tenant holds at most its quota |
| `BrowserManager` | `browserManagerServer.js`: handlers, sweep, shutdown, Redis counter; and the remote worker of `browserManagerClient.js` |
| `IdempotentSubmit` | What an idempotency key promises |
| `ScrapeRange` | `scrapeRangeValidation.js` |
| `JobTable` | The rows and events the Express process sees |
| `JobSubmission` | `POST /api/v1/scrape-jobs` and the form that sends it |
| `JobPoller` | `ingestJobPoller.js` |
| `JobStream` | The SSE handler and its viewer |
| `ScrapeApi` | The three in one process that may die |
| `ArtifactStore` | `persistJobArtifacts.js` under the queue's attempts and locks |
| `ComplianceReads` | Nest's vehicle summary, its cache, the vehicle risk, the CSV export |
| `Compliance` | Writers and readers over one database |
| `AuthSessions` | Login, refresh, logout, version checks, the fetch wrapper of the web application |
| `LeadLifecycle` | `leadLifecycle.js` |
| `VehicleLeads` | `vehicleAggregator.js` and the save of a lead |
| `LegacyScraper` | `BrowserAutomationService` |
| `MC...` | Instances of them for TLC |
| `IngestPipelineProofs`, `TenantQuotaProofs`, `BrowserPoolProofs`, `BrowserManagerProofs`, `ScrapeApiProofs`, `ComplianceProofs`, `AuthSessionsProofs`, `LegacyScraperProofs` | Theorems about them (section 5) |

### IngestPipeline and the code

A step is one awaited call.  `exec[w].pc` names the call a slot is about to make:
`read` and `claim` are the two queries at the start of `processMasterJob`,
`addPrepare` and `addPersist` the two `childQueue.add`, `progress` the closing
`updateProgress`; `childRead`, `childEvent`, `write`, `succeed`, `report` are the
stations of `processChildJob`.  A point stands for the call that changes state
and the reporting calls (events, progress, metrics, smoke visit) next to it: what
matters of those is only that they may throw.  `handlers` holds the "failed"
callbacks that have not returned, each at `dlqAdd`, `failedRow` or `mark`; they
are independent of slots, so a slow handler runs beside the next attempt.

BullMQ is external.  The model takes from it what the code relies on: custom ids
are unique and adding a known id does nothing, also while a completed or failed
job with it is retained; `attempts` with back-off; locks, stalled jobs and
`maxStalledCount` (a failure beyond it may or may not count as an attempt: both
are allowed); retention (`Expire`).  Custom ids with a colon are assumed to be
accepted, as the code assumes.  Two handlers with the same content coalesce, which
loses nothing: their effects are idempotent.  A `markFailed` that throws is an unhandled
rejection and ends the process: it is a `Crash` that loses the handler.  A retry
job that fails and is tried again is a redelivery of its entry.

The retry worker and the Express route are two processes that read their cap from
different variables: the worker `INGEST_RETRY_MAX_REPLAY_ATTEMPTS`, and only without
it `INGEST_RETRY_MAX_REPLAYS` (`worker-ingest/src/index.js:249`); the route the latter
alone (`adminQueues.js:64`).  Hence `MaxReplays` and `AdminMaxReplays`, positive
integers (a fraction below one, which the code rounds to no cap in the worker and to a
closed door in the route, is left out).  An entry the route let through may carry a
count the worker no longer accepts, and the other way round; `ReplayCapHolds` says
that every count is 0 or within the cap of some door that is switched on.

Not modelled: `INGEST_FANOUT_ALL_CHILD_TYPES` (off by default), the DLQ's own
`failed_jobs` row (a second row with another queue name), replay of retry-queue
rows, graceful shutdown, events and metrics as data.

### Browser modules and the code

Both queues hand out *resolved promises*: a woken caller re-enters its loop some
turns later, and anybody may run before it.  Hence `signalled` (quota) and
`woken` (pool) are phases of their own, and so is `picked`, the await between
`pickOrCreateSlot` and the increments in `acquireContext`.  A pool engine belongs
to one tenant and portal, so one engine and one limited tenant are an instance;
with the quota switched off `withQuota` only calls `acquire`, which is
`BrowserPool` alone.  `lastUsedAt` only breaks ties and ages idle browsers: any
least loaded browser may be chosen and any idle one that is not the last may be
closed.  A browser that is gone opens no context; one being closed may or may not.

`refused` remembers that a launch failed or memory forbade one.  A failed launch
signals nobody, and a caller refused by the soft limit queues without a timer:
whoever queues behind it waits for an unrelated release.  `NobodyStranded` and
`VisitsEnd` therefore exempt behaviours in which that happened; this is a
weakness of the code, not of the model.

The browser is chosen one await before the caller counts itself on it
(`browser-pool/src/index.js:242`): overlapping callers may put more contexts on a
browser than its cap, and no property says otherwise.

Not modelled: `shutdownPool`, a browser that
comes up after its launch timed out, a second `release()` of one quota handle
(the only caller releases once).

### BrowserManager and the code

A step is one awaited call of the acquire handler (`handler[r]`), of a release
(`ending[l]`) or of the shutdown loop (`drain`).  Requests name their leases: each
asks for one.  `count` is the Redis key of a tenant; each command may be `lost`
(error, not run), `unanswered` (error, run) or, for INCR and DECR, `resent` after a
broken connection and run twice.  `exact` remembers that a DECR ran twice or that
the key expired under a waiting request: beyond that the counter proves nothing,
and `CounterCovers` and the quota of `BrowserLease` are stated up to it.
`getPoolStats` reports no `totalContexts`, so the share of `fairShareCheck` is
computed from a constant.  Two things the model shows and no property forbids: a
worker whose `connectOverCDP` fails never releases its lease (the sweep does, a
lease term later), and a lease granted while `shutdown` drains is lost with its
count until the key expires.  A request queued in an engine when `shutdownPool`
empties the waiter list hangs until its HTTP client gives up.

Each tenant has an engine of `packages/browser-pool`: `remote` are the places taken,
`queue` its waiters, `browsers` how many browsers it has, and a request at `launching`
is one more on its way.  `PoolTurn` is one turn of `pickOrCreateSlot`: a browser with a
place, else a launch as long as browsers and launches in flight are fewer than
`MaxBrowsers`, else the queue; the soft memory limit queues the request in place of the
launch, the hard one throws.  `LaunchEnds` brings the browser or throws, and a throw
signals nobody: the only failure that wakes the next waiter is the one of `wsEndpoint`,
in `Lease`.  A request that was refused a browser goes on to the catch of the handler
(`undo`).  Browsers are counted, not named: which one serves whom, and the idle ones
closed beside the last, are `BrowserPool`'s.

The queue of an engine has no timer.  A request queued behind a launch that fails, or
by the soft memory limit, is signalled by the next place given back, and by nobody
if the engine has no place taken: `refused` remembers the tenants whose engine was
refused a browser, and `Stranded(r)` is the state in which `r` waits in such an engine
and no place, launch, pick or wake-up is left that would end in a signal.
`RequestsAnswered` promises an end to every request that is not stranded so; take
`Stranded` out and TLC shows the request that waits for ever (finding 9).

Not modelled: reading tenant and shared secret from headers (`TenantOf`), the
mirror of leases in Redis (written, never read back), the fair-share report.

### ScrapeApi and the code

`JobSubmission.handler[r]` is at `lookup`, `create`, `enqueue` or `recover`, the
awaited calls of the POST handler; a failed insert may have written its row.  The
branch of `recover` in which the winner's row is missing again cannot happen:
nothing deletes rows.  An error outside every `try` (both lookups, the first read
of a stream) is an unhandled rejection of an Express 4 handler, which ends the
process: `Dies`.  `JobPoller` runs only when no Redis is configured, `Redis` and
`Polling` are constants.  With Redis a failed enqueue, or a death between insert and
enqueue, leaves a queued row nobody takes; the log calls it
`enqueue_fallback_to_db_queue` (`scrapeJobs.js:389`), but the poller is off.

`JobStream` keeps the set of event ids written to the response, so repetitions,
which overlapping ticks do cause, are not told apart; the last snapshot of the
status may be an old one.  A viewer who leaves during the first tick is not
noticed, because the listeners are attached after it; the timers then run on.
Events are assumed to be committed in the order of their ids.

Not modelled: rate limits, audit rows (written or not, they never fail a request),
the list and detail routes, heartbeats.

### Compliance and the code

`Artifacts(j)` says what `persistIngestArtifacts` writes for a job: one operator
per kind.  `exec[w]` is an execution: at `rows`, then at `replace` (district,
consigner and trip summaries), or `read` and `write` (the merge).  `base` is the
snapshot it read.  `overtaken` remembers that another merge of the vehicle was
written in between: only then may a stamp be undone, which the code does not
prevent.  A later retry of an older job stamps the snapshot again, as there is no
ordering guard; a certificate without a status is stored as not valid.  Spaces
inside a registration are stripped by the worker and not by the API; names are
model values here.  An attempt may also fail at `done`: the answer to the last
statement was lost after it was committed, or a statement of the job after
`persistIngestArtifacts` failed; the retry then finds everything written.

`ComplianceReads` starts from a cache miss; a hit is no step but an answer, and
`Answers(v)` is the set of risks a request could be told now.  No code writes the
violation and blacklist paths of `buildWeightedRiskAssessment`, hence
`RiskScore(..., 0, FALSE)`.  A failed chunk ends the CSV where it is, and nothing
distinguishes the file from a complete one.

### AuthSessions and the code

`call[c]` is one tab: a login at `find`, `bump`, `revoke` or `create`, a request at
`ask`, `refused`, `session`, `kill`, `rotate`, `again`, or a logout; `answer` is a
response under way.  Tabs of a browser share its `jar`.  A token is its version,
session and rotation number: signature, expiry and hash are always consistent with
those.  Two logins that overlap read the same version, so both may stay usable
(`crossed`); two tabs that refresh at once end their own session (`alone` loses the
browser).  An error in logout is swallowed, and the session lives on without
cookies; an error in refresh is caught by nobody and ends the process.

Not modelled: wrong passwords, `register-user`, the CSRF cookie, rate limits,
`/me`, roles and tenants in the token.

### LegacyScraper, VehicleLeads and the code

`mem` holds the fields of the service, `stateRow` its row, `run[r]` the stations of
`scheduledScrapingTask`.  `Pages[r]` are the result pages in the order of the four
nested loops, each with its path of anchors; `LayerFails` skips to the next anchor
one loop above the error, and only an error of the outermost loop marks the run, so
a run with pages missing is recorded as a success.  `truth` is what the run did,
`marred` the runs whose record something came in the way of: a status poll that
loaded the row of the run itself (its end is then never recorded), an earlier
live run that was still closing when it began (`isProcessing` is reset first, and
the old run then drops the figures of the new one), a failed write, a death.
`AutoSyncEnabled` is `SCRAPE_AUTO_SYNC_VEHICLES`: without it, the default, a run ends
with no sync, as when one is running already.  No
route in this repository mounts the service; `docs/PUPPETEER_SUNSET_PLAN.md` lists
its operations.

`VehicleLeads` reads a lead and writes it in two statements, in syncs and in saves;
`overtaken` is the window between them.  Rows without a registration number, which
the query groups under an empty one, are left out.

## 4. Runs

| Run | What it asks | Result |
| --- | --- | --- |
| `ingest_safety` | One job, two slots, two attempts, one replay through each door, all doors, every failing point, up to three faults of which one crash and one lost lock, one expired Bull job, one operator action | holds |
| `ingest_settles` | The same without crashes, lock losses and failing handler writes, replays through the retry worker, under fairness | holds |
| `ingest_succeeded_final` | Is `succeeded` final, as `openapi.js` says? | no: a late `markFailed` overwrites it |
| `ingest_crash_stuck` | Does every accepted job settle, crashes included, as the runbook's recovery assumes? | no: a crash after the claim leaves `running` for ever |
| `ingest_replay_route` | Does the Express replay route as the retry worker does (README)? | no: it knows the master queue only |
| `browsers_safety` | Four callers, quota three, two browsers of one context, all pool faults, five visits | holds |
| `browsers_end` | Three callers, quota two: does every visit end? | holds |
| `manager` | Two workers, a tenant with quota one and one browser with one place; Redis commands lost, unanswered, run twice; failing launches, both memory limits; a crash, a shutdown, a restart; two disturbances | holds |
| `scrape_api` | Three requests, two with one key, two poller ticks, two stream ticks at a time, pages of one event; one failed statement or death | holds |
| `compliance` | Jobs of all eight kinds, two workers, two attempts, one fault; two readers and a cache; an export of three rows in chunks of one | holds |
| `auth` | Two tabs of one browser, or one tab each of two; two logins, one rotation, one fault | holds |
| `khanan` | Three runs (long live, short live, local), a poll, a clerk and a manual sync; one fault, one restart | holds |

*Bounds.* Jobs share nothing but worker slots (ids, rows and handlers are all per
job), so what a second job adds is only that a slot may be busy, which a slot that
does not move already is; two slots are what a double delivery needs. Two attempts
give one retry and one exhausted job, one replay reaches the cap of either door, one
stall is BullMQ's default. That two caps differ is beyond these bounds (a second
replay needs a second round of failures, more than three faults): the runs have both
at one, and `ReplaysAreCapped` is what says it for any two. `MaxFaults` bounds the
faults of one behaviour together; three are enough for a retry that fails after a
stall. For browsers, quota three under four callers makes callers wait at the quota,
and three calls inside over two places make them wait in the pool as well; two
browsers are the least at which recycling and clean-up act, five visits let every
caller come once and one of them again. `Slots` are names of browsers, one more than
the browsers and the calls still holding a closed one can occupy, so a launch never
waits for a name. `MaxVisits` is the only counter bound there. `RejectFast` is off in
the runs: with it no caller ever waits.

In `manager` one tenant with one place is where a second request meets a limit at the
counter, in the fair share and in the engine at once; tenants share nothing but the
soft cap. With quota one the second request reaches the engine while the first is
still there when the release of the first has paid its DECR and not yet its place, or
the key expired under it; it then finds the place taken, a launch under way, or memory
short (97 579 states). With quota two or none it needs no such accident; those, and
two browsers instead of one, were tried on the same instance as well and hold.

In `scrape_api` a page of one event makes a stream of two events span ticks, and two
ticks are what an overlap needs; `MaxRangeDays` three puts an accepted range and a
refused one among the bodies. In `compliance` every kind occurs, with equal records in
one job, a missing status, and two certificates of one vehicle. In `auth` two logins
give an old session and a new one. In `khanan` the long run has two dates and two
anchors below the first, so that an error at each loop skips something else, and rows
that are there already.

Four of the MC modules choose a *cast* at the start: who acts in this behaviour.
Clients, readers, tabs and polls act of their own accord, so to leave one out removes
no step that fairness would demand; a run then is the union of several small
scenarios, whose actors are those whose steps can meet.

*Symmetry* is used for worker slots and callers in safety runs only.

*Deadlock* is not checked: a system whose jobs are settled and whose callers are
idle stops for want of requests.

*Fairness.*  `IngestPipeline`: weak fairness of the steps of each slot, of
delivery and the stalled check of each Bull job, of handlers and the retry
worker: an event loop starves no callback, and BullMQ's workers poll on timers.
Faults, operators and clients owe nothing.  `WorkerBrowsers`: weak fairness of
what a started call does next and of the end of a close; browser calls answer or
time out.  Nobody has to visit, and no wait timer has to fire, so `VisitsEnd` does not
lean on time-outs.  `BrowserManager`: handlers, releases, the sweep timer and a
begun shutdown; a request to a closing manager times out; no worker has to release.
`ScrapeApi`: handlers, timers, ticks, and the restart of the container; no client
has to ask or to stay.  `Compliance`: the queue delivers waiting jobs to free
workers, statements end, keys expire; nobody has to read.  `AuthSessions`: requests
are answered or lost, access cookies expire; nobody has to log in or ask.
`LegacyScraper`: the steps of a run and of its own sync; nobody has to start, stop or
poll.

*Mutations.*  Definitions commented "Mutation" are variants of the definition
that follows them, each with a plausible bug (a dropped decrement, a missing
signal, an off-by-one).  PROJECT.json pairs every checked property with one that
violates it; nothing else uses them.

## 5. Proofs

All checked by TLAPS, for any number of jobs, workers, callers, requests, tenants,
vehicles and tabs, and any value of the other constants the named assumptions
allow.  These say only what the code needs: limits are positive or at least natural
numbers, a value that stands for "none" is not one of the others, and callers and
requests are finite sets (`CallersAssumption`, `ManagerAssumption`), because counters
are compared with the sizes of sets.  `WorkAssumption` gives jobs a known kind,
`LeadsAssumption` keeps syncs and saves apart, and `ScraperAssumption` says that the
service's own sync is one of the syncs, that the pages of a run are a list of finite sets
of rows, and that `None` is no run, no answer and no record of figures.
`NothingAssumption`, `StoreAssumption` and `SnapshotAssumption` say the same of
`Nothing`: it is no refresh token, no pair of cookies, no vehicle, worker or snapshot.
TLC evaluates all of them on every run.  Most properties are not inductive; each
paragraph names the invariant that is, and why it is needed.

`IngestPipelineProofs`
- `TypeCorrect`.  Types alone are not inductive: that a failed attempt stays
  within `MaxAttempts` needs that live Bull jobs have attempts left
  (`AttemptsLeft`), and that needs that the lock holder of a job is unique and
  the job active (`LockExclusive`).  `OwnInv` is their conjunction.
- `PipelineImplementsLifecycle`: each step is a step of `JobLifecycle` or a
  stutter (`StepRefines`).  It needs `ClaimInv`: children and their
  handlers exist only for claimed rows, and a slot at `succeed` has persisted.
- `ChildrenAfterClaim` and `CompletedMasterIsClaimed` are parts of that
  invariant; `ReplaysAreCapped` has its own over all places a count can be in, for any
  caps of the two doors;
  `TerminalFailuresAreRecorded` follows from `RecordedStep`.
- `RunningRowsAreDriven`.  The danger is a master that claims its row again while its
  persist child is still in Redis, settled: the second add changes nothing, and nobody
  moves the row on.  `CalmInv` therefore counts the ways in which the master Bull job
  can still come to run (itself, its handler, a DLQ entry, a retry entry): at most one
  (`OneChance`), and, once there is a trace of a persist child, none but the attempt
  that added it (`FannedOut`).  Besides, every execution holds its lock (`NoLapse`), and
  an attempt of a persist child that is about to succeed has moved the row on
  (`EndsWell`).  The theorem has the hypothesis
  `Calm`, over the constants: no process dies, no lock is lost, the master's closing
  `updateProgress` and the retry acknowledgement do not fail, and neither replay route
  is open; any other call may fail, any number of times.  Without any one of the six, TLC
  finds a row left `running`; the crash and the failing progress update are finding 2.

`TenantQuotaProofs`
- `TenantsWithinQuota`.  The cap is not inductive: the counter must be exact
  (`CounterExact`), which holds only because a signal reaches nobody but a
  waiting caller (`WaitersWait`), once (`WaitersOnce`).  `QuotaInv` conjoins
  them.  `VisitsDriveQuota` shows that the pool's steps leave the quota alone.
- `FreeSlotsAreSignalled`: no lost wake-up, inductive beside `QuotaInv`.

`BrowserPoolProofs`
- `PoolInv` adds to the pool's types that the queue holds exactly the queued calls,
  each once (`QueueFits`), and that counters are exact.  `BrowsersWithinLimit` and
  `PlacesAreExact` are parts of it.
- `WaitersAreOwed` needs a sharper form of the property (`SignalOwed`): the call that
  will signal must be woken, launching, or on a browser that is still *listed*; one
  whose browser was closed under it leaves without a signal, and it is the close that
  signals then.  `VisitsDrivePool` shows that the quota's steps leave the pool alone.

`BrowserManagerProofs`
- `ManagerTypes`, `NoPlaceIsLost`.  Both from `ShapeInv`: a lease being released was
  granted and has left the table, and an engine's queue holds waiting requests only,
  each once, so that a signal takes nothing from the table.
- `QuotaHoldsByCounter`.  In `CoverInv` the counter covers not only the requests and
  leases charged to a tenant but also those over the quota that have yet to take their
  INCR back; hence it never turns negative, and nobody sets it to zero under the others.
- `ManagerImplementsLeases`: `LeaseStepKinds` sorts the steps into grants, ends and
  the rest, and a grant (`RegisterGrants`) is within the quota by `CoverInv`.

`ScrapeApiProofs`
- `SubmissionsAreIdempotent`.  `SubmitInv`: a handler before its insert has no row,
  one about to enqueue has its own, and one that is to recover lost to a row that is
  there.
- `ApiTypes`, `OneHistoryPerJob`.  `HistoryInv` ties each tick to the row and events
  of the job it works on: a tick between claim and completion is the only one of its
  job, which the conditional update of the claim gives.
- `StreamSkipsNothing`.  `StreamInv`: every event up to where a tick starts was
  written, and what it has read are the next ones, none left out; so a cursor taken
  back only repeats.

`ComplianceProofs`
- `StoreInv`: raw rows are single, rows and snapshots only say what jobs say
  (`RowsSound`), and an execution past its rows, like a job done, has them all
  (`DoneComplete`).  `SnapshotsAreCoherent` and `RowsAreBehind` follow.
- `OnlyOvertakenMergesLose`: an execution that is not overtaken holds the snapshot as
  it is, so what it writes differs in its own stamp only.
- `ComplianceIsTyped`.  `TypedInv` adds to `StoreInv` that the attempts of a job
  are at most `MaxAttempts` and one for each fault (`Tally`), which bounds the `try` of a
  raw row; that `recent` lists exactly the vehicles
  with a summary, each once (`Recency`); and what requests and the export hold
  (`Reads`).
- `ExportsMissOnlyMoved`.  `Reached`: while the export reads, each vehicle it set out
  for that nobody wrote since has been read or is still ahead of its offset.  A write
  moves the written vehicle to the front and shifts the others towards the back only,
  so what is ahead stays ahead; and if nobody wrote, what was read is the front of the
  list, so nothing is read twice.
- `JobsFailByFaults` is the safety half of `JobsWritten`: a job is given up only after
  `MaxAttempts` faults (`AttemptsPaid`).  A lock is held only on an active job, so the
  execution that outlived its lock cannot settle the job a second time.

`AuthSessionsProofs`
- `OnlyLatestLogin`.  `AuthInv` compares versions: every token of a session whose
  login did not cross another is at most the user's version, below it if a later login
  has written its own, and below the value a login under way will write.
- `AloneIsKept`.  That a browser keeps its session says nothing while a call is under
  way; `AloneInv` says of each browser that is alone that at most one of its calls is
  past its first statement, that this call will leave a token of the latest session in
  the jar (`Promising`), and that whatever other browsers hold or are about to write is
  of earlier sessions (`Behind`), so that the reuse check of theirs ends another row.
- `EndedSessionsNeverRefresh` is the safety half of `EndedStaysEnded`: no statement
  brings a row of `refresh_sessions` back to life.

`LegacyScraperProofs`
- `LeadsAreKept`.  `LeadInv`: whoever is between reading and writing a lead holds it as
  it is, or knows that it was overtaken.
- `RunsAreRecorded`.  That the row tells of the last run says nothing of the steps that
  lead there.  `RecordInv` follows an unmarred run: from its start to its last page the
  figures in memory are its own and agree with what it did, and the last summary is not
  taken for it; once it ends it carries its final record until the row has it; and while
  it is the latest nobody else is in progress.  That a run not begun yet is named by no
  figures and no record (`FiguresBegun`, `Unbegun`) is what makes a start safe.

Every invariant, action property and refinement of a passing run is a theorem.  Only
model-checked is the liveness (`Settles`, `VisitsEnd`, `PlacesComeBack`,
`RequestsAnswered`, `QueuedIsTaken`, `EventsArrive`, `JobsWritten`, `RiskCatchesUp`,
`EndedStaysEnded`, `RunsEnd`), because liveness under fairness is out of the prover's
reach, and of course the three properties the code violates.

## 6. Findings

Shown by a run:

1. `markFailed` has no status guard (`worker-ingest/src/index.js:972`).
2. A crash after the claim leaves a row `running` (`index.js:666`); the same end
   is reached when only the closing `updateProgress(90)` (`index.js:763`) fails
   after both children were added, which is why `ingest_settles` leaves that
   failing point out.
3. The Express replay ignores `dlqMeta.sourceQueue` (`adminQueues.js:166`).

Met while modelling, and stated as the exceptions in properties that hold:

4. Overlapping logins both stay usable (`auth.js:215`; `crossed` in
   `LatestLoginOnly`), and parallel refreshes of two tabs end their session
   (`AppShell.tsx:102`; `alone` in `KeptWhileAlone`).
5. Two merges of one vehicle may undo each other's stamp
   (`persistJobArtifacts.js:81`; `overtaken` in `MergesKept`).
6. A status poll during the first run, or a run started while another is closing,
   loses the record of a run (`browserAutomationService.js:435`; `marred` in
   `RunRecorded`).
7. An offset export misses rows that move (`compliance.service.ts:203`;
   `ExportMissesOnlyMoved`).
8. A DECR that runs twice over a broken connection lets a tenant exceed its quota
   until the key expires (`browserManagerServer.js:254`; `exact` in `CounterCovers`).
9. A request queued behind a launch that fails or times out, or by the soft memory
   limit, waits for ever when no place of its engine is taken
   (`browser-pool/src/index.js:160`, `:224`; `Stranded` in `RequestsAnswered`,
   `refused` in `NobodyStranded` and `VisitsEnd`).
10. The worker and the admin route cap replays by different variables, although the
   repository's `README.md:187` describes one for both: with
   `INGEST_RETRY_MAX_REPLAY_ATTEMPTS=2` the route still replays up to 5 times
   (`worker-ingest/src/index.js:250`, `adminQueues.js:65`; `WithinCap` in
   `ReplayCapHolds`).
