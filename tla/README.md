# A TLA+ model of nebula-scheduler

This directory specifies the job pipeline of nebula-scheduler, model-checks it
with TLC on small instances, and proves its main safety properties with TLAPS
for every instance. References such as `JobExecutor.js:156` are to the files
of this repository.

## 1. The system

Nebula is a distributed job scheduler. Clients enqueue jobs over HTTP, worker
processes poll MySQL for them, and scheduler replicas promote delayed jobs and
recover the jobs of dead workers. The processes share no memory and send each
other no messages: they meet in the tables of one MySQL database, and the scheduler replicas in
one Redis key.

| Component | State | Operations | Works with |
|---|---|---|---|
| Tables (`packages/database`) | `jobs`, `job_executions`, `dead_letter_queue`, `queues`, `workers` | SQL statements and transactions of the others | everybody |
| `JobExecutor` (worker) | the job a process holds, with the `retry_count` it read | `claimNextJob`, `execute`, `#markCompleted`, `#handleFailure` | tables, `DLQHandler` |
| `DLQHandler` (worker) | the job under analysis | `moveToDLQ` | tables, `AIFailureAnalyzer` |
| `WorkerService` (worker) | registration, heartbeat timer, `#shuttingDown`, `#executing` | `start`, `#register`, `#sendHeartbeat`, `#pollLoop`, `#shutdown` | tables, `JobExecutor` |
| `PromotionService` (scheduler) | none between sweeps | `#promoteScheduledJobs`, `#recoverDeadWorkerJobs` | tables |
| Leader lock (scheduler) | Redis key `nebula:scheduler:promotion:lock` | `runSweep`, `#acquireLock`, `#releaseLock`, loop and shutdown of `index.js` | Redis |
| `JobApiService` | none | `enqueueJob`, `getJobs`, `getJobById`, `cancelJob` | tables |
| `OpsService` | none | `retryJob`, `replayDlq`, listings | tables |
| `ProjectQueueService` | none | create and update projects and queues, `pauseQueue` | tables |
| `AIFailureAnalyzer` | none | `analyze`, which never throws | an HTTP service |
| `AuthService`, middlewares, validators, routes, controllers | none | one request, one service call | tables |
| `MetricsService` | none | aggregating reads | tables |
| API server | connection, listener | `connectWithRetry`, `gracefulShutdown` | tables |
| Dashboard | tokens and user in the browser | polling, login, refresh | API |

What is hard here:

* **Failure detection.** A worker is dead when its heartbeat is older than
  `DEAD_WORKER_TTL_S`. That may be wrong of a live process, and late for a dead one.
* **No fencing.** Outcomes are written with `WHERE id = ...`, neither naming the
  worker nor the status expected.
* **Work outside transactions.** A job runs between two transactions, the
  analysis of its failure between two more.
* **Several statements for one effect.** FAILED and the dead letter row; the
  reset of jobs and the marking of their workers; the check and the write of a
  manual retry, of a replay, of an enqueue with an idempotency key.
* **Lost acknowledgements.** A transaction may commit while its caller sees an
  error; `execute` then takes a success for a failure, and a client sends its
  request again.
* **Process life.** Crash, SIGTERM with a bounded drain, a second signal, and a
  restart under a hostname whose row its predecessor owns.
* **A lock with a TTL** that nothing renews.
* **Answers put together from several moments.** The figures of the Overview page
  come from five queries that fail one by one; a listing is read page by page from a
  table that changes.
* **Caches and late answers.** A browser tab shows what it fetched earlier, perhaps
  for another user, and asks again while it changes something.
* **Clocks without fractions, times without a zone.** `scheduled_at` and `NOW()` are cut
  to seconds, the timers count milliseconds; the database speaks UTC, the API formats and
  parses in the zone of its host.

What makes the components correct, and where it is stated:

| Component | Correct when | Property |
|---|---|---|
| Claim | limit respected, one executor per job | `ConcurrencyLimitHolds`, `ExclusiveExecution` |
| Outcomes | attempts and jobs agree, retries are counted, the budget is exact | `LedgerMatchesJobs`, `AttemptsCoverExecutions`, `RetryBudgetIsExact` |
| Dead letters | only exhausted jobs, once | `DeadLettersAreExhausted`, `FailedArePromoted`, `PromotionsArrive`, `DeadLettersArePermanent` |
| Recovery and shutdown | no RUNNING job is lost, everyone who stops exits | `NoStrandedJob`, `JobsSettle`, `ShutdownCompletes` |
| Promotion, recovery, retry | what waits can be claimed | `WaitingRowsAreClean` |
| The pipeline for a job's owner | the life cycle of a job | `ImplementsContract` |
| Leader lock | one sweep, no lock-out | `LeadersHoldTheLock`, `OneSweepAtATime`, `LockIsReturned` |
| Requests to the API | one job per key, nothing without permission, replays recorded | `OneJobPerKey`, `KeyedEnqueueArrives`, `WritesAreVouched`, `ReplaysAreRecorded` |
| API process | it stops when told, and in order | `ShutdownEnds`, `PoolClosesLast` |
| Job listing | whoever pages to the end with Next and Prev has seen everything that was there, unless a click on Next went by an answer older than his walk | `WalksAreComplete`, `NothingIsSkipped` |
| Retry timing and analysis | neither early nor late, always a usable analysis | `RetriesAreSpaced`, `RetriesArePrompt`, `DeadLettersAreInTime`, `AnalysisIsUsable` |
| Dashboard session | own data, own changes, no dead sessions | `ShownBelongsToSession`, `OwnChangesAreShown`, `ExpiredSessionsEnd` |
| Metrics | figures that fit each other and their reader | `FiguresBelongTogether`, `FiguresAreScoped`, `SeriesShowsEachJobOnce` |

## 2. The modules

```
NebulaDb ── JobExecutor ── DLQHandler ── WorkerService ──┐
    ├────── PromotionService ────────────────────────────┼── Nebula ── MCNebula
    └────── ApiServices ─────────────────────────────────┘     │
JobContract (INSTANCE'd by Nebula)              NebulaProofs ── NebulaAttempts
SchedulerLock ── MCSchedulerLock, SchedulerLockProofs

ApiServer, ApiRoutes ── ApiHandlers ── NebulaApi ── MCNebulaApi, NebulaApiProofs
DashboardSession ── MCDashboardSession, DashboardProofs
JobListing ── MCJobListing, JobListingProofs
FailurePath ── MCFailurePath, FailurePathProofs
ClusterMetrics ── MCClusterMetrics, ClusterMetricsProofs
```

The pipeline:

* **NebulaDb**: the tables. `status`, `workerOf`, `retries` and `scheduledAt` are
  columns of `jobs`; `execs[j]` lists the rows of `job_executions` of a job by
  `attempt_number`; `dlq[j]` is `total_attempts` of its dead letter row, 0 if there
  is none; `paused`, `online` and `fresh` come from `queues` and `workers`.
  `scheduled_at` is `null`, `future` or `past`; `fresh[w]` says that the last
  heartbeat is within the TTL; `online[w]` folds IDLE, BUSY and DRAINING, between
  which no statement distinguishes, into one value. CLAIMED, PENDING and DEAD
  never occur, since no statement writes them.
* **JobExecutor**: `pc[w]` is the await at which a worker's loop stands, `held` and
  `snapshot` the record `claimNextJob` returned. A transaction is one action; an
  await between two is a point where everyone else may move.
* **DLQHandler**: `promoting` until the job is read, `analyzing` until the
  transaction.
* **WorkerService**: processes come and go. `ownsRow[w]` says whether the id a process
  works under is that of its hostname's row. A first registration inserts the row and
  owns it; a later one only refreshes it, see below. A process that does not own the row
  writes no heartbeat and no OFFLINE, since its UPDATEs find nothing, and claims nothing.
* **PromotionService**: one promotion statement, two recovery statements. The two
  run concurrently in the code (`Promise.all`) and so interleave here. The number
  of overlapping sweeps is not bounded by the lock, so no result about the tables
  leans on it.
* **ApiServices**: the inserts, the conditional cancellation, the two steps of a
  manual retry (`retrying[r]` keeps the row as it was read), pausing. A request that fails its check writes nothing and has no
  action.
* **Nebula**: the composition, time, fairness and the properties.
* **JobContract**: what the owner of a job may rely on, in terms of a phase, a runner
  and a number of failures. Nebula implements it under the mapping at
  `Contract ==`; only a runner finishes or fails a job, only a waiting job is
  started or cancelled, and a failed job stays failed.
* **SchedulerLock**: the Redis key, the replicas' loops and their shutdown.

The API and what reads it:

* **ApiServer**: the process of `server.js`: the retries of its first connection, the
  listener, the graceful shutdown each of the two signals starts with its ten-second
  timer, and every way out. The orchestrator starts it again.
* **ApiRoutes**: the chain of every route in the order of `app.js` and the route files:
  `authenticate`, `requireRole`, `validate`, and what a refusal is answered with.
  Nothing in a chain waits, so a chain is a function of the request.
* **ApiHandlers**: connections and the handlers behind the chains. A handler is a walk
  from await to await; `stage[c]` is the statement it waits for. `jobs`, `pausedBy`,
  `made` and `replayJob` are what it writes, with the request that wrote it; `told` keeps
  what the answers said.
* **NebulaApi**: process and handlers together. `EndsWithProcess` drops every
  connection and every handler when the process ends.
* **JobListing**: `getJobs` with its cursor, and the Job Explorer that walks through it
  on cached and late answers.
* **FailurePath**: one failing job on a clock: the backoff, the sweep, the worker's
  own backoff, the execution timeout and the analysis.
* **DashboardSession**: one tab: the session store, the query client's cache and
  fetches, the mutations.
* **ClusterMetrics**: the queries of one answer, each at its own moment, and the series.
  The success rate is in hundredths of a percent, rounded as `toFixed(2)` does.

These do not share a state space with `Nebula`, because they meet it in few places: an
inserted job is `InsertJob` there, and a pause is `PauseQueue`.

Disturbances. Everything the environment may do wrong has a name in
`DisturbanceKinds` (in `SchedulerLock`: `Faults`, in `ApiServer`: `ApiFaults`), and
spends one unit of a budget. A configuration names the kinds it allows, so that a run
says under which of them its property holds; the violation runs show the kind without
which it would. The kinds of the pipeline:

| Kind | What happens |
|---|---|
| `crash` | a worker or a scheduler dies; the worker keeps nothing |
| `stop`, `drainTimeout` | SIGTERM; the drain window of 30 s ends before the job does |
| `quickRestart` | a process registers while its predecessor's row is still online |
| `suspect` | a live worker's heartbeat is older than the TTL |
| `sweepGap` | a dead worker's heartbeat expires between the two recovery statements |
| `dbError` | a statement or transaction fails, nothing is written |
| `lostAck` | a transaction commits, its caller sees an error |
| `pause`, `manualRetry` | an operator pauses a queue, or retries a job |

Those of the API are `dbDown` (a connection attempt fails), `signal`, `crash`,
`dbError`, `lostAck` and `hangUp` (a client leaves before it is answered).

Abstractions a reader should know, of the pipeline:

* `ClaimNextJob` is atomic. `SELECT ... FOR UPDATE SKIP LOCKED` locks the job row
  and, through its join, the row of the queue, so that two claims for one queue
  never count its RUNNING jobs at the same time. A poll may find nothing though a
  job is claimable (`ClaimNothing`), because its rows are locked.
* Priority and age only order the claimable jobs among those not locked; the model
  lets any of them come first.
* The last UPDATE of a shutdown and the exit that follows it are one step
  (`Deregister`, `DrainTimeout`). Between the two an unfinished execution may still
  go on in the code; it reads nothing the UPDATE writes, so it could as well have
  gone on before. A heartbeat is one step too, and none is in flight once the signal
  has arrived.
* The clocks are one clock. A retry's `scheduled_at` lies in the future when it is
  written; `ComesDue` lets it pass at once or later (`FailurePath` has the times).
* Several open attempts of one job are told apart by attempt number where the code
  orders by `started_at`.
* On MySQL an `upsert` returns the instance that was built for it. Its id is a new UUID
  by default (`models/Worker.js:6`), also when the row of the hostname was there and kept
  its own, so that `record?.id` (`Worker.js:172`) is always set and the `findOne` beside
  it never runs. A process restarted under a known hostname works under an id that no row
  has. Writing that id to a job breaks the foreign key which `Worker.hasMany(Job)`
  and `Worker.hasMany(JobExecution)` (`packages/database/index.js:159`) declare and which
  `Job.js:80` and the tests (`concurrency.test.js:92`) speak of: each of its claims
  fails and is rolled back. In a schema without the key such a claim would succeed, and
  the job would be out of the recovery's sight once its worker dies.
* `job.update` in `retryJob` writes, of the columns it names, those that differ from the
  row as it was read. A row read with `worker_id` NULL has no `worker_id` in its UPDATE,
  whatever the table holds by then.
* `Limit` and `MaxRetries` are constants: of `updateQueue` only the pause is modelled.

Of the API:

* The handlers of the signals are registered with `process.once`, so a second signal of
  the same kind kills the process (`SignalAgain`). A signal of the other kind starts a
  second shutdown, whose `server.close()` is refused, and that ends with exit code 1.
* A client that has hung up does not keep `server.close()` waiting; its handler goes on,
  until the pool closes under it.
* `createJobSchema` always fills in `max_retries` and `timeout_seconds`, so that the
  defaults of the queue (`JobApiService.js:205`) are never used.
* A request is a record of what the chain and the handler look at; the parts of it that
  are malformed are a set of names.

Of the others:

* `JobListing` has one order for a walk, ids in an order that has nothing to do with
  that of insertion (they are UUIDs), and lets an answer arrive at any time or never.
* `FailurePath` lets statements take no time and timers fire on time. What `fetch`
  allows between two pieces of a body is `BodyTimeout`: the timer of the analysis is
  cleared at the headers, and fetch's own timer starts anew with every piece. `pieces`
  counts those that arrived; the code sets no limit to them.
* `DashboardSession` has one change under way at a time. The API in it is the version
  of the data it answers with.
* `ClusterMetrics` serves one request at a time: requests share nothing but the tables.
  `NumPoints + MaxDelay < Cycle` says that labels, which name a minute of the day, an hour
  of the year or a day of the year, are unambiguous within a chart; its three ranges
  are far shorter. The database and the API have one clock. The query labels jobs in UTC
  (`database.js:102`), `FillSeries` labels points in the zone of the host
  (`MetricsService.js:204`), one of `HostOffsets` away.
* In `JobListing` a cursor passes through a string without zone that is parsed in the
  host's zone, `HostOffset` from UTC.

## 3. The runs

`MCNebula` has two workers polling one queue. `MaxRetries` is one (none where a
second attempt would add nothing), `BatchLimit` is one so that a batch can leave a
due job behind. Two workers are enough for a zombie and its successor, two jobs for
competition, two requests for a double retry, two schedulers for overlapping sweeps.
Workers are symmetric in the safety runs. Two disturbances cover a fault and its
aggravation: a suspicion, then a lost acknowledgement; a crash, then a quick restart.

| Run | Disturbances | States | Shows |
|---|---|---|---|
| `hostile_one_job` | all kinds, 2; two schedulers, two requests | 877 000 | `TypeOK`, `LedgerMatchesJobs`, `DeadLettersAreExhausted`, `DeadLettersArePermanent` |
| `open_attempts` | all but `lostAck`, 2; two schedulers, two requests | 811 000 | `AttemptsCoverExecutions` |
| `contract` | all but `suspect`, `lostAck` and `manualRetry`, 2; two jobs | 812 000 | `ExclusiveExecution`, `RetryBudgetIsExact`, `ConcurrencyLimitHolds`, `WaitingRowsAreClean`, `ImplementsContract` |
| `crash_liveness` | `crash`, `stop`, `quickRestart`, 2; fair | 33 600 | `NoStrandedJob`, `JobsSettle`, `ShutdownCompletes`, `PromotionsArrive` |
| `lock_hostile` | all faults, 4; three replicas, fair | 8 600 | `TypeOK`, `LeadersHoldTheLock`, `LockIsReturned` |
| `api_hostile` | all faults, 2; fair | 120 000 | `TypeOK`, `OneJobPerKey`, `PoolClosesLast`, `WritesAreVouched`, `ReplaysAreRecorded`, `ShutdownEnds`, `KeyedEnqueueArrives` |
| `listing` | inserts, status changes, late answers | 2 037 000 | `TypeOK`, `NothingIsSkipped`, `WalksAreComplete` |
| `failure_path` | any failure, any answer of the model | 2 045 000 | `TypeOK`, `RetriesAreSpaced`, `RetriesArePrompt`, `DeadLettersAreInTime`, `AnalysisIsUsable` |
| `dashboard` | late, refused and lost answers; fair | 401 000 | `TypeOK`, `ShownBelongsToSession`, `OwnChangesAreShown`, `ExpiredSessionsEnd` |
| `metrics` | failed queries, late labels, two zones | 3 544 000 | `TypeOK`, `FiguresBelongTogether`, `FiguresAreScoped`, `SeriesShowsEachJobOnce` |

`contract` excludes three kinds because each breaks something it states: a suspicion
gives one job to two workers, a lost acknowledgement makes a success a failure, and
a manual retry of an ended job is outside the contract, and may leave a `worker_id` on a
queued row. `ExclusiveExecution`, `ConcurrencyLimitHolds` and `WaitingRowsAreClean` hold under more kinds than that run has; the theorems of
section 4 say which.

The bounds of the others:

* `api_hostile`: two connections, which is what a race for a key, a slug or a dead
  letter takes, and ten kinds of request: one for each handler, and requests with an
  expired token, a role that may not, and a foreign organisation. `MaxJobs` stops
  requests without a key once there is a job; keyed ones go on. Two connection
  attempts tell the last from the others; two faults are two signals, or a lost
  acknowledgement and a crash.
* `crash_liveness`: one job. `JobsSettle` does not speak of the case that every host is
  left with a process that owns no row (`HostsAreSpent`), where nobody can claim: two
  restarts reach it.
* `listing`: a host in UTC, as in the image of the API, which sets no `TZ`; three jobs on pages of one, in two seconds, so that a second holds a page
  boundary; two status changes take a job out of a filter and back; three clicks on
  Next walk past the end; two answers under way overtake each other.
* `failure_path`: a second of six units, a base of five that is no multiple of it, three
  retries of which the third meets the cap, and intervals that drift against each
  other; a body comes in up to three pieces. `MaxNow` is never reached: deadlock is checked, and a behaviour that ran into it
  before its end would be one.
* `dashboard`: two sessions of different organisations, a polled query which one of the
  three pages observes, so that leaving it and coming back is one click each; two versions are before and after a change.
* `metrics`: a job of each organisation and a worker of none; a member, an OWNER and the
  same OWNER asking for everything; a chart of two points and one step of delay in a
  cycle of four labels, the shortest that `NumPoints + MaxDelay < Cycle` admits. The clock
  starts at the last label of the cycle, so that charts cross its end and jobs fall into
  different points of one chart; the host is in UTC or one label from it.

The runs below find what the code does against a statement of the repository
(quoted in `PROJECT.json`, "findings"):

| Run | Violates | How |
|---|---|---|
| `drain_timeout` | `NoStrandedJob` | the row goes OFFLINE with a job in flight; the recovery skips OFFLINE rows |
| `double_retry` | `SucceededIsFinal` | the second retry in flight requeues a job that has succeeded |

What follows from the models without a run of its own, in the pipeline:

* `suspect` violates `ExclusiveExecution`: a late heartbeat is enough for a job to be
  recovered and given to a second worker while the first goes on with it.
* A process restarted under a hostname that has a row never executes a job
  (`ownsRow` in `WorkerService`), until it is started under another hostname; the row it
  refreshed once ages, and the recovery finds its predecessor's job. The comment of
  `#register` says that the hostname is an identity "so restarts of the same pod don't
  orphan old rows" (`Worker.js:145`). When it has happened to every host, nothing is
  claimed any more (`HostsAreSpent`).
* A late manual retry leaves a queued row with the `worker_id` of the process that
  claimed the job meanwhile (`RetryWrite`): `manualRetry` violates `WaitingRowsAreClean`.
* `sweepGap` violates `NoStrandedJob` too: a worker that turns stale after the jobs were
  reset and before the workers are marked goes OFFLINE with its job RUNNING.
* `dbError` violates `JobsSettle`: a failed `#handleFailure` leaves the job RUNNING under
  a live worker, and no sweep looks at `timeout_seconds`.
* A crash between the FAILED commit and the dead letter transaction leaves a FAILED job
  that nobody promotes; `PromotionsArrive` gives up with the worker, and `FailedArePromoted`
  is proved (`PromotionCorrect`) only where nothing of the kind happens.
* A cron job is inserted with a NULL `scheduled_at`, which is never due, and no
  materializer exists.
* The fault `slowSweep` violates `OneSweepAtATime`: nothing renews the lock, so a sweep
  longer than its TTL runs beside another replica's. The tables do not mind, since
  `hostile_one_job` runs two overlapping sweeps.
* `total_attempts` leaves out the attempts a crash cut short, although
  `DLQHandler.js:62` calls it the number of attempts made.
* A dead-lettered job is FAILED; `design_decisions.md:25` says DEAD, which no
  statement writes.

In the API:

* The queue is checked before the key (`JobApiService.js`), so that a client that sends
  again to a queue paused in the meantime is answered 409 though its job exists. For
  this reason `KeyedEnqueueArrives` asks that queues do not go on being paused.
* Of two requests with one new key the loser is answered 500; sent again, it is given
  the winner's job.
* Two replays of a dead letter make two jobs. The row names the later one.
* `PATCH /queues/:id` validates with a schema that fills in defaults
  (`queue.routes.js:24`): a change that names one field also resets the priority, the
  limits and the retry settings it does not name. A pause has no default.
* A signal during `connectWithRetry` kills the process, since the handlers are
  registered after it, although `server.js:172` says that signals are handled then.
* Connections are kept alive for 65 s and a shutdown waits 10 s, so that a connection
  which is kept open after its answer makes it end by its timer with exit code 1.

In the dashboard and its figures:

* A 401 to a request of an earlier session ends the session of whoever has signed in
  since (`api.js:55`). `ExpiredSessionsEnd` is about pages with a query that polls; the
  settings page has none.
* A fetch that was under way when its page was left is not started anew by an
  invalidation: its answer clears the mark, and somebody's own change may be missing
  from what a page shows until the query is fetched again. `OwnChangesAreShown` is
  about changes acknowledged while the entry they concern is on screen (`acked`,
  written by `MutationSucceeds`).
* Every OWNER may ask for the figures of all organisations (`MetricsController.js:37`). The
  comments mean an operator of the platform: "Users with role `OWNER` at the platform level"
  (`MetricsController.js:12`), "super-admin" (`MetricsService.js:10`, `metrics.routes.js:8`); but whoever registers is OWNER of the
  organisation he founds (`AuthService.js:65`). `FiguresAreScoped` is what the code
  keeps: everybody else, and an OWNER who does not ask, sees his own organisation only.
* A host that is not in UTC labels the points of the series with its local time while the
  query groups by UTC: jobs appear at points that are off by the difference, or not at all.
  `SeriesShowsEachJobOnce` says for every host that none is drawn twice, and for one in UTC
  that each is drawn. The cursor of a listing is off by the same difference, because
  `created_at` is read as a string without zone (`database.js:43`) and parsed again.
* A failed query of the metrics is shown as zeros. A worker that stopped in an orderly
  way counts as active for the TTL, and a worker without a project only in the view of
  everything.
* The timer of the analysis is cleared when the headers have arrived
  (`AIFailureAnalyzer.js:270`). fetch gives up when no piece of the body arrives for its
  idle time; a body that goes on trickling keeps the job from the dead letter queue
  as long as it likes. `DeadLettersAreInTime` says how long per piece.
* Since `NOW()` and `scheduled_at` have no fraction, a retry may come up to a second
  early. `RetriesAreSpaced` says that it is less than one.

### Fairness

`FairSpec` in `Nebula` is what the scheduling of the code justifies: a statement,
a payload (`Promise.race` against the timeout) and an analysis end; the poll loop
and the sweep loop go round; time passes; the orchestrator starts a process on
every host that has none (not before the row of its predecessor is OFFLINE: anything
earlier is `quickRestart`, a disturbance). These are weak. Two conditions are strong: a claim,
because any one poll may come back empty (locked rows, a full queue) though not
every one; and the expiry of a dead worker's heartbeat, because the model lets it
happen outside a recovery only, and the recoveries of the one scheduler of the fair
runs leave such moments again and again. Clients,
operators and disturbances are under no obligation. In `SchedulerLock` commands
are answered, a key with a TTL expires and a dead replica is started again.

In `NebulaApi` statements end, the timer of a shutdown fires, and the process is
started and connects. One condition is strong: a client with a key sends its request
again and again; it needs a free connection and a listening server, which come and go.
In `DashboardSession` the session is initialised, intervals fire and requests are
answered or time out; people owe nothing.

## 4. The proofs

The theorems hold for every value of the constants: every set of jobs, queues,
workers, schedulers, requests, connections or tokens, every limit, every
`MaxRetries`, every budget, and, unless the table says otherwise, every set of
disturbances. They use the named assumptions of the modules and nothing else. What
these assume, and why the code justifies it:

* Jobs and workers are finite sets where rows or executors are counted. A table has
  finitely many rows.
* An organisation's id is not the word that stands for all of them (`Everybody` in
  `ClusterMetrics`): ids are UUIDs.
* The values a filter of the listing may have are statuses, or "all" (`JobListing`);
  pages hold a row at least, as `listJobsSchema` demands.
* `Second <= MaxNow` (`FailurePath`): a behaviour may last a second. The clock is the only
  thing that bound limits, and no theorem speaks of the moment it is reached. Its times
  are positive, a scheduler that promoted something sweeps again no later than an idle
  one, and a worker's backoff starts no higher than its cap: the defaults of the code.
* `NumPoints + MaxDelay < Cycle` (`ClusterMetrics`), explained in section 2.

**Two layers.** `StepWritesTables` reduces a step of `Nebula` to one of eleven
writes to the job tables (`TableStep`); invariants of the tables are shown
against these. What a process holds is shown per action. `TypeInv` adds to `TypeOK`
that a busy process holds a job (`HoldingOK`), without which `held[w]` in an outcome
need not be a row. `NebulaApiProofs` is laid out the same way.

| Theorem | Argument |
|---|---|
| `TypeCorrect`: `[]TypeOK` | `TypeInv` is inductive. |
| `LedgerCorrect`: `[]LedgerMatchesJobs` | Inductive with `TypeInv`. By `RunningIsKeptOrClaimed` a job RUNNING after a step was so before it with the same worker and attempts, or was just claimed, and then its last attempt is the appended one. |
| `LimitCorrect`: `[]ConcurrencyLimitHolds` | By the same lemma the RUNNING set of a queue shrinks, stays, or gains the one job claimed below the limit. |
| `WaitingCorrect`: `[]WaitingRowsAreClean` without `manualRetry` | A late retry leaves `worker_id` as it is. Needs `RowsCanWait`: a recovery puts a RUNNING job back, so its `scheduled_at` must have passed; an insert keeps `worker_id`. |
| `DeadLettersCorrect`: `[]DeadLettersAreExhausted` | Needs `PromotionsAreExhausted`: a process on its way to the DLQ has used up the retries on its own snapshot, which nobody else can change. |
| `DeadLettersStay`: `DeadLettersArePermanent` | `DLQWrites`: only a job without a row is written. |
| `ExclusionCorrect`: `[]ExclusiveExecution` if neither `suspect` nor `manualRetry` is a disturbance | `ExclusionInv`: an executor's row names it (`ExecutorsOwn`); a job being promoted is FAILED (`PromotedAreFailed`), or `moveToDLQ` could fail a job under another executor; the rows of processes that own one are fresh (`OwnedAreFresh`), or the recovery could take their job. |
| `PromotionCorrect`: `[]FailedArePromoted` without `crash`, `drainTimeout`, `dbError` and `lostAck` | No process, and no handling of a job, is cut short between the FAILED commit and the dead letter row. `FailuresArePromoted`: of the eleven writes only an outcome and a promotion fail a job; `PromotersGoOn`: a FAILED job is eligible, so its promoter is not turned away before the row is there. |
| `RecoveryCorrect`: `[]NoStrandedJob` if the disturbances are among `crash`, `stop`, `quickRestart`, `pause` and `manualRetry` | `RecoveryInv`: the rows of processes that own one are fresh (`OwnedAreFresh`) and online (`OwnedAreOnline`), so the recovery takes no job from a process at work; a process without a row holds none; and a worker found stale while a recovery stands between its statements has no RUNNING job left (`RecoveryIsThorough`), or the second statement would hide one. With any of the other five kinds added, TLC finds a stranded job. |
| `AttemptsCorrect`: `[]AttemptsCoverExecutions` without `lostAck` | A step adds an executor only by a claim, which appends an open attempt, and closes an attempt only by an executor that stops executing (`ExecutorsMove`, `ClosingMovesOne`, `ClaimingAddsOne`); the attempt an outcome closes exists because open ones are as many as executors (`LargestExists`). |
| `RetriesCorrect`: `[]RetriesCountFailures` without `suspect`, `manualRetry` and `lostAck` | `RetryInv`: with the exclusion and the ledger, an executor's snapshot equals the row (`SnapshotsAreCurrent`), so that its own attempt is the one closed and the count written is one more than the row's. |
| `ContractCorrect`: `ImplementsContract` under the same assumptions | Each of the eleven writes maps to a step of `JobContract`, or leaves phase, runner and failures as they were. |
| `BudgetCorrect`: `[]RetryBudgetIsExact`, and `EndIsFinal`: `SucceededIsFinal` and the same of FAILED and CANCELLED, under the same assumptions | Shown of a step of the contract (`ContractKeepsBudget`, `EndedIsLeftAlone`) and carried over by the refinement, with `RetriesCountFailures`, a part of the property, for the number of failed attempts. |
| `LockTypeCorrect`, `LeadershipCorrect`, `OneSweepCorrect` | `LeadersHoldTheLock` is inductive with `TypeOK`; without slow sweeps nobody is overdue, so two sweepers would both be the value of one key. |
| `ApiTypeCorrect`: `[]TypeOK` | With `WalksAreInOrder`: a handler waits for a statement only of its own route, and for a request that passed its chain. |
| `OneJobCorrect`: `[]OneJobPerKey` | `KeysAreUnique` is the unique index; `AnswersNameTheKey`: what was told stays true, since jobs are only appended. |
| `ReplaysCorrect`: `[]ReplaysAreRecorded` | The insert and the update are one transaction. |
| `VouchedCorrect`: `[]WritesAreVouched` | `ChainVouches`: whoever passes the chain of a route that writes has a valid token and the role; the handler compares organisations. |
| `PoolCorrect`: `[]PoolClosesLast` | `PoolInv`: the pool closes only for a signal and once nobody is left but clients that have hung up; after a signal nobody new is admitted. |
| `DashboardTypeCorrect`: `[]TypeOK` | `DashInv`, by what a step does to one entry of the cache (`StepMovesEntries`, `StepMovesRest`). |
| `NobodySeesAnothersData`: `[]ShownBelongsToSession` | `EntriesBelong`, a part of `DashInv`: keys carry the organisation, so a late answer enters another entry. |
| `AcknowledgedChangesStay`: `[]OwnChangesAreShown` | `AckInv`: an acknowledgement on screen replaces the fetch under way, so no answer older than it is left to clear the mark it sets. |
| `ListingTypeCorrect`: `[]TypeOK`; `SeekSkipsNothing`: `[]NothingIsSkipped`; `WalksMissNothing`: `[]WalksAreComplete`, all with `HostInUTC` | `ListingInv`. The order of a walk is total and is not changed by inserts or status changes, so what a cursor is beyond stays so. `FlightsOK`: an answer under way shows every job that was there when it was read, still matches and lies between its cursor and its next one. `WalkOK`: of the jobs that matched all along, those before the current cursor, and before each cursor Prev goes back to, have been seen, and the pages cached or on their way continue from there. `StackOK`: the stack Prev takes cursors from begins with the first page and passes it once. |
| `FailurePathTypeCorrect`: `[]TypeOK`; `NoRetryIsEarly`: `[]RetriesAreSpaced`; `NoRetryIsForgotten`: `[]RetriesArePrompt`; `DeadLetterIsInTime`: `[]DeadLettersAreInTime`; `RowsAreUsable`: `[]AnalysisIsUsable` | `FailureInv` says where each timer may stand for what the job waits for: `scheduled_at` is the failure plus the delay, cut to a second; a due job meets the sweep within its pause, a queued one the worker within its backoff. `DelayIsExpected` relates the code's power of two to a doubling per retry. `DeadLetterIsInTime` grants the idle time of fetch to each piece that arrived; it does not say that the pieces end. |
| `MetricsTypeCorrect`: `[]TypeOK`; `FiguresFit`: `[]FiguresBelongTogether`; `FiguresAreTheCallers`: `[]FiguresAreScoped` | `MetricsInv` bounds each answer by the tables as they are now, though it was counted earlier: jobs do not vanish, change their organisation or leave the dead letter queue. Sums of counts are counts of disjoint unions (`TwoParts`, `FourParts`); `ShareIsShare` is the rounding of the rate. |
| `ChartShowsEachJobOnce`: `SeriesShowsEachJobOnce` | For every zone of the host at most one point, for UTC exactly one. Two moments less than a cycle apart have the same label only if they are the same (`LabelsDiffer`), and the query's window and the chart's lie within one cycle. |

The two recursive functions of `FailurePath`, `PowerOfTwo` and `Doubled`, are shown to exist
and to be equal up to a factor by their smallest counterexample (`LeastNumber`), since
induction theorems that take an operator are beyond the installed provers. `LargestExists`
in `NebulaAttempts` is obtained in the same way.

Every safety invariant and action property of the passing runs is stated by one of these
theorems. Only model-checked: the liveness properties (`JobsSettle`, `ShutdownCompletes`,
`PromotionsArrive`, `LockIsReturned`, `ShutdownEnds`, `KeyedEnqueueArrives`,
`ExpiredSessionsEnd`), which need fairness and ENABLED and so are out of the prover's reach.

## 5. Not modelled

Loggers format and print; the seeds and repair scripts run once; the compose file and
the build files configure. Of the rest this is left out:

* `#queryExecutionPerf`, whose percentile is taken from a `GROUP_CONCAT` that MySQL cuts
  at its length limit; the formatting of an answer.
* `getJobById` and the other reads of one row; `last_login_at`, which `login` writes and
  nobody reads.
* The limits `updateQueue` sets, which are constants of the pipeline.
* Associations, which the services use as joins, and `sync`, which a development setting
  may turn on at the start.
* Signing, hashing, and the formats the schemas demand of fields.
* The prompts of the analysis; layout, charts and texts of the pages.
* `consecutiveErrors` of the scheduler's loop, which never counts, as `runSweep` catches
  all its errors.
* A heartbeat in flight when a shutdown begins, which may set the row back to IDLE after
  the shutdown's UPDATE; it would be found stale one TTL later.

## 6. Plan

Model:

* `ClaimTransaction`: row locks, `SKIP LOCKED` and the read view of the count, refining
  the atomic claim of `JobExecutor`.
* `updateQueue` with its limits, so that `ConcurrencyLimitHolds` is about a limit that
  changes.
* Several changes under way in one tab.

Prove:

* A contract for a request with an idempotency key, as abstract as `JobContract`, and that
  `NebulaApi` implements it.
* With `ClaimTransaction`, that its transactions implement the atomic claim.
