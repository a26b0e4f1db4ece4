# A verification project for the Distributed Web Scraper

The system is a supervisor and any number of workers, two Go programs. The
supervisor keeps jobs in Postgres, fires them from an in-memory cron scheduler,
and pushes a copy of each fired job on a Redis list. Workers pop copies, crawl
the job's site and write the outcome to the job's row. Workers register with
the supervisor over gRPC and send heartbeats; a health check puts the running
jobs of a silent worker back on the list.

Paths below are relative to `src/`; `JS`, `WS`, `SS` stand for
`Supervisor/Services/job_service.go`, `Supervisor/Services/worker_service.go`
and `Worker/Services/scraper_service.go`.

## 1. Inventory

| Component | State | Operations | Correct when |
|---|---|---|---|
| Job service, cron scheduling (`JS`, `Controllers/job_controller.go`) | tables `jobs` and `job_cron_entries`, entries of the cron scheduler | `CreateJob`, `UpdateJob`, `DeleteJob`, `scheduleJob` | an active job has exactly the entry its bookkeeping row names, another job none |
| Job dispatch (`executeJob`) | `jobs.status`, the list `scraping_jobs` | one goroutine per firing: UPDATE, LPUSH, undo | a pending row has a copy on its way |
| Startup (`LoadAndScheduleAllJobs`, `main.go`) | all of the above | flush, reset, schedule, serve | rows, list and entries agree whatever the last process left |
| Health check (`WS`) | `workers.status`, `last_heartbeat` | `checkAndRecover`, `requeueWorkerJobs` | a dead worker's jobs run again, a finished job does not |
| Supervisor gRPC server | `workers` rows | `RegisterWorker`, `Heartbeat` | a live worker is active under one row |
| Supervisor gRPC client | `workers` rows | `ShutdownWorker` | the worker named stops |
| Worker and cron-entry CRUD | `workers`, `job_cron_entries` | POST, PUT, DELETE | administration by hand |
| Worker loop (`SS`) | semaphore, wait group, `ActiveJobCount` | `StartListening`, `processJob` | bounded runs, nothing popped is dropped by a stop |
| Status updates (`SS`) | `jobs.status`, `worker_id` | `updateJobStatus` | a running row names its runner |
| Worker stop (`Worker/main.go`, `grpc_server_service.go`) | signal channel, context | SIGTERM, `Shutdown` | an answered Shutdown stops the worker |
| Worker gRPC client | connection, failure counter | register, heartbeat, `Reconnect` | a live worker becomes active again after any outage |
| `RunScrape` (`colly_scraper.go`) | channel, batch, `totalSaved`, `dbErr` | collector, aggregator | items counted are items saved, and the run ends |

Interactions: supervisor and workers share the job database and Redis and call
each other over gRPC (registration and heartbeats one way, `Shutdown` the
other). There is no lock around a job: every party writes `jobs.status` by id,
and what keeps the writes in order is only the path a copy takes through the
list and, in one place, the row lock of the requeue transaction.

What is hard: statements of several processes interleave freely; Redis and
Postgres are not updated together except in `requeueWorkerJobs`; most errors are
logged and otherwise ignored; workers, the supervisor, Redis and Postgres fail
independently; timeouts (45 s for a heartbeat) race with workers that are alive;
a stop races with BRPOP and with a full semaphore; entry ids are persisted
although they are only meaningful within one process. `PROJECT.json` lists the
hazards one by one, with the line and the properties about it.

## 2. Modules

| Module | What it is |
|---|---|
| `JobDispatch` | the life of a job: firing, list, workers, health check, registry, restarts (the core) |
| `MCJobDispatch`, `Dispatch*.cfg` | its instances |
| `JobDispatch_proof` | its theorems |
| `WorkQueue` | abstract specification: what the dispatch does with the copies of a job; `JobDispatch` implements it |
| `WorkQueue_proof` | the proof that it does |
| `JobUpdate` | PUT /jobs/:id next to the dispatch; extends `JobDispatch` |
| `MCJobUpdate`, `JobUpdate.cfg` | its instance |
| `JobUpdate_proof` | its theorems; extends both proof modules above |
| `WorkerPool` | abstract specification: what a worker process promises |
| `ScrapeLoop` | the loop, its goroutines and the way of a stop request; implements `WorkerPool` |
| `MCScrapeLoop`, `ScrapeLoop.cfg` | its instance |
| `ScrapeLoop_proof` | its theorems, the refinement among them |
| `CronSchedule` | REST handlers, `scheduleJob`, restarts, against the three places of the schedule |
| `MCCronSchedule`, `Cron*.cfg` | its instances |
| `CronSchedule_proof` | its theorems |
| `WorkerRegistry` | registration and heartbeats of one worker, on both sides of the connection |
| `MCWorkerRegistry`, `WorkerRegistry.cfg` | its instance |
| `WorkerRegistry_proof` | its theorems |
| `ScrapePipeline` | one run of `RunScrape` after another: collector, channel, batch writer |
| `MCScrapePipeline`, `ScrapePipeline.cfg` | its instance |
| `ScrapePipeline_proof` | its theorems |

Definitions marked "faulty variant", or placed directly before the definition
they resemble, are mutants: with the variant in the definition's place a property
listed in `PROJECT.json` ("mutants") fails. They are not part of any `Next`.

### JobDispatch

`status` and `workerId` are the columns of the job row, `queue` the Redis list
(oldest first: LPUSH appends, BRPOP takes the head), `cron` the jobs that have an
entry, `tick` the `executeJob` goroutines, `sup` the phase of the supervisor
process, `wrow` the worker row with its `last_heartbeat` abstracted to "stale"
(status active and older than 45 s), `hc*` the locals of the health check,
`locked` the row held by the open requeue transaction, and `proc`, `hand`,
`task` the phase of each worker, the popped job waiting for a slot, and the
goroutine in each slot. A copy is the job itself: only the id in the payload is
used. One database or Redis call is one step. Each action names its function in
its comment. The transaction of `requeueWorkerJobs` is `HcLock` (the UPDATE takes
the row lock), `HcPush`, `HcResend` or `HcPushFails` (the LPUSH) and `HcCommit` or
`HcRollback`; `HcFail` is an UPDATE that fails. While a transaction is open no other
statement writes its row (`locked # j`), which is Postgres's row lock.

The Redis client is go-redis with its defaults (`Supervisor/Models/setup.go:40-49`):
a command that gets no answer is sent again, `MaxRetries` times at most (3 in the
library), and the caller sees the last attempt's result only. So one `LPush` of
`executeJob` (`JS:201`) or `requeueWorkerJobs` (`WS:150`) is a number of LPUSHes:
`TickResend` and `HcResend` are an attempt without answer, which the list may have
taken; `TickPush` and `HcPush` the attempt that is answered; `TickPushFails` and
`HcPushFails` the error, after which a copy of the last attempt, and copies of the
earlier ones, may be on the list all the same. `left` of a firing and `hcLeft` of the
transaction count the attempts that remain (`Attempts` at first, which is 1 without
Redis faults). A retried BRPOP needs no such count: each one takes an element or
does not (`PopLost`).

`Faults` selects what may go wrong: `crash`, `restart`, `term`, `shutdown`,
`supcrash`, `partition` (late heartbeats of a live worker), `redis` (a command
fails, or takes effect and its reply is lost, and is then repeated as above), `db`
(a statement fails). A lost
heartbeat is simply a step that does not happen. `RegisterWorker` may come at any
time of a live process, a superset of when the registration goroutine and the
re-registration call it.

Two history variables, read by properties only, name what a fault took:
`dropped` (the last copy of a job may be gone; a new push clears it) and
`abandoned` (a run ended without recording it; a new running status clears it).

### WorkQueue

What the dispatch makes of a copy, without rows and list: for each job the number
of copies that are due, wait for a run, and are run. A copy is queued against one
that is due, leaves the queue when it is run or named as lost, and a run ends
once. `ImplementsWorkQueue` of `JobDispatch` maps `due` to the LPUSHes that a
firing, or `requeueWorkerJobs` for a job it has found stuck, may still send,
`copies` to those on the list, in a worker's hand and in a slot before the running
status, `runs` to the scraping goroutines, `serving` to `sup = "up"`, and the two
sets of losses to the history variables. What makes a copy due is left open:
firings, and a health check that reads a job again after its COMMIT has failed,
decide that.

### JobUpdate

`UpdateJob` reads the row, changes `is_active` and saves the whole row, so between
the two the dispatch goes on writing the status and the `worker_id` that Save puts
back. `req` is the handler with its copy of the row, `active` the column, `checked`
the job a firing has read as active and not yet marked (`executeJob` looks at
`is_active` in a statement of its own), `stray` the jobs with an entry that no
bookkeeping row names any more. The other steps are those of `JobDispatch`. The
history variable `overwritten` has the jobs whose row Save changed to something
older, until the dispatch writes it again. One request is served at a time;
`CronSchedule` has requests that overlap.

### WorkerPool and ScrapeLoop

`ScrapeLoop` has one step per statement of the loop: select, BRPOP, semaphore,
`ActiveJobCount.Add`, `wg.Add` with the `go` statement, and the two deferred
functions in their order. A stop request comes from SIGTERM (not blocking) or from
the goroutine of a `Shutdown` call (blocking on the channel of capacity one);
main receives one and cancels. The refinement maps `taken` to the message that
waits for a token, `running` to the messages that hold one, and `phase` to what
the loop has yet seen of the cancellation: in BRPOP one more message may come.

### CronSchedule

A handler or main is a thread with a job, its copy of the row and an entry id.
`scheduleJob` is the same actions for both. A row is (active, cron, done), where
done stands for status completed or failed, the only distinction the restart
makes. `stored[j]` holds the entry ids of the job's `job_cron_entries` rows,
`entries` the scheduler's, `nextId` its counter, which starts at 1 in every
process.
Every statement may fail as the code lets it (`ScheduleFails`, `HandlerFails`):
errors are printed at most, a lookup that fails counts as "none found", and main
ignores a job query that fails (`LoadFails`). `EditEntries` is POST or DELETE
/cron, which edits the bookkeeping rows directly. `MaxMishaps` bounds both. Two
of the history variables record what the properties must except: `excused`, the jobs
whose entry another job's request removed (see the finding) or that the last
restart did not load, and `broken`, the jobs one of whose own statements failed,
or whose rows were edited, since the last restart; a third, `edited`, has the jobs whose
rows were ever edited by hand, the only ones that `RemovesOwnEntryUntilRestart`
excepts. A job is never broken by the mishap of another one.

### WorkerRegistry

The rows of table `workers` that carry the worker's name are a sequence, so that
a row's position is its id; a deleted row leaves a gap. `RegisterWorker` is a
SELECT of the lowest id, then an INSERT or an UPDATE by id; `Heartbeat` is one
UPDATE by name. `call` holds the handlers at work, each with the goroutine that
waits for it; a goroutine whose deadline passes, whose connection is closed or
whose process ends leaves its handler running for nobody (`Left`). `pc` has
main's registration goroutine (`MaxRetries` attempts, 10 in the code) and the
heartbeat goroutine (`MaxFailures`, 3 in the code); both use one `client`, which
`Reconnect` closes and may leave closed. The health check and REST write the
same rows: the mark of `HcMark` is by id for a row read in `HcQuery`, and PUT
/workers inserts a row, because the handler passes no id to `Save`. `Faults` and
`Budget` say what may go wrong and how often in all. Two history variables are
read by `OneRow` only: `overlapped` (two registrations were at work at once,
which `FirstOrCreate` does not survive without a unique index) and `byHand` (REST
added a row).

### ScrapePipeline

Items are counted, not named: a shop is the sequence, page by page, of the number
of items up to and with that page, so that the items of a page are the difference
of two (`Before`) and those of the shop the last number. `collector` and
`aggregator` are the two goroutines, `chan` the buffered channel, `batch`,
`totalSaved` and `dbErr` the locals they share, `table` the job's rows in
`scraped_items`. A flush fails without effect, or takes effect and its reply is
lost. `Visit` of a page beyond `MaxDepth`, or one that cannot be fetched, ends the
walk; the code looks at the error of the first page only. A crash of the worker,
or the next firing, begins another run on the same table (`Rerun`).

## 3. Runs

| Run | Instance | What it shows |
|---|---|---|
| `dispatch_workers` | 1 job, 2 workers with 1 slot, 1 firing; crashes, SIGTERM, ShutdownWorker, late heartbeats, restarts | `PendingIsBacked`, `RunningIsOwned` and `ImplementsWorkQueue` whatever happens to the workers |
| `dispatch_storage` | 1 job, 1 worker with 2 slots, 2 firings; Redis, Postgres, supervisor fail, an LPUSH is sent twice at most | the same, and `LockedIsBacked`, with any call failing or repeated |
| `dispatch_recovery` | 2 jobs, 2 workers, 2 firings; one worker may crash; fair | `DeadWorkersJobsInReach`, `DeadRunsAreRequeued`, `PendingIsServed` |
| `dispatch_retry` | crash and Redis failure | violation: a failed requeue is not retried |
| `dispatch_drain` | SIGTERM and a long drain | violation: a finished job is requeued |
| `dispatch_popped` | crash between BRPOP and the running status; fair | violation: the health check does not see the popped job |
| `job_update` | 1 job, 1 worker, any number of firings and PUTs; the handler's statements fail, the supervisor crashes; fair | `RowsAreTrue`: a PUT damages only a row written since it was read; `DeactivatedJobIsLeftAlone` |
| `scrape_loop` | 3 messages, 2 slots, 3 Shutdown calls, SIGTERM; fair | bounds, exact count, nothing dropped, stop obeyed, `ImplementsWorkerPool` |
| `cron_schedule` | 2 jobs, 2 handlers, 4 requests, 1 restart, 1 mishap | the three places agree once requests are answered; a mishap detaches the entry of its own job at most; before the restart no request takes another job's entry |
| `cron_alias` | the same without mishap | violation: a stale entry id removes another job's entry |
| `worker_registry` | 1 worker, 2 handlers at once, 2 retries, 2 failures, any 2 faults or REST requests; fair | one row, no dead connection kept, a live worker is active again and again, a dead one marked |
| `scrape_pipeline` | 2 runs over 84 shops of up to 3 pages and 3 items a page; all faults; fair | items accounted for, result true, `RunScrape` returns |

Bounds. Two workers are the least with which one worker's death can disturb
another's runs. The runs with many kinds of faults have one job: several copies of
it arise there from the requeue and, in `dispatch_storage`, from an LPUSH that is
repeated and from the second firing, and rows of different jobs meet nowhere in
`JobDispatch` but on the list. `dispatch_storage` has one worker with two slots,
so that two copies run at once; the health check finds it stale when the
supervisor was down, while it goes on running and announcing jobs. That several
workers overlap with failing statements is left to the theorems, which have no
bound. `MaxRetries = 1` is enough because a third attempt only repeats the second:
one that is not the last, or one that is. `dispatch_recovery` has two jobs and two
firings, so that jobs compete for the one slot of the surviving worker. One slot
per worker is enough elsewhere in `JobDispatch`, as the slots of a worker interact
only in `ScrapeLoop`, which has two. `MaxQueue` bounds when a push may begin, not
the push: no firing and no requeue starts while the list is that long (`Room`),
and one that has started sends all its LPUSHes, so that no goroutine or
transaction waits for the bound. It is 2 where copies multiply and 4 in the fair
run, where it is never reached. Three Shutdown calls are one in the channel, one
received, one blocked for good. Four requests of two handlers are enough to create
both jobs, deactivate one with a restart in between, and touch the other.

`JobUpdate` has one job, since a PUT touches one row. Its firing goroutine may be
used again after it has ended, so that an entry left in the scheduler fires
without end: without the check of `is_active` the liveness property fails. The
supervisor may crash at any time; the property speaks of
histories in which it is up from some time on, as one that is restarted for ever
keeps requeueing jobs of workers whose heartbeats it missed. One worker is
enough, as the row has four writers with it (firing, worker, health check, Save)
and the health check finds it stale after a crash of the supervisor; the
instances of `JobDispatch` have the two workers.

In `WorkerRegistry` two handlers are the call of main and the heartbeat, or a
handler left behind by its caller and the next one, and the second row of a
duplicate registration needs no third; two attempts and two failures tell the
last one from the others; a budget of two lets a fault hit the repair of another,
as a failed dial does after two lost heartbeats. Liveness needs no more:
a fault before the last two only changes the state the last two begin in. In
`ScrapePipeline` a third page is beyond the depth of two, three items on a page
overfill channel and batch together with those of the page before, and a second
run finds rows of the first.

Workers, jobs, slots, firings and
handlers are interchangeable, so `Symmetry` is used in the runs that check no
liveness and where all or none of the workers may crash.

Deadlock is not checked: firings, requests, faults and messages are bounded, and
a system with nothing left to do stops.

Fairness. `JobDispatch` assumes weak fairness of every step of the code that is
ready to run: the pushes and the undo of a firing, the health check (its ticker
fires every 30 s), the pops and the goroutines of workers that live, and the
ageing of a dead worker's heartbeat. A scrape ends because the crawl follows at
most `MaxDepth` pages and every request has a timeout. It assumes nothing of
firings, faults, registrations or administration. `JobUpdate` adds that a firing
that has read the row goes on to mark it. `ScrapeLoop` assumes that the
Go scheduler runs runnable goroutines, that BRPOP returns within its five seconds
and that a scrape ends; signals and Shutdown calls need not come.
`WorkerRegistry` assumes that handlers return (gRPC does not cancel their
statements, Postgres answers or fails), that the goroutines of the worker go on
(every call has a deadline), that the tickers of 15 s and 30 s tick and that time
passes; it assumes nothing of faults, REST, stops or the restart of a supervisor
or a worker, so its liveness properties except a history that ends without one.
`ScrapePipeline` assumes that requests and statements end and that a goroutine
that can go on does: weak fairness of each of the two.

## 4. Theorems

`JobDispatch_proof`, for any sets of jobs, workers, slots and firings, any list
bound and any faults:

* `TypeCorrect`, `PendingAlwaysBacked`, `RunningAlwaysOwned`,
  `LockedAlwaysBacked`: the invariants of the runs, from `Inductive`.
* `Inductive` proves `IInv`, the conjunction of `TypeOK`, `IdleWhenDown`,
  `LockedIsBacked`, `PendingIsBacked` and `RunningIsOwned`. `PendingIsBacked` alone
  is not inductive: the COMMIT of a requeue makes a row pending, so the copy the
  transaction pushed must still be ahead of its run or recorded as dropped
  (`LockedIsBacked`), which in turn holds because nobody announces the job as
  running while the row is locked. `IdleWhenDown` is needed because a restart
  flushes the list and must find no transaction open. The proof has one lemma per
  group of actions; each shows which copies and runs a step moves.
* `DeadJobsStayInReach`: `DeadWorkersJobsInReach` under `Faults \subseteq {"crash"}`:
  workers crash, stay down, and nothing else goes wrong. The theorem says nothing of
  restarts; a worker that is started again under an offline row, pops a job and dies
  leaves it out of reach, and the other kinds of faults have such histories too
  (`dispatch_retry` shows the one that the code's comment denies). Its invariant `RInv` adds
  to the types what this hypothesis rules out (`CrashesOnly`: the supervisor is up,
  nobody is asked to stop, a worker that is alive has no row marked offline, one that
  is dead runs nothing) and what the health check relies on in each phase
  (`HealthCheckPhases`: the workers it handles are dead and stay so, it has found no
  jobs before its query, and the job it holds the lock of is one it found).

`WorkQueue_proof`, for any sets again, none of them finite:

* `RefinesWorkQueue`: `Spec => ImplementsWorkQueue`, for any number of retries. An LPush
  may put several copies on the list when replies are lost, but at most as many as
  go-redis sends it, and each is claimed and run once or on record as lost. Copies, runs
  and due pushes are cardinalities (positions of a job on the list, workers that hold
  it, slots, attempts left to a firing), and `Cardinality` says nothing of an infinite
  set. No assumption is made: that the sets counted are finite is an invariant
  (`Finite`), since nothing is counted at first and a step adds one element, or the
  attempts of one firing, at most. The lemmas `...Numbers` say by how much each action
  changes the numbers, `QueueSteps` that all other steps leave them alone, and
  `DueByFiring` and `DueByRequeue` that an LPUSH uses up one that was due.

`JobUpdate_proof`, for any sets, faults and failing statements of the handler:

* `UpdateTypeCorrect`, `RowsAlwaysTrue`, from `UpdateInductive`. Every step is one of
  `JobDispatch`, or quiet, or Save, or the mark of a firing (`StepKinds`), so the lemmas
  of `JobDispatch_proof` about single rows and copies are used again. `UInv` needs
  three more facts than `RowsAreTrue`: a request names a job (`RequestNamed`), a firing
  between its read and its mark is not pushing, or its mark would forget the push of
  another job (`CheckedIsIdle`), and `LockedIsBacked`, as the COMMIT of a requeue makes
  true again a row that a Save had overwritten. `WorkerStep` shows that whoever writes
  a `worker_id` writes the status it belongs to as well.
* `UpdateRefinesWorkQueue`: the refinement holds next to PUT requests too; what they
  change is which firings come to `Mark`, and `Mark` at most makes copies due, as many
  as its LPUSH may be sent.

`ScrapeLoop_proof`, for any finite set of messages, any capacity and any callers:

* `Inductive`: `IInv`, that semaphore, wait group and `ActiveJobCount` are the
  cardinalities of the sets of goroutines they stand for. It needs where the
  message in hand came from, that messages on the list are untouched, and that
  the loop waits only when cancelled.
* `RunsAlwaysBounded`, `CountAlwaysExact`, `NothingEverDropped` follow from it;
  `NothingEverDropped` uses that `wg = 0` means that no goroutine is left.
* `RefinesWorkerPool`: `Spec => Pool!Spec`. The token that `Acquire` takes is what
  allows the pool to `Begin`: `sem < Cap` and `sem = Cardinality(Holding)`.

`CronSchedule_proof`, for any jobs, handlers, requests, restarts and mishaps; all but
the last under `Serial = TRUE` (the clients have one request per job at a time, and
two at a time do break the agreement):

* `EntriesAreStored`, `InactiveStaysUnscheduled`, `ActiveStaysScheduled` and
  `TypeCorrect` follow from `Inductive`. The three invariants speak of answered
  requests only, so `IInv` says what holds in the middle of one: which job a
  thread is about, and that no other thread is (`Control`), what its copy of the
  row says (`Copies`, `RowKept`), and at each control state whether the job has an
  entry, which id it has and whether a bookkeeping row exists (`StageOf`). `Fresh`,
  that entry ids are given out once in a process, makes `Remove` take one entry;
  `Stored`, `Unscheduled` and `Scheduled` are the three invariants with the control
  states in which they hold already or still.
* `OwnEntriesUntilRestart`: `Spec => RemovesOwnEntryUntilRestart`, the limit of the
  finding of `cron_alias`. It does not assume `Serial`: requests for one job that
  overlap, and statements that fail, leave entries unrecorded and ids stale, but none
  of this makes a request remove the entry of another job. `OwnInv` says that an id
  names one job for good from when it is given out, in the scheduler, in
  `job_cron_entries` and in the variables of a request (`Owns`); the restart, which
  gives ids out anew, is the step that breaks it.

`WorkerRegistry_proof`, for any number of handlers, attempts, failures and any
budget:

* `TypeCorrect`, `AlwaysOneRow` and `NoDeadConnection`, from `Inductive`. `OneRow`
  needs that a handler which has found no row still has none to find when it
  inserts (`NoRowToFind`), which holds because no other registration is at work
  (`OneRegistration`). The types need that main gives up in time and that the
  failure counter stops growing where the connection is replaced.

`ScrapePipeline_proof`, for any shops, depth, capacity, batch size and runs:

* `TypeCorrect`, `ItemsAlwaysAccounted`, `ResultAlwaysTrue`, `CompletedAlwaysComplete`,
  from `Inductive`. The result needs `Phases`: nothing enters a closed channel, the
  aggregator ends with channel and batch empty, and nothing is dropped without `dbErr`.
  That a completed run has the whole shop needs `Walked`: what has been sent, and what
  the page at hand still holds, is the number of items up to that page.

The proofs assume the named ASSUMEs of the modules only: null values outside the
sets, bounds that are numbers, `Mortal` a set of workers, `Msgs` finite, `Cap`,
`ChanCap`, `BatchSize` and the retry limits of `WorkerRegistry` positive, `MaxRetries`
of `JobDispatch` a number, and shops with a first page whose
item counts do not decrease.

Model-checked only: everything temporal under fairness (`DeadRunsAreRequeued`,
`PendingIsServed`, `ShutdownIsObeyed`, `PoppedIsProcessed`, `LiveWorkerIsActive`,
`DeadWorkerIsMarked`, `RunReturns`, and the fairness part of
`ImplementsWorkerPool`, and `DeactivatedJobIsLeftAlone`), since the prover does not
handle ENABLED. Every invariant of the passing runs, and the safety part of every
refinement, is proved. `UpdateRefinesWorkQueue` and `OwnEntriesUntilRestart` go
beyond the runs: the first was checked with the instance of `job_update` and is not
part of that run, the second covers overlapping requests, which `cron_schedule` has not.

## 5. What the runs found

Four runs end in a violation that quotes the repository; `PROJECT.json`
("findings") has the texts.

* A requeue that fails is not retried, contrary to the comment at `WS:140-141`:
  the worker was marked offline before, and only active workers are looked at.
* The requeue updates by id what it read before, so a worker that drains for more
  than 45 s has jobs it finished put back to pending (`WS:143`).
* A job popped but not yet marked running dies with its worker (`WS:112`).
* Stored entry ids alias entries of other jobs after a restart (`JS:63`, `JS:82`).

Four more things were met while modelling and have no run of their own:

* The rollback of a refused expression (`JS:127`) deletes a job that was there
  before a PUT with a mistyped expression: `Refuse`, `Rollback` in `CronSchedule`.
* `RegisterWorker` does not upsert: SELECT and INSERT are apart, the name is not
  unique, and a call that timed out is retried while its handler still works
  (`Supervisor/Services/grpc_server_service.go:63`). `RegistrationUpserts` of
  `WorkerRegistry` fails in this case, which `OneRow` excuses (`overlapped`). Both
  rows are then marked and refreshed by the same heartbeats, so dispatch is not
  affected.
* An `LPush` that returns no error may have queued the job several times (go-redis
  repeats it): each copy is a run of its own, and nothing tells it from a copy of
  another firing. No text in the repository promises more, so it is not a finding.
* A completed job keeps its `worker_id`, which `System Design.drawio` clears
  (`SS:113`, `Finish` in `JobDispatch`). Nothing misreads it.

## 6. Not modelled, and the plan

Not modelled: generated protobuf code, deployment files and shell tests, field
parsers, request decoding and read-only handlers, `last_result`, `next_run`,
`last_run`. Host names, capacities and active job counts of worker rows are left
out, as nothing decides on them. In `JobDispatch` a crawl is one step that ends
well or badly and a worker has one row; `ShutdownWorker` is there only.
`MarkRunning` leaves out the branch of `updateJobStatus` that writes an empty
`worker_id` (`SS:116-119`): it is taken only when the supervisor client could not
be created, which the non-blocking dial does for a malformed address and not for a
supervisor that is down, and such a misconfigured worker is not among the faults.
An attempt of an LPUSH that times out has taken effect before the client goes on
or never does; a command that reaches Redis after its successor is left out. In
`ScrapePipeline` runs of one job follow each other; two at once on two workers
would add to the same table, each with its own count. A requeued run stores the
items of the first one again (`earlier`): nothing in the repository says whether
it should.

A Save of `UpdateJob` over a row the dispatch has written since can leave a job
"pending" without a copy or "running" without a run (`JobUpdate` reaches it,
`overwritten` names it); the next firing or restart puts it right. Nothing in the
repository says who should win, so it is not a finding.

Next, in this order:

1. What becomes of requeued work across restarts of a worker: a step theorem of
   `JobDispatch` for the recovery under more kinds of faults than a crash, naming the
   ones that take a dead worker's jobs out of reach (a restart under the old name, a
   late "shutdown", a worker without a row: hazards no property covers yet).
2. Overlapping runs of one job in `ScrapePipeline`.
3. Shorter proofs in `CronSchedule_proof`, where the lemmas about single threads
   (`ThreadStep`, `StoredIds`) could carry `ControlStep` and `StoredStep` as well.
