---------------------------- MODULE JobDispatch ----------------------------
(***************************************************************************)
(* The life of a job across the supervisor, Redis, Postgres and the        *)
(* workers: a cron firing marks the job "pending" and pushes a copy of it  *)
(* on the Redis list (executeJob), a worker pops the copy, runs it and     *)
(* writes the outcome (StartListening, processJob), the health check puts  *)
(* the running jobs of a dead worker back on the list (checkAndRecover,    *)
(* requeueWorkerJobs), and a restarted supervisor flushes the list and     *)
(* resets the rows (LoadAndScheduleAllJobs).                               *)
(*                                                                         *)
(* A job is its row in Postgres; a copy of it on the list, in a worker's   *)
(* hand or in a slot is represented by the job itself, because nothing in  *)
(* the payload is used except the id.  A worker row is identified by its   *)
(* name; jobs refer to workers by name too.  Each database statement is    *)
(* one step, and every wait of the code lies between two steps.            *)
(***************************************************************************)
EXTENDS Naturals, Sequences, FiniteSets

CONSTANTS
    Jobs,       \* jobs with is_active and a valid cron expression
    Workers,    \* worker names (WORKER_ID)
    Slots,      \* the semaphore of one worker: WorkerCapacity tokens
    Ticks,      \* cron firings; each is one goroutine and happens at most once
    MaxQueue,   \* bound on the Redis list when something is going to be pushed
    MaxRetries, \* how often go-redis repeats a command that got no answer
    Faults,     \* which of FaultKinds may happen
    Mortal,     \* the workers that may crash
    NoJob, NoWorker

FaultKinds == {"crash",      \* a worker process dies
               "restart",    \* a stopped worker is started again
               "term",       \* SIGTERM reaches a worker
               "shutdown",   \* POST /workers/:id/shutdown
               "supcrash",   \* the supervisor process dies and is restarted
               "partition",  \* heartbeats of a live worker are late
               "redis",      \* a Redis command or its reply is lost
               "db"}         \* a Postgres statement fails

ASSUME FaultsAssumption == Faults \subseteq FaultKinds
ASSUME MortalAssumption == Mortal \subseteq Workers
ASSUME QueueAssumption == MaxQueue \in Nat
ASSUME RetriesAssumption == MaxRetries \in Nat
ASSUME NoJobAssumption == NoJob \notin Jobs
ASSUME NoWorkerAssumption == NoWorker \notin Workers

VARIABLES
    status,    \* jobs.status
    workerId,  \* jobs.worker_id
    queue,     \* the Redis list "scraping_jobs", oldest element first
    cron,      \* jobs with an entry in the cron scheduler
    tick,      \* the executeJob goroutine of each firing
    sup,       \* phase of the supervisor process
    wrow,      \* workers.status, with "stale" for a row that says "active" and
               \* whose last_heartbeat is older than heartbeatTimeout
    hcList,    \* stale workers the running health check has still to handle
    hcCur,     \* the worker it is handling
    hcFound,   \* TRUE once requeueWorkerJobs has read stuckJobs
    hcStuck,   \* the members of stuckJobs not yet handled
    locked,    \* the row held by requeueWorkerJobs's open transaction
    hcLeft,    \* how often LPUSH may still be sent in that transaction
    proc,      \* phase of each worker process
    hand,      \* the job StartListening popped and has no slot for yet
    task,      \* the goroutine in each slot
    asked,     \* workers whose Shutdown handler has still to signal main
    shutting,  \* ShutdownWorker calls that have still to update the row
    dropped,   \* history: the last copy of the job pushed may be gone
    abandoned  \* history: a run of the job ended and could not record it

dbVars == <<status, workerId>>
supVars == <<cron, tick, sup>>
tx == <<locked, hcLeft>>
hcVars == <<hcList, hcCur, hcFound, hcStuck, tx>>
procVars == <<proc, hand, task, asked, shutting>>
ghosts == <<dropped, abandoned>>
vars == <<dbVars, queue, supVars, hcVars, wrow, procVars, ghosts>>

Statuses == {"scheduled", "pending", "running", "completed", "failed"}
Terminal == {"completed", "failed"}

Free == [pc |-> "free", job |-> NoJob]
Popped(j) == [pc |-> "popped", job |-> j]
Scraping(j) == [pc |-> "scraping", job |-> j]

(* RedisClient sends a command again when it or its reply is lost, without *)
(* the caller noticing; the last of its attempts decides.                  *)
Attempts == IF "redis" \in Faults THEN MaxRetries + 1 ELSE 1

(* A firing knows how often its LPUSH may still be sent.                   *)
Unused == [pc |-> "unused", job |-> NoJob, left |-> 0]
Pushing(j, n) == [pc |-> "push", job |-> j, left |-> n]
Undoing(j) == [pc |-> "undo", job |-> j, left |-> 0]
Done == [pc |-> "done", job |-> NoJob, left |-> 0]

TaskStates == {Free} \cup [pc : {"popped", "scraping"}, job : Jobs]
TickStates ==
    {Unused, Done} \cup [pc : {"push"}, job : Jobs, left : 1 .. Attempts]
                   \cup [pc : {"undo"}, job : Jobs, left : {0}]

TypeOK ==
    /\ status \in [Jobs -> Statuses]
    /\ workerId \in [Jobs -> Workers \cup {NoWorker}]
    /\ queue \in Seq(Jobs)
    /\ cron \subseteq Jobs
    /\ tick \in [Ticks -> TickStates]
    /\ sup \in {"up", "down", "flushed", "reset"}
    /\ wrow \in [Workers -> {"absent", "active", "stale", "offline", "shutdown"}]
    /\ hcList \subseteq Workers
    /\ hcCur \in Workers \cup {NoWorker}
    /\ hcFound \in BOOLEAN
    /\ hcStuck \subseteq Jobs
    /\ tx \in (Jobs \X (0 .. Attempts)) \cup {<<NoJob, 0>>}
    /\ proc \in [Workers -> {"up", "stopping", "draining", "down"}]
    /\ hand \in [Workers -> Jobs \cup {NoJob}]
    /\ task \in [Workers -> [Slots -> TaskStates]]
    /\ asked \subseteq Workers
    /\ shutting \subseteq Workers
    /\ dropped \subseteq Jobs
    /\ abandoned \subseteq Jobs

(* The supervisor has just loaded its jobs; the workers run, unregistered. *)
Init ==
    /\ status = [j \in Jobs |-> "scheduled"]
    /\ workerId = [j \in Jobs |-> NoWorker]
    /\ queue = <<>>
    /\ cron = Jobs
    /\ tick = [t \in Ticks |-> Unused]
    /\ sup = "up"
    /\ wrow = [w \in Workers |-> "absent"]
    /\ hcList = {}
    /\ hcCur = NoWorker
    /\ hcFound = FALSE
    /\ hcStuck = {}
    /\ locked = NoJob /\ hcLeft = 0
    /\ proc = [w \in Workers |-> "up"]
    /\ hand = [w \in Workers |-> NoJob]
    /\ task = [w \in Workers |-> [s \in Slots |-> Free]]
    /\ asked = {}
    /\ shutting = {}
    /\ dropped = {}
    /\ abandoned = {}

(* Redis carries out an LPUSH. *)
Push(j) ==
    /\ queue' = Append(queue, j)
    /\ dropped' = dropped \ {j}

(* The answer to an LPUSH is lost: the list may have taken it or not. *)
PushUnanswered(j) == Push(j) \/ UNCHANGED <<queue, dropped>>

(* The bound on the list: no firing and no requeue begins when it is long. *)
Room == Len(queue) < MaxQueue

-----------------------------------------------------------------------------
(* executeJob: one cron firing.                                            *)

(* UPDATE status = 'pending', whatever the status was; its error is not    *)
(* looked at.                                                              *)
Mark(t, j) ==
    /\ tick' = [tick EXCEPT ![t] = Pushing(j, Attempts)]
    /\ \/ /\ locked # j
          /\ status' = [status EXCEPT ![j] = "pending"]
       \/ /\ "db" \in Faults
          /\ UNCHANGED status
    /\ UNCHANGED <<workerId, queue, cron, sup, hcVars, wrow, procVars, ghosts>>

(* The row is read first; here every job is active.                        *)
Fire(t, j) ==
    /\ sup = "up"
    /\ Room
    /\ j \in cron
    /\ tick[t] = Unused
    /\ Mark(t, j)

(* Faulty variant: LPush is tried again although it has succeeded.         *)
TickPushAgain(t) ==
    /\ tick[t].pc = "push"
    /\ Push(tick[t].job)
    /\ UNCHANGED <<dbVars, cron, tick, sup, hcVars, wrow, procVars, abandoned>>

(* LPush returns no error: an attempt was answered.                        *)
TickPush(t) ==
    /\ tick[t].pc = "push"
    /\ Push(tick[t].job)
    /\ tick' = [tick EXCEPT ![t] = Done]
    /\ UNCHANGED <<dbVars, cron, sup, hcVars, wrow, procVars, abandoned>>

(* No answer to LPUSH, which the list may have taken: it is sent again.    *)
TickResend(t) ==
    /\ tick[t].pc = "push"
    /\ tick[t].left > 1
    /\ tick' = [tick EXCEPT ![t].left = @ - 1]
    /\ PushUnanswered(tick[t].job)
    /\ UNCHANGED <<dbVars, cron, sup, hcVars, wrow, procVars, abandoned>>

(* LPush returns an error.  The list may have taken the copy all the same, *)
(* if it is the answer to the last attempt that is lost.                   *)
TickPushFails(t) ==
    /\ "redis" \in Faults
    /\ tick[t].pc = "push"
    /\ tick' = [tick EXCEPT ![t] = Undoing(tick[t].job)]
    /\ \/ tick[t].left = 1 /\ Push(tick[t].job)
       \/ UNCHANGED <<queue, dropped>>
    /\ UNCHANGED <<dbVars, cron, sup, hcVars, wrow, procVars, abandoned>>

(* UPDATE status = 'scheduled' after the failed push; its error is not     *)
(* looked at either.                                                       *)
TickUndo(t) ==
    LET j == tick[t].job IN
    /\ tick[t].pc = "undo"
    /\ tick' = [tick EXCEPT ![t] = Done]
    /\ \/ /\ locked # j
          /\ status' = [status EXCEPT ![j] = "scheduled"]
          /\ UNCHANGED dropped
       \/ /\ "db" \in Faults
          /\ dropped' = dropped \cup {j}
          /\ UNCHANGED status
    /\ UNCHANGED <<workerId, queue, cron, sup, hcVars, wrow, procVars, abandoned>>

-----------------------------------------------------------------------------
(* checkAndRecover and requeueWorkerJobs.                                  *)

Stale == {w \in Workers : wrow[w] = "stale"}

(* The stale-worker query.  An empty answer changes nothing.               *)
HcQuery ==
    /\ sup = "up"
    /\ hcList = {} /\ hcCur = NoWorker
    /\ Stale # {}
    /\ hcList' = Stale
    /\ UNCHANGED <<dbVars, queue, supVars, hcCur, hcFound, hcStuck, tx, wrow, procVars, ghosts>>

(* Mark the next one "offline", by id and whatever its row says by now.    *)
(* The UPDATE's error is not looked at.                                    *)
HcMark(w) ==
    /\ hcCur = NoWorker
    /\ w \in hcList
    /\ hcList' = hcList \ {w}
    /\ hcCur' = w
    /\ \/ wrow' = [wrow EXCEPT ![w] = "offline"]
       \/ "db" \in Faults /\ UNCHANGED wrow
    /\ UNCHANGED <<dbVars, queue, supVars, hcFound, hcStuck, tx, procVars, ghosts>>

(* Faulty variants: the wrong status; only the jobs not on the list.       *)
StuckJobsPending(w) == {j \in Jobs : workerId[j] = w /\ status[j] = "pending"}
StuckJobsUnqueued(w) ==
    {j \in Jobs : workerId[j] = w /\ status[j] = "running" /\ \A i \in 1 .. Len(queue) : queue[i] # j}

StuckJobs(w) == {j \in Jobs : workerId[j] = w /\ status[j] = "running"}

(* The stuck-jobs query; on an error nothing is requeued.                  *)
HcFind ==
    /\ hcCur # NoWorker
    /\ ~hcFound
    /\ hcFound' = TRUE
    /\ \/ hcStuck' = StuckJobs(hcCur)
       \/ "db" \in Faults /\ UNCHANGED hcStuck
    /\ UNCHANGED <<dbVars, queue, supVars, hcList, hcCur, tx, wrow, procVars, ghosts>>

(* A transaction: UPDATE sets both columns by id, which locks the row.     *)
HcLock(j) ==
    /\ Room
    /\ locked = NoJob
    /\ j \in hcStuck
    /\ locked' = j
    /\ hcLeft' = Attempts
    /\ UNCHANGED <<dbVars, queue, supVars, hcList, hcCur, hcFound, hcStuck, wrow, procVars, ghosts>>

(* The UPDATE fails: `continue`, as after every error of the transaction.  *)
HcFail(j) ==
    /\ "db" \in Faults
    /\ locked = NoJob
    /\ j \in hcStuck
    /\ hcStuck' = hcStuck \ {j}
    /\ UNCHANGED <<dbVars, queue, supVars, hcList, hcCur, hcFound, tx, wrow, procVars, ghosts>>

(* LPush in the transaction: an attempt gets no answer and is repeated.    *)
HcResend ==
    /\ hcLeft > 1
    /\ hcLeft' = hcLeft - 1
    /\ PushUnanswered(locked)
    /\ UNCHANGED <<dbVars, supVars, hcList, hcCur, hcFound, hcStuck, locked, wrow, procVars, abandoned>>

(* Faulty variant: LPush is moved after the COMMIT and then forgotten.     *)
HcPushNothing ==
    /\ hcLeft > 0
    /\ hcLeft' = 0
    /\ UNCHANGED <<dbVars, queue, supVars, hcList, hcCur, hcFound, hcStuck, locked, wrow, procVars, ghosts>>

(* LPush succeeds.                                                         *)
HcPush ==
    /\ hcLeft > 0
    /\ hcLeft' = 0
    /\ Push(locked)
    /\ UNCHANGED <<dbVars, supVars, hcList, hcCur, hcFound, hcStuck, locked, wrow, procVars, abandoned>>

(* The transaction is over, and with it the turn of its job.               *)
Unlock ==
    /\ hcStuck' = hcStuck \ {locked}
    /\ locked' = NoJob
    /\ hcLeft' = 0

(* Faulty variant: LPush's error does not fail the transaction.            *)
HcPushFailsCommits ==
    /\ "redis" \in Faults
    /\ hcLeft > 0
    /\ Unlock
    /\ status' = [status EXCEPT ![locked] = "pending"]
    /\ workerId' = [workerId EXCEPT ![locked] = NoWorker]
    /\ \/ hcLeft = 1 /\ Push(locked)
       \/ UNCHANGED <<queue, dropped>>
    /\ UNCHANGED <<supVars, hcList, hcCur, hcFound, wrow, procVars, abandoned>>

(* LPush returns an error, as in executeJob: the transaction is rolled     *)
(* back, the row is as before, and what the list has taken stays there.    *)
HcPushFails ==
    /\ "redis" \in Faults
    /\ hcLeft > 0
    /\ Unlock
    /\ \/ hcLeft = 1 /\ Push(locked)
       \/ UNCHANGED <<queue, dropped>>
    /\ UNCHANGED <<dbVars, supVars, hcList, hcCur, hcFound, wrow, procVars, abandoned>>

(* Faulty variant: the update map lacks "status".                          *)
HcCommitWorkerOnly ==
    /\ locked # NoJob /\ hcLeft = 0
    /\ Unlock
    /\ workerId' = [workerId EXCEPT ![locked] = NoWorker]
    /\ UNCHANGED <<status, queue, supVars, hcList, hcCur, hcFound, wrow, procVars, ghosts>>

(* Faulty variant: a status no other part of the code knows.               *)
HcCommitRequeued ==
    /\ locked # NoJob /\ hcLeft = 0
    /\ Unlock
    /\ status' = [status EXCEPT ![locked] = "requeued"]
    /\ workerId' = [workerId EXCEPT ![locked] = NoWorker]
    /\ UNCHANGED <<queue, supVars, hcList, hcCur, hcFound, wrow, procVars, ghosts>>

(* COMMIT: the new status and the cleared worker_id become visible.        *)
HcCommit ==
    /\ locked # NoJob /\ hcLeft = 0
    /\ Unlock
    /\ status' = [status EXCEPT ![locked] = "pending"]
    /\ workerId' = [workerId EXCEPT ![locked] = NoWorker]
    /\ UNCHANGED <<queue, supVars, hcList, hcCur, hcFound, wrow, procVars, ghosts>>

(* Faulty variant: worker_id is cleared outside the transaction.           *)
HcRollbackStatusOnly ==
    /\ "db" \in Faults
    /\ locked # NoJob /\ hcLeft = 0
    /\ Unlock
    /\ workerId' = [workerId EXCEPT ![locked] = NoWorker]
    /\ UNCHANGED <<status, queue, supVars, hcList, hcCur, hcFound, wrow, procVars, ghosts>>

(* COMMIT fails: the row is as before and the copies stay on the list.     *)
HcRollback ==
    /\ "db" \in Faults
    /\ locked # NoJob /\ hcLeft = 0
    /\ Unlock
    /\ UNCHANGED <<dbVars, queue, supVars, hcList, hcCur, hcFound, wrow, procVars, ghosts>>

(* requeueWorkerJobs returns.                                              *)
HcDone ==
    /\ hcCur # NoWorker
    /\ hcFound
    /\ hcStuck = {}
    /\ hcCur' = NoWorker
    /\ hcFound' = FALSE
    /\ UNCHANGED <<dbVars, queue, supVars, hcList, hcStuck, tx, wrow, procVars, ghosts>>

-----------------------------------------------------------------------------
(* The worker registry: RegisterWorker, Heartbeat, ShutdownWorker, time.   *)

Touch(w) == wrow' = [wrow EXCEPT ![w] = "active"]

(* main's registration goroutine, which outlives the cancelled context, or *)
(* the re-registration after a heartbeat was not acknowledged.             *)
RegisterWorker(w) ==
    /\ sup = "up"
    /\ proc[w] # "down"
    /\ Touch(w)
    /\ UNCHANGED <<dbVars, queue, supVars, hcVars, procVars, ghosts>>

(* StartHeartbeat stops with the context; the handler finds the row by     *)
(* name and makes it "active" whatever it was.                             *)
Heartbeat(w) ==
    /\ sup = "up"
    /\ proc[w] = "up"
    /\ wrow[w] # "absent"
    /\ Touch(w)
    /\ UNCHANGED <<dbVars, queue, supVars, hcVars, procVars, ghosts>>

(* 45 seconds without a heartbeat: the worker does not send any, nobody    *)
(* receives them, or the network delays them.                              *)
Age(w) ==
    /\ wrow[w] = "active"
    /\ proc[w] # "up" \/ sup # "up" \/ "partition" \in Faults
    /\ wrow' = [wrow EXCEPT ![w] = "stale"]
    /\ UNCHANGED <<dbVars, queue, supVars, hcVars, procVars, ghosts>>

(* The Shutdown call of ShutdownWorker is answered: the handler's          *)
(* goroutine will signal main after 100 ms.                                *)
ShutdownCall(w) ==
    /\ "shutdown" \in Faults
    /\ sup = "up"
    /\ wrow[w] # "absent"
    /\ proc[w] = "up"
    /\ asked' = asked \cup {w}
    /\ shutting' = shutting \cup {w}
    /\ UNCHANGED <<dbVars, queue, supVars, hcVars, wrow, proc, hand, task, ghosts>>

(* ShutdownWorker then updates the row, whatever happened meanwhile.       *)
ShutdownMark(w) ==
    /\ w \in shutting
    /\ shutting' = shutting \ {w}
    /\ \/ wrow' = [wrow EXCEPT ![w] = "shutdown"]
       \/ "db" \in Faults /\ UNCHANGED wrow
    /\ UNCHANGED <<dbVars, queue, supVars, hcVars, proc, hand, task, asked, ghosts>>

-----------------------------------------------------------------------------
(* One worker process: StartListening, processJob, cancellation, crashes.  *)

(* Faulty variant: the list is read and not popped.                        *)
PopPeeks(w) ==
    /\ proc[w] \in {"up", "stopping"}
    /\ hand[w] = NoJob
    /\ queue # <<>>
    /\ hand' = [hand EXCEPT ![w] = Head(queue)]
    /\ proc' = [proc EXCEPT ![w] = IF @ = "stopping" THEN "draining" ELSE @]
    /\ UNCHANGED <<dbVars, queue, supVars, hcVars, wrow, task, asked, shutting, ghosts>>

(* Faulty variant: the context is looked at once more after BRPop.         *)
PopCancelled(w) ==
    /\ proc[w] \in {"up", "stopping"}
    /\ hand[w] = NoJob
    /\ queue # <<>>
    /\ hand' = [hand EXCEPT ![w] = IF proc[w] = "stopping" THEN NoJob ELSE Head(queue)]
    /\ queue' = Tail(queue)
    /\ proc' = [proc EXCEPT ![w] = IF @ = "stopping" THEN "draining" ELSE @]
    /\ UNCHANGED <<dbVars, supVars, hcVars, wrow, task, asked, shutting, ghosts>>

(* BRPop returns a job.  A call that was under way when the context was    *)
(* cancelled is not interrupted; the loop ends after the job it brings.    *)
Pop(w) ==
    /\ proc[w] \in {"up", "stopping"}
    /\ hand[w] = NoJob
    /\ queue # <<>>
    /\ hand' = [hand EXCEPT ![w] = Head(queue)]
    /\ queue' = Tail(queue)
    /\ proc' = [proc EXCEPT ![w] = IF @ = "stopping" THEN "draining" ELSE @]
    /\ UNCHANGED <<dbVars, supVars, hcVars, wrow, task, asked, shutting, ghosts>>

(* BRPop takes the job from the list, but the reply never arrives; that    *)
(* the client or the loop sends BRPOP again makes no difference.           *)
PopLost(w) ==
    /\ "redis" \in Faults
    /\ proc[w] \in {"up", "stopping"}
    /\ hand[w] = NoJob
    /\ queue # <<>>
    /\ queue' = Tail(queue)
    /\ dropped' = dropped \cup {Head(queue)}
    /\ UNCHANGED <<dbVars, supVars, hcVars, wrow, procVars, abandoned>>

(* sem <- struct{}{} goes through and the goroutine starts.                *)
Start(w, s) ==
    /\ hand[w] # NoJob
    /\ task[w][s] = Free
    /\ task' = [task EXCEPT ![w][s] = Popped(hand[w])]
    /\ hand' = [hand EXCEPT ![w] = NoJob]
    /\ UNCHANGED <<dbVars, queue, supVars, hcVars, wrow, proc, asked, shutting, ghosts>>

(* updateJobStatus(id, "running") writes the worker's name too.  When it   *)
(* fails the error is logged and the scrape goes on.                       *)
MarkRunning(w, s) ==
    LET j == task[w][s].job IN
    /\ task[w][s].pc = "popped"
    /\ task' = [task EXCEPT ![w][s] = Scraping(j)]
    /\ \/ /\ locked # j
          /\ status' = [status EXCEPT ![j] = "running"]
          /\ workerId' = [workerId EXCEPT ![j] = w]
          /\ abandoned' = abandoned \ {j}
          /\ UNCHANGED dropped
       \/ /\ "db" \in Faults
          /\ dropped' = dropped \cup {j}
          /\ UNCHANGED <<status, workerId, abandoned>>
    /\ UNCHANGED <<queue, supVars, hcVars, wrow, proc, hand, asked, shutting>>

(* Faulty variant: the slot is not released.                               *)
FinishLeaksSlot(w, s, outcome) ==
    LET j == task[w][s].job IN
    /\ task[w][s].pc = "scraping"
    /\ locked # j
    /\ status' = [status EXCEPT ![j] = outcome]
    /\ UNCHANGED <<workerId, queue, supVars, hcVars, wrow, procVars, ghosts>>

(* RunScrape returns, well or badly, the final status is written and the   *)
(* slot is released.  worker_id keeps its value.                           *)
Finish(w, s, outcome) ==
    LET j == task[w][s].job IN
    /\ task[w][s].pc = "scraping"
    /\ task' = [task EXCEPT ![w][s] = Free]
    /\ \/ /\ locked # j
          /\ status' = [status EXCEPT ![j] = outcome]
          /\ UNCHANGED abandoned
       \/ /\ "db" \in Faults
          /\ abandoned' = abandoned \cup {j}
          /\ UNCHANGED status
    /\ UNCHANGED <<workerId, queue, supVars, hcVars, wrow, proc, hand, asked, shutting, dropped>>

(* SIGTERM, or the signal of the Shutdown handler: main cancels the        *)
(* context.  The loop sees it when it comes back from BRPop, or, when it   *)
(* is blocked on the semaphore, after it has started that job.             *)
Cancel(w) ==
    /\ proc[w] = "up"
    /\ "term" \in Faults \/ w \in asked
    /\ proc' = [proc EXCEPT ![w] = IF hand[w] = NoJob THEN "stopping" ELSE "draining"]
    /\ asked' = asked \ {w}
    /\ UNCHANGED <<dbVars, queue, supVars, hcVars, wrow, hand, task, shutting, ghosts>>

(* BRPop times out, or the loop was at its select: it reaches wg.Wait().   *)
LoopExit(w) ==
    /\ proc[w] = "stopping"
    /\ proc' = [proc EXCEPT ![w] = "draining"]
    /\ UNCHANGED <<dbVars, queue, supVars, hcVars, wrow, hand, task, asked, shutting, ghosts>>

(* wg.Wait() returns and with it StartListening and main.                  *)
Exit(w) ==
    /\ proc[w] = "draining"
    /\ hand[w] = NoJob
    /\ \A s \in Slots : task[w][s] = Free
    /\ proc' = [proc EXCEPT ![w] = "down"]
    /\ UNCHANGED <<dbVars, queue, supVars, hcVars, wrow, hand, task, asked, shutting, ghosts>>

Running(w) == {j \in Jobs : \E s \in Slots : task[w][s] = Scraping(j)}
Waiting(w) == {j \in Jobs : hand[w] = j \/ \E s \in Slots : task[w][s] = Popped(j)}

(* The process dies with everything it holds.                              *)
Crash(w) ==
    /\ "crash" \in Faults
    /\ w \in Mortal
    /\ proc[w] # "down"
    /\ dropped' = dropped \cup Waiting(w)
    /\ abandoned' = abandoned \cup Running(w)
    /\ proc' = [proc EXCEPT ![w] = "down"]
    /\ hand' = [hand EXCEPT ![w] = NoJob]
    /\ task' = [task EXCEPT ![w] = [s \in Slots |-> Free]]
    /\ asked' = asked \ {w}
    /\ UNCHANGED <<dbVars, queue, supVars, hcVars, wrow, shutting>>

(* The same name is started again, for instance by docker compose.         *)
Restart(w) ==
    /\ "restart" \in Faults
    /\ proc[w] = "down"
    /\ proc' = [proc EXCEPT ![w] = "up"]
    /\ UNCHANGED <<dbVars, queue, supVars, hcVars, wrow, hand, task, asked, shutting, ghosts>>

-----------------------------------------------------------------------------
(* The supervisor process dies and comes back.                             *)

(* Goroutines, scheduler entries and the open transaction die with it.     *)
SupCrash ==
    /\ "supcrash" \in Faults
    /\ sup # "down"
    /\ sup' = "down"
    /\ cron' = {}
    /\ tick' = [t \in Ticks |-> IF tick[t] = Unused THEN Unused ELSE Done]
    /\ hcList' = {} /\ hcCur' = NoWorker /\ hcFound' = FALSE /\ hcStuck' = {}
    /\ locked' = NoJob /\ hcLeft' = 0
    /\ shutting' = {}
    /\ UNCHANGED <<dbVars, queue, wrow, proc, hand, task, asked, ghosts>>

(* LoadAndScheduleAllJobs: DEL scraping_jobs; a failure is a warning.      *)
RestartFlush ==
    /\ sup = "down"
    /\ sup' = "flushed"
    /\ \/ queue' = <<>>
       \/ "redis" \in Faults /\ UNCHANGED queue
    /\ UNCHANGED <<dbVars, cron, tick, hcVars, wrow, procVars, ghosts>>

(* UPDATE ... SET status = 'scheduled' WHERE status IN ('pending',         *)
(* 'running'); its error is not looked at, and the pending jobs then stay. *)
RestartReset ==
    /\ sup = "flushed"
    /\ sup' = "reset"
    /\ \/ /\ status' = [j \in Jobs |-> IF status[j] \in {"pending", "running"}
                                       THEN "scheduled" ELSE status[j]]
          /\ UNCHANGED dropped
       \/ /\ "db" \in Faults
          /\ dropped' = dropped \cup {j \in Jobs : status[j] = "pending"}
          /\ UNCHANGED status
    /\ UNCHANGED <<workerId, queue, cron, tick, hcVars, wrow, procVars, abandoned>>

(* GetAllJobs and scheduleJob for each of the jobs js that is not          *)
(* finished.  main ignores the error of a failed read and starts its       *)
(* servers all the same.                                                   *)
Schedule(js) ==
    /\ sup = "reset"
    /\ sup' = "up"
    /\ \/ cron' = {j \in js : status[j] \notin Terminal}
       \/ "db" \in Faults /\ cron' = {}
    /\ UNCHANGED <<dbVars, queue, tick, hcVars, wrow, procVars, ghosts>>

RestartSchedule == Schedule(Jobs)

-----------------------------------------------------------------------------
TickNext == \E t \in Ticks :
    \/ \E j \in Jobs : Fire(t, j)
    \/ TickPush(t)
    \/ TickResend(t)
    \/ TickPushFails(t)
    \/ TickUndo(t)

HealthCheckNext ==
    \/ HcQuery
    \/ \E w \in Workers : HcMark(w)
    \/ HcFind
    \/ \E j \in Jobs : HcLock(j) \/ HcFail(j)
    \/ HcPush
    \/ HcResend
    \/ HcPushFails
    \/ HcCommit
    \/ HcRollback
    \/ HcDone

RegistryNext == \E w \in Workers :
    \/ RegisterWorker(w)
    \/ Heartbeat(w)
    \/ Age(w)
    \/ ShutdownCall(w)
    \/ ShutdownMark(w)

WorkerNext == \E w \in Workers :
    \/ Pop(w)
    \/ PopLost(w)
    \/ \E s \in Slots : Start(w, s) \/ MarkRunning(w, s)
    \/ \E s \in Slots, outcome \in Terminal : Finish(w, s, outcome)
    \/ Cancel(w)
    \/ LoopExit(w)
    \/ Exit(w)
    \/ Crash(w)
    \/ Restart(w)

SupervisorNext == SupCrash \/ RestartFlush \/ RestartReset \/ RestartSchedule

Next == TickNext \/ HealthCheckNext \/ RegistryNext \/ WorkerNext \/ SupervisorNext

Spec == Init /\ [][Next]_vars

-----------------------------------------------------------------------------
(* Safety.                                                                 *)

(* A copy of j that no worker has announced as "running" yet.              *)
Ahead(j) ==
    \/ \E i \in 1 .. Len(queue) : queue[i] = j
    \/ \E w \in Workers : hand[w] = j
    \/ \E w \in Workers, s \in Slots : task[w][s] = Popped(j)

Firing(j) == \E t \in Ticks : tick[t].job = j /\ tick[t].pc \in {"push", "undo"}

(* While the supervisor serves, a row that says "pending" (executeJob and  *)
(* requeueWorkerJobs write it) has a copy on its way to a run, or an       *)
(* executeJob that will push one or take the status back; the exceptions   *)
(* are exactly the jobs whose copy went down with a worker, whose LPush    *)
(* or BRPop was cut short, or whose status write failed.                   *)
PendingIsBacked ==
    sup \in {"up", "reset"} =>
        \A j \in Jobs : status[j] = "pending" => Ahead(j) \/ Firing(j) \/ j \in dropped

(* A row that says "running" names, in worker_id, a worker that has a      *)
(* goroutine scraping that job, however runs of several copies of the job, *)
(* requeues and supervisor restarts interleave; the exceptions are the     *)
(* runs that ended with a crash or whose last status write failed.         *)
RunningIsOwned ==
    \A j \in Jobs : status[j] = "running" =>
        \/ workerId[j] \in Workers /\ j \in Running(workerId[j])
        \/ j \in abandoned

(* checkAndRecover runs in the supervisor: nothing of it survives a crash. *)
IdleWhenDown == sup # "up" => hcList = {} /\ hcCur = NoWorker /\ hcStuck = {}

(* Once the LPush of an open requeue transaction has returned, a copy that *)
(* it pushed is not announced as "running" before the COMMIT, which would  *)
(* overwrite the announcement: the row lock makes updateJobStatus wait.    *)
LockedIsBacked ==
    locked # NoJob =>
        /\ sup = "up"
        /\ hcLeft = 0 => Ahead(locked) \/ locked \in dropped

(* The inductive invariant.                                                *)
IInv == TypeOK /\ IdleWhenDown /\ LockedIsBacked /\ PendingIsBacked /\ RunningIsOwned

-----------------------------------------------------------------------------
(* The dispatch as a queue of copies.                                      *)

CopiesOf(j) ==
    Cardinality({i \in 1 .. Len(queue) : queue[i] = j})
        + Cardinality({w \in Workers : hand[w] = j})
        + Cardinality({p \in Workers \X Slots : task[p[1]][p[2]] = Popped(j)})

RunsOf(j) == Cardinality({p \in Workers \X Slots : task[p[1]][p[2]] = Scraping(j)})

(* The LPUSHes of j that may still be sent: those left to a firing, and    *)
(* those of the requeue of a stuck job.                                    *)
RequeueLeft(j) == IF locked = j THEN hcLeft ELSE IF j \in hcStuck THEN Attempts ELSE 0

DueOf(j) ==
    Cardinality({p \in Ticks \X (1 .. Attempts) :
                     tick[p[1]].job = j /\ p[2] <= tick[p[1]].left})
        + RequeueLeft(j)

Work == INSTANCE WorkQueue WITH
    due <- [j \in Jobs |-> DueOf(j)],
    copies <- [j \in Jobs |-> CopiesOf(j)],
    runs <- [j \in Jobs |-> RunsOf(j)],
    serving <- sup = "up"

(* "Whoever pops first claims the job": a firing or a requeue puts no more *)
(* copies on the list than its LPUSH is sent, and that is once unless      *)
(* answers are lost; each copy is run by one worker and once, through      *)
(* stops, restarts and failed statements, or it or its run is on record as *)
(* lost (executeJob, requeueWorkerJobs, StartListening, processJob).       *)
ImplementsWorkQueue == Work!Spec

-----------------------------------------------------------------------------
(* Recovery.                                                               *)

(* The running jobs of a dead worker that had registered stay within reach *)
(* of the health check: its row is "active", which is what checkAndRecover *)
(* selects, or the check is handling it and has not passed over the job.   *)
DeadWorkersJobsInReach ==
    sup = "up" => \A j \in Jobs, w \in Workers :
        status[j] = "running" /\ workerId[j] = w /\ proc[w] = "down" =>
            \/ wrow[w] \in {"absent", "active", "stale"}
            \/ w \in hcList
            \/ hcCur = w /\ (~hcFound \/ j \in hcStuck)

(* The health check "requeues running jobs": no step of it turns a row     *)
(* that does not say "running" back to "pending".                          *)
RequeuesOnlyRunning ==
    [][\A j \in Jobs : locked = j /\ status[j] # "pending" /\ status'[j] = "pending"
                            => status[j] = "running"]_vars

(* Every step of the code that nothing holds up for ever.  A scrape ends:  *)
(* the crawl is bounded by MaxDepth and each request by colly's timeout.   *)
(* The cron firings themselves, faults and administration are not fair.    *)
Fairness ==
    /\ \A t \in Ticks : WF_vars(TickPush(t)) /\ WF_vars(TickUndo(t))
    /\ WF_vars(HcQuery) /\ WF_vars(HcFind) /\ WF_vars(HcPush)
    /\ WF_vars(HcCommit) /\ WF_vars(HcDone)
    /\ \A w \in Workers : WF_vars(HcMark(w)) /\ WF_vars(proc[w] = "down" /\ Age(w))
    /\ \A j \in Jobs : WF_vars(HcLock(j))
    /\ \A w \in Workers : WF_vars(Pop(w))
    /\ \A w \in Workers, s \in Slots :
        /\ WF_vars(Start(w, s)) /\ WF_vars(MarkRunning(w, s))
        /\ WF_vars(\E outcome \in Terminal : Finish(w, s, outcome))

FairSpec == Spec /\ Fairness

(* A job a registered worker was running when it died does not stay        *)
(* "running" in its name.                                                  *)
DeadRunsAreRequeued ==
    \A j \in Jobs, w \in Workers :
        (status[j] = "running" /\ workerId[j] = w /\ proc[w] = "down" /\ wrow[w] # "absent")
            ~> (status[j] # "running" \/ workerId[j] # w)

(* A pending job gets a verdict, unless the crash of a worker took the     *)
(* popped copy with it or left the run with a worker that has no row.      *)
PendingIsServed ==
    \A j \in Jobs : status[j] = "pending" ~>
        \/ status[j] \in Terminal
        \/ j \in dropped
        \/ status[j] = "running" /\ wrow[workerId[j]] = "absent"

(* The health check "checks for dead workers and requeues their jobs":     *)
(* what a crashed worker held is served by another one all the same.       *)
DeadWorkersJobsAreServed ==
    \A j \in Jobs : status[j] = "pending" ~>
        \/ status[j] \in Terminal
        \/ status[j] = "running" /\ wrow[workerId[j]] = "absent"
=============================================================================
