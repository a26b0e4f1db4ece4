------------------------------ MODULE JobUpdate ------------------------------
(***************************************************************************)
(* PUT /jobs/:id next to the dispatch of JobDispatch.  The handler reads   *)
(* the whole row, changes is_active and writes the whole row back, with    *)
(* the status and the worker_id it read; the cron firings, the workers and *)
(* the health check go on writing both in between.  A firing looks at      *)
(* is_active before it marks the job, in a statement of its own.           *)
(*                                                                         *)
(* One request is served at a time (CronSchedule has two), and a firing's  *)
(* goroutine may be used again when it has ended, so that an entry left in *)
(* the scheduler fires for ever.                                           *)
(***************************************************************************)
EXTENDS JobDispatch

CONSTANT HandlerFails   \* the statements of the PUT handler may fail

ASSUME HandlerAssumption == HandlerFails \in BOOLEAN

VARIABLES
    active,      \* jobs whose row has is_active
    checked,     \* the job a firing has found active and not marked yet
    stray,       \* jobs with a scheduler entry that no job_cron_entries row names
    req,         \* the PUT handler under way
    overwritten  \* history: a Save put back a row that had changed since it
                 \* was read, and the dispatch has not written it since

updateVars == <<active, checked, stray, req, overwritten>>
allVars == <<vars, updateVars>>

Row(j) == [status |-> status[j], worker |-> workerId[j]]

NoRequest == [pc |-> "none", job |-> NoJob, active |-> FALSE,
              read |-> [status |-> "scheduled", worker |-> NoWorker]]

Rows == [status : Statuses, worker : Workers \cup {NoWorker}]

Requests == [pc : {"none", "save", "unschedule", "schedule"},
             job : Jobs \cup {NoJob}, active : BOOLEAN, read : Rows]

UpdateTypeOK ==
    /\ TypeOK
    /\ active \subseteq Jobs
    /\ checked \in [Ticks -> Jobs \cup {NoJob}]
    /\ stray \subseteq Jobs
    /\ req \in Requests
    /\ overwritten \subseteq Jobs

UpdateInit ==
    /\ Init
    /\ active = Jobs
    /\ checked = [t \in Ticks |-> NoJob]
    /\ stray = {}
    /\ req = NoRequest
    /\ overwritten = {}

-----------------------------------------------------------------------------
(* executeJob with its read of is_active.                                  *)

(* Faulty variant: is_active is not looked at.                             *)
CheckNothing(t, j) ==
    /\ sup = "up"
    /\ Room
    /\ j \in cron \cup stray
    /\ tick[t] \in {Unused, Done} /\ checked[t] = NoJob
    /\ checked' = [checked EXCEPT ![t] = j]
    /\ UNCHANGED <<vars, active, stray, req, overwritten>>

(* An entry of the scheduler fires and the row says is_active; otherwise,  *)
(* or if the row cannot be read, executeJob returns.                       *)
Check(t, j) ==
    /\ sup = "up"
    /\ Room
    /\ j \in cron \cup stray
    /\ tick[t] \in {Unused, Done} /\ checked[t] = NoJob
    /\ j \in active
    /\ checked' = [checked EXCEPT ![t] = j]
    /\ UNCHANGED <<vars, active, stray, req, overwritten>>

(* The row is marked whatever is_active says by now.                       *)
FireChecked(t) ==
    LET j == checked[t] IN
    /\ j # NoJob
    /\ Mark(t, j)
    /\ checked' = [checked EXCEPT ![t] = NoJob]
    /\ overwritten' = IF status'[j] = "pending" THEN overwritten \ {j} ELSE overwritten
    /\ UNCHANGED <<active, stray, req>>

-----------------------------------------------------------------------------
(* UpdateJob.                                                              *)

(* The controller reads the row and sets is_active as the body says.       *)
ReadRow(j, a) ==
    /\ sup = "up"
    /\ req = NoRequest
    /\ req' = [pc |-> "save", job |-> j, active |-> a, read |-> Row(j)]
    /\ UNCHANGED <<vars, active, checked, stray, overwritten>>

(* Faulty variant: the body is bound to the row, with its status or none.  *)
SaveBody ==
    LET j == req.job IN
    /\ req.pc = "save"
    /\ locked # j
    /\ \E st \in Statuses \cup {""} : status' = [status EXCEPT ![j] = st]
    /\ workerId' = [workerId EXCEPT ![j] = req.read.worker]
    /\ active' = IF req.active THEN active \cup {j} ELSE active \ {j}
    /\ overwritten' = IF Row(j) = req.read THEN overwritten ELSE overwritten \cup {j}
    /\ req' = [req EXCEPT !.pc = "unschedule", !.read = NoRequest.read]
    /\ UNCHANGED <<queue, supVars, hcVars, wrow, procVars, ghosts, checked, stray>>

(* Save writes every column; it waits for a requeue transaction of the row.*)
Save ==
    LET j == req.job IN
    /\ req.pc = "save"
    /\ locked # j
    /\ status' = [status EXCEPT ![j] = req.read.status]
    /\ workerId' = [workerId EXCEPT ![j] = req.read.worker]
    /\ active' = IF req.active THEN active \cup {j} ELSE active \ {j}
    /\ overwritten' = IF Row(j) = req.read THEN overwritten ELSE overwritten \cup {j}
    /\ req' = [req EXCEPT !.pc = "unschedule", !.read = NoRequest.read]
    /\ UNCHANGED <<queue, supVars, hcVars, wrow, procVars, ghosts, checked, stray>>

(* Save returns an error: 500, and nothing has changed.                    *)
SaveFails ==
    /\ HandlerFails
    /\ req.pc = "save"
    /\ req' = NoRequest
    /\ UNCHANGED <<vars, active, checked, stray, overwritten>>

(* The entry job_cron_entries names is removed from the scheduler, unless  *)
(* the lookup fails; an inactive job is then done.                         *)
Unschedule ==
    /\ req.pc = "unschedule"
    /\ \/ cron' = cron \ {req.job}
       \/ HandlerFails /\ UNCHANGED cron
    /\ req' = IF req.active THEN [req EXCEPT !.pc = "schedule"] ELSE NoRequest
    /\ UNCHANGED <<dbVars, queue, tick, sup, hcVars, wrow, procVars, ghosts,
                   active, checked, stray, overwritten>>

(* scheduleJob adds an entry and has job_cron_entries name it instead of   *)
(* the old one; if that statement fails the new entry has no row.          *)
Reschedule ==
    LET j == req.job IN
    /\ req.pc = "schedule"
    /\ \/ /\ cron' = cron \cup {j}
          /\ stray' = stray \cup (cron \cap {j})
       \/ /\ HandlerFails
          /\ stray' = stray \cup {j}
          /\ UNCHANGED cron
    /\ req' = NoRequest
    /\ UNCHANGED <<dbVars, queue, tick, sup, hcVars, wrow, procVars, ghosts,
                   active, checked, overwritten>>

-----------------------------------------------------------------------------
(* The rest of the dispatch.  Its writes make an overwritten row true.     *)

Rewritten == {j \in Jobs : status'[j] # status[j] \/ workerId'[j] # workerId[j]}

DispatchNext ==
    /\ \/ \E t \in Ticks : TickPush(t) \/ TickResend(t) \/ TickPushFails(t) \/ TickUndo(t)
       \/ HealthCheckNext
       \/ RegistryNext
       \/ WorkerNext
       \/ RestartFlush
       \/ RestartReset
       \/ Schedule(active)
    /\ overwritten' = overwritten \ Rewritten
    /\ UNCHANGED <<active, checked, stray, req>>

(* Firings, scheduler entries and the request die with the process.        *)
Stop ==
    /\ SupCrash
    /\ checked' = [t \in Ticks |-> NoJob]
    /\ stray' = {}
    /\ req' = NoRequest
    /\ UNCHANGED <<active, overwritten>>

UpdateNext ==
    \/ \E t \in Ticks, j \in Jobs : Check(t, j)
    \/ \E t \in Ticks : FireChecked(t)
    \/ \E j \in Jobs, a \in BOOLEAN : ReadRow(j, a)
    \/ Save
    \/ SaveFails
    \/ Unschedule
    \/ Reschedule
    \/ DispatchNext
    \/ Stop

UpdateSpec == UpdateInit /\ [][UpdateNext]_allVars

(* A firing that has read the row goes on; the handler need not.           *)
FairUpdateSpec == UpdateSpec /\ Fairness /\ \A t \in Ticks : WF_allVars(FireChecked(t))

-----------------------------------------------------------------------------
(* The only damage a PUT does to the dispatch is a Save over a row that    *)
(* executeJob, a worker or the health check wrote since the handler read   *)
(* it, and only until one of them writes it again: every other row that    *)
(* says "pending" is backed and every other one that says "running" is     *)
(* owned, as without updates (UpdateJob of the controller and the service).*)
RowsAreTrue ==
    \A j \in Jobs \ overwritten :
        /\ sup \in {"up", "reset"} /\ status[j] = "pending" =>
               Ahead(j) \/ Firing(j) \/ j \in dropped
        /\ status[j] = "running" =>
               (workerId[j] \in Workers /\ j \in Running(workerId[j])) \/ j \in abandoned

(* A deactivated job ends: although its entry may stay in the scheduler    *)
(* and a firing that had read the row still pushes a copy, its firings,    *)
(* copies, runs and requeues come to an end (executeJob's is_active).      *)
DeactivatedJobIsLeftAlone ==
    \A j \in Jobs :
        <>[](j \notin active /\ req.job # j /\ sup = "up") =>
            <>[](~Firing(j) /\ ~Ahead(j) /\ \A w \in Workers : j \notin Running(w))
=============================================================================
