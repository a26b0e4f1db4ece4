---------------------------- MODULE CronSchedule ----------------------------
(***************************************************************************)
(* The cron schedule of the supervisor, kept in three places: the rows of  *)
(* table jobs (is_active, cron, status), the rows of job_cron_entries that *)
(* remember the scheduler's entry id of a job, and the entries of the      *)
(* in-memory cron scheduler.  The REST handlers CreateJob, UpdateJob and   *)
(* DeleteJob bring the three into line one statement at a time; a restart  *)
(* loses the entries, numbers them from 1 again and schedules the jobs     *)
(* that LoadAndScheduleAllJobs selects.                                    *)
(*                                                                         *)
(* A handler and main are threads; scheduleJob is the same steps for both. *)
(* Of status only "completed or failed" matters here, of the payload and   *)
(* the times of a job nothing does.                                        *)
(***************************************************************************)
EXTENDS Naturals, FiniteSets

CONSTANTS
    Jobs,         \* job ids, each given out at most once
    Handlers,     \* goroutines that serve a REST request
    Main,         \* the thread of main()
    Serial,       \* TRUE: the clients have one request per job at a time
    MaxRequests,  \* bound on the requests
    MaxRestarts,  \* bound on the restarts of the supervisor
    MaxMishaps,   \* bound on the failed statements and the edits by hand
    NoJob, NoRow

ASSUME SerialAssumption == Serial \in BOOLEAN
ASSUME BoundsAssumption == /\ MaxRequests \in Nat /\ MaxRestarts \in Nat
                           /\ MaxMishaps \in Nat
ASSUME MainAssumption == Main \notin Handlers
ASSUME NoJobAssumption == NoJob \notin Jobs

VARIABLES
    unused,    \* job ids the sequence of table jobs has not given out
    row,       \* table jobs
    stored,    \* entry ids of the job_cron_entries rows of a job; First
               \* takes any of them, as it orders by a random uuid
    entries,   \* the entries of the cron scheduler
    nextId,    \* the id of its next entry
    pc,        \* control state of each thread
    hjob,      \* the job a thread is about
    hrow,      \* its copy of the row, NoRow in DeleteJob
    hid,       \* the entry id it has found or got
    toLoad,    \* jobs main has still to schedule
    inFlight,  \* jobs some worker may report a verdict on
    requests, restarts, mishaps,
    excused,   \* history: jobs whose entry another job's request removed, or
               \* that the last restart did not load
    broken,    \* history: jobs whose entry or row a failed statement or an
               \* edit by hand has detached since the last restart
    edited     \* history: jobs whose job_cron_entries were edited by hand

tables == <<unused, row, stored>>
scheduler == <<entries, nextId>>
threads == <<pc, hjob, hrow, hid>>
counters == <<requests, restarts, mishaps>>
history == <<excused, broken, edited>>
vars == <<tables, scheduler, threads, toLoad, inFlight, counters, history>>

Threads == Handlers \cup {Main}

(* "every" parses, "bad" does not, and "" is refused by AddFunc too.       *)
Crons == {"every", "bad", ""}
Row == [active : BOOLEAN, cron : Crons, done : BOOLEAN]
Entry == [id : Nat, job : Jobs]

ASSUME NoRowAssumption == NoRow \notin Row

(* Control states inside scheduleJob, UpdateJob and DeleteJob, and main's. *)
Scheduling == {"add", "exists", "insert", "update", "rollback", "clean"}
Handling == {"idle", "save", "find", "remove", "delete"} \cup Scheduling
Maining == {"serve", "down", "load"} \cup Scheduling

TypeOK ==
    /\ unused \subseteq Jobs
    /\ row \in [Jobs -> Row \cup {NoRow}]
    /\ stored \in [Jobs -> SUBSET Nat]
    /\ entries \subseteq Entry
    /\ nextId \in Nat
    /\ pc \in [Threads -> Handling \cup Maining]
    /\ pc[Main] \in Maining
    /\ \A h \in Handlers : pc[h] \in Handling
    /\ hjob \in [Threads -> Jobs \cup {NoJob}]
    /\ hrow \in [Threads -> Row \cup {NoRow}]
    /\ hid \in [Threads -> Nat]
    /\ toLoad \subseteq Jobs
    /\ inFlight \subseteq Jobs
    /\ requests \in Nat
    /\ restarts \in Nat
    /\ mishaps \in Nat
    /\ excused \subseteq Jobs
    /\ broken \subseteq Jobs
    /\ edited \subseteq Jobs

(* A first start on an empty database. *)
Init ==
    /\ unused = Jobs
    /\ row = [j \in Jobs |-> NoRow]
    /\ stored = [j \in Jobs |-> {}]
    /\ entries = {}
    /\ nextId = 1
    /\ pc = [t \in Threads |-> IF t = Main THEN "serve" ELSE "idle"]
    /\ hjob = [t \in Threads |-> NoJob]
    /\ hrow = [t \in Threads |-> NoRow]
    /\ hid = [t \in Threads |-> 0]
    /\ toLoad = {}
    /\ inFlight = {}
    /\ requests = 0
    /\ restarts = 0
    /\ mishaps = 0
    /\ excused = {} /\ broken = {} /\ edited = {}

EntriesOf(j) == {e \in entries : e.job = j}

Goto(t, label) == pc' = [pc EXCEPT ![t] = label]

(* The thread takes up job j with row r. *)
Enter(t, j, r, label) ==
    /\ Goto(t, label)
    /\ hjob' = [hjob EXCEPT ![t] = j]
    /\ hrow' = [hrow EXCEPT ![t] = r]
    /\ UNCHANGED hid

(* The end of a request, for main as well as for a handler. *)
ReturnIdle(t) ==
    /\ Goto(t, "idle")
    /\ hjob' = [hjob EXCEPT ![t] = NoJob]
    /\ hrow' = [hrow EXCEPT ![t] = NoRow]
    /\ hid' = [hid EXCEPT ![t] = 0]

(* A handler has answered; main goes on with its loop. *)
Return(t) ==
    /\ Goto(t, IF t = Main THEN "load" ELSE "idle")
    /\ hjob' = [hjob EXCEPT ![t] = NoJob]
    /\ hrow' = [hrow EXCEPT ![t] = NoRow]
    /\ hid' = [hid EXCEPT ![t] = 0]

-----------------------------------------------------------------------------
(* scheduleJob.                                                            *)

(* AddFunc accepts the expression. *)
Add(t) ==
    /\ pc[t] = "add"
    /\ hrow[t].cron = "every"
    /\ entries' = entries \cup {[id |-> nextId, job |-> hjob[t]]}
    /\ nextId' = nextId + 1
    /\ hid' = [hid EXCEPT ![t] = nextId]
    /\ excused' = excused \ {hjob[t]}
    /\ Goto(t, "exists")
    /\ UNCHANGED <<tables, hjob, hrow, toLoad, inFlight, counters, broken,
                   edited>>

(* AddFunc refuses it: the row is deleted, whoever created it ... *)
Refuse(t) ==
    /\ pc[t] = "add"
    /\ hrow[t].cron # "every"
    /\ Goto(t, "rollback")
    /\ UNCHANGED <<tables, scheduler, hjob, hrow, hid, toLoad, inFlight,
                   counters, history>>

Rollback(t) ==
    /\ pc[t] = "rollback"
    /\ row' = [row EXCEPT ![hjob[t]] = NoRow]
    /\ Goto(t, "clean")
    /\ UNCHANGED <<unused, stored, scheduler, hjob, hrow, hid, toLoad,
                   inFlight, counters, history>>

(* ... and then its job_cron_entries. *)
Clean(t) ==
    /\ pc[t] = "clean"
    /\ stored' = [stored EXCEPT ![hjob[t]] = {}]
    /\ Return(t)
    /\ UNCHANGED <<unused, row, scheduler, toLoad, inFlight, counters, history>>

(* SELECT EXISTS, before one of the two writes. *)
Exists(t) ==
    /\ pc[t] = "exists"
    /\ Goto(t, IF stored[hjob[t]] = {} THEN "insert" ELSE "update")
    /\ UNCHANGED <<tables, scheduler, hjob, hrow, hid, toLoad, inFlight,
                   counters, history>>

Insert(t) ==
    /\ pc[t] = "insert"
    /\ stored' = [stored EXCEPT ![hjob[t]] = @ \cup {hid[t]}]
    /\ Return(t)
    /\ UNCHANGED <<unused, row, scheduler, toLoad, inFlight, counters, history>>

(* The entry id is not written again. *)
UpdateKeepsId(t) ==
    /\ pc[t] = "update"
    /\ Return(t)
    /\ UNCHANGED <<tables, scheduler, toLoad, inFlight, counters, history>>

(* The statement has no WHERE. *)
UpdateEveryJob(t) ==
    /\ pc[t] = "update"
    /\ stored' = [j \in Jobs |-> {hid[t] : id \in stored[j]}]
    /\ Return(t)
    /\ UNCHANGED <<unused, row, scheduler, toLoad, inFlight, counters, history>>

(* UPDATE ... WHERE job_id, which changes all rows of the job. *)
Update(t) ==
    /\ pc[t] = "update"
    /\ stored' = [stored EXCEPT ![hjob[t]] = {hid[t] : id \in @}]
    /\ Return(t)
    /\ UNCHANGED <<unused, row, scheduler, toLoad, inFlight, counters, history>>

(* A statement about the job of thread t fails and leaves its table alone. *)
Mishap(t) ==
    /\ mishaps < MaxMishaps
    /\ mishaps' = mishaps + 1
    /\ broken' = IF pc[t] \in {"save", "rollback", "clean"} THEN broken
                 ELSE broken \cup {hjob[t]}
    /\ UNCHANGED <<tables, scheduler, toLoad, inFlight, requests, restarts,
                   excused, edited>>

(* Errors are printed at most; an EXISTS that fails counts as no.          *)
ScheduleFails(t) ==
    /\ Mishap(t)
    /\ \/ /\ \/ pc[t] = "rollback" /\ Goto(t, "clean")
             \/ pc[t] = "exists" /\ Goto(t, "insert")
          /\ UNCHANGED <<hjob, hrow, hid>>
       \/ pc[t] \in {"clean", "insert", "update"} /\ Return(t)

ScheduleJob(t) == \/ ScheduleFails(t) \/ Add(t) \/ Refuse(t) \/ Rollback(t) \/ Clean(t)
                  \/ Exists(t) \/ Insert(t) \/ Update(t)

-----------------------------------------------------------------------------
(* The REST handlers.                                                      *)

(* Handler h takes a request about job j. *)
Accept(h, j) ==
    /\ pc[Main] = "serve"
    /\ pc[h] = "idle"
    /\ Serial => \A g \in Handlers : hjob[g] # j
    /\ requests < MaxRequests
    /\ requests' = requests + 1
    /\ UNCHANGED <<restarts, mishaps>>

(* POST /jobs: a cron expression is required, a valid one is not. *)
CreateJob(h, j) ==
    /\ j \in unused
    /\ unused' = unused \ {j}
    /\ Accept(h, j)
    /\ \E c \in Crons \ {""} :
         LET r == [active |-> TRUE, cron |-> c, done |-> FALSE]
         IN  row' = [row EXCEPT ![j] = r] /\ Enter(h, j, r, "add")
    /\ UNCHANGED <<stored, scheduler, toLoad, inFlight, history>>

(* PUT /jobs/:id reads the row and merges the request into its copy. *)
UpdateJob(h, j) ==
    /\ row[j] # NoRow
    /\ Accept(h, j)
    /\ \E a \in BOOLEAN, c \in Crons :
         Enter(h, j, [row[j] EXCEPT !.active = a, !.cron = c], "save")
    /\ UNCHANGED <<tables, scheduler, toLoad, inFlight, history>>

(* Save writes every column of the copy, and inserts it if there is no row. *)
Save(h) ==
    /\ pc[h] = "save"
    /\ row' = [row EXCEPT ![hjob[h]] = hrow[h]]
    /\ Goto(h, "find")
    /\ UNCHANGED <<unused, stored, scheduler, hjob, hrow, hid, toLoad,
                   inFlight, counters, history>>

(* DELETE /jobs/:id, for a job that exists or not. *)
DeleteJob(h, j) ==
    /\ j \notin unused
    /\ Accept(h, j)
    /\ Enter(h, j, NoRow, "find")
    /\ UNCHANGED <<tables, scheduler, toLoad, inFlight, history>>

(* After the old entry: delete, schedule again, or leave it unscheduled. *)
Proceed(h) ==
    IF hrow[h] = NoRow THEN Goto(h, "delete") /\ UNCHANGED <<hjob, hrow, hid>>
    ELSE IF hrow[h].active /\ hrow[h].cron # ""
         THEN Goto(h, "add") /\ UNCHANGED <<hjob, hrow, hid>>
         ELSE Return(h)

(* First finds an entry id of the job ... *)
Find(h) ==
    /\ pc[h] = "find"
    /\ \E id \in stored[hjob[h]] : hid' = [hid EXCEPT ![h] = id]
    /\ Goto(h, "remove")
    /\ UNCHANGED <<tables, scheduler, hjob, hrow, toLoad, inFlight, counters, history>>

(* ... or none. *)
FindNone(h) ==
    /\ pc[h] = "find"
    /\ stored[hjob[h]] = {}
    /\ Proceed(h)
    /\ UNCHANGED <<tables, scheduler, toLoad, inFlight, counters, history>>

(* Entries are removed only when the job stays scheduled. *)
RemoveIfActive(h) ==
    /\ pc[h] = "remove"
    /\ entries' = IF hrow[h] # NoRow /\ hrow[h].active
                  THEN {e \in entries : e.id # hid[h]} ELSE entries
    /\ Proceed(h)
    /\ UNCHANGED <<tables, nextId, toLoad, inFlight, counters, history>>

(* The scheduler drops its entry with that id, if any. *)
Remove(h) ==
    /\ pc[h] = "remove"
    /\ LET gone == {e \in entries : e.id = hid[h]} IN
         /\ entries' = entries \ gone
         /\ excused' = excused \cup ({e.job : e \in gone} \ {hjob[h]})
    /\ Proceed(h)
    /\ UNCHANGED <<tables, nextId, toLoad, inFlight, counters, broken,
                   edited>>

(* The job_cron_entries row stays. *)
Delete(h) ==
    /\ pc[h] = "delete"
    /\ row' = [row EXCEPT ![hjob[h]] = NoRow]
    /\ Return(h)
    /\ UNCHANGED <<unused, stored, scheduler, toLoad, inFlight, counters, history>>

(* A First that fails counts as none found; Save and Delete give up.       *)
HandlerFails(h) ==
    /\ Mishap(h)
    /\ \/ pc[h] = "find" /\ Proceed(h)
       \/ pc[h] \in {"save", "delete"} /\ Return(h)

(* POST and DELETE /cron edit the rows scheduleJob relies on: any id for   *)
(* any job.                                                                *)
CreateJobCronEntry(j) == \E id \in 1 .. nextId : stored' = [stored EXCEPT ![j] = @ \cup {id}]

DeleteJobCronEntry(j) == \E id \in stored[j] : stored' = [stored EXCEPT ![j] = @ \ {id}]

EditEntries(j) ==
    /\ pc[Main] = "serve"
    /\ j \notin unused
    /\ mishaps < MaxMishaps
    /\ mishaps' = mishaps + 1
    /\ CreateJobCronEntry(j) \/ DeleteJobCronEntry(j)
    /\ broken' = broken \cup {j}
    /\ edited' = edited \cup {j}
    /\ UNCHANGED <<unused, row, scheduler, threads, toLoad, inFlight, requests,
                   restarts, excused>>

-----------------------------------------------------------------------------
(* Runs of the jobs, and restarts.                                         *)

(* executeJob reads the row again and does nothing unless it is active. *)
Fire(e) ==
    /\ row[e.job] # NoRow
    /\ row[e.job].active
    /\ row' = [row EXCEPT ![e.job].done = FALSE]
    /\ inFlight' = inFlight \cup {e.job}
    /\ UNCHANGED <<unused, stored, scheduler, threads, toLoad, counters, history>>

(* A worker writes "completed" or "failed". *)
Verdict(j) ==
    /\ j \in inFlight
    /\ inFlight' = inFlight \ {j}
    /\ row' = [row EXCEPT ![j] = IF @ = NoRow THEN @ ELSE [@ EXCEPT !.done = TRUE]]
    /\ UNCHANGED <<unused, stored, scheduler, threads, toLoad, counters, history>>

(* The supervisor dies: the scheduler and every request are gone. *)
Die ==
    /\ pc[Main] # "down"
    /\ restarts < MaxRestarts
    /\ restarts' = restarts + 1
    /\ entries' = {}
    /\ nextId' = 1
    /\ pc' = [t \in Threads |-> IF t = Main THEN "down" ELSE "idle"]
    /\ hjob' = [t \in Threads |-> NoJob]
    /\ hrow' = [t \in Threads |-> NoRow]
    /\ hid' = [t \in Threads |-> 0]
    /\ toLoad' = {}
    /\ broken' = {}
    /\ UNCHANGED <<tables, inFlight, requests, mishaps, excused, edited>>

(* LoadAndScheduleAllJobs selects every active job. *)
Active == {j \in Jobs : row[j] # NoRow /\ row[j].active}
Finished == {j \in Jobs : row[j] # NoRow /\ row[j].done}

(* Jobs with a job_cron_entries row count as scheduled. *)
LoadUnstored ==
    /\ pc[Main] = "down"
    /\ toLoad' = {j \in Active \ Finished : stored[j] = {}}
    /\ excused' = Finished
    /\ Goto(Main, "load")
    /\ UNCHANGED <<tables, scheduler, hjob, hrow, hid, inFlight, counters,
                   broken, edited>>

Load ==
    /\ pc[Main] = "down"
    /\ toLoad' = Active \ Finished
    /\ excused' = Finished
    /\ Goto(Main, "load")
    /\ UNCHANGED <<tables, scheduler, hjob, hrow, hid, inFlight, counters,
                   broken, edited>>

(* GetAllJobs fails, and main ignores that.                                *)
LoadFails ==
    /\ pc[Main] = "down"
    /\ mishaps < MaxMishaps
    /\ mishaps' = mishaps + 1
    /\ excused' = Jobs
    /\ Goto(Main, "load")
    /\ UNCHANGED <<tables, scheduler, hjob, hrow, hid, toLoad, inFlight,
                   requests, restarts, broken, edited>>

LoadJob(j) ==
    /\ pc[Main] = "load"
    /\ j \in toLoad
    /\ toLoad' = toLoad \ {j}
    /\ Enter(Main, j, row[j], "add")
    /\ UNCHANGED <<tables, scheduler, inFlight, counters, history>>

(* router.Run: requests are served once every job is loaded. *)
Serve ==
    /\ pc[Main] = "load"
    /\ toLoad = {}
    /\ Goto(Main, "serve")
    /\ UNCHANGED <<tables, scheduler, hjob, hrow, hid, toLoad, inFlight,
                   counters, history>>

Next ==
    \/ \E t \in Threads : ScheduleJob(t)
    \/ \E h \in Handlers, j \in Jobs :
         CreateJob(h, j) \/ UpdateJob(h, j) \/ DeleteJob(h, j)
    \/ \E h \in Handlers :
         Save(h) \/ Find(h) \/ FindNone(h) \/ Remove(h) \/ Delete(h) \/ HandlerFails(h)
    \/ \E e \in entries : Fire(e)
    \/ \E j \in Jobs : Verdict(j) \/ LoadJob(j) \/ EditEntries(j)
    \/ Die \/ Load \/ LoadFails \/ Serve

Spec == Init /\ [][Next]_vars

-----------------------------------------------------------------------------
(* Properties.                                                             *)

(* No request is about the job and main has loaded it. *)
Settled(j) == pc[Main] = "serve" /\ \A h \in Handlers : hjob[h] # j

(* A job that is active and has a valid expression has an entry in the     *)
(* scheduler once its requests are answered (UpdateJob, scheduleJob,       *)
(* LoadAndScheduleAllJobs), whatever restarts happened in the middle of    *)
(* them, unless the request of another job removed it, the restart did not *)
(* load it, or one of its own statements has failed since.                 *)
ActiveIsScheduled ==
    \A j \in Active \ (excused \cup broken) :
        Settled(j) /\ row[j].cron = "every" => EntriesOf(j) # {}

(* A job that is deleted, inactive or without an expression has no entry   *)
(* left once its requests are answered (UpdateJob, DeleteJob); a failed    *)
(* statement leaves one of its own job at most, and until a restart.       *)
InactiveIsUnscheduled ==
    \A j \in Jobs \ broken :
        Settled(j) /\ (j \notin Active \/ row[j].cron = "")
            => EntriesOf(j) = {}

(* The entry of a job is the one its job_cron_entries row names, so there  *)
(* is at most one and the next request can find it (scheduleJob); again a  *)
(* failed statement or an edit detaches the entry of one job at most.      *)
EntryIsStored ==
    \A e \in entries :
        e.job \notin broken /\ Settled(e.job) => stored[e.job] = {e.id}

(* UpdateJob and DeleteJob remove "existing cron entry if present" of the  *)
(* job the request names, never the entry of another job.                  *)
RemovesOwnEntry ==
    [][\A h \in Handlers, e \in entries :
           pc[h] = "remove" /\ pc'[h] # "remove" /\ pc'[Main] # "down"
               /\ e \notin entries' => e.job = hjob[h]]_vars

(* Until the supervisor restarts they keep to that, although requests for  *)
(* one job overlap and statements of scheduleJob, UpdateJob and DeleteJob  *)
(* fail half-way: the ids they leave in job_cron_entries may be stale, but *)
(* only an edit by hand makes one of them name the entry of another job.   *)
RemovesOwnEntryUntilRestart ==
    [][restarts = 0 => \A h \in Handlers, e \in entries :
           pc[h] = "remove" /\ pc'[h] # "remove" /\ pc'[Main] # "down"
               /\ hjob[h] \notin edited /\ e \notin entries' => e.job = hjob[h]]_vars

=============================================================================
