------------------------- MODULE CronSchedule_proof -------------------------
(* Proofs about CronSchedule, for any jobs, handlers, requests, restarts   *)
(* and mishaps: first when the clients have one request per job at a time, *)
(* then, about the ids of entries until a restart, whatever clients do.    *)
EXTENDS CronSchedule, TLAPS

USE SerialAssumption, BoundsAssumption, MainAssumption, NoJobAssumption,
    NoRowAssumption

-----------------------------------------------------------------------------
(* The invariant.                                                          *)

(* The thread is in a later part of scheduleJob, with an entry added.      *)
Added == {"exists", "insert", "update"}

(* Who is about which job: every job has one thread at most, and handlers  *)
(* are idle unless main serves.                                            *)
Control ==
    /\ \A h \in Handlers : pc[h] = "idle" <=> hjob[h] = NoJob
    /\ pc[Main] \in Scheduling <=> hjob[Main] # NoJob
    /\ \A t, u \in Threads : hjob[t] = hjob[u] /\ hjob[t] # NoJob => t = u
    /\ pc[Main] # "serve" => \A h \in Handlers : pc[h] = "idle"

(* What the thread's copy of the row says at each step.                    *)
Copies ==
    \A t \in Threads :
        /\ pc[t] \in Scheduling \cup {"save"} => hrow[t] # NoRow
        /\ pc[t] = "delete" => hrow[t] = NoRow
        /\ pc[t] \in Scheduling => hrow[t].active = TRUE
        /\ pc[t] \in Added => hrow[t].cron = "every"
        /\ pc[t] \in {"rollback", "clean"} => hrow[t].cron # "every"

(* The job has an entry in the scheduler. *)
Has(j) == \E e \in entries : e.job = j

(* Entry ids are used once.                                                *)
Fresh ==
    /\ \A e \in entries : e.id < nextId
    /\ \A e, f \in entries : e.id = f.id => e = f

(* A job to load is active and has no entry yet.                           *)
Loading ==
    /\ pc[Main] = "down" => entries = {}
    /\ pc[Main] \in {"serve", "down"} => toLoad = {}
    /\ \A j \in toLoad : /\ row[j] # NoRow /\ row[j].active = TRUE
                         /\ ~ Has(j) /\ j # hjob[Main]

(* Ids that were not given out are nowhere.                                *)
Unused ==
    \A j \in unused : /\ row[j] = NoRow /\ ~ Has(j)
                      /\ \A t \in Threads : hjob[t] # j

(* The row a thread has saved or read stays as it was, but for its status. *)
RowKept ==
    \A t \in Threads :
        hjob[t] # NoJob /\ hrow[t] # NoRow =>
            /\ pc[t] \in {"find", "remove", "add", "rollback"} \cup Added =>
                  /\ row[hjob[t]] # NoRow
                  /\ row[hjob[t]].active = hrow[t].active
                  /\ row[hjob[t]].cron = hrow[t].cron
            /\ pc[t] = "clean" /\ row[hjob[t]] # NoRow =>
                  row[hjob[t]].cron # "every"

(* The entries of a thread's job at each step, unless it is broken.        *)
StageOf(t) ==
    hjob[t] # NoJob /\ hjob[t] \notin broken =>
        /\ pc[t] \in {"add", "rollback", "clean", "delete"} => ~ Has(hjob[t])
        /\ pc[t] \in {"remove"} \cup Added =>
              \A e \in entries : e.job = hjob[t] => e.id = hid[t]
        /\ pc[t] \in Added /\ hjob[t] \notin excused => Has(hjob[t])
        /\ pc[t] = "insert" => stored[hjob[t]] = {}
        /\ pc[t] = "update" => stored[hjob[t]] # {}

Stage == \A t \in Threads : StageOf(t)

(* No request has touched the entry of the job since it was stored.        *)
Untouched(j) == \A t \in Threads : hjob[t] = j => pc[t] \in {"save", "find"}

Stored ==
    \A e \in entries :
        e.job \notin broken /\ Untouched(e.job) => stored[e.job] = {e.id}

(* No request has changed the row of the job since it was scheduled.       *)
Unchanged(j) == \A t \in Threads : hjob[t] = j => pc[t] = "save"

Unscheduled ==
    \A e \in entries :
        e.job \notin broken /\ Unchanged(e.job) =>
            row[e.job] # NoRow /\ row[e.job].active = TRUE /\ row[e.job].cron # ""

Scheduled ==
    \A j \in Jobs :
        /\ row[j] # NoRow /\ row[j].active = TRUE /\ row[j].cron = "every"
        /\ j \notin excused /\ j \notin broken
        /\ Unchanged(j) /\ pc[Main] # "down" /\ j \notin toLoad
        => Has(j)

IInv == /\ TypeOK /\ Control /\ Copies /\ Fresh /\ Loading /\ Unused
        /\ RowKept /\ Stage /\ Stored /\ Unscheduled /\ Scheduled
-----------------------------------------------------------------------------
(* The steps.                                                              *)

(* The three ways out of the look for the old entry. *)
ToDelete(h) == hrow[h] = NoRow /\ Goto(h, "delete") /\ UNCHANGED <<hjob, hrow, hid>>

ToAdd(h) == /\ hrow[h] # NoRow /\ hrow[h].active = TRUE /\ hrow[h].cron # ""
            /\ Goto(h, "add") /\ UNCHANGED <<hjob, hrow, hid>>

ToIdle(h) == /\ hrow[h] # NoRow /\ (hrow[h].active # TRUE \/ hrow[h].cron = "")
             /\ ReturnIdle(h)

(* A handler's answer. *)
LEMMA Returns ==
  ASSUME NEW h \in Handlers, Return(h)
  PROVE  ReturnIdle(h)
  BY DEF Return, ReturnIdle, Goto

(* A handler deletes, schedules or answers. *)
LEMMA Proceeds ==
  ASSUME TypeOK, NEW h \in Handlers, Proceed(h)
  PROVE  ToDelete(h) \/ ToAdd(h) \/ ToIdle(h)
<1>1. hrow[h] # NoRow => hrow[h].active \in BOOLEAN
  BY DEF TypeOK, Threads, Row
<1>2. Return(h) => ReturnIdle(h)
  BY DEF Return, ReturnIdle, Goto
<1> QED
  BY <1>1, <1>2 DEF Proceed, ToDelete, ToAdd, ToIdle

(* The new row of CreateJob. *)
Created(h, j, r) == row' = [row EXCEPT ![j] = r] /\ Enter(h, j, r, "add")

(* The row CreateJob inserts is an active one.                            *)
LEMMA Creates ==
  ASSUME NEW h \in Handlers, NEW j \in Jobs, CreateJob(h, j)
  PROVE  \E r \in Row : r.active = TRUE /\ r.cron \in Crons /\ Created(h, j, r)
<1>1. PICK c \in Crons \ {""} : Created(h, j, [active |-> TRUE, cron |-> c, done |-> FALSE])
  BY DEF CreateJob, Created
<1>2. [active |-> TRUE, cron |-> c, done |-> FALSE] \in Row
  BY DEF Row
<1> QED
  BY <1>1, <1>2

(* The copy UpdateJob merges the request into. *)
LEMMA Edits ==
  ASSUME TypeOK, NEW h \in Handlers, NEW j \in Jobs, UpdateJob(h, j)
  PROVE  \E r \in Row : Enter(h, j, r, "save")
<1>1. PICK a \in BOOLEAN, c \in Crons :
          Enter(h, j, [row[j] EXCEPT !.active = a, !.cron = c], "save")
  BY DEF UpdateJob
<1>2. row[j] \in Row
  BY DEF TypeOK, UpdateJob
<1>3. [row[j] EXCEPT !.active = a, !.cron = c] \in Row
  BY <1>2 DEF Row
<1> QED
  BY <1>1, <1>3

(* A status write leaves the rest of the row. *)
Mark(j, r) == /\ row' = [row EXCEPT ![j] = r]
              /\ row[j] = NoRow <=> r = NoRow
              /\ row[j] # NoRow => r.active = row[j].active /\ r.cron = row[j].cron

Marked(j) == \E r \in Row \cup {NoRow} : Mark(j, r)

(* A run only writes the status of its job.                                *)
LEMMA Fires ==
  ASSUME TypeOK, NEW e \in entries, Fire(e)
  PROVE  \E j \in Jobs : Marked(j)
<1>1. e.job \in Jobs /\ row[e.job] \in Row
  BY DEF TypeOK, Entry, Fire
<1> DEFINE r == [row[e.job] EXCEPT !.done = FALSE]
<1>2. r \in Row /\ r.active = row[e.job].active /\ r.cron = row[e.job].cron
  BY <1>1 DEF Row
<1>3. row' = [row EXCEPT ![e.job] = r]
  BY DEF Fire
<1>4. r # NoRow /\ row[e.job] # NoRow
  BY <1>1, <1>2
<1> QED
  BY <1>1, <1>2, <1>3, <1>4 DEF Marked, Mark

(* So does a verdict.                                                      *)
LEMMA Verdicts ==
  ASSUME TypeOK, NEW j \in Jobs, Verdict(j)
  PROVE  Marked(j)
<1>1. CASE row[j] = NoRow
  BY <1>1 DEF Verdict, Marked, Mark
<1>2. CASE row[j] # NoRow
  <2> DEFINE r == [row[j] EXCEPT !.done = TRUE]
  <2>1. row[j] \in Row
    BY <1>2 DEF TypeOK
  <2>2. r \in Row /\ r.active = row[j].active /\ r.cron = row[j].cron
    BY <2>1 DEF Row
  <2>3. row' = [row EXCEPT ![j] = r]
    BY <1>2 DEF Verdict
  <2>4. r # NoRow
    BY <2>2
  <2> QED
    BY <1>2, <2>2, <2>3, <2>4 DEF Marked, Mark
<1> QED
  BY <1>1, <1>2

(* What is left of the row of job k. *)
Kept(k) == /\ row[k] = NoRow <=> row'[k] = NoRow
           /\ row[k] # NoRow => /\ row'[k].active = row[k].active
                                /\ row'[k].cron = row[k].cron

(* A status write leaves the schedule of every row.                        *)
LEMMA Marks ==
  ASSUME TypeOK, NEW j \in Jobs, Marked(j), NEW k \in Jobs
  PROVE  Kept(k)
<1>1. PICK r \in Row \cup {NoRow} : Mark(j, r)
  BY DEF Marked
<1>2. row' = [row EXCEPT ![j] = r]
  BY <1>1 DEF Mark
<1>3. CASE k = j
  <2>1. row'[k] = r
    BY <1>2, <1>3 DEF TypeOK
  <2> QED
    BY <1>1, <1>3, <2>1 DEF Mark, Kept
<1>4. CASE k # j
  <2>1. row'[k] = row[k]
    BY <1>2, <1>4 DEF TypeOK
  <2> QED
    BY <2>1 DEF Kept
<1> QED
  BY <1>3, <1>4

(* No thread but t moves. *)
Alone(t) == \A u \in Threads : u # t => pc'[u] = pc[u] /\ hjob'[u] = hjob[u]

(* A step of one thread leaves the jobs of the others as free as before.   *)
LEMMA Others ==
  ASSUME NEW t \in Threads, NEW k, hjob[t] # k, Alone(t)
  PROVE  (Unchanged(k)' => Unchanged(k)) /\ (Untouched(k)' => Untouched(k))
  BY DEF Unchanged, Untouched, Alone

(* A thread that goes on with a request keeps its job.                     *)
LEMMA Taken ==
  ASSUME NEW t \in Threads, NEW k, hjob'[t] = k
  PROVE  /\ pc'[t] # "save" => ~ Unchanged(k)'
         /\ pc'[t] \notin {"save", "find"} => ~ Untouched(k)'
  BY DEF Unchanged, Untouched

(* A job one thread is about is as free as that thread leaves it. *)
LEMMA Mine ==
  ASSUME Control, NEW t \in Threads, hjob[t] # NoJob
  PROVE  /\ pc[t] = "save" => Unchanged(hjob[t])
         /\ pc[t] \in {"save", "find"} => Untouched(hjob[t])
  BY DEF Control, Unchanged, Untouched

(* The new entry. *)
LEMMA Adds ==
  ASSUME NEW t \in Threads, Add(t)
  PROVE  \E n : n.job = hjob[t] /\ n.id = nextId /\ entries' = entries \cup {n}
<1> DEFINE n == [id |-> nextId, job |-> hjob[t]]
<1>1. n.job = hjob[t] /\ n.id = nextId
  OBVIOUS
<1>2. entries' = entries \cup {n}
  BY DEF Add
<1> QED
  BY <1>1, <1>2

(* What a handler does after the old entry. *)
LEMMA Went ==
  ASSUME TypeOK, NEW h \in Handlers, Proceed(h)
  PROVE  /\ Alone(h) /\ \A u \in Threads : u # h => hid'[u] = hid[u]
         /\ \/ pc'[h] \in {"delete", "add"} /\ hjob'[h] = hjob[h]
            \/ pc'[h] = "idle" /\ hjob'[h] = NoJob /\ ToIdle(h)
<1> USE DEF TypeOK, Threads, Alone, Goto
<1>1. CASE ToDelete(h)
  BY <1>1 DEF ToDelete
<1>2. CASE ToAdd(h)
  BY <1>2 DEF ToAdd
<1>3. CASE ToIdle(h)
  BY <1>3 DEF ToIdle, ReturnIdle
<1> QED
  BY <1>1, <1>2, <1>3, Proceeds

(* A thread whose job nobody else touches stays at its stage. *)
LEMMA Bystander ==
  ASSUME NEW u \in Threads, StageOf(u),
         pc'[u] = pc[u], hjob'[u] = hjob[u], hid'[u] = hid[u],
         stored'[hjob[u]] = stored[hjob[u]],
         \A e \in entries' : e.job = hjob[u] => e \in entries,
         Has(hjob[u]) => hjob[u] \in excused' \/ \E e \in entries' : e.job = hjob[u],
         hjob[u] \in excused => hjob[u] \in excused',
         hjob[u] \in broken => hjob[u] \in broken'
  PROVE  StageOf(u)'
  BY DEF StageOf, Has

(* Every step keeps the types. *)
LEMMA TypeStep ==
  ASSUME Serial = TRUE, IInv, [Next]_vars
  PROVE  TypeOK'
<1> USE DEF IInv, TypeOK, Control, Threads, Handling, Maining, Scheduling,
            tables, scheduler, threads, counters, history
<1>1. ASSUME NEW t \in Threads, ScheduleFails(t) PROVE TypeOK'
  BY <1>1 DEF ScheduleFails, Mishap, Return, Goto
<1>2. ASSUME NEW t \in Threads, Add(t) PROVE TypeOK'
  <2>1. hjob[t] \in Jobs
    BY <1>2 DEF Add
  <2>2. [id |-> nextId, job |-> hjob[t]] \in Entry
    BY <2>1 DEF Entry
  <2> QED
    BY <1>2, <2>1, <2>2 DEF Add, Goto
<1>3. ASSUME NEW t \in Threads, Refuse(t) PROVE TypeOK'
  BY <1>3 DEF Refuse, Goto
<1>4. ASSUME NEW t \in Threads, Rollback(t) PROVE TypeOK'
  BY <1>4 DEF Rollback, Goto
<1>5. ASSUME NEW t \in Threads, Clean(t) PROVE TypeOK'
  BY <1>5 DEF Clean, Return, Goto
<1>6. ASSUME NEW t \in Threads, Exists(t) PROVE TypeOK'
  BY <1>6 DEF Exists, Goto
<1>7. ASSUME NEW t \in Threads, Insert(t) PROVE TypeOK'
  BY <1>7 DEF Insert, Return, Goto
<1>8. ASSUME NEW t \in Threads, Update(t) PROVE TypeOK'
  BY <1>8 DEF Update, Return, Goto
<1>9. ASSUME NEW h \in Handlers, NEW j \in Jobs, CreateJob(h, j) PROVE TypeOK'
  <2>1. PICK r \in Row : Created(h, j, r)
    BY <1>9, Creates
  <2>2. row' \in [Jobs -> Row \cup {NoRow}]
    BY <2>1 DEF Created
  <2>3. Enter(h, j, r, "add")
    BY <2>1 DEF Created
  <2>4. Accept(h, j) /\ UNCHANGED <<stored, scheduler, toLoad, inFlight, history>>
    BY <1>9 DEF CreateJob
  <2>5. unused' \subseteq Jobs
    BY <1>9 DEF CreateJob
  <2> QED
    BY <2>2, <2>3, <2>4, <2>5 DEF Accept, Enter, Goto
<1>10. ASSUME NEW h \in Handlers, NEW j \in Jobs, UpdateJob(h, j) PROVE TypeOK'
  <2>1. PICK r \in Row : Enter(h, j, r, "save")
    BY <1>10, Edits
  <2> QED
    BY <1>10, <2>1 DEF UpdateJob, Accept, Enter, Goto
<1>11. ASSUME NEW h \in Handlers, NEW j \in Jobs, DeleteJob(h, j) PROVE TypeOK'
  BY <1>11 DEF DeleteJob, Accept, Enter, Goto
<1>12. ASSUME NEW h \in Handlers, Save(h) PROVE TypeOK'
  BY <1>12 DEF Save, Goto
<1>13. ASSUME NEW h \in Handlers, Find(h) PROVE TypeOK'
  BY <1>13 DEF Find, Goto
<1>14. ASSUME NEW h \in Handlers, FindNone(h) PROVE TypeOK'
  <2>1. CASE ToDelete(h)
    BY <1>14, <2>1 DEF FindNone, ToDelete, Goto
  <2>2. CASE ToAdd(h)
    BY <1>14, <2>2 DEF FindNone, ToAdd, Goto
  <2>3. CASE ToIdle(h)
    <3>1. ReturnIdle(h)
      BY <2>3 DEF ToIdle
    <3> QED
      BY <1>14, <3>1 DEF FindNone, ReturnIdle, Goto
  <2> QED
    BY <1>14, <2>1, <2>2, <2>3, Proceeds DEF FindNone
<1>15. ASSUME NEW h \in Handlers, Remove(h) PROVE TypeOK'
  <2>1. entries' \subseteq entries
    BY <1>15 DEF Remove
  <2>2. \A e \in entries : e.job \in Jobs
    BY DEF Entry
  <2>3. excused' \subseteq Jobs
    BY <1>15, <2>2 DEF Remove
  <2>4. CASE ToDelete(h)
    BY <1>15, <2>1, <2>3, <2>4 DEF Remove, ToDelete, Goto
  <2>5. CASE ToAdd(h)
    BY <1>15, <2>1, <2>3, <2>5 DEF Remove, ToAdd, Goto
  <2>6. CASE ToIdle(h)
    <3>1. ReturnIdle(h)
      BY <2>6 DEF ToIdle
    <3> QED
      BY <1>15, <2>1, <2>3, <3>1 DEF Remove, ReturnIdle, Goto
  <2> QED
    BY <1>15, <2>4, <2>5, <2>6, Proceeds DEF Remove
<1>16. ASSUME NEW h \in Handlers, Delete(h) PROVE TypeOK'
  BY <1>16 DEF Delete, Return, Goto
<1>17. ASSUME NEW h \in Handlers, HandlerFails(h) PROVE TypeOK'
  <2>1. hjob[h] \in Jobs
    BY <1>17 DEF HandlerFails, Mishap
  <2>2. broken' \subseteq Jobs
    BY <1>17, <2>1 DEF HandlerFails, Mishap
  <2>3. CASE ToDelete(h)
    BY <1>17, <2>2, <2>3 DEF HandlerFails, Mishap, ToDelete, Goto
  <2>4. CASE Goto(h, "add") /\ UNCHANGED <<hjob, hrow, hid>>
    BY <1>17, <2>2, <2>4 DEF HandlerFails, Mishap, Goto
  <2>5. CASE ReturnIdle(h)
    BY <1>17, <2>2, <2>5 DEF HandlerFails, Mishap, ReturnIdle, Goto
  <2> QED
    BY <1>17, <2>3, <2>4, <2>5, Proceeds, Returns
    DEF HandlerFails, ToAdd, ToIdle
<1>18. ASSUME NEW e \in entries, Fire(e) PROVE TypeOK'
  <2>1. e.job \in Jobs
    BY DEF Entry
  <2>2. PICK j \in Jobs : Marked(j)
    BY <1>18, Fires
  <2>3. row' \in [Jobs -> Row \cup {NoRow}]
    BY <2>2 DEF Marked, Mark
  <2> QED
    BY <1>18, <2>1, <2>3 DEF Fire
<1>19. ASSUME NEW j \in Jobs, Verdict(j) PROVE TypeOK'
  <2>1. row' \in [Jobs -> Row \cup {NoRow}]
    BY <1>19, Verdicts DEF Marked, Mark
  <2> QED
    BY <1>19, <2>1 DEF Verdict
<1>20. ASSUME NEW j \in Jobs, LoadJob(j) PROVE TypeOK'
  BY <1>20 DEF LoadJob, Enter, Goto
<1>21. ASSUME NEW j \in Jobs, EditEntries(j) PROVE TypeOK'
  BY <1>21 DEF EditEntries, CreateJobCronEntry, DeleteJobCronEntry
<1>22. CASE Die
  BY <1>22 DEF Die
<1>23. CASE Load
  BY <1>23 DEF Load, Active, Finished, Goto
<1>24. CASE LoadFails
  BY <1>24 DEF LoadFails, Goto
<1>25. CASE Serve
  BY <1>25 DEF Serve, Goto
<1>26. CASE UNCHANGED vars
  BY <1>26 DEF vars
<1> QED
  BY <1>1, <1>2, <1>3, <1>4, <1>5, <1>6, <1>7, <1>8, <1>9,
     <1>10, <1>11, <1>12, <1>13, <1>14, <1>15, <1>16, <1>17, <1>18,
     <1>19, <1>20, <1>21, <1>22, <1>23, <1>24, <1>25, <1>26
  DEF Next, ScheduleJob

(* Every step keeps the threads apart. *)
LEMMA ControlStep ==
  ASSUME Serial = TRUE, IInv, [Next]_vars
  PROVE  Control'
<1> USE DEF IInv, TypeOK, Control, Threads, Handling, Maining, Scheduling,
            tables, scheduler, threads, counters, history
<1>1. ASSUME NEW t \in Threads, ScheduleFails(t) PROVE Control'
  BY <1>1 DEF ScheduleFails, Mishap, Return, Goto
<1>2. ASSUME NEW t \in Threads, Add(t) PROVE Control'
  BY <1>2 DEF Add, Goto
<1>3. ASSUME NEW t \in Threads, Refuse(t) PROVE Control'
  BY <1>3 DEF Refuse, Goto
<1>4. ASSUME NEW t \in Threads, Rollback(t) PROVE Control'
  BY <1>4 DEF Rollback, Goto
<1>5. ASSUME NEW t \in Threads, Clean(t) PROVE Control'
  BY <1>5 DEF Clean, Return, Goto
<1>6. ASSUME NEW t \in Threads, Exists(t) PROVE Control'
  BY <1>6 DEF Exists, Goto
<1>7. ASSUME NEW t \in Threads, Insert(t) PROVE Control'
  BY <1>7 DEF Insert, Return, Goto
<1>8. ASSUME NEW t \in Threads, Update(t) PROVE Control'
  BY <1>8 DEF Update, Return, Goto
<1>9. ASSUME NEW h \in Handlers, NEW j \in Jobs, CreateJob(h, j) PROVE Control'
  <2>1. PICK r \in Row : r.active = TRUE /\ r.cron \in Crons /\ Created(h, j, r)
    BY <1>9, Creates
  <2> QED
    BY <1>9, <2>1 DEF CreateJob, Created, Accept, Enter, Goto
<1>10. ASSUME NEW h \in Handlers, NEW j \in Jobs, UpdateJob(h, j) PROVE Control'
  BY <1>10 DEF UpdateJob, Accept, Enter, Goto
<1>11. ASSUME NEW h \in Handlers, NEW j \in Jobs, DeleteJob(h, j) PROVE Control'
  BY <1>11 DEF DeleteJob, Accept, Enter, Goto
<1>12. ASSUME NEW h \in Handlers, Save(h) PROVE Control'
  BY <1>12 DEF Save, Goto
<1>13. ASSUME NEW h \in Handlers, Find(h) PROVE Control'
  BY <1>13 DEF Find, Goto
<1>14. ASSUME NEW h \in Handlers, FindNone(h) PROVE Control'
  <2>1. CASE ToDelete(h)
    BY <1>14, <2>1 DEF FindNone, ToDelete, Goto
  <2>2. CASE ToAdd(h)
    BY <1>14, <2>2 DEF FindNone, ToAdd, Goto
  <2>3. CASE ToIdle(h)
    <3>1. ReturnIdle(h)
      BY <2>3 DEF ToIdle
    <3> QED
      BY <1>14, <3>1 DEF FindNone, ReturnIdle, Goto
  <2> QED
    BY <1>14, <2>1, <2>2, <2>3, Proceeds DEF FindNone
<1>15. ASSUME NEW h \in Handlers, Remove(h) PROVE Control'
  <2>1. CASE ToDelete(h)
    BY <1>15, <2>1 DEF Remove, ToDelete, Goto
  <2>2. CASE ToAdd(h)
    BY <1>15, <2>2 DEF Remove, ToAdd, Goto
  <2>3. CASE ToIdle(h)
    <3>1. ReturnIdle(h)
      BY <2>3 DEF ToIdle
    <3> QED
      BY <1>15, <3>1 DEF Remove, ReturnIdle, Goto
  <2> QED
    BY <1>15, <2>1, <2>2, <2>3, Proceeds DEF Remove
<1>16. ASSUME NEW h \in Handlers, Delete(h) PROVE Control'
  BY <1>16 DEF Delete, Return, Goto
<1>17. ASSUME NEW h \in Handlers, HandlerFails(h) PROVE Control'
  BY <1>17 DEF HandlerFails, Mishap, Proceed, Return, Goto
<1>18. ASSUME NEW e \in entries, Fire(e) PROVE Control'
  BY <1>18 DEF Fire
<1>19. ASSUME NEW j \in Jobs, Verdict(j) PROVE Control'
  BY <1>19 DEF Verdict
<1>20. ASSUME NEW j \in Jobs, LoadJob(j) PROVE Control'
  BY <1>20 DEF LoadJob, Enter, Goto
<1>21. ASSUME NEW j \in Jobs, EditEntries(j) PROVE Control'
  BY <1>21 DEF EditEntries, CreateJobCronEntry, DeleteJobCronEntry
<1>22. CASE Die
  BY <1>22 DEF Die
<1>23. CASE Load
  BY <1>23 DEF Load, Active, Finished, Goto
<1>24. CASE LoadFails
  BY <1>24 DEF LoadFails, Goto
<1>25. CASE Serve
  BY <1>25 DEF Serve, Goto
<1>26. CASE UNCHANGED vars
  BY <1>26 DEF vars
<1> QED
  BY <1>1, <1>2, <1>3, <1>4, <1>5, <1>6, <1>7, <1>8, <1>9,
     <1>10, <1>11, <1>12, <1>13, <1>14, <1>15, <1>16, <1>17, <1>18,
     <1>19, <1>20, <1>21, <1>22, <1>23, <1>24, <1>25, <1>26
  DEF Next, ScheduleJob

(* Every step keeps the copies of the rows. *)
LEMMA CopiesStep ==
  ASSUME Serial = TRUE, IInv, [Next]_vars
  PROVE  Copies'
<1> USE DEF IInv, TypeOK, Control, Copies, Loading, Threads, Handling, Maining,
            Scheduling, Added, tables, scheduler, threads, counters, history
<1>1. ASSUME NEW t \in Threads, ScheduleFails(t) PROVE Copies'
  BY <1>1 DEF ScheduleFails, Mishap, Return, Goto
<1>2. ASSUME NEW t \in Threads, Add(t) PROVE Copies'
  BY <1>2 DEF Add, Goto
<1>3. ASSUME NEW t \in Threads, Refuse(t) PROVE Copies'
  BY <1>3 DEF Refuse, Goto
<1>4. ASSUME NEW t \in Threads, Rollback(t) PROVE Copies'
  BY <1>4 DEF Rollback, Goto
<1>5. ASSUME NEW t \in Threads, Clean(t) PROVE Copies'
  BY <1>5 DEF Clean, Return, Goto
<1>6. ASSUME NEW t \in Threads, Exists(t) PROVE Copies'
  BY <1>6 DEF Exists, Goto
<1>7. ASSUME NEW t \in Threads, Insert(t) PROVE Copies'
  BY <1>7 DEF Insert, Return, Goto
<1>8. ASSUME NEW t \in Threads, Update(t) PROVE Copies'
  BY <1>8 DEF Update, Return, Goto
<1>9. ASSUME NEW h \in Handlers, NEW j \in Jobs, CreateJob(h, j) PROVE Copies'
  <2>1. PICK r \in Row : r.active = TRUE /\ r.cron \in Crons /\ Created(h, j, r)
    BY <1>9, Creates
  <2> QED
    BY <1>9, <2>1 DEF CreateJob, Created, Accept, Enter, Goto
<1>10. ASSUME NEW h \in Handlers, NEW j \in Jobs, UpdateJob(h, j) PROVE Copies'
  <2>1. PICK r \in Row : Enter(h, j, r, "save")
    BY <1>10, Edits
  <2> QED
    BY <1>10, <2>1 DEF UpdateJob, Accept, Enter, Goto
<1>11. ASSUME NEW h \in Handlers, NEW j \in Jobs, DeleteJob(h, j) PROVE Copies'
  BY <1>11 DEF DeleteJob, Accept, Enter, Goto
<1>12. ASSUME NEW h \in Handlers, Save(h) PROVE Copies'
  BY <1>12 DEF Save, Goto
<1>13. ASSUME NEW h \in Handlers, Find(h) PROVE Copies'
  BY <1>13 DEF Find, Goto
<1>14. ASSUME NEW h \in Handlers, FindNone(h) PROVE Copies'
  <2>1. CASE ToDelete(h)
    BY <1>14, <2>1 DEF FindNone, ToDelete, Goto
  <2>2. CASE ToAdd(h)
    BY <1>14, <2>2 DEF FindNone, ToAdd, Goto
  <2>3. CASE ToIdle(h)
    <3>1. ReturnIdle(h)
      BY <2>3 DEF ToIdle
    <3> QED
      BY <1>14, <3>1 DEF FindNone, ReturnIdle, Goto
  <2> QED
    BY <1>14, <2>1, <2>2, <2>3, Proceeds DEF FindNone
<1>15. ASSUME NEW h \in Handlers, Remove(h) PROVE Copies'
  <2>1. CASE ToDelete(h)
    BY <1>15, <2>1 DEF Remove, ToDelete, Goto
  <2>2. CASE ToAdd(h)
    BY <1>15, <2>2 DEF Remove, ToAdd, Goto
  <2>3. CASE ToIdle(h)
    <3>1. ReturnIdle(h)
      BY <2>3 DEF ToIdle
    <3> QED
      BY <1>15, <3>1 DEF Remove, ReturnIdle, Goto
  <2> QED
    BY <1>15, <2>1, <2>2, <2>3, Proceeds DEF Remove
<1>16. ASSUME NEW h \in Handlers, Delete(h) PROVE Copies'
  BY <1>16 DEF Delete, Return, Goto
<1>17. ASSUME NEW h \in Handlers, HandlerFails(h) PROVE Copies'
  <2>1. CASE pc[h] = "find" /\ ToDelete(h)
    BY <1>17, <2>1 DEF HandlerFails, Mishap, ToDelete, Goto
  <2>2. CASE pc[h] = "find" /\ ToAdd(h)
    BY <1>17, <2>2 DEF HandlerFails, Mishap, ToAdd, Goto
  <2>3. CASE pc[h] = "find" /\ ToIdle(h)
    <3>1. ReturnIdle(h)
      BY <2>3 DEF ToIdle
    <3> QED
      BY <1>17, <3>1 DEF HandlerFails, Mishap, ReturnIdle, Goto
  <2>4. CASE pc[h] \in {"save", "delete"} /\ Return(h)
    BY <1>17, <2>4 DEF HandlerFails, Mishap, Return, Goto
  <2> QED
    BY <1>17, <2>1, <2>2, <2>3, <2>4, Proceeds DEF HandlerFails
<1>18. ASSUME NEW e \in entries, Fire(e) PROVE Copies'
  BY <1>18 DEF Fire
<1>19. ASSUME NEW j \in Jobs, Verdict(j) PROVE Copies'
  BY <1>19 DEF Verdict
<1>20. ASSUME NEW j \in Jobs, LoadJob(j) PROVE Copies'
  BY <1>20 DEF LoadJob, Enter, Goto
<1>21. ASSUME NEW j \in Jobs, EditEntries(j) PROVE Copies'
  BY <1>21 DEF EditEntries, CreateJobCronEntry, DeleteJobCronEntry
<1>22. CASE Die
  BY <1>22 DEF Die
<1>23. CASE Load
  BY <1>23 DEF Load, Active, Finished, Goto
<1>24. CASE LoadFails
  BY <1>24 DEF LoadFails, Goto
<1>25. CASE Serve
  BY <1>25 DEF Serve, Goto
<1>26. CASE UNCHANGED vars
  BY <1>26 DEF vars
<1> QED
  BY <1>1, <1>2, <1>3, <1>4, <1>5, <1>6, <1>7, <1>8, <1>9,
     <1>10, <1>11, <1>12, <1>13, <1>14, <1>15, <1>16, <1>17, <1>18,
     <1>19, <1>20, <1>21, <1>22, <1>23, <1>24, <1>25, <1>26
  DEF Next, ScheduleJob

(* Every step keeps the entry ids apart. *)
LEMMA FreshStep ==
  ASSUME Serial = TRUE, IInv, [Next]_vars
  PROVE  Fresh'
<1> USE DEF IInv, TypeOK, Fresh, Entry, Threads, tables, scheduler, threads,
            counters, history
<1>1. ASSUME NEW t \in Threads, ScheduleFails(t) PROVE Fresh'
  BY <1>1 DEF ScheduleFails, Mishap, Return, Goto
<1>2. ASSUME NEW t \in Threads, Add(t) PROVE Fresh'
  BY <1>2 DEF Add, Goto
<1>3. ASSUME NEW t \in Threads, Refuse(t) PROVE Fresh'
  BY <1>3 DEF Refuse, Goto
<1>4. ASSUME NEW t \in Threads, Rollback(t) PROVE Fresh'
  BY <1>4 DEF Rollback, Goto
<1>5. ASSUME NEW t \in Threads, Clean(t) PROVE Fresh'
  BY <1>5 DEF Clean, Return, Goto
<1>6. ASSUME NEW t \in Threads, Exists(t) PROVE Fresh'
  BY <1>6 DEF Exists, Goto
<1>7. ASSUME NEW t \in Threads, Insert(t) PROVE Fresh'
  BY <1>7 DEF Insert, Return, Goto
<1>8. ASSUME NEW t \in Threads, Update(t) PROVE Fresh'
  BY <1>8 DEF Update, Return, Goto
<1>9. ASSUME NEW h \in Handlers, NEW j \in Jobs, CreateJob(h, j) PROVE Fresh'
  BY <1>9 DEF CreateJob, Accept, Enter, Goto
<1>10. ASSUME NEW h \in Handlers, NEW j \in Jobs, UpdateJob(h, j) PROVE Fresh'
  BY <1>10 DEF UpdateJob, Accept, Enter, Goto
<1>11. ASSUME NEW h \in Handlers, NEW j \in Jobs, DeleteJob(h, j) PROVE Fresh'
  BY <1>11 DEF DeleteJob, Accept, Enter, Goto
<1>12. ASSUME NEW h \in Handlers, Save(h) PROVE Fresh'
  BY <1>12 DEF Save, Goto
<1>13. ASSUME NEW h \in Handlers, Find(h) PROVE Fresh'
  BY <1>13 DEF Find, Goto
<1>14. ASSUME NEW h \in Handlers, FindNone(h) PROVE Fresh'
  BY <1>14 DEF FindNone, Proceed, Return, Goto
<1>15. ASSUME NEW h \in Handlers, Remove(h) PROVE Fresh'
  BY <1>15 DEF Remove, Proceed, Return, Goto
<1>16. ASSUME NEW h \in Handlers, Delete(h) PROVE Fresh'
  BY <1>16 DEF Delete, Return, Goto
<1>17. ASSUME NEW h \in Handlers, HandlerFails(h) PROVE Fresh'
  BY <1>17 DEF HandlerFails, Mishap, Proceed, Return, Goto
<1>18. ASSUME NEW e \in entries, Fire(e) PROVE Fresh'
  BY <1>18 DEF Fire
<1>19. ASSUME NEW j \in Jobs, Verdict(j) PROVE Fresh'
  BY <1>19 DEF Verdict
<1>20. ASSUME NEW j \in Jobs, LoadJob(j) PROVE Fresh'
  BY <1>20 DEF LoadJob, Enter, Goto
<1>21. ASSUME NEW j \in Jobs, EditEntries(j) PROVE Fresh'
  BY <1>21 DEF EditEntries, CreateJobCronEntry, DeleteJobCronEntry
<1>22. CASE Die
  BY <1>22 DEF Die
<1>23. CASE Load
  BY <1>23 DEF Load, Active, Finished, Goto
<1>24. CASE LoadFails
  BY <1>24 DEF LoadFails, Goto
<1>25. CASE Serve
  BY <1>25 DEF Serve, Goto
<1>26. CASE UNCHANGED vars
  BY <1>26 DEF vars
<1> QED
  BY <1>1, <1>2, <1>3, <1>4, <1>5, <1>6, <1>7, <1>8, <1>9,
     <1>10, <1>11, <1>12, <1>13, <1>14, <1>15, <1>16, <1>17, <1>18,
     <1>19, <1>20, <1>21, <1>22, <1>23, <1>24, <1>25, <1>26
  DEF Next, ScheduleJob

(* Every step keeps the jobs to load. *)
LEMMA LoadingStep ==
  ASSUME Serial = TRUE, IInv, [Next]_vars
  PROVE  Loading'
<1> USE DEF IInv, TypeOK, Control, Loading, Entry, Has, Threads, Scheduling,
            Handling, Maining, Unused, tables, scheduler, threads, counters,
            history
<1>1. ASSUME NEW t \in Threads, ScheduleFails(t) PROVE Loading'
  BY <1>1 DEF ScheduleFails, Mishap, Return, Goto
<1>2. ASSUME NEW t \in Threads, Add(t) PROVE Loading'
  BY <1>2 DEF Add, Goto
<1>3. ASSUME NEW t \in Threads, Refuse(t) PROVE Loading'
  BY <1>3 DEF Refuse, Goto
<1>4. ASSUME NEW t \in Threads, Rollback(t) PROVE Loading'
  BY <1>4 DEF Rollback, Goto
<1>5. ASSUME NEW t \in Threads, Clean(t) PROVE Loading'
  BY <1>5 DEF Clean, Return, Goto
<1>6. ASSUME NEW t \in Threads, Exists(t) PROVE Loading'
  BY <1>6 DEF Exists, Goto
<1>7. ASSUME NEW t \in Threads, Insert(t) PROVE Loading'
  BY <1>7 DEF Insert, Return, Goto
<1>8. ASSUME NEW t \in Threads, Update(t) PROVE Loading'
  BY <1>8 DEF Update, Return, Goto
<1>9. ASSUME NEW h \in Handlers, NEW j \in Jobs, CreateJob(h, j) PROVE Loading'
  BY <1>9 DEF CreateJob, Accept, Enter, Goto
<1>10. ASSUME NEW h \in Handlers, NEW j \in Jobs, UpdateJob(h, j) PROVE Loading'
  BY <1>10 DEF UpdateJob, Accept, Enter, Goto
<1>11. ASSUME NEW h \in Handlers, NEW j \in Jobs, DeleteJob(h, j) PROVE Loading'
  BY <1>11 DEF DeleteJob, Accept, Enter, Goto
<1>12. ASSUME NEW h \in Handlers, Save(h) PROVE Loading'
  BY <1>12 DEF Save, Goto
<1>13. ASSUME NEW h \in Handlers, Find(h) PROVE Loading'
  BY <1>13 DEF Find, Goto
<1>14. ASSUME NEW h \in Handlers, FindNone(h) PROVE Loading'
  BY <1>14 DEF FindNone, Proceed, Return, Goto
<1>15. ASSUME NEW h \in Handlers, Remove(h) PROVE Loading'
  BY <1>15 DEF Remove, Proceed, Return, Goto
<1>16. ASSUME NEW h \in Handlers, Delete(h) PROVE Loading'
  BY <1>16 DEF Delete, Return, Goto
<1>17. ASSUME NEW h \in Handlers, HandlerFails(h) PROVE Loading'
  BY <1>17 DEF HandlerFails, Mishap, Proceed, Return, Goto
<1>18. ASSUME NEW e \in entries, Fire(e) PROVE Loading'
  BY <1>18 DEF Fire
<1>19. ASSUME NEW j \in Jobs, Verdict(j) PROVE Loading'
  <2>1. \A k \in Jobs : Kept(k)
    BY <1>19, Verdicts, Marks
  <2>2. UNCHANGED <<unused, stored, scheduler, threads, toLoad, counters, history>>
    BY <1>19 DEF Verdict
  <2> QED
    BY <2>1, <2>2 DEF Kept
<1>20. ASSUME NEW j \in Jobs, LoadJob(j) PROVE Loading'
  BY <1>20 DEF LoadJob, Enter, Goto
<1>21. ASSUME NEW j \in Jobs, EditEntries(j) PROVE Loading'
  BY <1>21 DEF EditEntries, CreateJobCronEntry, DeleteJobCronEntry
<1>22. CASE Die
  BY <1>22 DEF Die
<1>23. CASE Load
  BY <1>23 DEF Row, Load, Active, Finished, Goto
<1>24. CASE LoadFails
  BY <1>24 DEF LoadFails, Goto
<1>25. CASE Serve
  BY <1>25 DEF Serve, Goto
<1>26. CASE UNCHANGED vars
  BY <1>26 DEF vars
<1> QED
  BY <1>1, <1>2, <1>3, <1>4, <1>5, <1>6, <1>7, <1>8, <1>9,
     <1>10, <1>11, <1>12, <1>13, <1>14, <1>15, <1>16, <1>17, <1>18,
     <1>19, <1>20, <1>21, <1>22, <1>23, <1>24, <1>25, <1>26
  DEF Next, ScheduleJob

(* Every step keeps unused ids unused. *)
LEMMA UnusedStep ==
  ASSUME Serial = TRUE, IInv, [Next]_vars
  PROVE  Unused'
<1> USE DEF IInv, TypeOK, Control, Unused, Has, Threads, Scheduling, Loading,
            tables, scheduler, threads, counters, history
<1>1. ASSUME NEW t \in Threads, ScheduleFails(t) PROVE Unused'
  BY <1>1 DEF ScheduleFails, Mishap, Return, Goto
<1>2. ASSUME NEW t \in Threads, Add(t) PROVE Unused'
  BY <1>2 DEF Add, Goto
<1>3. ASSUME NEW t \in Threads, Refuse(t) PROVE Unused'
  BY <1>3 DEF Refuse, Goto
<1>4. ASSUME NEW t \in Threads, Rollback(t) PROVE Unused'
  BY <1>4 DEF Rollback, Goto
<1>5. ASSUME NEW t \in Threads, Clean(t) PROVE Unused'
  BY <1>5 DEF Clean, Return, Goto
<1>6. ASSUME NEW t \in Threads, Exists(t) PROVE Unused'
  BY <1>6 DEF Exists, Goto
<1>7. ASSUME NEW t \in Threads, Insert(t) PROVE Unused'
  BY <1>7 DEF Insert, Return, Goto
<1>8. ASSUME NEW t \in Threads, Update(t) PROVE Unused'
  BY <1>8 DEF Update, Return, Goto
<1>9. ASSUME NEW h \in Handlers, NEW j \in Jobs, CreateJob(h, j) PROVE Unused'
  <2>1. PICK r \in Row : r.active = TRUE /\ r.cron \in Crons /\ Created(h, j, r)
    BY <1>9, Creates
  <2> QED
    BY <1>9, <2>1 DEF CreateJob, Created, Accept, Enter, Goto
<1>10. ASSUME NEW h \in Handlers, NEW j \in Jobs, UpdateJob(h, j) PROVE Unused'
  BY <1>10 DEF UpdateJob, Accept, Enter, Goto
<1>11. ASSUME NEW h \in Handlers, NEW j \in Jobs, DeleteJob(h, j) PROVE Unused'
  BY <1>11 DEF DeleteJob, Accept, Enter, Goto
<1>12. ASSUME NEW h \in Handlers, Save(h) PROVE Unused'
  BY <1>12 DEF Save, Goto
<1>13. ASSUME NEW h \in Handlers, Find(h) PROVE Unused'
  BY <1>13 DEF Find, Goto
<1>14. ASSUME NEW h \in Handlers, FindNone(h) PROVE Unused'
  <2>1. CASE ToDelete(h)
    BY <1>14, <2>1 DEF FindNone, ToDelete, Goto
  <2>2. CASE ToAdd(h)
    BY <1>14, <2>2 DEF FindNone, ToAdd, Goto
  <2>3. CASE ToIdle(h)
    <3>1. ReturnIdle(h)
      BY <2>3 DEF ToIdle
    <3> QED
      BY <1>14, <3>1 DEF FindNone, ReturnIdle, Goto
  <2> QED
    BY <1>14, <2>1, <2>2, <2>3, Proceeds DEF FindNone
<1>15. ASSUME NEW h \in Handlers, Remove(h) PROVE Unused'
  <2>1. CASE ToDelete(h)
    BY <1>15, <2>1 DEF Remove, ToDelete, Goto
  <2>2. CASE ToAdd(h)
    BY <1>15, <2>2 DEF Remove, ToAdd, Goto
  <2>3. CASE ToIdle(h)
    <3>1. ReturnIdle(h)
      BY <2>3 DEF ToIdle
    <3> QED
      BY <1>15, <3>1 DEF Remove, ReturnIdle, Goto
  <2> QED
    BY <1>15, <2>1, <2>2, <2>3, Proceeds DEF Remove
<1>16. ASSUME NEW h \in Handlers, Delete(h) PROVE Unused'
  BY <1>16 DEF Delete, Return, Goto
<1>17. ASSUME NEW h \in Handlers, HandlerFails(h) PROVE Unused'
  <2>1. CASE pc[h] = "find" /\ ToDelete(h)
    BY <1>17, <2>1 DEF HandlerFails, Mishap, ToDelete, Goto
  <2>2. CASE pc[h] = "find" /\ ToAdd(h)
    BY <1>17, <2>2 DEF HandlerFails, Mishap, ToAdd, Goto
  <2>3. CASE pc[h] = "find" /\ ToIdle(h)
    <3>1. ReturnIdle(h)
      BY <2>3 DEF ToIdle
    <3> QED
      BY <1>17, <3>1 DEF HandlerFails, Mishap, ReturnIdle, Goto
  <2>4. CASE pc[h] \in {"save", "delete"} /\ Return(h)
    BY <1>17, <2>4 DEF HandlerFails, Mishap, Return, Goto
  <2> QED
    BY <1>17, <2>1, <2>2, <2>3, <2>4, Proceeds DEF HandlerFails
<1>18. ASSUME NEW e \in entries, Fire(e) PROVE Unused'
  BY <1>18 DEF Fire
<1>19. ASSUME NEW j \in Jobs, Verdict(j) PROVE Unused'
  BY <1>19 DEF Verdict
<1>20. ASSUME NEW j \in Jobs, LoadJob(j) PROVE Unused'
  BY <1>20 DEF LoadJob, Enter, Goto
<1>21. ASSUME NEW j \in Jobs, EditEntries(j) PROVE Unused'
  BY <1>21 DEF EditEntries, CreateJobCronEntry, DeleteJobCronEntry
<1>22. CASE Die
  BY <1>22 DEF Die
<1>23. CASE Load
  BY <1>23 DEF Load, Active, Finished, Goto
<1>24. CASE LoadFails
  BY <1>24 DEF LoadFails, Goto
<1>25. CASE Serve
  BY <1>25 DEF Serve, Goto
<1>26. CASE UNCHANGED vars
  BY <1>26 DEF vars
<1> QED
  BY <1>1, <1>2, <1>3, <1>4, <1>5, <1>6, <1>7, <1>8, <1>9,
     <1>10, <1>11, <1>12, <1>13, <1>14, <1>15, <1>16, <1>17, <1>18,
     <1>19, <1>20, <1>21, <1>22, <1>23, <1>24, <1>25, <1>26
  DEF Next, ScheduleJob

(* Every step keeps the rows the threads rely on. *)
LEMMA RowKeptStep ==
  ASSUME Serial = TRUE, IInv, [Next]_vars
  PROVE  RowKept'
<1> USE DEF IInv, TypeOK, Control, RowKept, Threads, Scheduling, Added, tables,
            scheduler, threads, counters, history
<1>1. ASSUME NEW t \in Threads, ScheduleFails(t) PROVE RowKept'
  BY <1>1 DEF Copies, ScheduleFails, Mishap, Return, Goto
<1>2. ASSUME NEW t \in Threads, Add(t) PROVE RowKept'
  BY <1>2 DEF Add, Goto
<1>3. ASSUME NEW t \in Threads, Refuse(t) PROVE RowKept'
  BY <1>3 DEF Copies, Refuse, Goto
<1>4. ASSUME NEW t \in Threads, Rollback(t) PROVE RowKept'
  BY <1>4 DEF Rollback, Goto
<1>5. ASSUME NEW t \in Threads, Clean(t) PROVE RowKept'
  BY <1>5 DEF Clean, Return, Goto
<1>6. ASSUME NEW t \in Threads, Exists(t) PROVE RowKept'
  BY <1>6 DEF Exists, Goto
<1>7. ASSUME NEW t \in Threads, Insert(t) PROVE RowKept'
  BY <1>7 DEF Insert, Return, Goto
<1>8. ASSUME NEW t \in Threads, Update(t) PROVE RowKept'
  BY <1>8 DEF Update, Return, Goto
<1>9. ASSUME NEW h \in Handlers, NEW j \in Jobs, CreateJob(h, j) PROVE RowKept'
  <2>1. PICK r \in Row : r.active = TRUE /\ Created(h, j, r)
    BY <1>9, Creates
  <2>2. /\ pc' = [pc EXCEPT ![h] = "add"]
        /\ hjob' = [hjob EXCEPT ![h] = j]
        /\ hrow' = [hrow EXCEPT ![h] = r]
        /\ row' = [row EXCEPT ![j] = r]
    BY <2>1 DEF Created, Enter, Goto
  <2>3. \A u \in Threads : hjob[u] # j
    BY <1>9 DEF CreateJob, Unused
  <2> QED
    BY <2>2, <2>3
<1>10. ASSUME NEW h \in Handlers, NEW j \in Jobs, UpdateJob(h, j) PROVE RowKept'
  BY <1>10 DEF UpdateJob, Accept, Enter, Goto
<1>11. ASSUME NEW h \in Handlers, NEW j \in Jobs, DeleteJob(h, j) PROVE RowKept'
  BY <1>11 DEF DeleteJob, Accept, Enter, Goto
<1>12. ASSUME NEW h \in Handlers, Save(h) PROVE RowKept'
  BY <1>12 DEF Copies, Save, Goto
<1>13. ASSUME NEW h \in Handlers, Find(h) PROVE RowKept'
  BY <1>13 DEF Find, Goto
<1>14. ASSUME NEW h \in Handlers, FindNone(h) PROVE RowKept'
  <2>1. CASE ToDelete(h)
    BY <1>14, <2>1 DEF FindNone, ToDelete, Goto
  <2>2. CASE ToAdd(h)
    BY <1>14, <2>2 DEF FindNone, ToAdd, Goto
  <2>3. CASE ToIdle(h)
    BY <1>14, <2>3 DEF FindNone, ToIdle, ReturnIdle, Goto
  <2> QED
    BY <1>14, <2>1, <2>2, <2>3, Proceeds DEF FindNone
<1>15. ASSUME NEW h \in Handlers, Remove(h) PROVE RowKept'
  <2>1. CASE ToDelete(h)
    BY <1>15, <2>1 DEF Remove, ToDelete, Goto
  <2>2. CASE ToAdd(h)
    BY <1>15, <2>2 DEF Remove, ToAdd, Goto
  <2>3. CASE ToIdle(h)
    BY <1>15, <2>3 DEF Remove, ToIdle, ReturnIdle, Goto
  <2> QED
    BY <1>15, <2>1, <2>2, <2>3, Proceeds DEF Remove
<1>16. ASSUME NEW h \in Handlers, Delete(h) PROVE RowKept'
  BY <1>16 DEF Delete, Return, Goto
<1>17. ASSUME NEW h \in Handlers, HandlerFails(h) PROVE RowKept'
  <2>1. CASE pc[h] = "find" /\ ToDelete(h)
    BY <1>17, <2>1 DEF HandlerFails, Mishap, ToDelete, Goto
  <2>2. CASE pc[h] = "find" /\ ToAdd(h)
    BY <1>17, <2>2 DEF HandlerFails, Mishap, ToAdd, Goto
  <2>3. CASE pc[h] = "find" /\ ToIdle(h)
    BY <1>17, <2>3 DEF HandlerFails, Mishap, ToIdle, ReturnIdle, Goto
  <2>4. CASE pc[h] \in {"save", "delete"} /\ Return(h)
    BY <1>17, <2>4 DEF HandlerFails, Mishap, Return, Goto
  <2> QED
    BY <1>17, <2>1, <2>2, <2>3, <2>4, Proceeds DEF HandlerFails
<1>18. ASSUME NEW e \in entries, Fire(e) PROVE RowKept'
  <2>1. PICK j \in Jobs : Marked(j)
    BY <1>18, Fires
  <2>2. \A k \in Jobs : Kept(k)
    BY <2>1, Marks
  <2>3. UNCHANGED <<unused, stored, scheduler, threads, toLoad, counters, history>>
    BY <1>18 DEF Fire
  <2> QED
    BY <2>2, <2>3 DEF Kept
<1>19. ASSUME NEW j \in Jobs, Verdict(j) PROVE RowKept'
  <2>1. \A k \in Jobs : Kept(k)
    BY <1>19, Verdicts, Marks
  <2>2. UNCHANGED <<unused, stored, scheduler, threads, toLoad, counters, history>>
    BY <1>19 DEF Verdict
  <2> QED
    BY <2>1, <2>2 DEF Kept
<1>20. ASSUME NEW j \in Jobs, LoadJob(j) PROVE RowKept'
  BY <1>20 DEF Loading, LoadJob, Enter, Goto
<1>21. ASSUME NEW j \in Jobs, EditEntries(j) PROVE RowKept'
  BY <1>21 DEF EditEntries, CreateJobCronEntry, DeleteJobCronEntry
<1>22. CASE Die
  BY <1>22 DEF Die
<1>23. CASE Load
  BY <1>23 DEF Load, Active, Finished, Goto
<1>24. CASE LoadFails
  BY <1>24 DEF LoadFails, Goto
<1>25. CASE Serve
  BY <1>25 DEF Serve, Goto
<1>26. CASE UNCHANGED vars
  BY <1>26 DEF vars
<1> QED
  BY <1>1, <1>2, <1>3, <1>4, <1>5, <1>6, <1>7, <1>8, <1>9,
     <1>10, <1>11, <1>12, <1>13, <1>14, <1>15, <1>16, <1>17, <1>18,
     <1>19, <1>20, <1>21, <1>22, <1>23, <1>24, <1>25, <1>26
  DEF Next, ScheduleJob

(* Every step keeps the stage of each request. *)
LEMMA StageStep ==
  ASSUME Serial = TRUE, IInv, [Next]_vars
  PROVE  Stage'
<1> USE DEF IInv, TypeOK, Control, Stage, StageOf, Has, Threads, Scheduling,
            Added, tables, scheduler, threads, counters, history
<1>1. ASSUME NEW t \in Threads, ScheduleFails(t) PROVE Stage'
  BY <1>1 DEF ScheduleFails, Mishap, Return, Goto
<1>2. ASSUME NEW t \in Threads, Add(t) PROVE Stage'
  <2> USE <1>2 DEF Add, Goto
  <2>1. PICK n : n.job = hjob[t] /\ n.id = nextId /\ entries' = entries \cup {n}
    BY Adds
  <2>2. hjob[t] # NoJob
    OBVIOUS
  <2>3. ASSUME NEW u \in Threads, u # t PROVE StageOf(u)'
    <3>1. hjob[u] # hjob[t]
      BY <2>2, <2>3
    <3> QED
      BY <2>1, <2>3, <3>1, Bystander
  <2>4. StageOf(t)'
    BY <2>1, <2>2
  <2> QED
    BY <2>3, <2>4
<1>3. ASSUME NEW t \in Threads, Refuse(t) PROVE Stage'
  BY <1>3 DEF Refuse, Goto
<1>4. ASSUME NEW t \in Threads, Rollback(t) PROVE Stage'
  BY <1>4 DEF Rollback, Goto
<1>5. ASSUME NEW t \in Threads, Clean(t) PROVE Stage'
  BY <1>5 DEF Clean, Return, Goto
<1>6. ASSUME NEW t \in Threads, Exists(t) PROVE Stage'
  BY <1>6 DEF Exists, Goto
<1>7. ASSUME NEW t \in Threads, Insert(t) PROVE Stage'
  BY <1>7 DEF Insert, Return, Goto
<1>8. ASSUME NEW t \in Threads, Update(t) PROVE Stage'
  BY <1>8 DEF Update, Return, Goto
<1>9. ASSUME NEW h \in Handlers, NEW j \in Jobs, CreateJob(h, j) PROVE Stage'
  <2> USE <1>9 DEF CreateJob, Accept, Enter, Goto
  <2>1. PICK r \in Row : Created(h, j, r)
    BY Creates
  <2>2. ASSUME NEW u \in Threads, u # h PROVE StageOf(u)'
    BY <2>1, <2>2, Bystander DEF Created
  <2>3. StageOf(h)'
    BY <2>1 DEF Created, Unused
  <2> QED
    BY <2>2, <2>3
<1>10. ASSUME NEW h \in Handlers, NEW j \in Jobs, UpdateJob(h, j) PROVE Stage'
  BY <1>10 DEF UpdateJob, Accept, Enter, Goto
<1>11. ASSUME NEW h \in Handlers, NEW j \in Jobs, DeleteJob(h, j) PROVE Stage'
  BY <1>11 DEF DeleteJob, Accept, Enter, Goto
<1>12. ASSUME NEW h \in Handlers, Save(h) PROVE Stage'
  BY <1>12 DEF Save, Goto
<1>13. ASSUME NEW h \in Handlers, Find(h) PROVE Stage'
  BY <1>13 DEF Stored, Untouched, Entry, Find, Goto
<1>14. ASSUME NEW h \in Handlers, FindNone(h) PROVE Stage'
  <2>1. ASSUME NEW u \in Threads, u # h PROVE StageOf(u)'
    <3>1. pc'[u] = pc[u] /\ hjob'[u] = hjob[u] /\ hid'[u] = hid[u]
      BY <1>14, <2>1, Went DEF FindNone, Alone
    <3> QED
      BY <1>14, <3>1, Bystander DEF FindNone
  <2>2. hjob[h] \in Jobs /\ (hjob[h] \notin broken => ~ Has(hjob[h]))
    <3>1. hjob[h] \in Jobs
      BY <1>14 DEF FindNone
    <3>2. Untouched(hjob[h])
      BY <1>14, <3>1, Mine DEF FindNone
    <3>3. ASSUME NEW e \in entries, e.job = hjob[h], hjob[h] \notin broken PROVE FALSE
      <4>1. Untouched(e.job)
        BY <3>2, <3>3
      <4>2. stored[e.job] = {e.id}
        BY <3>3, <4>1 DEF Stored
      <4> QED
        BY <1>14, <3>3, <4>2 DEF FindNone
    <3> QED
      BY <3>1, <3>3
  <2>3. StageOf(h)'
    <3>1. UNCHANGED <<entries, broken>>
      BY <1>14 DEF FindNone
    <3>2. \/ hjob'[h] = NoJob
          \/ hjob'[h] = hjob[h] /\ pc'[h] \in {"add", "delete"}
      BY <1>14, Went DEF FindNone
    <3> QED
      BY <2>2, <3>1, <3>2
  <2> QED
    BY <2>1, <2>3
<1>15. ASSUME NEW h \in Handlers, Remove(h) PROVE Stage'
  <2>1. ASSUME NEW u \in Threads, u # h PROVE StageOf(u)'
    <3>1. pc'[u] = pc[u] /\ hjob'[u] = hjob[u] /\ hid'[u] = hid[u]
      BY <1>15, <2>1, Went DEF Remove, Alone
    <3>2. hjob[h] \in Jobs
      BY <1>15 DEF Remove
    <3>3. hjob[u] # hjob[h]
      BY <2>1, <3>2
    <3>4. Has(hjob[u]) => hjob[u] \in excused' \/ \E e \in entries' : e.job = hjob[u]
      BY <1>15, <3>3 DEF Remove
    <3> QED
      BY <1>15, <3>1, <3>4, Bystander DEF Remove
  <2>2. hjob[h] \in broken \/ \A e \in entries' : e.job # hjob[h]
    <3>1. hjob[h] \in Jobs
      BY <1>15 DEF Remove
    <3> QED
      BY <1>15, <3>1 DEF Remove
  <2>3. StageOf(h)'
    <3>1. UNCHANGED broken
      BY <1>15 DEF Remove
    <3>2. \/ hjob'[h] = NoJob
          \/ hjob'[h] = hjob[h] /\ pc'[h] \in {"add", "delete"}
      BY <1>15, Went DEF Remove
    <3> QED
      BY <2>2, <3>1, <3>2
  <2> QED
    BY <2>1, <2>3
<1>16. ASSUME NEW h \in Handlers, Delete(h) PROVE Stage'
  BY <1>16 DEF Delete, Return, Goto
<1>17. ASSUME NEW h \in Handlers, HandlerFails(h) PROVE Stage'
  <2>1. CASE pc[h] = "find" /\ ToDelete(h)
    BY <1>17, <2>1 DEF HandlerFails, Mishap, ToDelete, Goto
  <2>2. CASE pc[h] = "find" /\ ToAdd(h)
    BY <1>17, <2>2 DEF HandlerFails, Mishap, ToAdd, Goto
  <2>3. CASE pc[h] = "find" /\ ToIdle(h)
    BY <1>17, <2>3 DEF HandlerFails, Mishap, ToIdle, ReturnIdle, Goto
  <2>4. CASE pc[h] \in {"save", "delete"} /\ Return(h)
    BY <1>17, <2>4 DEF HandlerFails, Mishap, Return, Goto
  <2> QED
    BY <1>17, <2>1, <2>2, <2>3, <2>4, Proceeds DEF HandlerFails
<1>18. ASSUME NEW e \in entries, Fire(e) PROVE Stage'
  BY <1>18 DEF Fire
<1>19. ASSUME NEW j \in Jobs, Verdict(j) PROVE Stage'
  BY <1>19 DEF Verdict
<1>20. ASSUME NEW j \in Jobs, LoadJob(j) PROVE Stage'
  BY <1>20 DEF Loading, LoadJob, Enter, Goto
<1>21. ASSUME NEW j \in Jobs, EditEntries(j) PROVE Stage'
  BY <1>21 DEF EditEntries, CreateJobCronEntry, DeleteJobCronEntry
<1>22. CASE Die
  BY <1>22 DEF Die
<1>23. CASE Load
  BY <1>23 DEF Load, Active, Finished, Goto
<1>24. CASE LoadFails
  BY <1>24 DEF LoadFails, Goto
<1>25. CASE Serve
  BY <1>25 DEF Serve, Goto
<1>26. CASE UNCHANGED vars
  BY <1>26 DEF vars
<1> QED
  BY <1>1, <1>2, <1>3, <1>4, <1>5, <1>6, <1>7, <1>8, <1>9,
     <1>10, <1>11, <1>12, <1>13, <1>14, <1>15, <1>16, <1>17, <1>18,
     <1>19, <1>20, <1>21, <1>22, <1>23, <1>24, <1>25, <1>26
  DEF Next, ScheduleJob

(* Every step keeps the entries stored. *)
LEMMA StoredStep ==
  ASSUME Serial = TRUE, IInv, [Next]_vars
  PROVE  Stored'
<1> USE DEF IInv, TypeOK, Control, Stored, Entry, Threads, Scheduling, Added,
            tables, scheduler, threads, counters, history
<1>1. ASSUME NEW t \in Threads, ScheduleFails(t) PROVE Stored'
  <2>1. Alone(t) /\ UNCHANGED <<stored, entries>> /\ broken \subseteq broken'
    BY <1>1 DEF Alone, ScheduleFails, Mishap, Goto, Return
  <2>2. hjob[t] # NoJob /\ pc[t] \notin {"save", "find"}
    BY <1>1 DEF ScheduleFails
  <2>3. \/ pc'[t] \notin {"save", "find"} /\ hjob'[t] = hjob[t]
        \/ hjob[t] \in broken'
        \/ \A e \in entries : e.job # hjob[t]
    BY <1>1, <2>2 DEF ScheduleFails, Mishap, Goto, Stage, StageOf, Has
  <2> QED
    BY <2>1, <2>2, <2>3, Others, Taken
<1>2. ASSUME NEW t \in Threads, Add(t) PROVE Stored'
  BY <1>2 DEF Untouched, Add, Goto
<1>3. ASSUME NEW t \in Threads, Refuse(t) PROVE Stored'
  BY <1>3 DEF Untouched, Refuse, Goto
<1>4. ASSUME NEW t \in Threads, Rollback(t) PROVE Stored'
  BY <1>4 DEF Untouched, Rollback, Goto
<1>5. ASSUME NEW t \in Threads, Clean(t) PROVE Stored'
  BY <1>5 DEF Stage, StageOf, Has, Untouched, Clean, Return, Goto
<1>6. ASSUME NEW t \in Threads, Exists(t) PROVE Stored'
  BY <1>6 DEF Untouched, Exists, Goto
<1>7. ASSUME NEW t \in Threads, Insert(t) PROVE Stored'
  BY <1>7 DEF Stage, StageOf, Has, Untouched, Insert, Return, Goto
<1>8. ASSUME NEW t \in Threads, Update(t) PROVE Stored'
  BY <1>8 DEF Stage, StageOf, Has, Untouched, Update, Return, Goto
<1>9. ASSUME NEW h \in Handlers, NEW j \in Jobs, CreateJob(h, j) PROVE Stored'
  <2>1. PICK r \in Row : Created(h, j, r)
    BY <1>9, Creates
  <2>2. Alone(h) /\ hjob'[h] = j /\ pc'[h] = "add"
    BY <1>9, <2>1 DEF Alone, Created, Enter, Goto
  <2>3. hjob[h] = NoJob
    BY <1>9 DEF CreateJob, Accept
  <2>4. UNCHANGED <<stored, entries, broken>>
    BY <1>9 DEF CreateJob
  <2> QED
    BY <2>2, <2>3, <2>4, Others, Taken
<1>10. ASSUME NEW h \in Handlers, NEW j \in Jobs, UpdateJob(h, j) PROVE Stored'
  BY <1>10 DEF Untouched, UpdateJob, Accept, Enter, Goto
<1>11. ASSUME NEW h \in Handlers, NEW j \in Jobs, DeleteJob(h, j) PROVE Stored'
  BY <1>11 DEF Untouched, DeleteJob, Accept, Enter, Goto
<1>12. ASSUME NEW h \in Handlers, Save(h) PROVE Stored'
  BY <1>12 DEF Untouched, Save, Goto
<1>13. ASSUME NEW h \in Handlers, Find(h) PROVE Stored'
  BY <1>13 DEF Untouched, Find, Goto
<1>14. ASSUME NEW h \in Handlers, FindNone(h) PROVE Stored'
  <2>1. CASE ToDelete(h)
    BY <1>14, <2>1 DEF Untouched, FindNone, ToDelete, Goto
  <2>2. CASE ToAdd(h)
    BY <1>14, <2>2 DEF Untouched, FindNone, ToAdd, Goto
  <2>3. CASE ToIdle(h)
    BY <1>14, <2>3 DEF Untouched, FindNone, ToIdle, ReturnIdle, Goto
  <2> QED
    BY <1>14, <2>1, <2>2, <2>3, Proceeds DEF Untouched, FindNone
<1>15. ASSUME NEW h \in Handlers, Remove(h) PROVE Stored'
  <2>1. Alone(h) /\ UNCHANGED <<stored, broken>>
    BY <1>15, Went DEF Remove
  <2>2. hjob[h] \in broken \/ \A e \in entries' : e.job # hjob[h]
    <3>1. hjob[h] \in Jobs
      BY <1>15 DEF Remove
    <3> QED
      BY <1>15, <3>1 DEF Remove, Stage, StageOf
  <2>3. entries' \subseteq entries
    BY <1>15 DEF Remove
  <2> QED
    BY <2>1, <2>2, <2>3, Others
<1>16. ASSUME NEW h \in Handlers, Delete(h) PROVE Stored'
  BY <1>16 DEF Stage, StageOf, Has, Untouched, Delete, Return, Goto
<1>17. ASSUME NEW h \in Handlers, HandlerFails(h) PROVE Stored'
  <2>1. CASE pc[h] = "find" /\ ToDelete(h)
    BY <1>17, <2>1 DEF Untouched, HandlerFails, Mishap, ToDelete, Goto
  <2>2. CASE pc[h] = "find" /\ ToAdd(h)
    BY <1>17, <2>2 DEF Untouched, HandlerFails, Mishap, ToAdd, Goto
  <2>3. CASE pc[h] = "find" /\ ToIdle(h)
    BY <1>17, <2>3 DEF Untouched, HandlerFails, Mishap, ToIdle, ReturnIdle, Goto
  <2>4. CASE pc[h] \in {"save", "delete"} /\ Return(h)
    BY <1>17, <2>4 DEF Untouched, HandlerFails, Mishap, Return, Goto
  <2> QED
    BY <1>17, <2>1, <2>2, <2>3, <2>4, Proceeds DEF Untouched, HandlerFails
<1>18. ASSUME NEW e \in entries, Fire(e) PROVE Stored'
  BY <1>18 DEF Untouched, Fire
<1>19. ASSUME NEW j \in Jobs, Verdict(j) PROVE Stored'
  BY <1>19 DEF Untouched, Verdict
<1>20. ASSUME NEW j \in Jobs, LoadJob(j) PROVE Stored'
  BY <1>20 DEF Untouched, LoadJob, Enter, Goto
<1>21. ASSUME NEW j \in Jobs, EditEntries(j) PROVE Stored'
  BY <1>21 DEF Untouched, EditEntries, CreateJobCronEntry, DeleteJobCronEntry
<1>22. CASE Die
  BY <1>22 DEF Untouched, Die
<1>23. CASE Load
  BY <1>23 DEF Untouched, Load, Active, Finished, Goto
<1>24. CASE LoadFails
  BY <1>24 DEF Untouched, LoadFails, Goto
<1>25. CASE Serve
  BY <1>25 DEF Untouched, Serve, Goto
<1>26. CASE UNCHANGED vars
  BY <1>26 DEF Untouched, vars
<1> QED
  BY <1>1, <1>2, <1>3, <1>4, <1>5, <1>6, <1>7, <1>8, <1>9,
     <1>10, <1>11, <1>12, <1>13, <1>14, <1>15, <1>16, <1>17, <1>18,
     <1>19, <1>20, <1>21, <1>22, <1>23, <1>24, <1>25, <1>26
  DEF Next, ScheduleJob

(* Every step keeps the other jobs unscheduled. *)
LEMMA UnscheduledStep ==
  ASSUME Serial = TRUE, IInv, [Next]_vars
  PROVE  Unscheduled'
<1> USE DEF IInv, TypeOK, Unscheduled, Entry, Threads, tables, scheduler,
            threads, counters, history
<1>1. ASSUME NEW t \in Threads, ScheduleFails(t) PROVE Unscheduled'
  <2>1. Alone(t)
    BY <1>1 DEF Alone, ScheduleFails, Mishap, Goto, Return
  <2>2. pc[t] # "save" /\ UNCHANGED <<row, entries>> /\ broken \subseteq broken'
    BY <1>1 DEF ScheduleFails, Mishap
  <2>3. hjob[t] \in Jobs
    BY <1>1 DEF ScheduleFails, Mishap, Control, Scheduling
  <2>4. \/ pc'[t] # "save" /\ hjob'[t] = hjob[t]
        \/ pc[t] = "clean" /\ hjob'[t] # hjob[t]
        \/ hjob[t] \in broken'
    BY <1>1, <2>3 DEF ScheduleFails, Mishap, Goto, Return
  <2>5. pc[t] = "clean" => hjob[t] \in broken \/ \A e \in entries : e.job # hjob[t]
    BY <2>3 DEF Stage, StageOf, Has
  <2> QED
    BY <2>1, <2>2, <2>4, <2>5, Others, Taken
<1>2. ASSUME NEW t \in Threads, Add(t) PROVE Unscheduled'
  <2>1. Alone(t)
    BY <1>2 DEF Alone, Add, Goto
  <2>2. hjob'[t] = hjob[t] /\ pc'[t] # "save" /\ UNCHANGED <<row, broken>>
    BY <1>2 DEF Add, Goto
  <2>3. PICK n : n.job = hjob[t] /\ entries' = entries \cup {n}
    BY <1>2, Adds
  <2> QED
    BY <2>1, <2>2, <2>3, Others, Taken
<1>3. ASSUME NEW t \in Threads, Refuse(t) PROVE Unscheduled'
  BY <1>3 DEF Unchanged, Refuse, Goto
<1>4. ASSUME NEW t \in Threads, Rollback(t) PROVE Unscheduled'
  BY <1>4 DEF Stage, StageOf, Has, Unchanged, Rollback, Goto
<1>5. ASSUME NEW t \in Threads, Clean(t) PROVE Unscheduled'
  <2>1. Alone(t)
    BY <1>5 DEF Stage, StageOf, Has, Control, Scheduling, Alone, Clean, Return, Goto
  <2>2. hjob'[t] = NoJob
    BY <1>5 DEF Stage, StageOf, Has, Control, Scheduling, Clean, Return
  <2> QED
    BY <1>5, <2>1, <2>2, Others DEF Stage, StageOf, Has, Control, Scheduling, Clean
<1>6. ASSUME NEW t \in Threads, Exists(t) PROVE Unscheduled'
  BY <1>6 DEF Unchanged, Exists, Goto
<1>7. ASSUME NEW t \in Threads, Insert(t) PROVE Unscheduled'
  <2>1. Alone(t) /\ hjob'[t] = NoJob
    BY <1>7 DEF Alone, Insert, Return, Goto
  <2>2. UNCHANGED <<row, entries, broken>>
    BY <1>7 DEF Insert
  <2>3. hjob[t] # NoJob
    BY <1>7 DEF Insert, Control, Scheduling
  <2>4. /\ row[hjob[t]] # NoRow /\ row[hjob[t]].active = TRUE
        /\ row[hjob[t]].cron # ""
    BY <1>7, <2>3 DEF Insert, RowKept, Copies, Scheduling, Added
  <2> QED
    BY <2>1, <2>2, <2>4, Others
<1>8. ASSUME NEW t \in Threads, Update(t) PROVE Unscheduled'
  <2>1. Alone(t) /\ hjob'[t] = NoJob
    BY <1>8 DEF Alone, Update, Return, Goto
  <2>2. UNCHANGED <<row, entries, broken>>
    BY <1>8 DEF Update
  <2>3. hjob[t] # NoJob
    BY <1>8 DEF Update, Control, Scheduling
  <2>4. /\ row[hjob[t]] # NoRow /\ row[hjob[t]].active = TRUE
        /\ row[hjob[t]].cron # ""
    BY <1>8, <2>3 DEF Update, RowKept, Copies, Scheduling, Added
  <2> QED
    BY <2>1, <2>2, <2>4, Others
<1>9. ASSUME NEW h \in Handlers, NEW j \in Jobs, CreateJob(h, j) PROVE Unscheduled'
  <2>1. PICK r \in Row : Created(h, j, r)
    BY <1>9, Creates
  <2>2. Alone(h) /\ hjob'[h] = j /\ pc'[h] = "add"
    BY <1>9, <2>1 DEF Alone, Created, Enter, Goto
  <2>3. hjob[h] = NoJob
    BY <1>9 DEF CreateJob, Accept, Control
  <2>4. UNCHANGED <<entries, broken>> /\ \A k \in Jobs : k # j => row'[k] = row[k]
    BY <1>9, <2>1 DEF CreateJob, Created
  <2> QED
    BY <2>2, <2>3, <2>4, Others, Taken
<1>10. ASSUME NEW h \in Handlers, NEW j \in Jobs, UpdateJob(h, j) PROVE Unscheduled'
  <2>1. PICK r \in Row : Enter(h, j, r, "save")
    BY <1>10, Edits
  <2>2. Alone(h)
    BY <1>10, <2>1 DEF Alone, Enter, Goto
  <2>3. hjob[h] = NoJob
    BY <1>10 DEF UpdateJob, Accept, Control
  <2>4. UNCHANGED <<row, entries, broken>>
    BY <1>10 DEF UpdateJob
  <2> QED
    BY <2>2, <2>3, <2>4, Others
<1>11. ASSUME NEW h \in Handlers, NEW j \in Jobs, DeleteJob(h, j) PROVE Unscheduled'
  <2>1. Alone(h)
    BY <1>11 DEF Alone, DeleteJob, Enter, Goto
  <2>2. hjob[h] = NoJob
    BY <1>11 DEF DeleteJob, Accept, Control
  <2>3. UNCHANGED <<row, entries, broken>>
    BY <1>11 DEF DeleteJob
  <2> QED
    BY <2>1, <2>2, <2>3, Others
<1>12. ASSUME NEW h \in Handlers, Save(h) PROVE Unscheduled'
  BY <1>12 DEF Unchanged, Save, Goto
<1>13. ASSUME NEW h \in Handlers, Find(h) PROVE Unscheduled'
  BY <1>13 DEF Unchanged, Find, Goto
<1>14. ASSUME NEW h \in Handlers, FindNone(h) PROVE Unscheduled'
  <2>1. CASE ToDelete(h)
    <3>1. Alone(h)
      BY <2>1 DEF Stored, Control, Alone, ToDelete, Goto
    <3> QED
      BY <1>14, <2>1, <3>1, Others, Taken DEF Stored, Control, FindNone, ToDelete, Goto
  <2>2. CASE ToAdd(h)
    <3>1. Alone(h)
      BY <2>2 DEF Stored, Control, Alone, ToAdd, Goto
    <3> QED
      BY <1>14, <2>2, <3>1, Others, Taken DEF Stored, Control, FindNone, ToAdd, Goto
  <2>3. CASE ToIdle(h)
    <3>1. Alone(h)
      BY <2>3 DEF Stored, Control, Alone, ToIdle, ReturnIdle, Goto
    <3>2. UNCHANGED <<row, entries, broken>>
      BY <1>14 DEF FindNone
    <3>3. ASSUME NEW e \in entries, e.job \notin broken PROVE hjob[h] # e.job
      <4>1. hjob[h] \in Jobs => stored[hjob[h]] = {} /\ Untouched(hjob[h])
        BY <1>14, Mine DEF FindNone
      <4> QED
        BY <3>3, <4>1 DEF Stored, Entry
    <3> QED
      BY <3>1, <3>2, <3>3, Others
  <2> QED
    BY <1>14, <2>1, <2>2, <2>3, Proceeds DEF Stored, Control, FindNone
<1>15. ASSUME NEW h \in Handlers, Remove(h) PROVE Unscheduled'
  <2>1. CASE ToDelete(h)
    <3>1. Alone(h)
      BY <2>1 DEF Stage, StageOf, Has, Control, Alone, ToDelete, Goto
    <3> QED
      BY <1>15, <2>1, <3>1, Others, Taken DEF Stage, StageOf, Has, Control, Remove, ToDelete, Goto
  <2>2. CASE ToAdd(h)
    <3>1. Alone(h)
      BY <2>2 DEF Stage, StageOf, Has, Control, Alone, ToAdd, Goto
    <3> QED
      BY <1>15, <2>2, <3>1, Others, Taken DEF Stage, StageOf, Has, Control, Remove, ToAdd, Goto
  <2>3. CASE ToIdle(h)
    <3>1. Alone(h)
      BY <2>3 DEF Stage, StageOf, Has, Control, Alone, ToIdle, ReturnIdle, Goto
    <3> QED
      BY <1>15, <2>3, <3>1, Others, Mine DEF Stage, StageOf, Has, Control, Remove, ToIdle, ReturnIdle, Goto
  <2> QED
    BY <1>15, <2>1, <2>2, <2>3, Proceeds DEF Stage, StageOf, Has, Control, Remove
<1>16. ASSUME NEW h \in Handlers, Delete(h) PROVE Unscheduled'
  <2>1. Alone(h)
    BY <1>16 DEF Stage, StageOf, Has, Control, Alone, Delete, Return, Goto
  <2> QED
    BY <1>16, <2>1, Others, Taken, Mine DEF Stage, StageOf, Has, Control, Delete, Return, Goto
<1>17. ASSUME NEW h \in Handlers, HandlerFails(h) PROVE Unscheduled'
  <2>1. CASE pc[h] = "find" /\ ToDelete(h)
    BY <1>17, <2>1 DEF Control, Unchanged, HandlerFails, Mishap, ToDelete, Goto
  <2>2. CASE pc[h] = "find" /\ ToAdd(h)
    BY <1>17, <2>2 DEF Control, Unchanged, HandlerFails, Mishap, ToAdd, Goto
  <2>3. CASE pc[h] = "find" /\ ToIdle(h)
    BY <1>17, <2>3 DEF Control, Unchanged, HandlerFails, Mishap, ToIdle, ReturnIdle, Goto
  <2>4. CASE pc[h] \in {"save", "delete"} /\ Return(h)
    BY <1>17, <2>4 DEF Control, Unchanged, HandlerFails, Mishap, Return, Goto
  <2> QED
    BY <1>17, <2>1, <2>2, <2>3, <2>4, Proceeds DEF Control, Unchanged, HandlerFails
<1>18. ASSUME NEW e \in entries, Fire(e) PROVE Unscheduled'
  <2>1. PICK j \in Jobs : Marked(j)
    BY <1>18, Fires
  <2>2. \A k \in Jobs : Kept(k)
    BY <2>1, Marks
  <2>3. UNCHANGED <<unused, stored, scheduler, threads, toLoad, counters, history>>
    BY <1>18 DEF Unchanged, Fire
  <2> QED
    BY <2>2, <2>3 DEF Unchanged, Kept
<1>19. ASSUME NEW j \in Jobs, Verdict(j) PROVE Unscheduled'
  <2>1. \A k \in Jobs : Kept(k)
    BY <1>19, Verdicts, Marks
  <2>2. UNCHANGED <<unused, stored, scheduler, threads, toLoad, counters, history>>
    BY <1>19 DEF Unchanged, Verdict
  <2> QED
    BY <2>1, <2>2 DEF Unchanged, Kept
<1>20. ASSUME NEW j \in Jobs, LoadJob(j) PROVE Unscheduled'
  <2>1. Alone(Main)
    BY <1>20 DEF Control, Scheduling, Alone, LoadJob, Enter, Goto
  <2> QED
    BY <1>20, <2>1, Others, Taken, Mine DEF Control, Scheduling, LoadJob, Enter, Goto
<1>21. ASSUME NEW j \in Jobs, EditEntries(j) PROVE Unscheduled'
  BY <1>21 DEF Unchanged, EditEntries, CreateJobCronEntry, DeleteJobCronEntry
<1>22. CASE Die
  BY <1>22 DEF Die
<1>23. CASE Load
  BY <1>23 DEF Unchanged, Load, Active, Finished, Goto
<1>24. CASE LoadFails
  BY <1>24 DEF Unchanged, LoadFails, Goto
<1>25. CASE Serve
  BY <1>25 DEF Unchanged, Serve, Goto
<1>26. CASE UNCHANGED vars
  BY <1>26 DEF Unchanged, vars
<1> QED
  BY <1>1, <1>2, <1>3, <1>4, <1>5, <1>6, <1>7, <1>8, <1>9,
     <1>10, <1>11, <1>12, <1>13, <1>14, <1>15, <1>16, <1>17, <1>18,
     <1>19, <1>20, <1>21, <1>22, <1>23, <1>24, <1>25, <1>26
  DEF Next, ScheduleJob

(* Every step keeps the active jobs scheduled. *)
LEMMA ScheduledStep ==
  ASSUME Serial = TRUE, IInv, [Next]_vars
  PROVE  Scheduled'
<1> USE DEF IInv, TypeOK, Control, Scheduled, Has, Threads, Scheduling, Added,
            tables, scheduler, threads, counters, history
<1>1. ASSUME NEW t \in Threads, ScheduleFails(t) PROVE Scheduled'
  <2>1. Alone(t) /\ UNCHANGED <<row, entries, toLoad, excused>> /\ broken \subseteq broken'
    BY <1>1 DEF Alone, ScheduleFails, Mishap, Goto, Return
  <2>2. hjob[t] # NoJob /\ pc[t] # "save" /\ (pc[Main] = "down" <=> pc'[Main] = "down")
    BY <1>1 DEF ScheduleFails, Goto, Return
  <2>3. \/ pc'[t] # "save" /\ hjob'[t] = hjob[t]
        \/ hjob[t] \in broken'
        \/ row[hjob[t]] = NoRow \/ row[hjob[t]].cron # "every"
    <3>1. pc[t] = "clean" => row[hjob[t]] = NoRow \/ row[hjob[t]].cron # "every"
      BY <2>2 DEF RowKept, Copies
    <3> QED
      BY <1>1, <2>2, <3>1 DEF ScheduleFails, Mishap, Goto
  <2> QED
    BY <2>1, <2>2, <2>3, Others, Taken
<1>2. ASSUME NEW t \in Threads, Add(t) PROVE Scheduled'
  BY <1>2 DEF Unchanged, Add, Goto
<1>3. ASSUME NEW t \in Threads, Refuse(t) PROVE Scheduled'
  BY <1>3 DEF Unchanged, Refuse, Goto
<1>4. ASSUME NEW t \in Threads, Rollback(t) PROVE Scheduled'
  BY <1>4 DEF Unchanged, Rollback, Goto
<1>5. ASSUME NEW t \in Threads, Clean(t) PROVE Scheduled'
  BY <1>5 DEF RowKept, Copies, Unchanged, Clean, Return, Goto
<1>6. ASSUME NEW t \in Threads, Exists(t) PROVE Scheduled'
  BY <1>6 DEF Unchanged, Exists, Goto
<1>7. ASSUME NEW t \in Threads, Insert(t) PROVE Scheduled'
  BY <1>7 DEF Stage, StageOf, Unchanged, Insert, Return, Goto
<1>8. ASSUME NEW t \in Threads, Update(t) PROVE Scheduled'
  BY <1>8 DEF Stage, StageOf, Unchanged, Update, Return, Goto
<1>9. ASSUME NEW h \in Handlers, NEW j \in Jobs, CreateJob(h, j) PROVE Scheduled'
  <2>1. PICK r \in Row : Created(h, j, r)
    BY <1>9, Creates
  <2>2. Alone(h) /\ hjob'[h] = j /\ pc'[h] = "add" /\ pc[Main] = pc'[Main]
    BY <1>9, <2>1 DEF Alone, Created, Enter, Goto
  <2>3. hjob[h] = NoJob
    BY <1>9 DEF CreateJob, Accept
  <2>4. /\ UNCHANGED <<entries, toLoad, excused, broken>>
        /\ \A k \in Jobs : k # j => row'[k] = row[k]
    BY <1>9, <2>1 DEF CreateJob, Created
  <2> QED
    BY <2>2, <2>3, <2>4, Others, Taken
<1>10. ASSUME NEW h \in Handlers, NEW j \in Jobs, UpdateJob(h, j) PROVE Scheduled'
  BY <1>10 DEF Unchanged, UpdateJob, Accept, Enter, Goto
<1>11. ASSUME NEW h \in Handlers, NEW j \in Jobs, DeleteJob(h, j) PROVE Scheduled'
  BY <1>11 DEF Unchanged, DeleteJob, Accept, Enter, Goto
<1>12. ASSUME NEW h \in Handlers, Save(h) PROVE Scheduled'
  BY <1>12 DEF Unchanged, Save, Goto
<1>13. ASSUME NEW h \in Handlers, Find(h) PROVE Scheduled'
  BY <1>13 DEF Unchanged, Find, Goto
<1>14. ASSUME NEW h \in Handlers, FindNone(h) PROVE Scheduled'
  <2>1. /\ Alone(h) /\ pc'[Main] = pc[Main]
        /\ \/ pc'[h] \in {"delete", "add"} /\ hjob'[h] = hjob[h]
           \/ ToIdle(h)
    BY <1>14, Went DEF FindNone, Alone
  <2>2. UNCHANGED <<row, toLoad, broken>> /\ excused \subseteq excused'
    BY <1>14 DEF FindNone
  <2>3. \A k \in Jobs : Has(k) => k = hjob[h] \/ k \in excused' \/ \E e \in entries' : e.job = k
    BY <1>14 DEF FindNone
  <2>4. hjob[h] \in Jobs /\ pc[h] \in {"find", "remove"}
    BY <1>14 DEF FindNone
  <2>5. ToIdle(h) => \/ row[hjob[h]].active # TRUE
                    \/ row[hjob[h]].cron # "every"
    BY <2>4 DEF ToIdle, RowKept
  <2> QED
    BY <2>1, <2>2, <2>3, <2>4, <2>5, Others, Taken
<1>15. ASSUME NEW h \in Handlers, Remove(h) PROVE Scheduled'
  <2>1. /\ Alone(h) /\ pc'[Main] = pc[Main]
        /\ \/ pc'[h] \in {"delete", "add"} /\ hjob'[h] = hjob[h]
           \/ ToIdle(h)
    BY <1>15, Went DEF Remove, Alone
  <2>2. UNCHANGED <<row, toLoad, broken>> /\ excused \subseteq excused'
    BY <1>15 DEF Remove
  <2>3. \A k \in Jobs : Has(k) => k = hjob[h] \/ k \in excused' \/ \E e \in entries' : e.job = k
    BY <1>15 DEF Remove
  <2>4. hjob[h] \in Jobs /\ pc[h] \in {"find", "remove"}
    BY <1>15 DEF Remove
  <2>5. ToIdle(h) => \/ row[hjob[h]].active # TRUE
                    \/ row[hjob[h]].cron # "every"
    BY <2>4 DEF ToIdle, RowKept
  <2> QED
    BY <2>1, <2>2, <2>3, <2>4, <2>5, Others, Taken
<1>16. ASSUME NEW h \in Handlers, Delete(h) PROVE Scheduled'
  BY <1>16 DEF Unchanged, Delete, Return, Goto
<1>17. ASSUME NEW h \in Handlers, HandlerFails(h) PROVE Scheduled'
  <2>1. CASE pc[h] = "find" /\ ToDelete(h)
    BY <1>17, <2>1 DEF Unchanged, HandlerFails, Mishap, ToDelete, Goto
  <2>2. CASE pc[h] = "find" /\ ToAdd(h)
    BY <1>17, <2>2 DEF Unchanged, HandlerFails, Mishap, ToAdd, Goto
  <2>3. CASE pc[h] = "find" /\ ToIdle(h)
    BY <1>17, <2>3 DEF Unchanged, HandlerFails, Mishap, ToIdle, ReturnIdle, Goto
  <2>4. CASE pc[h] \in {"save", "delete"} /\ Return(h)
    BY <1>17, <2>4 DEF Unchanged, HandlerFails, Mishap, Return, Goto
  <2> QED
    BY <1>17, <2>1, <2>2, <2>3, <2>4, Proceeds DEF Unchanged, HandlerFails
<1>18. ASSUME NEW e \in entries, Fire(e) PROVE Scheduled'
  BY <1>18 DEF Unchanged, Fire
<1>19. ASSUME NEW j \in Jobs, Verdict(j) PROVE Scheduled'
  BY <1>19 DEF Unchanged, Verdict
<1>20. ASSUME NEW j \in Jobs, LoadJob(j) PROVE Scheduled'
  BY <1>20 DEF Unchanged, LoadJob, Enter, Goto
<1>21. ASSUME NEW j \in Jobs, EditEntries(j) PROVE Scheduled'
  BY <1>21 DEF Unchanged, EditEntries, CreateJobCronEntry, DeleteJobCronEntry
<1>22. CASE Die
  BY <1>22 DEF Unchanged, Die
<1>23. CASE Load
  BY <1>23 DEF Unchanged, Load, Active, Finished, Goto
<1>24. CASE LoadFails
  BY <1>24 DEF Unchanged, LoadFails, Goto
<1>25. CASE Serve
  BY <1>25 DEF Unchanged, Serve, Goto
<1>26. CASE UNCHANGED vars
  BY <1>26 DEF Unchanged, vars
<1> QED
  BY <1>1, <1>2, <1>3, <1>4, <1>5, <1>6, <1>7, <1>8, <1>9,
     <1>10, <1>11, <1>12, <1>13, <1>14, <1>15, <1>16, <1>17, <1>18,
     <1>19, <1>20, <1>21, <1>22, <1>23, <1>24, <1>25, <1>26
  DEF Next, ScheduleJob

-----------------------------------------------------------------------------
(* The invariant of the initial states. *)
LEMMA InitInv ==
  Init => IInv
<1> SUFFICES ASSUME Init PROVE IInv
  OBVIOUS
<1> USE DEF Init
<1>1. TypeOK
  BY DEF TypeOK, Threads, Handling, Maining, Scheduling, Row
<1>2. Control
  BY DEF Control, Threads, Scheduling
<1>3. Copies
  BY DEF Copies, Threads, Scheduling, Added
<1>4. Fresh /\ Loading
  BY DEF Fresh, Loading, Threads, Has
<1>5. Unused
  BY DEF Unused, Threads, Has
<1>6. RowKept
  BY DEF RowKept, Threads
<1>7. Stage /\ Stored
  BY DEF Stage, StageOf, Stored, Threads
<1>8. Unscheduled /\ Scheduled
  BY DEF Unscheduled, Scheduled
<1> QED
  BY <1>1, <1>2, <1>3, <1>4, <1>5, <1>6, <1>7, <1>8 DEF IInv

(* The three tables stay in line, restarts and mishaps included, as long   *)
(* as the clients have one request per job at a time.                      *)
THEOREM Inductive ==
  ASSUME Serial = TRUE
  PROVE  Spec => []IInv
<1>1. IInv /\ [Next]_vars => IInv'
  BY TypeStep, ControlStep, CopiesStep, FreshStep, LoadingStep, UnusedStep,
     RowKeptStep, StageStep, StoredStep, UnscheduledStep, ScheduledStep
  DEF IInv
<1> QED
  BY InitInv, <1>1, PTL DEF Spec

(* The variables keep their types. *)
THEOREM TypeCorrect ==
  ASSUME Serial = TRUE
  PROVE  Spec => []TypeOK
<1>1. IInv => TypeOK
  BY DEF IInv
<1> QED
  BY Inductive, <1>1, PTL

(* Once its requests are answered nobody is about the job. *)
LEMMA SettledFree ==
  ASSUME Control, NEW j \in Jobs, Settled(j)
  PROVE  Unchanged(j) /\ Untouched(j)
<1>1. hjob[Main] # j
  BY DEF Control, Settled, Scheduling
<1>2. \A t \in Threads : hjob[t] # j
  BY <1>1 DEF Settled, Threads
<1> QED
  BY <1>2 DEF Unchanged, Untouched

(* The entry of a settled job is the one its job_cron_entries row names    *)
(* (UpdateJob, DeleteJob, scheduleJob).                                    *)
THEOREM EntriesAreStored ==
  ASSUME Serial = TRUE
  PROVE  Spec => []EntryIsStored
<1>1. IInv => EntryIsStored
  <2> SUFFICES ASSUME IInv, NEW e \in entries, e.job \notin broken, Settled(e.job)
               PROVE  stored[e.job] = {e.id}
    BY DEF EntryIsStored
  <2>1. e.job \in Jobs
    BY DEF IInv, TypeOK, Entry
  <2>2. Untouched(e.job)
    BY <2>1, SettledFree DEF IInv
  <2> QED
    BY <2>2 DEF IInv, Stored
<1> QED
  BY Inductive, <1>1, PTL

(* A settled job that must not run has no entry (UpdateJob, DeleteJob).    *)
THEOREM InactiveStaysUnscheduled ==
  ASSUME Serial = TRUE
  PROVE  Spec => []InactiveIsUnscheduled
<1>1. IInv => InactiveIsUnscheduled
  <2> SUFFICES ASSUME IInv, NEW j \in Jobs, j \notin broken, Settled(j),
                      j \notin Active \/ row[j].cron = ""
               PROVE  EntriesOf(j) = {}
    BY DEF InactiveIsUnscheduled
  <2>1. Unchanged(j)
    BY SettledFree DEF IInv
  <2>2. ASSUME NEW e \in entries, e.job = j PROVE FALSE
    <3>1. row[j] # NoRow /\ row[j].active = TRUE /\ row[j].cron # ""
      BY <2>1, <2>2 DEF IInv, Unscheduled
    <3> QED
      BY <3>1 DEF Active
  <2> QED
    BY <2>2 DEF EntriesOf
<1> QED
  BY Inductive, <1>1, PTL

(* A settled active job with a valid expression has an entry (UpdateJob,   *)
(* scheduleJob, LoadAndScheduleAllJobs).                                   *)
THEOREM ActiveStaysScheduled ==
  ASSUME Serial = TRUE
  PROVE  Spec => []ActiveIsScheduled
<1>1. IInv => ActiveIsScheduled
  <2> SUFFICES ASSUME IInv, NEW j \in Active, j \notin excused, j \notin broken,
                      Settled(j), row[j].cron = "every"
               PROVE  EntriesOf(j) # {}
    BY DEF ActiveIsScheduled
  <2>1. j \in Jobs /\ row[j] # NoRow /\ row[j].active
    BY DEF Active
  <2>2. row[j] \in Row
    BY <2>1 DEF IInv, TypeOK
  <2>3. row[j].active = TRUE
    BY <2>1, <2>2 DEF Row
  <2>4. Unchanged(j)
    BY <2>1, SettledFree DEF IInv
  <2>5. pc[Main] # "down" /\ j \notin toLoad
    BY DEF Settled, IInv, Loading
  <2>6. Has(j)
    BY <2>1, <2>3, <2>4, <2>5 DEF IInv, Scheduled
  <2> QED
    BY <2>6 DEF Has, EntriesOf
<1> QED
  BY Inductive, <1>1, PTL

-----------------------------------------------------------------------------
(* Until the first restart.  Nothing here needs the clients to have one    *)
(* request per job at a time.                                              *)

(* The entry that has the id, if any, is one of job j, and stays so. *)
Owns(j, id) == id \in Nat /\ id < nextId /\ \A e \in entries : e.id = id => e.job = j

(* A thread that is not idle is about a job. *)
Busy == \A t \in Threads : pc[t] \notin {"idle", "serve", "down", "load"} => hjob[t] \in Jobs

OwnTypes ==
    /\ DOMAIN stored = Jobs /\ nextId \in Nat /\ restarts \in Nat
    /\ DOMAIN pc = Threads /\ DOMAIN hjob = Threads /\ DOMAIN hid = Threads
    /\ \A e \in entries : e.id \in Nat /\ e.id < nextId
    /\ Busy

(* The ids a request may look up or has in hand. *)
OwnStored == \A j \in Jobs \ edited : \A id \in stored[j] : Owns(j, id)

Holding == {"remove"} \cup Added

OwnHeld ==
    \A t \in Threads :
        pc[t] \in Holding /\ hjob[t] \notin edited => Owns(hjob[t], hid[t])

(* RemovesOwnEntryUntilRestart needs that an id, once given out, names the *)
(* same job for ever, wherever it is kept.                                 *)
OwnInv == OwnTypes /\ (restarts = 0 => OwnStored /\ OwnHeld)

(* An id keeps its job until a restart. *)
LEMMA OwnsKept ==
  ASSUME NEW j, NEW id, Owns(j, id), nextId' \in Nat, nextId' >= nextId, nextId \in Nat,
         \A e \in entries' : e \in entries \/ e.id = nextId
  PROVE  Owns(j, id)'
  BY DEF Owns

(* The entries grow by one with a new id, or not at all. *)
EntriesGrow ==
    /\ nextId' \in Nat /\ nextId' >= nextId
    /\ \A e \in entries' : e \in entries \/ e.id = nextId
    /\ \A e \in entries' : e.id \in Nat /\ e.id < nextId'

LEMMA EntriesStep ==
  ASSUME OwnTypes, [Next]_vars, ~ Die
  PROVE  EntriesGrow
<1>1. ASSUME NEW t \in Threads, Add(t) PROVE EntriesGrow
  BY <1>1 DEF Add, OwnTypes, EntriesGrow
<1>2. ASSUME UNCHANGED nextId, entries' \subseteq entries PROVE EntriesGrow
  BY <1>2 DEF OwnTypes, EntriesGrow
<1>3. \/ \E t \in Threads : Add(t)
      \/ UNCHANGED nextId /\ entries' \subseteq entries
  BY DEF Next, vars, scheduler, ScheduleJob, ScheduleFails, Mishap, Refuse, Rollback, Clean, Exists, Insert, Update,
         CreateJob, UpdateJob, DeleteJob, Save, Find, FindNone, Remove, Delete, HandlerFails,
         Fire, Verdict, LoadJob, EditEntries, Load, LoadFails, Serve
<1> QED
  BY <1>1, <1>2, <1>3

(* Thread t comes to rest, takes up a job, goes on with the id it holds or *)
(* gets one; the others stay where they are.                               *)
Moves(t) ==
    /\ DOMAIN pc' = Threads /\ DOMAIN hjob' = Threads /\ DOMAIN hid' = Threads
    /\ \A u \in Threads \ {t} : pc'[u] = pc[u] /\ hjob'[u] = hjob[u] /\ hid'[u] = hid[u]
    /\ \/ pc'[t] \in {"idle", "serve", "load"}
       \/ pc'[t] \in {"add", "save", "find"} /\ hjob'[t] \in Jobs
       \/ /\ hjob[t] \in Jobs /\ hjob'[t] = hjob[t] /\ hid'[t] = hid[t]
          /\ pc'[t] \in Holding => pc[t] \in Holding
       \/ /\ hjob[t] \in Jobs /\ hjob'[t] = hjob[t]
          /\ \/ Add(t) /\ hid'[t] = nextId
             \/ Find(t) /\ hid'[t] \in stored[hjob[t]]

LEMMA ThreadStep ==
  ASSUME OwnTypes, [Next]_vars, ~ Die
  PROVE  UNCHANGED threads \/ \E t \in Threads : Moves(t)
<1> USE DEF OwnTypes, Moves, Busy, Holding, Added, threads, Goto
<1>1. ASSUME NEW t \in Threads, ScheduleFails(t) PROVE Moves(t)
  BY <1>1 DEF ScheduleFails, Return
<1>2. ASSUME NEW t \in Threads, Add(t) PROVE Moves(t)
  <2>1. /\ hjob[t] \in Jobs /\ UNCHANGED hjob
        /\ pc' = [pc EXCEPT ![t] = "exists"] /\ hid' = [hid EXCEPT ![t] = nextId]
    BY <1>2 DEF Add
  <2> QED
    BY <1>2, <2>1
<1>11. ASSUME NEW t \in Threads, Refuse(t) \/ Rollback(t) \/ Exists(t) PROVE Moves(t)
  BY <1>11 DEF Refuse, Rollback, Exists
<1>3. ASSUME NEW t \in Threads, Clean(t) \/ Insert(t) \/ Update(t) PROVE Moves(t)
  BY <1>3 DEF Clean, Insert, Update, Return
<1>4. ASSUME NEW h \in Handlers, NEW j \in Jobs, CreateJob(h, j) \/ UpdateJob(h, j) \/ DeleteJob(h, j)
      PROVE  Moves(h)
  BY <1>4 DEF CreateJob, UpdateJob, DeleteJob, Enter, Threads
<1>5. ASSUME NEW h \in Handlers, Save(h) \/ Find(h) PROVE Moves(h)
  BY <1>5 DEF Save, Find, Threads
<1>6. ASSUME NEW h \in Handlers, FindNone(h) \/ Remove(h) \/ (HandlerFails(h) /\ pc[h] = "find")
      PROVE  Moves(h)
  <2>1. hjob[h] \in Jobs /\ Proceed(h)
    BY <1>6 DEF FindNone, Remove, HandlerFails, Threads
  <2>2. CASE Return(h)
    BY <2>2 DEF Return, Threads
  <2>3. CASE (Goto(h, "delete") \/ Goto(h, "add")) /\ UNCHANGED <<hjob, hrow, hid>>
    BY <2>1, <2>3 DEF Threads
  <2> QED
    BY <2>1, <2>2, <2>3 DEF Proceed
<1>7. ASSUME NEW h \in Handlers, Delete(h) \/ (HandlerFails(h) /\ pc[h] # "find") PROVE Moves(h)
  BY <1>7 DEF Delete, HandlerFails, Return, Threads
<1>8. ASSUME NEW j \in Jobs, LoadJob(j) PROVE Moves(Main)
  BY <1>8 DEF LoadJob, Enter, Threads
<1>9. CASE Load \/ LoadFails \/ Serve
  <2>1. Moves(Main)
    BY <1>9 DEF Load, LoadFails, Serve, Threads
  <2> QED
    BY <2>1 DEF Threads
<1>10. CASE (\E e \in entries : Fire(e)) \/ (\E j \in Jobs : Verdict(j) \/ EditEntries(j)) \/ UNCHANGED vars
  BY <1>10 DEF Fire, Verdict, EditEntries, vars
<1> HIDE DEF OwnTypes, Moves, Busy, threads
<1>12. ASSUME NEW t \in Threads, ScheduleJob(t) PROVE Moves(t)
  BY <1>1, <1>2, <1>3, <1>11, <1>12 DEF ScheduleJob
<1>13. ASSUME NEW h \in Handlers,
              \/ Save(h) \/ Find(h) \/ FindNone(h) \/ Remove(h) \/ Delete(h) \/ HandlerFails(h)
       PROVE  Moves(h)
  BY <1>5, <1>6, <1>7, <1>13
<1>14. Main \in Threads /\ Handlers \subseteq Threads
  BY DEF Threads
<1> QED
  BY <1>4, <1>8, <1>9, <1>10, <1>12, <1>13, <1>14 DEF Next

(* Statements about a job write the id its thread holds, and edits by hand *)
(* are on record.                                                          *)
IdsFromHolders ==
    /\ DOMAIN stored' = Jobs /\ restarts' = restarts /\ edited \subseteq edited'
    /\ \A j \in Jobs \ edited' : \A id \in stored'[j] :
           \/ id \in stored[j]
           \/ \E t \in Threads : pc[t] \in Holding /\ hjob[t] = j /\ hid[t] = id

LEMMA StoredIds ==
  ASSUME OwnTypes, [Next]_vars, ~ Die
  PROVE  IdsFromHolders
<1> USE DEF IdsFromHolders, OwnTypes, Busy, Holding, Added, tables, counters, history
<1>1. ASSUME NEW t \in Threads, Insert(t) \/ Update(t) \/ Clean(t) PROVE IdsFromHolders
  <2>1. hjob[t] \in Jobs /\ (Insert(t) \/ Update(t) => pc[t] \in Holding)
    BY <1>1 DEF Insert, Update, Clean
  <2>2. restarts' = restarts /\ edited \subseteq edited'
    BY <1>1 DEF Insert, Update, Clean
  <2>3. CASE Insert(t) /\ stored' = [stored EXCEPT ![hjob[t]] = @ \cup {hid[t]}]
    BY <2>1, <2>2, <2>3
  <2>4. CASE Update(t) /\ stored' = [stored EXCEPT ![hjob[t]] = {hid[t] : id \in @}]
    BY <2>1, <2>2, <2>4
  <2>5. CASE stored' = [stored EXCEPT ![hjob[t]] = {}]
    BY <2>1, <2>2, <2>5
  <2> QED
    BY <1>1, <2>3, <2>4, <2>5 DEF Insert, Update, Clean
<1>2. ASSUME NEW j \in Jobs, EditEntries(j) PROVE IdsFromHolders
  <2>1. /\ restarts' = restarts /\ edited' = edited \cup {j}
        /\ DOMAIN stored' = Jobs
        /\ \A k \in Jobs \ {j} : stored'[k] = stored[k]
    BY <1>2 DEF EditEntries, CreateJobCronEntry, DeleteJobCronEntry
  <2> QED
    BY <2>1
<1>3. CASE UNCHANGED <<stored, restarts, edited>>
  BY <1>3
<1>4. ASSUME NEW t \in Threads, ScheduleJob(t), ~ (Insert(t) \/ Update(t) \/ Clean(t))
      PROVE  UNCHANGED <<stored, restarts, edited>>
  BY <1>4 DEF ScheduleJob, ScheduleFails, Mishap, Add, Refuse, Rollback, Exists
<1>5. ASSUME NEW h \in Handlers, NEW j \in Jobs, CreateJob(h, j) \/ UpdateJob(h, j) \/ DeleteJob(h, j)
      PROVE  UNCHANGED <<stored, restarts, edited>>
  BY <1>5 DEF CreateJob, UpdateJob, DeleteJob, Accept
<1>6. ASSUME NEW h \in Handlers,
             \/ Save(h) \/ Find(h) \/ FindNone(h) \/ Remove(h) \/ Delete(h) \/ HandlerFails(h)
      PROVE  UNCHANGED <<stored, restarts, edited>>
  BY <1>6 DEF Save, Find, FindNone, Remove, Delete, HandlerFails, Mishap
<1>7. CASE (\E e \in entries : Fire(e)) \/ (\E j \in Jobs : Verdict(j) \/ LoadJob(j))
           \/ Load \/ LoadFails \/ Serve \/ UNCHANGED vars
  BY <1>7 DEF Fire, Verdict, LoadJob, Load, LoadFails, Serve, vars
<1> QED
  BY <1>1, <1>2, <1>3, <1>4, <1>5, <1>6, <1>7 DEF Next

LEMMA OwnStep ==
  ASSUME OwnInv, [Next]_vars
  PROVE  OwnInv'
<1> OwnTypes
  BY DEF OwnInv
<1>1. CASE Die
  <2>1. OwnTypes'
    BY <1>1 DEF Die, OwnTypes, Busy, tables
  <2>2. restarts' # 0
    BY <1>1 DEF Die, OwnTypes
  <2> QED
    BY <2>1, <2>2 DEF OwnInv
<1>2. CASE ~ Die
  <2>1. OwnTypes'
    <3>1. Busy' /\ DOMAIN pc' = Threads /\ DOMAIN hjob' = Threads /\ DOMAIN hid' = Threads
      <4>1. CASE UNCHANGED threads
        BY <4>1 DEF threads, OwnTypes, Busy
      <4>2. ASSUME NEW t \in Threads, Moves(t) PROVE <3>1!:
        BY <4>2 DEF Moves, OwnTypes, Busy
      <4> QED
        BY <1>2, <4>1, <4>2, ThreadStep
    <3> QED
      BY <1>2, <3>1, EntriesStep, StoredIds DEF OwnTypes, EntriesGrow, IdsFromHolders
  <2>2. ASSUME NEW j, NEW id, Owns(j, id) PROVE Owns(j, id)'
    BY <1>2, <2>2, EntriesStep, OwnsKept DEF OwnTypes, EntriesGrow
  <2>3. ASSUME restarts' = 0 PROVE OwnStored' /\ OwnHeld'
    <3>1. OwnStored /\ OwnHeld /\ edited \subseteq edited'
      BY <1>2, <2>3, StoredIds DEF OwnInv, IdsFromHolders
    <3>2. ASSUME NEW j \in Jobs \ edited', NEW id \in stored'[j] PROVE Owns(j, id)'
      <4>1. Owns(j, id)
        BY <1>2, <3>1, <3>2, StoredIds DEF OwnStored, OwnHeld, IdsFromHolders
      <4> QED
        BY <2>2, <4>1
    <3>3. ASSUME NEW t \in Threads, NEW j, NEW id, hjob'[t] = j, hid'[t] = id,
                 pc'[t] \in Holding, j \notin edited'
          PROVE  Owns(j, id)'
      <4>1. CASE pc[t] \in Holding /\ hjob[t] = j /\ hid[t] = id
        <5>1. Owns(j, id)
          BY <3>1, <3>3, <4>1 DEF OwnHeld
        <5> QED
          BY <2>2, <5>1
      <4>2. CASE j \in Jobs /\ id \in stored[j]
        <5>1. Owns(j, id)
          BY <3>1, <3>3, <4>2 DEF OwnStored
        <5> QED
          BY <2>2, <5>1
      <4>3. CASE Add(t) /\ hjob[t] = j /\ id = nextId
        BY <4>3 DEF Add, Owns, OwnTypes
      <4>4. CASE UNCHANGED threads
        BY <3>3, <4>1, <4>4 DEF threads
      <4>5. ASSUME NEW u \in Threads, Moves(u) PROVE Owns(j, id)'
        BY <3>3, <4>1, <4>2, <4>3, <4>5 DEF Moves, Holding, Added
      <4> QED
        BY <1>2, <4>4, <4>5, ThreadStep
    <3> QED
      BY <3>2, <3>3 DEF OwnStored, OwnHeld, Owns, Holding, Added
  <2> QED
    BY <2>1, <2>3 DEF OwnInv
<1> QED
  BY <1>1, <1>2

(* Until the supervisor restarts, a request removes no entry of another    *)
(* job, whatever overlaps and fails (UpdateJob, DeleteJob, scheduleJob).   *)
THEOREM OwnEntriesUntilRestart == Spec => RemovesOwnEntryUntilRestart
<1>1. Init => OwnInv
  BY DEF Init, OwnInv, OwnTypes, OwnStored, OwnHeld, Busy, Holding, Added
<1>2. OwnInv /\ [Next]_vars =>
        [restarts = 0 => \A h \in Handlers, e \in entries :
           pc[h] = "remove" /\ pc'[h] # "remove" /\ pc'[Main] # "down"
               /\ hjob[h] \notin edited /\ e \notin entries' => e.job = hjob[h]]_vars
  <2> SUFFICES ASSUME OwnInv, Next, restarts = 0, NEW h \in Handlers, NEW e \in entries,
                      pc[h] = "remove", pc'[h] # "remove", pc'[Main] # "down",
                      hjob[h] \notin edited, e \notin entries'
               PROVE  e.job = hjob[h]
    OBVIOUS
  <2>1. ~ Die
    BY DEF Die, Threads
  <2>2. PICK g \in Handlers : Remove(g)
    BY <2>1 DEF Next, scheduler, ScheduleJob, ScheduleFails, Mishap, Add, Refuse, Rollback, Clean,
          Exists, Insert, Update, CreateJob, UpdateJob, DeleteJob, Save, Find, FindNone, Delete,
          HandlerFails, Fire, Verdict, LoadJob, EditEntries, Load, LoadFails, Serve
  <2>3. g = h
    <3>1. PICK label : pc' = [pc EXCEPT ![g] = label]
      BY <2>2 DEF Remove, Proceed, Return, Goto
    <3>2. h \in DOMAIN pc
      BY DEF OwnInv, OwnTypes, Threads
    <3> QED
      BY <3>1, <3>2
  <2>4. e.id = hid[h]
    BY <2>2, <2>3 DEF Remove
  <2>5. Owns(hjob[h], hid[h])
    BY DEF OwnInv, OwnHeld, Holding, Threads
  <2> QED
    BY <2>4, <2>5 DEF Owns
<1> QED
  BY <1>1, <1>2, OwnStep, PTL DEF Spec, RemovesOwnEntryUntilRestart
=============================================================================
