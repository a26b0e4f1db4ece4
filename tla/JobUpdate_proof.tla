--------------------------- MODULE JobUpdate_proof ---------------------------
(* Theorems of JobUpdate, for any jobs, workers, slots, firings, faults.   *)
(* What the steps of the dispatch do is cited from JobDispatch_proof and   *)
(* WorkQueue_proof.                                                        *)
EXTENDS JobUpdate, WorkQueue_proof

USE FaultsAssumption, MortalAssumption, QueueAssumption, RetriesAssumption, NoJobAssumption,
    NoWorkerAssumption, HandlerAssumption

(* A request has a job. *)
RequestNamed == req.pc # "none" => req.job \in Jobs

(* A firing between its read and its mark is not pushing anything. *)
CheckedIsIdle == \A t \in Ticks : checked[t] # NoJob => tick[t] \in {Unused, Done}

(* The inductive invariant.  RowsAreTrue needs LockedIsBacked, for the row *)
(* that a requeue commits, and CheckedIsIdle, because a firing that marks  *)
(* its job must not forget the push of another one.                        *)
UInv ==
    /\ UpdateTypeOK /\ RequestNamed /\ CheckedIsIdle
    /\ IdleWhenDown /\ LockedIsBacked
    /\ RowsAreTrue

-----------------------------------------------------------------------------
(* The steps of UpdateSpec, seen from the dispatch.                        *)

(* A step of JobDispatch; a row it writes is no longer an overwritten one. *)
DispatchStep == [Next]_vars /\ overwritten \ Rewritten \subseteq overwritten'

(* A step that at most changes scheduler entries or ends the restart.      *)
QuietStep ==
    /\ UNCHANGED <<dbVars, queue, tick, hcVars, wrow, procVars, ghosts, overwritten>>
    /\ cron' \subseteq Jobs
    /\ sup' = sup \/ (sup = "reset" /\ sup' = "up")

LEMMA StepKinds ==
  ASSUME UpdateTypeOK, RequestNamed, [UpdateNext]_allVars
  PROVE  DispatchStep \/ QuietStep \/ Save \/ \E t \in Ticks : FireChecked(t)
<1>. TypeOK /\ cron \subseteq Jobs /\ active \subseteq Jobs
  BY DEF UpdateTypeOK, TypeOK
<1>1. CASE UNCHANGED <<vars, overwritten>>
  BY <1>1 DEF DispatchStep
<1>2. CASE DispatchNext
  <2>1. CASE Schedule(active)
    <3>1. Rewritten = {}
      BY <2>1 DEF Schedule, Rewritten, dbVars
    <3>2. overwritten' = overwritten
      BY <1>2, <3>1 DEF DispatchNext
    <3>. QED BY <2>1, <3>2 DEF Schedule, QuietStep
  <2>2. CASE ~ Schedule(active)
    <3>1. TickNext \/ HealthCheckNext \/ RegistryNext \/ WorkerNext \/ SupervisorNext
      BY <1>2, <2>2 DEF DispatchNext, TickNext, SupervisorNext
    <3>. QED BY <1>2, <3>1 DEF DispatchNext, DispatchStep, Next
  <2>. QED BY <2>1, <2>2
<1>3. CASE Stop
  BY <1>3 DEF Stop, DispatchStep, Next, SupervisorNext
<1>4. CASE Unschedule
  BY <1>4 DEF Unschedule, QuietStep
<1>5. CASE Reschedule
  BY <1>5 DEF Reschedule, QuietStep, RequestNamed
<1>6. CASE (\E t \in Ticks, j \in Jobs : Check(t, j)) \/ (\E j \in Jobs, a \in BOOLEAN : ReadRow(j, a))
           \/ SaveFails \/ UNCHANGED allVars
  BY <1>1, <1>6 DEF Check, ReadRow, SaveFails, allVars, updateVars
<1>. QED BY <1>2, <1>3, <1>4, <1>5, <1>6 DEF UpdateNext

-----------------------------------------------------------------------------
(* Types, and the two facts about the handler and the firings.             *)

LEMMA UpdateTypeStep ==
  UpdateTypeOK /\ RequestNamed /\ [UpdateNext]_allVars => UpdateTypeOK' /\ RequestNamed'
<1>. SUFFICES ASSUME UpdateTypeOK, RequestNamed, [UpdateNext]_allVars
              PROVE  UpdateTypeOK' /\ RequestNamed'
  OBVIOUS
<1>1. TypeOK'
  <2>1. CASE DispatchStep
    BY <2>1, TypeStep DEF DispatchStep, UpdateTypeOK
  <2>2. CASE QuietStep
    BY <2>2 DEF QuietStep, UpdateTypeOK, TypeOK, dbVars, hcVars, tx, procVars, ghosts
  <2>3. CASE Save
    <3>1. req.job \in Jobs /\ req.read.status \in Statuses /\ req.read.worker \in Workers \cup {NoWorker}
      BY <2>3 DEF Save, UpdateTypeOK, RequestNamed, Requests, Rows
    <3>. QED BY <2>3, <3>1 DEF Save, UpdateTypeOK, TypeOK, supVars, hcVars, tx, procVars, ghosts
  <2>4. ASSUME NEW t \in Ticks, FireChecked(t) PROVE TypeOK'
    <3>1. checked[t] \in Jobs /\ Mark(t, checked[t])
      BY <2>4 DEF FireChecked, UpdateTypeOK
    <3>2. Pushing(checked[t], Attempts) \in TickStates
      BY <3>1, AttemptsType DEF Pushing, TickStates
    <3>. QED BY <3>1, <3>2 DEF Mark, UpdateTypeOK, TypeOK, Statuses, hcVars, tx, procVars, ghosts
  <2>. QED BY <2>1, <2>2, <2>3, <2>4, StepKinds
<1>2. active' \subseteq Jobs /\ stray' \subseteq Jobs /\ overwritten' \subseteq Jobs
  BY
     DEF UpdateTypeOK, TypeOK, RequestNamed, UpdateNext, allVars, updateVars, Check, FireChecked,
         ReadRow,
         Save, SaveFails, Unschedule, Reschedule, DispatchNext, Stop
<1>3. checked' \in [Ticks -> Jobs \cup {NoJob}]
  BY DEF UpdateTypeOK, UpdateNext, allVars, updateVars, Check, FireChecked, ReadRow,
         Save, SaveFails, Unschedule, Reschedule, DispatchNext, Stop
<1>4. req' \in Requests /\ RequestNamed'
  <2>0. req \in Requests /\ NoRequest \in Requests /\ NoRequest.pc = "none" /\ NoRequest.read \in Rows
    BY DEF UpdateTypeOK, Requests, Rows, NoRequest, Statuses
  <2>1. ASSUME NEW j \in Jobs, NEW a \in BOOLEAN, ReadRow(j, a) PROVE req' \in Requests /\ RequestNamed'
    <3>1. Row(j) \in Rows
      BY DEF UpdateTypeOK, TypeOK, Row, Rows
    <3>. QED BY <2>1, <3>1 DEF ReadRow, Requests, RequestNamed
  <2>2. CASE Save
    BY <2>0, <2>2 DEF Save, Requests, RequestNamed
  <2>3. CASE Unschedule
    BY <2>0, <2>3 DEF Unschedule, Requests, RequestNamed
  <2>4. CASE SaveFails \/ Reschedule \/ Stop
    BY <2>0, <2>4 DEF SaveFails, Reschedule, Stop, RequestNamed
  <2>5. CASE UNCHANGED req
    BY <2>0, <2>5 DEF RequestNamed
  <2>6. CASE (\E t \in Ticks, j \in Jobs : Check(t, j)) \/ (\E t \in Ticks : FireChecked(t))
             \/ DispatchNext \/ UNCHANGED allVars
    BY <2>5, <2>6 DEF Check, FireChecked, DispatchNext, allVars, updateVars
  <2>. QED BY <2>1, <2>2, <2>3, <2>4, <2>6 DEF UpdateNext
<1>. QED BY <1>1, <1>2, <1>3, <1>4 DEF UpdateTypeOK

LEMMA CheckedStep ==
  UpdateTypeOK /\ CheckedIsIdle /\ [UpdateNext]_allVars => CheckedIsIdle'
<1>. SUFFICES ASSUME UpdateTypeOK, CheckedIsIdle, [UpdateNext]_allVars, NEW t \in Ticks, checked'[t] # NoJob
              PROVE  tick'[t] \in {Unused, Done}
  BY DEF CheckedIsIdle
<1>0. tick \in [Ticks -> TickStates] /\ checked \in [Ticks -> Jobs \cup {NoJob}]
  BY DEF UpdateTypeOK, TypeOK
<1>1. ASSUME NEW u \in Ticks, NEW j \in Jobs, Check(u, j) PROVE tick'[t] \in {Unused, Done}
  BY <1>0, <1>1 DEF Check, CheckedIsIdle, vars, supVars
<1>2. ASSUME NEW u \in Ticks, FireChecked(u) PROVE tick'[t] \in {Unused, Done}
  BY <1>0, <1>2 DEF FireChecked, Mark, CheckedIsIdle
<1>3. CASE Stop
  BY <1>0, <1>3 DEF Stop, SupCrash
<1>4. CASE DispatchNext
  <2>1. tick[t] \in {Unused, Done}
    BY <1>4 DEF DispatchNext, CheckedIsIdle
  <2>2. tick'[t] = tick[t]
    BY <1>0, <1>4, <2>1
       DEF DispatchNext, TickPush, TickResend, TickPushFails, TickUndo, Unused, Done,
           HealthCheckNext, HcQuery, HcMark, HcFind, HcLock, HcResend, HcPush, HcPushFails,
           Unlock, HcCommit, HcRollback, HcFail, HcDone,
           RegistryNext, RegisterWorker, Heartbeat, Age, ShutdownCall, ShutdownMark,
           WorkerNext, Pop, PopLost, Start, MarkRunning, Finish, Cancel, LoopExit, Exit, Crash, Restart,
           RestartFlush, RestartReset, Schedule, supVars
  <2>. QED BY <2>1, <2>2
<1>5. CASE UNCHANGED <<tick, checked>>
  BY <1>5 DEF CheckedIsIdle
<1>6. (\E j \in Jobs, a \in BOOLEAN : ReadRow(j, a)) \/ Save \/ SaveFails \/ Unschedule \/ Reschedule
        \/ UNCHANGED allVars => UNCHANGED <<tick, checked>>
  BY DEF ReadRow, Save, SaveFails, Unschedule, Reschedule, allVars, updateVars, vars, supVars
<1>. QED BY <1>1, <1>2, <1>3, <1>4, <1>5, <1>6 DEF UpdateNext

-----------------------------------------------------------------------------
(* The rest of the inductive invariant.                                    *)

(* Neither a PUT nor a mark loses a copy or a run that was there. *)
LEMMA CopiesFrame ==
  ASSUME NEW j, UNCHANGED <<queue, procVars, ghosts>>
  PROVE  Backed(j)' = Backed(j) /\ \A w \in Workers : (j \in Running(w))' = (j \in Running(w))
  BY DEF Backed, Ahead, Running, procVars, ghosts

LEMMA LockKeptStep ==
  ASSUME UInv, UpdateTypeOK', [UpdateNext]_allVars
  PROVE  IdleWhenDown' /\ LockedIsBacked'
<1>. TypeOK /\ TypeOK' /\ IdleWhenDown /\ LockedIsBacked /\ UpdateTypeOK /\ RequestNamed
  BY DEF UInv, UpdateTypeOK
<1>1. CASE DispatchStep
  BY <1>1, IdleStep, LockedStep DEF DispatchStep
<1>2. CASE /\ UNCHANGED <<queue, hcVars, procVars, ghosts>>
           /\ sup' = sup \/ (sup = "reset" /\ sup' = "up")
  <2>1. IdleWhenDown'
    BY <1>2 DEF IdleWhenDown, hcVars
  <2>2. /\ locked' = locked /\ hcLeft' = hcLeft
        /\ locked # NoJob => sup' = "up" /\ (hcLeft = 0 => Backed(locked))
    BY <1>2 DEF LockedIsBacked, Backed, hcVars, tx
  <2>3. LockedIsBacked'
    BY <1>2, <2>2, CopiesFrame DEF LockedIsBacked, Backed
  <2>. QED BY <2>1, <2>3
<1>3. QuietStep \/ Save \/ (\E t \in Ticks : FireChecked(t))
        => /\ UNCHANGED <<queue, hcVars, procVars, ghosts>>
           /\ sup' = sup \/ (sup = "reset" /\ sup' = "up")
  BY DEF QuietStep, Save, FireChecked, Mark, supVars
<1>. QED BY <1>1, <1>2, <1>3, StepKinds

(* A dispatch step that writes another worker into a row is the COMMIT of  *)
(* a requeue or the announcement of a run.                                 *)
LEMMA WorkerStep ==
  ASSUME TypeOK, [Next]_vars, NEW j \in Jobs, workerId'[j] # workerId[j]
  PROVE  \/ locked = j /\ hcLeft = 0 /\ status'[j] = "pending"
         \/ \E w \in Workers, s \in Slots : status'[j] = "running" /\ OwnedBy(j, w, s)'
<1>. USE DEF dbVars, supVars, hcVars, tx, procVars, ghosts
<1>0. /\ status \in [Jobs -> Statuses] /\ workerId \in [Jobs -> Workers \cup {NoWorker}]
      /\ task \in [Workers -> [Slots -> TaskStates]] /\ locked \in Jobs \cup {NoJob}
  BY TxType DEF TypeOK
<1>1. CASE HcCommit
  BY <1>0, <1>1 DEF HcCommit, Unlock
<1>2. ASSUME NEW w \in Workers, NEW s \in Slots, MarkRunning(w, s)
      PROVE  status'[j] = "running" /\ OwnedBy(j, w, s)'
  <2>1. j = task[w][s].job
    BY <1>0, <1>2 DEF MarkRunning
  <2>. QED BY <1>0, <1>2, <2>1 DEF MarkRunning, OwnedBy
<1>3. CASE UNCHANGED workerId
  BY <1>3
<1>4. \/ UNCHANGED workerId
      \/ HcCommit
      \/ \E w \in Workers, s \in Slots : MarkRunning(w, s)
  <2>1. CASE TickNext
    BY <2>1 DEF TickNext, Fire, Mark, TickPush, TickResend, TickPushFails, TickUndo
  <2>2. CASE HealthCheckNext
    BY <2>2
       DEF HealthCheckNext, HcQuery, HcMark, HcFind, HcLock, HcResend, HcPush, HcPushFails, Unlock,
           HcRollback, HcFail, HcDone
  <2>3. CASE RegistryNext
    BY <2>3 DEF RegistryNext, RegisterWorker, Heartbeat, Age, ShutdownCall, ShutdownMark
  <2>4. CASE WorkerNext
    BY <2>4 DEF WorkerNext, Pop, PopLost, Start, Finish, Cancel, LoopExit, Exit, Crash, Restart
  <2>5. CASE SupervisorNext
    BY <2>5 DEF SupervisorNext, SupCrash, RestartFlush, RestartReset, RestartSchedule, Schedule
  <2>6. CASE UNCHANGED vars
    BY <2>6 DEF vars
  <2>. QED BY <2>1, <2>2, <2>3, <2>4, <2>5, <2>6 DEF Next
<1>. QED BY <1>1, <1>2, <1>3, <1>4

(* What RowsAreTrue says of one row. *)
RowIsTrue(j) ==
    /\ sup \in {"up", "reset"} /\ status[j] = "pending" => Backed(j) \/ Firing(j)
    /\ status[j] = "running" =>
           j \in abandoned \/ \E w \in Workers, s \in Slots : OwnedBy(j, w, s)

LEMMA RowsByRow == RowsAreTrue <=> \A j \in Jobs \ overwritten : RowIsTrue(j)
  BY DEF RowsAreTrue, RowIsTrue, Backed, OwnedBy, Running

(* The dispatch keeps a true row true, and makes one true that it writes.  *)
LEMMA TrueDispatchStep ==
  ASSUME UInv, TypeOK, TypeOK', DispatchStep, NEW j \in Jobs \ overwritten'
  PROVE  RowIsTrue(j)'
<1>. [Next]_vars /\ LockedIsBacked /\ (j \notin overwritten => RowIsTrue(j))
  BY RowsByRow DEF UInv, DispatchStep
<1>1. ASSUME j \in overwritten
      PROVE  status'[j] # status[j] \/ workerId'[j] # workerId[j]
  BY <1>1 DEF DispatchStep, Rewritten
<1>2. ASSUME sup' \in {"up", "reset"}, status'[j] = "pending" PROVE Backed(j)' \/ Firing(j)'
  <2>1. CASE locked = j /\ hcLeft = 0
    <3>1. sup = "up" /\ Backed(j)
      BY <2>1, NoJobAssumption DEF LockedIsBacked, Backed
    <3>. QED BY <1>2, <3>1, BackedStep
  <2>2. CASE status[j] = "pending" /\ sup \in {"up", "reset"} /\ ~ (locked = j /\ hcLeft = 0)
    <3>1. j \notin overwritten
      BY <1>1, <1>2, <2>2, WorkerStep
    <3>2. Backed(j) \/ Firing(j)
      BY <2>2, <3>1 DEF RowIsTrue
    <3>. QED BY <1>2, <2>2, <3>2, BackedStep, FiringStep
  <2>3. CASE Firing(j)' \/ j \in dropped'
    BY <2>3 DEF Backed
  <2>. QED BY <1>2, <2>1, <2>2, <2>3, PendingStep
<1>3. ASSUME status'[j] = "running"
      PROVE  j \in abandoned' \/ \E w \in Workers, s \in Slots : OwnedBy(j, w, s)'
  <2>1. CASE status[j] = "running" /\ abandoned \subseteq abandoned' \cup {k \in Jobs : k # j}
             /\ ~ \E w \in Workers, s \in Slots : OwnedBy(j, w, s)'
    <3>1. j \notin overwritten
      BY <1>1, <1>3, <2>1, WorkerStep
    <3>2. j \in abandoned \/ \E w \in Workers, s \in Slots : OwnedBy(j, w, s)
      BY <2>1, <3>1 DEF RowIsTrue
    <3>. QED BY <1>3, <2>1, <3>2, OwnedStep
  <2>. QED BY <1>3, <2>1, RunningStep
<1>. QED BY <1>2, <1>3 DEF RowIsTrue

(* A handler's Save overwrites at most the row of its job; a mark backs    *)
(* its own row with its firing and leaves the others to theirs.            *)
LEMMA TrueOtherStep ==
  ASSUME UInv, UpdateTypeOK, RequestNamed,
         QuietStep \/ Save \/ (\E t \in Ticks : FireChecked(t)), NEW j \in Jobs \ overwritten'
  PROVE  RowIsTrue(j)'
<1>0. /\ status \in [Jobs -> Statuses] /\ workerId \in [Jobs -> Workers \cup {NoWorker}]
      /\ tick \in [Ticks -> TickStates]
      /\ j \notin overwritten => RowIsTrue(j)
  BY RowsByRow DEF UInv, UpdateTypeOK, TypeOK
<1>1. UNCHANGED <<queue, procVars, ghosts>> /\ (sup' = sup \/ (sup = "reset" /\ sup' = "up"))
  BY DEF QuietStep, Save, FireChecked, Mark, supVars
<1>2. /\ Backed(j)' = Backed(j) /\ (j \in abandoned)' = (j \in abandoned)
      /\ UNCHANGED task
  BY <1>1, CopiesFrame DEF procVars, ghosts
<1>3. CASE /\ j \notin overwritten /\ status'[j] = status[j] /\ workerId'[j] = workerId[j]
           /\ Firing(j) => Firing(j)'
  BY <1>0, <1>1, <1>2, <1>3 DEF RowIsTrue, OwnedBy
<1>4. CASE QuietStep
  BY <1>3, <1>4 DEF QuietStep, Firing, dbVars
<1>5. CASE Save
  <2>1. req.job \in Jobs
    BY <1>5 DEF Save, RequestNamed
  <2>2. Firing(j) => Firing(j)'
    BY <1>5 DEF Save, Firing, supVars
  <2>3. CASE req.job = j
    <3>1. Row(j) = req.read /\ j \notin overwritten
      BY <1>5, <2>3 DEF Save
    <3>2. status'[j] = status[j] /\ workerId'[j] = workerId[j]
      BY <1>0, <1>5, <2>3, <3>1 DEF Save, Row
    <3>. QED BY <1>3, <2>2, <3>1, <3>2
  <2>4. CASE req.job # j
    <3>1. j \notin overwritten /\ status'[j] = status[j] /\ workerId'[j] = workerId[j]
      BY <1>0, <1>5, <2>1, <2>4 DEF Save
    <3>. QED BY <1>3, <2>2, <3>1
  <2>. QED BY <2>3, <2>4
<1>6. ASSUME NEW t \in Ticks, FireChecked(t) PROVE RowIsTrue(j)'
  <2>1. /\ checked[t] \in Jobs /\ Mark(t, checked[t])
        /\ tick' = [tick EXCEPT ![t] = Pushing(checked[t], Attempts)]
        /\ tick[t] \in {Unused, Done}
    BY <1>6 DEF FireChecked, Mark, UInv, UpdateTypeOK, CheckedIsIdle
  <2>2. Firing(j) => Firing(j)'
    BY <1>0, <2>1 DEF Firing, Unused, Done
  <2>3. CASE checked[t] = j /\ status'[j] = "pending"
    <3>1. tick'[t] = Pushing(j, Attempts)
      BY <1>0, <2>1, <2>3
    <3>2. Firing(j)'
      BY <3>1 DEF Firing, Pushing
    <3>. QED BY <2>3, <3>2 DEF RowIsTrue
  <2>4. CASE ~ (checked[t] = j /\ status'[j] = "pending")
    <3>1. j \notin overwritten /\ status'[j] = status[j] /\ workerId'[j] = workerId[j]
      BY <1>0, <1>6, <2>1, <2>4 DEF FireChecked, Mark
    <3>. QED BY <1>3, <2>2, <3>1
  <2>. QED BY <2>3, <2>4
<1>. QED BY <1>4, <1>5, <1>6

(* UInv is inductive and true of the initial states.                       *)
THEOREM UpdateInductive == UpdateSpec => []UInv
<1>1. UpdateInit => UInv
  <2>. SUFFICES ASSUME UpdateInit PROVE UInv
    OBVIOUS
  <2>1. Init /\ TypeOK
    BY InitType DEF UpdateInit
  <2>2. UpdateTypeOK
    <3>1. req \in Requests
      BY DEF UpdateInit, NoRequest, Requests, Rows, Statuses
    <3>. QED BY <2>1, <3>1 DEF UpdateInit, UpdateTypeOK
  <2>3. RequestNamed /\ CheckedIsIdle
    BY DEF UpdateInit, RequestNamed, CheckedIsIdle, NoRequest
  <2>4. IdleWhenDown /\ LockedIsBacked /\ RowsAreTrue
    BY <2>1 DEF Init, IdleWhenDown, LockedIsBacked, RowsAreTrue
  <2>. QED BY <2>2, <2>3, <2>4 DEF UInv
<1>2. UInv /\ [UpdateNext]_allVars => UInv'
  <2>. SUFFICES ASSUME UInv, [UpdateNext]_allVars PROVE UInv'
    OBVIOUS
  <2>1. UpdateTypeOK /\ RequestNamed /\ CheckedIsIdle /\ TypeOK
    BY DEF UInv, UpdateTypeOK
  <2>2. UpdateTypeOK' /\ RequestNamed' /\ CheckedIsIdle' /\ TypeOK'
    BY <2>1, UpdateTypeStep, CheckedStep DEF UpdateTypeOK
  <2>3. IdleWhenDown' /\ LockedIsBacked'
    BY <2>2, LockKeptStep
  <2>4. RowsAreTrue'
    <3>1. ASSUME NEW j \in Jobs \ overwritten' PROVE RowIsTrue(j)'
      BY <2>1, <2>2, StepKinds, TrueDispatchStep, TrueOtherStep
    <3>. QED BY <3>1 DEF RowsAreTrue, RowIsTrue, Backed, OwnedBy, Running
  <2>. QED BY <2>2, <2>3, <2>4 DEF UInv
<1>. QED BY <1>1, <1>2, PTL DEF UpdateSpec

(* The variables of the dispatch, the handler and the scheduler always     *)
(* have their types, whatever requests, firings and crashes interleave.    *)
THEOREM UpdateTypeCorrect == UpdateSpec => []UpdateTypeOK
<1>1. UInv => UpdateTypeOK
  BY DEF UInv
<1>. QED BY <1>1, UpdateInductive, PTL

(* A PUT damages only the row it saves over a concurrent write, and only   *)
(* until the dispatch writes that row again (UpdateJob against executeJob, *)
(* updateJobStatus and requeueWorkerJobs).                                 *)
THEOREM RowsAlwaysTrue == UpdateSpec => []RowsAreTrue
<1>1. UInv => RowsAreTrue
  BY DEF UInv
<1>. QED BY <1>1, UpdateInductive, PTL

-----------------------------------------------------------------------------
(* The queue of copies next to the handler.                                *)

(* Apart from the dispatch, at most a mark adds a firing that will push.   *)
LEMMA UpdateFrame ==
  ASSUME UpdateTypeOK, QuietStep \/ Save \/ (\E t \in Ticks : FireChecked(t))
  PROVE  /\ UNCHANGED <<queue, hand, task>>
         /\ \E t : \A j \in Jobs : PushesLeft(j)' \subseteq PushesLeft(j) \cup ({t} \X (1 .. Attempts))
<1>1. UNCHANGED <<queue, hand, task>>
  BY DEF QuietStep, Save, FireChecked, Mark, procVars
<1>2. \E t : \A u \in Ticks \ {t} : tick'[u] = tick[u]
  <2>1. CASE QuietStep \/ Save
    BY <2>1 DEF QuietStep, Save, supVars
  <2>2. ASSUME NEW t \in Ticks, FireChecked(t) PROVE \A u \in Ticks \ {t} : tick'[u] = tick[u]
    BY <2>2 DEF FireChecked, Mark, UpdateTypeOK, TypeOK
  <2>. QED BY <2>1, <2>2
<1>. QED BY <1>1, <1>2, PushesFrame

LEMMA UpdateFiniteStep ==
  UpdateTypeOK /\ RequestNamed /\ Finite /\ [UpdateNext]_allVars => Finite'
<1>. SUFFICES ASSUME UpdateTypeOK, RequestNamed, Finite, [UpdateNext]_allVars PROVE Finite'
  OBVIOUS
<1>1. CASE DispatchStep
  BY <1>1, FiniteStep DEF DispatchStep, UpdateTypeOK
<1>2. CASE QuietStep \/ Save \/ (\E t \in Ticks : FireChecked(t))
  <2>. PICK t : \A j \in Jobs : PushesLeft(j)' \subseteq PushesLeft(j) \cup ({t} \X (1 .. Attempts))
    BY <1>2, UpdateFrame
  <2>1. UNCHANGED <<hand, task>> /\ \A j \in Jobs : IsFiniteSet(PushesLeft(j)')
    BY <1>2, UpdateFrame, WithinFiring DEF Finite
  <2>. QED BY <2>1 DEF Finite, Hands, Places, Popped, Scraping
<1>. QED BY <1>1, <1>2, StepKinds

(* PUTs, their failures and the entries they leave behind change when a    *)
(* job is due, never what becomes of a copy: a firing or a requeue still   *)
(* puts no more copies on the list than its LPUSH is sent, and each is run *)
(* once or on record as lost (UpdateJob next to executeJob,                *)
(* requeueWorkerJobs, StartListening, processJob).                         *)
THEOREM UpdateRefinesWorkQueue == UpdateSpec => ImplementsWorkQueue
<1>1. UpdateSpec => [](TypeOK /\ UpdateTypeOK /\ RequestNamed /\ Finite)
  <2>1. UpdateSpec => []Finite
    <3>1. UpdateInit => Finite
      BY QueueInitFinite DEF UpdateInit
    <3>2. UInv => UpdateTypeOK /\ RequestNamed
      BY DEF UInv
    <3>. QED BY <3>1, <3>2, UpdateFiniteStep, UpdateInductive, PTL DEF UpdateSpec
  <2>2. UInv => TypeOK /\ UpdateTypeOK /\ RequestNamed
    BY DEF UInv, UpdateTypeOK
  <2>. QED BY <2>1, <2>2, UpdateInductive, PTL
<1>2. UpdateInit => Work!Init
  BY QueueInit DEF UpdateInit
<1>3. TypeOK /\ UpdateTypeOK /\ RequestNamed /\ Finite /\ [UpdateNext]_allVars => [Work!Next]_Work!vars
  <2>. SUFFICES ASSUME TypeOK, UpdateTypeOK, RequestNamed, Finite, [UpdateNext]_allVars
                PROVE  [Work!Next]_Work!vars
    OBVIOUS
  <2>1. CASE DispatchStep
    BY <2>1, QueueStep DEF DispatchStep
  <2>2. CASE QuietStep \/ Save \/ (\E t \in Ticks : FireChecked(t))
    BY <2>2, UpdateFrame, FrameNumbers, SameStep
  <2>. QED BY <2>1, <2>2, StepKinds
<1>4. UpdateSpec => Work!Spec
  BY <1>1, <1>2, <1>3, PTL DEF UpdateSpec, Work!Spec
<1>. QED BY <1>4 DEF ImplementsWorkQueue

=============================================================================
