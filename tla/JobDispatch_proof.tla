------------------------- MODULE JobDispatch_proof -------------------------
(* Theorems of JobDispatch, for any jobs, workers, slots, firings, faults. *)
EXTENDS JobDispatch, TLAPS

USE FaultsAssumption, MortalAssumption, QueueAssumption, RetriesAssumption, NoJobAssumption,
    NoWorkerAssumption

(* LPUSH is sent once at least, and in an open transaction for its job.    *)
LEMMA AttemptsType == Attempts \in Nat /\ Attempts >= 1
  BY DEF Attempts

LEMMA TxType ==
  ASSUME TypeOK
  PROVE  /\ locked \in Jobs \cup {NoJob}
         /\ hcLeft \in 0 .. Attempts
         /\ hcLeft > 0 => locked \in Jobs
  BY AttemptsType DEF TypeOK, tx

(* The empty list and what LPush makes are lists of jobs.                  *)
LEMMA EmptyQueue == <<>> \in Seq(Jobs)
  OBVIOUS

LEMMA PushType ==
  ASSUME queue \in Seq(Jobs), dropped \subseteq Jobs, NEW j \in Jobs, PushUnanswered(j) \/ Push(j)
  PROVE  queue' \in Seq(Jobs) /\ dropped' \subseteq Jobs
  BY DEF Push, PushUnanswered

(* Every step keeps the variables in their types.                          *)
LEMMA TypeStep == TypeOK /\ [Next]_vars => TypeOK'
<1>. SUFFICES ASSUME TypeOK, [Next]_vars PROVE TypeOK'
  OBVIOUS
<1>. USE DEF TypeOK, Statuses, Terminal, TaskStates, TickStates, Free, Popped, Scraping, Unused,
             Done, dbVars, supVars, hcVars, tx, procVars, ghosts, Touch
<1>1. CASE TickNext
  <2>. PICK t \in Ticks : \/ \E j \in Jobs : Fire(t, j)
                          \/ TickPush(t) \/ TickResend(t) \/ TickPushFails(t) \/ TickUndo(t)
    BY <1>1 DEF TickNext
  <2>1. CASE \E j \in Jobs : Fire(t, j)
    BY <2>1, AttemptsType DEF Fire, Mark, Pushing
  <2>2. CASE TickPush(t)
    <3>1. tick[t].job \in Jobs
      BY <2>2 DEF TickPush
    <3>. QED BY <2>2, <3>1, PushType DEF TickPush
  <2>3. CASE TickPushFails(t) \/ TickResend(t)
    <3>1. tick[t].job \in Jobs /\ tick[t] \in [pc : {"push"}, job : Jobs, left : 1 .. Attempts]
      BY <2>3 DEF TickPushFails, TickResend
    <3>2. tick' \in [Ticks -> TickStates]
      <4>1. CASE TickResend(t)
        <5>1. tick' = [tick EXCEPT ![t] = [tick[t] EXCEPT !.left = @ - 1]] /\ tick[t].left > 1
          BY <4>1 DEF TickResend
        <5>2. [tick[t] EXCEPT !.left = @ - 1] \in [pc : {"push"}, job : Jobs, left : 1 .. Attempts]
          BY <3>1, <5>1, AttemptsType
        <5>. QED BY <5>1, <5>2
      <4>2. CASE TickPushFails(t)
        BY <3>1, <4>2 DEF TickPushFails, Undoing
      <4>. QED BY <2>3, <4>1, <4>2
    <3>3. PushUnanswered(tick[t].job)
      BY <2>3 DEF TickPushFails, TickResend, PushUnanswered
    <3>. QED BY <2>3, <3>1, <3>2, <3>3, PushType DEF TickPushFails, TickResend
  <2>4. CASE TickUndo(t)
    <3>1. tick[t].job \in Jobs
      BY <2>4 DEF TickUndo
    <3>. QED BY <2>4, <3>1 DEF TickUndo
  <2>. QED BY <2>1, <2>2, <2>3, <2>4
<1>2. CASE HealthCheckNext
  <2>1. CASE HcQuery
    BY <2>1 DEF HcQuery, Stale
  <2>2. CASE \E w \in Workers : HcMark(w)
    BY <2>2 DEF HcMark
  <2>3. CASE HcFind
    BY <2>3 DEF HcFind, StuckJobs
  <2>4. CASE HcPush \/ HcResend \/ HcPushFails
    <3>1. locked \in Jobs /\ hcLeft \in 1 .. Attempts
      BY <2>4, TxType DEF HcPush, HcResend, HcPushFails
    <3>2. PushUnanswered(locked)
      BY <2>4 DEF HcPush, HcResend, HcPushFails, PushUnanswered
    <3>3. queue' \in Seq(Jobs) /\ dropped' \subseteq Jobs
      BY <3>1, <3>2, PushType
    <3>4. tx' \in (Jobs \X (0 .. Attempts)) \cup {<<NoJob, 0>>}
      BY <2>4, <3>1, AttemptsType DEF HcPush, HcResend, HcPushFails, Unlock
    <3>. QED BY <2>4, <3>3, <3>4 DEF HcPush, HcResend, HcPushFails, Unlock
  <2>5. CASE HcCommit \/ HcRollback
    <3>1. locked \in Jobs
      BY <2>5, TxType DEF HcCommit, HcRollback
    <3>2. tx' = <<NoJob, 0>>
      BY <2>5 DEF HcCommit, HcRollback, Unlock
    <3>3. status' \in [Jobs -> Statuses] /\ workerId' \in [Jobs -> Workers \cup {NoWorker}]
      BY <2>5, <3>1 DEF HcCommit, HcRollback
    <3>4. /\ UNCHANGED <<queue, supVars, hcList, hcCur, hcFound, wrow, procVars, ghosts>>
          /\ hcStuck' \subseteq Jobs
      BY <2>5 DEF HcCommit, HcRollback, Unlock
    <3>. HIDE DEF tx
    <3>. QED BY <3>2, <3>3, <3>4
  <2>6. CASE \E j \in Jobs : HcLock(j)
    BY <2>6, AttemptsType DEF HcLock
  <2>7. CASE \E j \in Jobs : HcFail(j)
    BY <2>7 DEF HcFail
  <2>8. CASE HcDone
    BY <2>8 DEF HcDone
  <2>. QED BY <1>2, <2>1, <2>2, <2>3, <2>4, <2>5, <2>6, <2>7, <2>8 DEF HealthCheckNext
<1>3. CASE RegistryNext
  BY <1>3 DEF RegistryNext, RegisterWorker, Heartbeat, Age, ShutdownCall, ShutdownMark
<1>4. CASE WorkerNext
  <2>. PICK w \in Workers : \/ Pop(w) \/ PopLost(w)
                            \/ \E s \in Slots : Start(w, s) \/ MarkRunning(w, s)
                            \/ \E s \in Slots, outcome \in Terminal : Finish(w, s, outcome)
                            \/ Cancel(w) \/ LoopExit(w) \/ Exit(w) \/ Crash(w) \/ Restart(w)
    BY <1>4 DEF WorkerNext
  <2>1. CASE Pop(w)
    BY <2>1 DEF Pop
  <2>2. CASE PopLost(w)
    BY <2>2 DEF PopLost
  <2>3. ASSUME NEW s \in Slots, Start(w, s) PROVE TypeOK'
    BY <2>3 DEF Start
  <2>4. ASSUME NEW s \in Slots, MarkRunning(w, s) PROVE TypeOK'
    <3>1. task[w][s].job \in Jobs
      BY <2>4 DEF MarkRunning
    <3>2. task' \in [Workers -> [Slots -> TaskStates]]
      BY <2>4, <3>1 DEF MarkRunning
    <3>. QED BY <2>4, <3>1, <3>2 DEF MarkRunning
  <2>5. ASSUME NEW s \in Slots, NEW outcome \in Terminal, Finish(w, s, outcome) PROVE TypeOK'
    <3>1. task[w][s].job \in Jobs
      BY <2>5 DEF Finish
    <3>2. task' \in [Workers -> [Slots -> TaskStates]]
      BY <2>5 DEF Finish
    <3>. QED BY <2>5, <3>1, <3>2 DEF Finish
  <2>6. CASE Cancel(w) \/ LoopExit(w) \/ Exit(w) \/ Restart(w)
    BY <2>6 DEF Cancel, LoopExit, Exit, Restart
  <2>7. CASE Crash(w)
    BY <2>7 DEF Crash, Waiting, Running
  <2>. QED BY <2>1, <2>2, <2>3, <2>4, <2>5, <2>6, <2>7
<1>5. CASE SupervisorNext
  <2>1. CASE SupCrash
    BY <2>1 DEF SupCrash
  <2>2. CASE RestartFlush
    BY <2>2, EmptyQueue DEF RestartFlush
  <2>3. CASE RestartReset
    BY <2>3 DEF RestartReset
  <2>4. CASE RestartSchedule
    BY <2>4 DEF RestartSchedule, Schedule
  <2>. QED BY <1>5, <2>1, <2>2, <2>3, <2>4 DEF SupervisorNext
<1>6. CASE UNCHANGED vars
  BY <1>6 DEF vars
<1>. QED BY <1>1, <1>2, <1>3, <1>4, <1>5, <1>6 DEF Next

(* The initial values have their types.                                    *)
LEMMA InitType == Init => TypeOK
<1>. SUFFICES ASSUME Init PROVE TypeOK
  OBVIOUS
<1>1. tick \in [Ticks -> TickStates] /\ task \in [Workers -> [Slots -> TaskStates]]
  BY DEF Init, TaskStates, TickStates
<1>. QED BY <1>1, EmptyQueue DEF Init, TypeOK, Statuses, tx

(* The variables always have their types.                                  *)
THEOREM TypeCorrect == Spec => []TypeOK
BY InitType, TypeStep, PTL DEF Spec

-----------------------------------------------------------------------------
(* Copies.                                                                 *)

Backed(j) == Ahead(j) \/ j \in dropped

(* A step that leaves the list and the workers alone loses no copy.        *)
LEMMA BackedFrame ==
  ASSUME NEW j, UNCHANGED <<queue, hand, task>>, dropped \subseteq dropped', Backed(j)
  PROVE  Backed(j)'
  BY DEF Backed, Ahead

(* LPush adds its copy and keeps the others.                               *)
LEMMA BackedPush ==
  ASSUME TypeOK, NEW k \in Jobs, Push(k), UNCHANGED <<hand, task>>, NEW j \in Jobs,
         j = k \/ Backed(j)
  PROVE  Backed(j)' /\ (j = k => Ahead(j)')
<1>1. queue \in Seq(Jobs) /\ queue' = Append(queue, k) /\ dropped' = dropped \ {k}
  BY DEF Push, TypeOK
<1>2. Len(queue') = Len(queue) + 1 /\ Len(queue) \in Nat /\ queue'[Len(queue) + 1] = k
  BY <1>1
<1>3. \A i \in 1 .. Len(queue) : queue'[i] = queue[i]
  BY <1>1
<1>4. CASE j = k
  BY <1>2, <1>4 DEF Ahead, Backed
<1>5. CASE j # k
  BY <1>1, <1>2, <1>3, <1>5 DEF Ahead, Backed
<1>. QED BY <1>4, <1>5

LEMMA BackedUnanswered ==
  ASSUME TypeOK, NEW k \in Jobs, PushUnanswered(k), UNCHANGED <<hand, task>>, NEW j \in Jobs, Backed(j)
  PROVE  Backed(j)'
  BY BackedPush, BackedFrame DEF PushUnanswered

(* A worker that pops a job holds it; the others stay on the list.         *)
LEMMA BackedPop ==
  ASSUME TypeOK, NEW w \in Workers, Pop(w), NEW j \in Jobs, Backed(j)
  PROVE  Backed(j)'
<1>1. queue \in Seq(Jobs) /\ queue # <<>> /\ queue' = Tail(queue)
  BY DEF Pop, TypeOK
<1>2. /\ hand' = [hand EXCEPT ![w] = Head(queue)] /\ hand \in [Workers -> Jobs \cup {NoJob}]
      /\ hand[w] = NoJob /\ UNCHANGED <<task, dropped>>
  BY DEF Pop, TypeOK, ghosts
<1>3. CASE \E i \in 1 .. Len(queue) : queue[i] = j
  <2>. PICK i \in 1 .. Len(queue) : queue[i] = j
    BY <1>3
  <2>1. CASE i = 1
    <3>1. hand'[w] = j
      BY <1>1, <1>2, <2>1
    <3>. QED BY <3>1 DEF Ahead, Backed
  <2>2. CASE i # 1
    <3>1. i - 1 \in 1 .. Len(queue') /\ queue'[i - 1] = j
      BY <1>1, <2>2
    <3>. QED BY <3>1 DEF Ahead, Backed
  <2>. QED BY <2>1, <2>2
<1>4. CASE \E v \in Workers : hand[v] = j
  BY <1>2, <1>4, NoJobAssumption DEF Ahead, Backed
<1>5. CASE (\E v \in Workers, s \in Slots : task[v][s] = Popped(j)) \/ j \in dropped
  BY <1>2, <1>5 DEF Ahead, Backed
<1>. QED BY <1>3, <1>4, <1>5 DEF Ahead, Backed

(* A copy whose reply is lost is counted as dropped.                       *)
LEMMA BackedPopLost ==
  ASSUME TypeOK, NEW w \in Workers, PopLost(w), NEW j \in Jobs, Backed(j)
  PROVE  Backed(j)'
<1>1. queue \in Seq(Jobs) /\ queue # <<>> /\ queue' = Tail(queue)
  BY DEF PopLost, TypeOK
<1>2. UNCHANGED <<hand, task>> /\ dropped' = dropped \cup {Head(queue)}
  BY DEF PopLost, procVars
<1>3. CASE \E i \in 1 .. Len(queue) : queue[i] = j
  <2>. PICK i \in 1 .. Len(queue) : queue[i] = j
    BY <1>3
  <2>1. CASE i = 1
    BY <1>1, <1>2, <2>1 DEF Backed
  <2>2. CASE i # 1
    <3>1. i - 1 \in 1 .. Len(queue') /\ queue'[i - 1] = j
      BY <1>1, <2>2
    <3>. QED BY <3>1 DEF Ahead, Backed
  <2>. QED BY <2>1, <2>2
<1>. QED BY <1>2, <1>3 DEF Ahead, Backed

(* No step loses a copy without counting it as dropped, except the one     *)
(* that announces its run and the flush of a restarting supervisor.        *)
LEMMA BackedStep ==
  ASSUME TypeOK, [Next]_vars, NEW j \in Jobs, Backed(j)
  PROVE  Backed(j)' \/ (status'[j] = "running" /\ locked' # j) \/ sup = "down"
<1>. USE DEF dbVars, supVars, hcVars, tx, procVars, ghosts
<1>1. CASE TickNext
  <2>. PICK t \in Ticks : \/ \E k \in Jobs : Fire(t, k)
                          \/ TickPush(t) \/ TickResend(t) \/ TickPushFails(t) \/ TickUndo(t)
    BY <1>1 DEF TickNext
  <2>1. CASE \E k \in Jobs : Fire(t, k)
    BY <2>1, BackedFrame DEF Fire, Mark
  <2>2. CASE TickPush(t)
    <3>1. tick[t].job \in Jobs
      BY <2>2 DEF TickPush, TypeOK, TickStates, Unused, Done
    <3>. QED BY <2>2, <3>1, BackedPush DEF TickPush
  <2>3. CASE TickPushFails(t) \/ TickResend(t)
    <3>1. tick[t].job \in Jobs
      BY <2>3 DEF TickPushFails, TickResend, TypeOK, TickStates, Unused, Done
    <3>. QED BY <2>3, <3>1, BackedUnanswered DEF TickPushFails, TickResend, PushUnanswered
  <2>4. CASE TickUndo(t)
    BY <2>4, BackedFrame DEF TickUndo
  <2>. QED BY <2>1, <2>2, <2>3, <2>4
<1>2. CASE HealthCheckNext
  <2>1. CASE HcPush \/ HcResend \/ HcPushFails
    <3>1. locked \in Jobs
      BY <2>1, TxType DEF HcPush, HcResend, HcPushFails
    <3>. QED BY <2>1, <3>1, BackedUnanswered DEF HcPush, HcResend, HcPushFails, PushUnanswered
  <2>2. CASE ~ (HcPush \/ HcResend \/ HcPushFails)
    <3>1. UNCHANGED <<queue, hand, task, dropped>>
      BY <1>2, <2>2
         DEF HealthCheckNext, HcQuery, HcMark, HcFind, HcLock, HcCommit, HcRollback, HcFail, HcDone
    <3>. QED BY <3>1, BackedFrame
  <2>. QED BY <2>1, <2>2
<1>3. CASE RegistryNext
  <2>1. UNCHANGED <<queue, hand, task, dropped>>
    BY <1>3 DEF RegistryNext, RegisterWorker, Heartbeat, Age, ShutdownCall, ShutdownMark
  <2>. QED BY <2>1, BackedFrame
<1>4. CASE WorkerNext
  <2>. PICK w \in Workers : \/ Pop(w) \/ PopLost(w)
                            \/ \E s \in Slots : Start(w, s) \/ MarkRunning(w, s)
                            \/ \E s \in Slots, outcome \in Terminal : Finish(w, s, outcome)
                            \/ Cancel(w) \/ LoopExit(w) \/ Exit(w) \/ Crash(w) \/ Restart(w)
    BY <1>4 DEF WorkerNext
  <2>0. /\ hand \in [Workers -> Jobs \cup {NoJob}]
        /\ task \in [Workers -> [Slots -> TaskStates]]
    BY DEF TypeOK
  <2>1. CASE Pop(w)
    BY <2>1, BackedPop
  <2>2. CASE PopLost(w)
    BY <2>2, BackedPopLost
  <2>3. ASSUME NEW s \in Slots, Start(w, s) PROVE Backed(j)'
    <3>1. /\ hand' = [hand EXCEPT ![w] = NoJob]
          /\ task' = [task EXCEPT ![w][s] = Popped(hand[w])]
          /\ task[w][s] = Free
          /\ UNCHANGED <<queue, dropped>>
      BY <2>3 DEF Start
    <3>2. CASE hand[w] = j
      <4>1. task'[w][s] = Popped(j)
        BY <2>0, <3>1, <3>2
      <4>. QED BY <4>1 DEF Backed, Ahead
    <3>3. ASSUME NEW v \in Workers, hand[v] = j, hand[w] # j PROVE hand'[v] = j
      BY <2>0, <3>1, <3>3
    <3>4. ASSUME NEW v \in Workers, NEW r \in Slots, task[v][r] = Popped(j) PROVE task'[v][r] = Popped(j)
      BY <2>0, <3>1, <3>4 DEF Popped, Free
    <3>. QED BY <3>1, <3>2, <3>3, <3>4 DEF Backed, Ahead
  <2>4. ASSUME NEW s \in Slots, MarkRunning(w, s)
        PROVE  Backed(j)' \/ (status'[j] = "running" /\ locked' # j)
    <3>1. /\ task' = [task EXCEPT ![w][s] = Scraping(task[w][s].job)]
          /\ UNCHANGED <<queue, hand, locked>>
          /\ dropped \subseteq dropped'
      BY <2>4 DEF MarkRunning
    <3>2. CASE task[w][s].job = j
      <4>1. j \in dropped' \/ (status'[j] = "running" /\ locked # j)
        BY <2>4, <3>2 DEF MarkRunning, TypeOK
      <4>. QED BY <3>1, <4>1 DEF Backed
    <3>3. ASSUME NEW v \in Workers, NEW r \in Slots, task[v][r] = Popped(j), task[w][s].job # j
          PROVE  task'[v][r] = Popped(j)
      BY <2>0, <3>1, <3>3 DEF Popped
    <3>. QED BY <3>1, <3>2, <3>3 DEF Backed, Ahead
  <2>5. ASSUME NEW s \in Slots, NEW outcome \in Terminal, Finish(w, s, outcome) PROVE Backed(j)'
    <3>1. /\ task' = [task EXCEPT ![w][s] = Free]
          /\ task[w][s].pc = "scraping"
          /\ UNCHANGED <<queue, hand, dropped>>
      BY <2>5 DEF Finish
    <3>2. ASSUME NEW v \in Workers, NEW r \in Slots, task[v][r] = Popped(j) PROVE task'[v][r] = Popped(j)
      BY <2>0, <3>1, <3>2 DEF Popped
    <3>. QED BY <3>1, <3>2 DEF Backed, Ahead
  <2>6. CASE Cancel(w) \/ LoopExit(w) \/ Exit(w) \/ Restart(w)
    BY <2>6, BackedFrame DEF Cancel, LoopExit, Exit, Restart
  <2>7. CASE Crash(w)
    <3>1. /\ hand' = [hand EXCEPT ![w] = NoJob]
          /\ task' = [task EXCEPT ![w] = [s \in Slots |-> Free]]
          /\ dropped' = dropped \cup Waiting(w)
          /\ UNCHANGED queue
      BY <2>7 DEF Crash
    <3>2. CASE j \in Waiting(w)
      BY <3>1, <3>2 DEF Backed
    <3>3. ASSUME NEW v \in Workers, hand[v] = j, j \notin Waiting(w) PROVE hand'[v] = j
      BY <2>0, <3>1, <3>3 DEF Waiting
    <3>4. ASSUME NEW v \in Workers, NEW r \in Slots, task[v][r] = Popped(j), j \notin Waiting(w)
          PROVE  task'[v][r] = Popped(j)
      BY <2>0, <3>1, <3>4 DEF Waiting
    <3>. QED BY <3>1, <3>2, <3>3, <3>4 DEF Backed, Ahead
  <2>. QED BY <2>1, <2>2, <2>3, <2>4, <2>5, <2>6, <2>7
<1>5. CASE SupervisorNext
  <2>1. CASE RestartFlush
    BY <2>1 DEF RestartFlush
  <2>2. CASE SupCrash \/ RestartReset \/ RestartSchedule
    BY <2>2, BackedFrame DEF SupCrash, RestartReset, RestartSchedule, Schedule
  <2>. QED BY <1>5, <2>1, <2>2 DEF SupervisorNext
<1>6. CASE UNCHANGED vars
  BY <1>6, BackedFrame DEF vars
<1>. QED BY <1>1, <1>2, <1>3, <1>4, <1>5, <1>6 DEF Next

(* An executeJob ends with its copy on the list, or the status taken back, *)
(* or the failure of that counted, or with the supervisor.                 *)
LEMMA FiringStep ==
  ASSUME TypeOK, [Next]_vars, NEW j \in Jobs, Firing(j)
  PROVE  Firing(j)' \/ Backed(j)' \/ status'[j] = "scheduled" \/ sup' = "down"
<1>. USE DEF dbVars, supVars, hcVars, tx, procVars, ghosts
<1>. PICK u \in Ticks : tick[u].job = j /\ tick[u].pc \in {"push", "undo"}
  BY DEF Firing
<1>0. tick \in [Ticks -> TickStates]
  BY DEF TypeOK
<1>1. CASE TickNext
  <2>. PICK t \in Ticks : \/ \E k \in Jobs : Fire(t, k)
                          \/ TickPush(t) \/ TickResend(t) \/ TickPushFails(t) \/ TickUndo(t)
    BY <1>1 DEF TickNext
  <2>1. CASE t # u
    <3>1. tick'[u] = tick[u]
      BY <1>0, <2>1 DEF Fire, Mark, TickPush, TickResend, TickPushFails, TickUndo
    <3>. QED BY <3>1 DEF Firing
  <2>2. CASE t = u
    <3>1. ~ \E k \in Jobs : Fire(u, k)
      BY DEF Fire, Unused
    <3>2. CASE TickPush(u)
      BY <2>2, <3>2, BackedPush DEF TickPush
    <3>3. CASE TickPushFails(u) \/ TickResend(u)
      <4>1. tick'[u].pc \in {"push", "undo"} /\ tick'[u].job = j
        <5>1. CASE TickPushFails(u)
          BY <1>0, <5>1 DEF TickPushFails, Undoing
        <5>2. CASE TickResend(u)
          <6>1. tick' = [tick EXCEPT ![u] = [tick[u] EXCEPT !.left = @ - 1]] /\ tick[u].pc = "push"
            BY <5>2 DEF TickResend
          <6>. QED BY <1>0, <6>1 DEF TickStates, Unused, Done
        <5>. QED BY <3>3, <5>1, <5>2
      <4>. QED BY <4>1 DEF Firing
    <3>4. CASE TickUndo(u)
      BY <3>4 DEF TickUndo, Backed, TypeOK
    <3>. QED BY <2>2, <3>1, <3>2, <3>3, <3>4
  <2>. QED BY <2>1, <2>2
<1>2. CASE HealthCheckNext \/ RegistryNext \/ WorkerNext \/ RestartFlush \/ RestartReset
           \/ RestartSchedule \/ UNCHANGED vars
  <2>1. UNCHANGED tick
    BY <1>2
       DEF HealthCheckNext, HcQuery, HcMark, HcFind, HcLock, HcResend, HcPush, HcPushFails,
           Unlock, HcCommit, HcRollback, HcFail, HcDone,
           RegistryNext, RegisterWorker, Heartbeat, Age, ShutdownCall, ShutdownMark,
           WorkerNext, Pop, PopLost, Start, MarkRunning, Finish, Cancel, LoopExit, Exit, Crash,
           Restart, RestartFlush, RestartReset, RestartSchedule, Schedule, vars
  <2>. QED BY <2>1 DEF Firing
<1>3. CASE SupCrash
  BY <1>3 DEF SupCrash
<1>. QED BY <1>1, <1>2, <1>3 DEF Next, SupervisorNext

(* Nothing of the health check runs while the supervisor is not up.        *)
LEMMA IdleStep == TypeOK /\ IdleWhenDown /\ [Next]_vars => IdleWhenDown'
<1>. SUFFICES ASSUME TypeOK, IdleWhenDown, [Next]_vars PROVE IdleWhenDown'
  OBVIOUS
<1>. USE DEF IdleWhenDown, dbVars, supVars, hcVars, tx, procVars, ghosts
<1>1. CASE HealthCheckNext
  BY <1>1
     DEF HealthCheckNext, HcQuery, HcMark, HcFind, HcLock, HcResend, HcPush, HcPushFails, Unlock,
         HcCommit, HcRollback, HcFail, HcDone
<1>2. CASE TickNext
  BY <1>2 DEF TickNext, Fire, Mark, TickPush, TickResend, TickPushFails, TickUndo
<1>3. CASE RegistryNext
  BY <1>3 DEF RegistryNext, RegisterWorker, Heartbeat, Age, ShutdownCall, ShutdownMark
<1>4. CASE WorkerNext
  BY <1>4
     DEF WorkerNext, Pop, PopLost, Start, MarkRunning, Finish, Cancel, LoopExit, Exit, Crash,
         Restart
<1>5. CASE SupervisorNext
  BY <1>5 DEF SupervisorNext, SupCrash, RestartFlush, RestartReset, RestartSchedule, Schedule
<1>6. CASE UNCHANGED vars
  BY <1>6 DEF vars
<1>. QED BY <1>1, <1>2, <1>3, <1>4, <1>5, <1>6 DEF Next

(* Who locks a row, and what LPush does while it is locked.                *)
LEMMA LockStep ==
  ASSUME TypeOK, [Next]_vars, locked' # NoJob
  PROVE  \/ UNCHANGED tx /\ (sup' = sup \/ sup # "up")
         \/ locked' \in hcStuck /\ hcLeft' # 0 /\ UNCHANGED sup
         \/ locked' = locked /\ hcLeft' # 0 /\ UNCHANGED sup
         \/ locked' = locked /\ Push(locked) /\ UNCHANGED <<sup, hand, task>>
<1>. USE DEF dbVars, supVars, hcVars, tx, procVars, ghosts
<1>1. CASE HealthCheckNext
  BY <1>1, AttemptsType, TxType
     DEF HealthCheckNext, HcQuery, HcMark, HcFind, HcLock, HcResend, HcPush, HcPushFails, Unlock, HcCommit,
         HcRollback, HcFail, HcDone
<1>2. CASE TickNext
  BY <1>2 DEF TickNext, Fire, Mark, TickPush, TickResend, TickPushFails, TickUndo
<1>3. CASE RegistryNext
  BY <1>3 DEF RegistryNext, RegisterWorker, Heartbeat, Age, ShutdownCall, ShutdownMark
<1>4. CASE WorkerNext
  BY <1>4
     DEF WorkerNext, Pop, PopLost, Start, MarkRunning, Finish, Cancel, LoopExit, Exit, Crash,
         Restart
<1>5. CASE SupervisorNext
  BY <1>5 DEF SupervisorNext, SupCrash, RestartFlush, RestartReset, RestartSchedule, Schedule
<1>6. CASE UNCHANGED vars
  BY <1>6 DEF vars
<1>. QED BY <1>1, <1>2, <1>3, <1>4, <1>5, <1>6 DEF Next

(* The pushed copy of a locked row stays ahead of its announcement.        *)
LEMMA LockedStep ==
  TypeOK /\ TypeOK' /\ IdleWhenDown /\ LockedIsBacked /\ [Next]_vars => LockedIsBacked'
<1>. SUFFICES ASSUME TypeOK, TypeOK', IdleWhenDown, LockedIsBacked, [Next]_vars,
                     NEW k \in Jobs, locked' = k
              PROVE  sup' = "up" /\ (hcLeft' = 0 => Backed(k)')
  BY TxType DEF LockedIsBacked, Backed, Ahead, TypeOK, tx
<1>. k # NoJob
  BY NoJobAssumption
<1>1. CASE UNCHANGED tx /\ (sup' = sup \/ sup # "up")
  <2>1. sup = "up" /\ (hcLeft = 0 => Backed(k))
    BY <1>1 DEF LockedIsBacked, Backed, Ahead, tx
  <2>. QED BY <1>1, <2>1, BackedStep DEF tx
<1>2. CASE k \in hcStuck /\ hcLeft' # 0 /\ UNCHANGED sup
  BY <1>2 DEF IdleWhenDown
<1>3. CASE k = locked /\ hcLeft' # 0 /\ UNCHANGED sup
  BY <1>3 DEF LockedIsBacked
<1>4. CASE k = locked /\ Push(k) /\ UNCHANGED <<sup, hand, task>>
  BY <1>4, BackedPush DEF LockedIsBacked
<1>. QED BY <1>1, <1>2, <1>3, <1>4, LockStep

(* How a row comes to say "pending" outside a restart.                     *)
LEMMA PendingStep ==
  ASSUME TypeOK, [Next]_vars, NEW j \in Jobs, status'[j] = "pending", sup' \in {"up", "reset"}
  PROVE  \/ status[j] = "pending" /\ sup \in {"up", "reset"}
         \/ Firing(j)' \/ (locked = j /\ hcLeft = 0) \/ j \in dropped'
<1>. USE DEF dbVars, supVars, hcVars, tx, procVars, ghosts
<1>0. status \in [Jobs -> Statuses] /\ sup \in {"up", "down", "flushed", "reset"}
  BY DEF TypeOK
<1>1. CASE TickNext
  <2>. PICK t \in Ticks : \/ \E k \in Jobs : Fire(t, k)
                          \/ TickPush(t) \/ TickResend(t) \/ TickPushFails(t) \/ TickUndo(t)
    BY <1>1 DEF TickNext
  <2>1. ASSUME NEW k \in Jobs, Fire(t, k), k = j PROVE Firing(j)'
    <3>1. tick'[t] = Pushing(j, Attempts)
      BY <2>1 DEF Fire, Mark, TypeOK
    <3>. QED BY <3>1 DEF Firing, Pushing
  <2>2. ASSUME NEW k \in Jobs, Fire(t, k), k # j PROVE status[j] = "pending" /\ sup' = sup
    BY <1>0, <2>2 DEF Fire, Mark
  <2>3. CASE TickPush(t) \/ TickResend(t) \/ TickPushFails(t)
    BY <2>3 DEF TickPush, TickResend, TickPushFails
  <2>4. CASE TickUndo(t)
    BY <1>0, <2>4 DEF TickUndo
  <2>. QED BY <2>1, <2>2, <2>3, <2>4
<1>2. CASE HealthCheckNext
  BY <1>0, <1>2
     DEF HealthCheckNext, HcQuery, HcMark, HcFind, HcLock, HcResend, HcPush, HcPushFails, Unlock,
         HcCommit, HcRollback, HcFail, HcDone
<1>3. CASE RegistryNext
  BY <1>3 DEF RegistryNext, RegisterWorker, Heartbeat, Age, ShutdownCall, ShutdownMark
<1>4. CASE WorkerNext
  BY <1>0, <1>4 DEF Terminal, WorkerNext, Pop, PopLost, Start, MarkRunning, Finish, Cancel, LoopExit,
                    Exit, Crash, Restart
<1>5. CASE SupervisorNext
  BY <1>0, <1>5 DEF SupervisorNext, SupCrash, RestartFlush, RestartReset, RestartSchedule, Schedule
<1>6. CASE UNCHANGED vars
  BY <1>6 DEF vars
<1>. QED BY <1>1, <1>2, <1>3, <1>4, <1>5, <1>6 DEF Next

(* A pending row stays backed.                                             *)
LEMMA PendingBackedStep ==
  IInv /\ TypeOK' /\ [Next]_vars => PendingIsBacked'
<1>. SUFFICES ASSUME IInv, TypeOK', [Next]_vars, sup' \in {"up", "reset"},
                     NEW j \in Jobs, status'[j] = "pending"
              PROVE  Backed(j)' \/ Firing(j)'
  BY DEF PendingIsBacked, Backed
<1>. TypeOK /\ PendingIsBacked /\ LockedIsBacked
  BY DEF IInv
<1>1. CASE status[j] = "pending" /\ sup \in {"up", "reset"}
  <2>1. Backed(j) \/ Firing(j)
    BY <1>1 DEF PendingIsBacked, Backed
  <2>. QED BY <1>1, <2>1, BackedStep, FiringStep
<1>2. CASE locked = j /\ hcLeft = 0
  <2>1. sup = "up" /\ Backed(j)
    BY <1>2, NoJobAssumption DEF LockedIsBacked, Backed, Ahead
  <2>. QED BY <2>1, BackedStep
<1>3. CASE Firing(j)' \/ j \in dropped'
  BY <1>3 DEF Backed
<1>. QED BY <1>1, <1>2, <1>3, PendingStep

-----------------------------------------------------------------------------
(* Runs.                                                                   *)

(* The run on slot s of worker w of a job whose row names w.               *)
OwnedBy(j, w, s) == workerId[j] = w /\ task[w][s] = Scraping(j)

(* Only the health check, a verdict and a reset end what a row says of a   *)
(* run; a run itself ends with its verdict, or is counted as abandoned.    *)
LEMMA OwnedStep ==
  ASSUME TypeOK, [Next]_vars, NEW j \in Jobs, status[j] = "running", status'[j] = "running",
         NEW w \in Workers, NEW s \in Slots, OwnedBy(j, w, s)
  PROVE  j \in abandoned' \/ \E v \in Workers, r \in Slots : OwnedBy(j, v, r)'
<1>. USE DEF dbVars, supVars, hcVars, tx, procVars, ghosts
<1>0. /\ status \in [Jobs -> Statuses] /\ workerId \in [Jobs -> Workers \cup {NoWorker}]
      /\ task \in [Workers -> [Slots -> TaskStates]]
  BY DEF TypeOK
<1>1. CASE UNCHANGED <<workerId, task>>
  BY <1>1 DEF OwnedBy
<1>2. CASE HcCommit
  <2>1. CASE locked = j
    BY <1>0, <1>2, <2>1 DEF HcCommit, Unlock
  <2>2. CASE locked # j
    BY <1>0, <1>2, <2>2 DEF HcCommit, OwnedBy
  <2>. QED BY <2>1, <2>2
<1>3. ASSUME NEW v \in Workers, NEW r \in Slots, Start(v, r) PROVE OwnedBy(j, w, s)'
  BY <1>0, <1>3 DEF Start, OwnedBy, Free, Scraping
<1>4. ASSUME NEW v \in Workers, NEW r \in Slots, MarkRunning(v, r)
      PROVE  \E x \in Workers, y \in Slots : OwnedBy(j, x, y)'
  <2>1. task' = [task EXCEPT ![v][r] = Scraping(task[v][r].job)] /\ task[v][r].pc = "popped"
    BY <1>4 DEF MarkRunning
  <2>2. task'[w][s] = Scraping(j)
    BY <1>0, <2>1 DEF OwnedBy, Scraping
  <2>3. CASE workerId'[j] = workerId[j]
    BY <2>2, <2>3 DEF OwnedBy
  <2>4. CASE workerId'[j] # workerId[j]
    <3>1. workerId'[j] = v /\ task[v][r].job = j
      BY <1>0, <1>4, <2>4 DEF MarkRunning
    <3>2. task'[v][r] = Scraping(j)
      BY <1>0, <2>1, <3>1
    <3>. QED BY <3>1, <3>2 DEF OwnedBy
  <2>. QED BY <2>3, <2>4
<1>5. ASSUME NEW v \in Workers, NEW r \in Slots, NEW outcome \in Terminal, Finish(v, r, outcome)
      PROVE  j \in abandoned' \/ OwnedBy(j, w, s)'
  <2>1. CASE v = w /\ r = s
    <3>1. task[v][r].job = j
      BY <2>1 DEF OwnedBy, Scraping
    <3>2. status' # [status EXCEPT ![j] = outcome]
      BY <1>0 DEF Terminal
    <3>. QED BY <1>5, <3>1, <3>2 DEF Finish
  <2>2. CASE ~ (v = w /\ r = s)
    <3>1. task' = [task EXCEPT ![v][r] = Free] /\ UNCHANGED workerId
      BY <1>5 DEF Finish
    <3>. QED BY <1>0, <2>2, <3>1 DEF OwnedBy
  <2>. QED BY <2>1, <2>2
<1>6. ASSUME NEW v \in Workers, Crash(v) PROVE j \in abandoned' \/ OwnedBy(j, w, s)'
  <2>1. /\ task' = [task EXCEPT ![v] = [r \in Slots |-> Free]]
        /\ abandoned' = abandoned \cup Running(v)
        /\ UNCHANGED workerId
    BY <1>6 DEF Crash
  <2>2. CASE v = w
    BY <2>1, <2>2 DEF OwnedBy, Running
  <2>3. CASE v # w
    BY <1>0, <2>1, <2>3 DEF OwnedBy
  <2>. QED BY <2>2, <2>3
<1>7. \/ UNCHANGED <<workerId, task>>
      \/ HcCommit
      \/ \E v \in Workers, r \in Slots : Start(v, r) \/ MarkRunning(v, r)
      \/ \E v \in Workers, r \in Slots, outcome \in Terminal : Finish(v, r, outcome)
      \/ \E v \in Workers : Crash(v)
  <2>1. CASE TickNext
    BY <2>1 DEF TickNext, Fire, Mark, TickPush, TickResend, TickPushFails, TickUndo
  <2>2. CASE HealthCheckNext
    BY <2>2
       DEF HealthCheckNext, HcQuery, HcMark, HcFind, HcLock, HcResend, HcPush, HcPushFails, Unlock,
           HcRollback, HcFail, HcDone
  <2>3. CASE RegistryNext
    BY <2>3 DEF RegistryNext, RegisterWorker, Heartbeat, Age, ShutdownCall, ShutdownMark
  <2>4. CASE WorkerNext
    BY <2>4 DEF WorkerNext, Pop, PopLost, Cancel, LoopExit, Exit, Restart
  <2>5. CASE SupervisorNext
    BY <2>5 DEF SupervisorNext, SupCrash, RestartFlush, RestartReset, RestartSchedule, Schedule
  <2>6. CASE UNCHANGED vars
    BY <2>6 DEF vars
  <2>. QED BY <2>1, <2>2, <2>3, <2>4, <2>5, <2>6 DEF Next
<1>. QED BY <1>1, <1>2, <1>3, <1>4, <1>5, <1>6, <1>7

(* How a row comes to say "running", and when a run stops being abandoned. *)
LEMMA RunningStep ==
  ASSUME TypeOK, [Next]_vars, NEW j \in Jobs, status'[j] = "running"
  PROVE  \/ status[j] = "running" /\ abandoned \subseteq abandoned' \cup {k \in Jobs : k # j}
         \/ \E w \in Workers, s \in Slots : OwnedBy(j, w, s)'
<1>. USE DEF dbVars, supVars, hcVars, tx, procVars, ghosts
<1>0. /\ status \in [Jobs -> Statuses] /\ workerId \in [Jobs -> Workers \cup {NoWorker}]
      /\ task \in [Workers -> [Slots -> TaskStates]] /\ abandoned \subseteq Jobs
  BY DEF TypeOK
<1>1. CASE TickNext
  BY <1>0, <1>1 DEF TickNext, Fire, Mark, TickPush, TickResend, TickPushFails, TickUndo
<1>2. CASE HealthCheckNext
  BY <1>0, <1>2
     DEF HealthCheckNext, HcQuery, HcMark, HcFind, HcLock, HcResend, HcPush, HcPushFails, Unlock,
         HcCommit, HcRollback, HcFail, HcDone
<1>3. CASE RegistryNext
  BY <1>0, <1>3 DEF RegistryNext, RegisterWorker, Heartbeat, Age, ShutdownCall, ShutdownMark
<1>4. CASE WorkerNext
  <2>1. ASSUME NEW w \in Workers, NEW s \in Slots, MarkRunning(w, s), task[w][s].job = j
        PROVE  \/ status[j] = "running" /\ abandoned \subseteq abandoned'
               \/ OwnedBy(j, w, s)'
    BY <1>0, <2>1 DEF MarkRunning, OwnedBy, Scraping
  <2>2. ASSUME NEW w \in Workers, NEW s \in Slots, MarkRunning(w, s), task[w][s].job # j
        PROVE  status[j] = "running" /\ abandoned \subseteq abandoned' \cup {k \in Jobs : k # j}
    BY <1>0, <2>2 DEF MarkRunning
  <2>3. ASSUME NEW w \in Workers, NEW s \in Slots, NEW outcome \in Terminal, Finish(w, s, outcome)
        PROVE  status[j] = "running" /\ abandoned \subseteq abandoned'
    BY <1>0, <2>3 DEF Finish, Terminal
  <2>. QED BY <1>0, <1>4, <2>1, <2>2, <2>3
           DEF WorkerNext, Pop, PopLost, Start, Cancel, LoopExit, Exit, Crash, Restart
<1>5. CASE SupervisorNext
  BY <1>0, <1>5 DEF SupervisorNext, SupCrash, RestartFlush, RestartReset, RestartSchedule, Schedule
<1>6. CASE UNCHANGED vars
  BY <1>0, <1>6 DEF vars
<1>. QED BY <1>1, <1>2, <1>3, <1>4, <1>5, <1>6 DEF Next

(* A running row stays owned.                                              *)
LEMMA RunningOwnedStep == TypeOK /\ RunningIsOwned /\ [Next]_vars => RunningIsOwned'
<1>. SUFFICES ASSUME TypeOK, RunningIsOwned, [Next]_vars, NEW j \in Jobs, status'[j] = "running"
              PROVE  j \in abandoned' \/ \E w \in Workers, s \in Slots : OwnedBy(j, w, s)'
  BY DEF RunningIsOwned, Running, OwnedBy
<1>1. CASE status[j] = "running" /\ abandoned \subseteq abandoned' \cup {k \in Jobs : k # j}
  <2>1. j \in abandoned \/ \E w \in Workers, s \in Slots : OwnedBy(j, w, s)
    BY <1>1 DEF RunningIsOwned, Running, OwnedBy
  <2>2. CASE j \in abandoned
    BY <1>1, <2>2
  <2>3. CASE \E w \in Workers, s \in Slots : OwnedBy(j, w, s)
    BY <1>1, <2>3, OwnedStep
  <2>. QED BY <2>1, <2>2, <2>3
<1>. QED BY <1>1, RunningStep

-----------------------------------------------------------------------------
(* IInv is inductive and true of the initial states.                       *)
THEOREM Inductive == Spec => []IInv
<1>1. Init => IdleWhenDown /\ LockedIsBacked /\ PendingIsBacked /\ RunningIsOwned
  BY DEF Init, IdleWhenDown, LockedIsBacked, PendingIsBacked, RunningIsOwned
<1>2. IInv /\ [Next]_vars => IInv'
  BY TypeStep, IdleStep, LockedStep, PendingBackedStep, RunningOwnedStep DEF IInv
<1>. QED BY InitType, <1>1, <1>2, PTL DEF Spec, IInv

(* A pending row of a serving supervisor has a copy on its way to a run,   *)
(* whatever crashes, stops, fails or is requeued (executeJob,              *)
(* requeueWorkerJobs, StartListening, LoadAndScheduleAllJobs).             *)
THEOREM PendingAlwaysBacked == Spec => []PendingIsBacked
<1>1. IInv => PendingIsBacked
  BY DEF IInv
<1>. QED BY <1>1, Inductive, PTL

(* A running row names a worker that runs the job, unless the run ended    *)
(* unrecorded (updateJobStatus against HcCommit, resets and crashes).      *)
THEOREM RunningAlwaysOwned == Spec => []RunningIsOwned
<1>1. IInv => RunningIsOwned
  BY DEF IInv
<1>. QED BY <1>1, Inductive, PTL

(* The row lock of requeueWorkerJobs keeps its copy from being announced.  *)
THEOREM LockedAlwaysBacked == Spec => []LockedIsBacked
<1>1. IInv => LockedIsBacked
  BY DEF IInv
<1>. QED BY <1>1, Inductive, PTL

-----------------------------------------------------------------------------
(* Recovery, when workers may crash and nothing else goes wrong.           *)

(* Then a live worker is never stale, and a dead one holds nothing.        *)
CrashesOnly ==
    /\ sup = "up" /\ asked = {} /\ shutting = {}
    /\ \A w \in Workers :
        /\ proc[w] \in {"up", "down"}
        /\ proc[w] = "up" => wrow[w] \in {"absent", "active"}
        /\ proc[w] = "down" => \A s \in Slots : task[w][s] = Free
        /\ proc[w] = "down" => hand[w] = NoJob

(* The health check handles dead workers, and a requeue under way is of a  *)
(* job it has still on its list.                                           *)
HealthCheckPhases ==
    /\ \A w \in Workers : w \in hcList \/ w = hcCur => proc[w] = "down"
    /\ hcCur = NoWorker => ~hcFound
    /\ ~hcFound => hcStuck = {}
    /\ locked # NoJob => locked \in hcStuck

(* The inductive invariant of the recovery.                                *)
RInv == TypeOK /\ CrashesOnly /\ HealthCheckPhases /\ DeadWorkersJobsInReach

LEMMA CrashesOnlyStep ==
  Faults \subseteq {"crash"} /\ RInv /\ [Next]_vars => CrashesOnly' /\ HealthCheckPhases'
<1>. SUFFICES ASSUME Faults \subseteq {"crash"}, TypeOK, CrashesOnly, HealthCheckPhases, [Next]_vars
              PROVE  CrashesOnly' /\ HealthCheckPhases'
  BY DEF RInv
<1>. USE DEF dbVars, supVars, hcVars, tx, procVars, ghosts
<1>0. /\ proc \in [Workers -> {"up", "stopping", "draining", "down"}]
      /\ wrow \in [Workers -> {"absent", "active", "stale", "offline", "shutdown"}]
      /\ hand \in [Workers -> Jobs \cup {NoJob}]
      /\ task \in [Workers -> [Slots -> TaskStates]]
      /\ hcList \subseteq Workers /\ hcCur \in Workers \cup {NoWorker} /\ hcStuck \subseteq Jobs
  BY DEF TypeOK
<1>1. CASE TickNext \/ UNCHANGED vars
  BY <1>1
     DEF TickNext, Fire, Mark, TickPush, TickResend, TickPushFails, TickUndo, vars, CrashesOnly,
         HealthCheckPhases
<1>2. CASE HealthCheckNext
  <2>1. CrashesOnly'
    <3>1. ASSUME NEW w \in Workers, HcMark(w) PROVE CrashesOnly'
      BY <1>0, <3>1 DEF HcMark, CrashesOnly, HealthCheckPhases
    <3>. QED BY <1>2, <3>1
       DEF HealthCheckNext, HcQuery, HcFind, HcLock, HcResend, HcPush, HcPushFails, Unlock,
           HcCommit, HcRollback, HcFail,
                               HcDone, CrashesOnly
  <2>2. HealthCheckPhases'
    BY <1>0, <1>2
       DEF HealthCheckNext, HcQuery, Stale, HcMark, HcFind, HcLock, HcResend, HcPush, HcPushFails,
           Unlock, HcCommit, HcRollback, HcFail,
                      HcDone, CrashesOnly, HealthCheckPhases
  <2>. QED BY <2>1, <2>2
<1>3. CASE RegistryNext
  BY <1>0, <1>3 DEF RegistryNext, RegisterWorker, Heartbeat, Age, ShutdownCall, ShutdownMark, Touch,
                    CrashesOnly, HealthCheckPhases
<1>4. CASE WorkerNext
  <2>. PICK w \in Workers : \/ Pop(w) \/ PopLost(w)
                            \/ \E s \in Slots : Start(w, s) \/ MarkRunning(w, s)
                            \/ \E s \in Slots, outcome \in Terminal : Finish(w, s, outcome)
                            \/ Cancel(w) \/ LoopExit(w) \/ Exit(w) \/ Crash(w) \/ Restart(w)
    BY <1>4 DEF WorkerNext
  <2>1. CASE Pop(w)
    BY <1>0, <2>1 DEF Pop, CrashesOnly, HealthCheckPhases
  <2>2. ASSUME NEW s \in Slots, Start(w, s) PROVE CrashesOnly' /\ HealthCheckPhases'
    BY <1>0, <2>2 DEF Start, CrashesOnly, HealthCheckPhases
  <2>3. ASSUME NEW s \in Slots, MarkRunning(w, s) PROVE CrashesOnly' /\ HealthCheckPhases'
    <3>1. proc[w] # "down"
      BY <2>3 DEF MarkRunning, CrashesOnly, Free
    <3>. QED BY <1>0, <2>3, <3>1 DEF MarkRunning, CrashesOnly, HealthCheckPhases
  <2>4. ASSUME NEW s \in Slots, NEW outcome \in Terminal, Finish(w, s, outcome)
        PROVE  CrashesOnly' /\ HealthCheckPhases'
    BY <1>0, <2>4 DEF Finish, CrashesOnly, HealthCheckPhases
  <2>5. CASE Crash(w)
    BY <1>0, <2>5 DEF Crash, CrashesOnly, HealthCheckPhases
  <2>6. ~ (PopLost(w) \/ Cancel(w) \/ LoopExit(w) \/ Exit(w) \/ Restart(w))
    BY DEF PopLost, Cancel, LoopExit, Exit, Restart, CrashesOnly
  <2>. QED BY <2>1, <2>2, <2>3, <2>4, <2>5, <2>6
<1>5. ~ SupervisorNext
  BY DEF SupervisorNext, SupCrash, RestartFlush, RestartReset, RestartSchedule, Schedule, CrashesOnly
<1>. QED BY <1>1, <1>2, <1>3, <1>4, <1>5 DEF Next

(* No step puts a dead worker's job out of the health check's reach.       *)
LEMMA ReachStep ==
  Faults \subseteq {"crash"} /\ RInv /\ [Next]_vars => DeadWorkersJobsInReach'
<1>. SUFFICES ASSUME Faults \subseteq {"crash"}, RInv, [Next]_vars, NEW j \in Jobs, NEW w \in Workers,
                     status'[j] = "running", workerId'[j] = w, proc'[w] = "down"
              PROVE  \/ wrow'[w] \in {"absent", "active", "stale"}
                     \/ w \in hcList'
                     \/ hcCur' = w /\ (~hcFound' \/ j \in hcStuck')
  BY DEF DeadWorkersJobsInReach
<1>. USE DEF dbVars, supVars, hcVars, tx, procVars, ghosts
<1>0. /\ status \in [Jobs -> Statuses] /\ workerId \in [Jobs -> Workers \cup {NoWorker}]
      /\ proc \in [Workers -> {"up", "stopping", "draining", "down"}]
      /\ wrow \in [Workers -> {"absent", "active", "stale", "offline", "shutdown"}]
      /\ CrashesOnly /\ HealthCheckPhases
  BY DEF RInv, TypeOK
<1>. DEFINE InReach == \/ wrow[w] \in {"absent", "active", "stale"}
                       \/ w \in hcList
                       \/ hcCur = w /\ (~hcFound \/ j \in hcStuck)
<1>r. status[j] = "running" /\ workerId[j] = w /\ proc[w] = "down" => InReach
  BY <1>0 DEF RInv, DeadWorkersJobsInReach, CrashesOnly
<1>1. CASE TickNext \/ UNCHANGED vars
  BY <1>0, <1>r, <1>1 DEF TickNext, Fire, Mark, TickPush, TickResend, TickPushFails, TickUndo, vars
<1>2. CASE HealthCheckNext
  <2>1. CASE HcQuery
    BY <1>r, <2>1, <1>0 DEF HcQuery, Stale
  <2>2. ASSUME NEW v \in Workers, HcMark(v) PROVE InReach'
    BY <1>0, <1>r, <2>2, NoWorkerAssumption DEF HcMark, HealthCheckPhases
  <2>3. CASE HcFind
    BY <1>0, <1>r, <2>3 DEF HcFind, StuckJobs
  <2>4. CASE HcCommit
    BY <1>0, <1>r, <2>4 DEF HcCommit, Unlock
  <2>5. CASE HcDone
    BY <1>0, <1>r, <2>5 DEF HcDone
  <2>6. CASE (\E k \in Jobs : HcLock(k)) \/ HcPush \/ HcResend
    BY <1>r, <2>6 DEF HcLock, HcPush, HcResend
  <2>7. ~ HcPushFails /\ ~ HcRollback /\ ~ \E k \in Jobs : HcFail(k)
    BY DEF HcPushFails, HcRollback, HcFail
  <2>. QED BY <1>2, <2>1, <2>2, <2>3, <2>4, <2>5, <2>6, <2>7 DEF HealthCheckNext
<1>3. CASE RegistryNext
  BY <1>0, <1>r, <1>3
     DEF RegistryNext, RegisterWorker, Heartbeat, Age, ShutdownCall, ShutdownMark, Touch,
                          CrashesOnly
<1>4. CASE WorkerNext
  <2>. PICK v \in Workers : \/ Pop(v) \/ PopLost(v)
                            \/ \E s \in Slots : Start(v, s) \/ MarkRunning(v, s)
                            \/ \E s \in Slots, outcome \in Terminal : Finish(v, s, outcome)
                            \/ Cancel(v) \/ LoopExit(v) \/ Exit(v) \/ Crash(v) \/ Restart(v)
    BY <1>4 DEF WorkerNext
  <2>1. CASE Pop(v)
    BY <1>0, <1>r, <2>1 DEF Pop, CrashesOnly
  <2>2. ASSUME NEW s \in Slots, Start(v, s) PROVE InReach'
    BY <1>r, <2>2 DEF Start
  <2>3. ASSUME NEW s \in Slots, MarkRunning(v, s) PROVE InReach'
    <3>1. proc[v] # "down" /\ UNCHANGED <<proc, hcVars, wrow>>
      BY <1>0, <2>3 DEF MarkRunning, CrashesOnly, Free
    <3>2. status[j] = "running" /\ workerId[j] = w
      BY <1>0, <2>3, <3>1 DEF MarkRunning
    <3>. QED BY <1>r, <3>1, <3>2
  <2>4. ASSUME NEW s \in Slots, NEW outcome \in Terminal, Finish(v, s, outcome) PROVE InReach'
    BY <1>0, <1>r, <2>4 DEF Finish, Terminal
  <2>5. CASE Crash(v)
    BY <1>0, <1>r, <2>5 DEF Crash, CrashesOnly
  <2>6. ~ (PopLost(v) \/ Cancel(v) \/ LoopExit(v) \/ Exit(v) \/ Restart(v))
    BY <1>0 DEF PopLost, Cancel, LoopExit, Exit, Restart, CrashesOnly
  <2>. QED BY <2>1, <2>2, <2>3, <2>4, <2>5, <2>6
<1>5. ~ SupervisorNext
  BY <1>0
     DEF SupervisorNext, SupCrash, RestartFlush, RestartReset, RestartSchedule, Schedule,
         CrashesOnly
<1>. QED BY <1>1, <1>2, <1>3, <1>4, <1>5 DEF Next

(* While crashes of workers are all that happens, and a crashed worker     *)
(* stays down, the running jobs of a dead worker are where checkAndRecover *)
(* will find them.                                                         *)
THEOREM DeadJobsStayInReach ==
  ASSUME Faults \subseteq {"crash"}
  PROVE  Spec => []DeadWorkersJobsInReach
<1>1. Init => RInv
  BY InitType DEF RInv, Init, CrashesOnly, HealthCheckPhases, DeadWorkersJobsInReach
<1>2. RInv /\ [Next]_vars => RInv'
  BY TypeStep, CrashesOnlyStep, ReachStep DEF RInv
<1>3. RInv => DeadWorkersJobsInReach
  BY DEF RInv
<1>. QED BY <1>1, <1>2, <1>3, PTL DEF Spec

=============================================================================
