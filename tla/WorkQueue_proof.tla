--------------------------- MODULE WorkQueue_proof ---------------------------
(* JobDispatch implements WorkQueue, for any jobs, workers, slots, firings *)
(* and faults: every step changes the numbers of copies and runs as one of *)
(* WorkQueue's does.                                                       *)
EXTENDS JobDispatch_proof, FunctionTheorems, FiniteSetTheorems

-----------------------------------------------------------------------------
(* What is counted.                                                        *)

Positions(q, j) == {i \in 1 .. Len(q) : q[i] = j}
Hands(j) == {w \in Workers : hand[w] = j}
Places(x) == {p \in Workers \X Slots : task[p[1]][p[2]] = x}
PushesLeft(j) == {p \in Ticks \X (1 .. Attempts) : tick[p[1]].job = j /\ p[2] <= tick[p[1]].left}

LEMMA Counts ==
  ASSUME NEW j
  PROVE  /\ CopiesOf(j) = Cardinality(Positions(queue, j)) + Cardinality(Hands(j))
                              + Cardinality(Places(Popped(j)))
         /\ CopiesOf(j)' = Cardinality(Positions(queue', j)) + Cardinality(Hands(j)')
                              + Cardinality(Places(Popped(j))')
         /\ RunsOf(j) = Cardinality(Places(Scraping(j)))
         /\ RunsOf(j)' = Cardinality(Places(Scraping(j))')
  BY DEF CopiesOf, RunsOf, Positions, Hands, Places, Popped, Scraping

(* Copies and runs are finitely many although nothing says that workers,   *)
(* slots or firings are: a step adds one of them at most, and a firing     *)
(* with it the attempts of its LPUSH.                                      *)
Finite ==
    \A j \in Jobs :
        /\ IsFiniteSet(Hands(j)) /\ IsFiniteSet(PushesLeft(j))
        /\ IsFiniteSet(Places(Popped(j))) /\ IsFiniteSet(Places(Scraping(j)))

(* The positions of a job on a list, on a longer and on a shorter one.     *)
LEMMA PositionsFinite ==
  ASSUME NEW q \in Seq(Jobs), NEW j
  PROVE  IsFiniteSet(Positions(q, j)) /\ Cardinality(Positions(q, j)) \in Nat
<1>1. IsFiniteSet(1 .. Len(q))
  BY FS_Interval
<1>2. Positions(q, j) \in SUBSET (1 .. Len(q))
  BY DEF Positions
<1>. QED BY <1>1, <1>2, FS_Subset, FS_CardinalityType

LEMMA PositionsAppend ==
  ASSUME NEW q \in Seq(Jobs), NEW k \in Jobs, NEW j
  PROVE  Cardinality(Positions(Append(q, k), j))
             = Cardinality(Positions(q, j)) + (IF j = k THEN 1 ELSE 0)
<1>1. Len(q) \in Nat /\ Len(Append(q, k)) = Len(q) + 1
  OBVIOUS
<1>2. \A i \in 1 .. Len(q) : Append(q, k)[i] = q[i]
  OBVIOUS
<1>3. Append(q, k)[Len(q) + 1] = k
  OBVIOUS
<1>4. CASE j = k
  <2>1. Positions(Append(q, k), j) = Positions(q, j) \cup {Len(q) + 1}
    BY <1>1, <1>2, <1>3, <1>4 DEF Positions
  <2>2. Len(q) + 1 \notin Positions(q, j)
    BY <1>1 DEF Positions
  <2>. QED BY <1>4, <2>1, <2>2, PositionsFinite, FS_AddElement
<1>5. CASE j # k
  <2>1. Positions(Append(q, k), j) = Positions(q, j)
    BY <1>1, <1>2, <1>3, <1>5 DEF Positions
  <2>. QED BY <1>5, <2>1, PositionsFinite
<1>. QED BY <1>4, <1>5

LEMMA PositionsTail ==
  ASSUME NEW q \in Seq(Jobs), q # <<>>, NEW j
  PROVE  Cardinality(Positions(q, j))
             = Cardinality(Positions(Tail(q), j)) + (IF j = Head(q) THEN 1 ELSE 0)
<1>. DEFINE S == Positions(q, j) \ {1}
            T == Positions(Tail(q), j)
            f == [i \in S |-> i - 1]
<1>1. Len(q) \in Nat \ {0} /\ Len(Tail(q)) = Len(q) - 1 /\ q[1] = Head(q)
  OBVIOUS
<1>2. \A i \in 1 .. Len(q) - 1 : Tail(q)[i] = q[i + 1]
  OBVIOUS
<1>3. f \in Bijection(S, T)
  <2>1. f \in [S -> T]
    BY <1>1, <1>2 DEF Positions
  <2>2. \A a, b \in S : f[a] = f[b] => a = b
    BY DEF Positions
  <2>3. \A i \in T : i + 1 \in S /\ f[i + 1] = i
    BY <1>1, <1>2 DEF Positions
  <2>. QED BY <2>1, <2>2, <2>3, Fun_IsBij
<1>4. Cardinality(T) = Cardinality(S)
  BY <1>3, PositionsFinite, FS_RemoveElement, FS_Bijection DEF ExistsBijection
<1>5. 1 \in Positions(q, j) <=> j = Head(q)
  BY <1>1 DEF Positions
<1>6. Cardinality(S) = IF j = Head(q) THEN Cardinality(Positions(q, j)) - 1
                                      ELSE Cardinality(Positions(q, j))
  BY <1>5, PositionsFinite, FS_RemoveElement
<1>. QED BY <1>4, <1>6, PositionsFinite

(* One element more, or one less. *)
LEMMA OneMore ==
  ASSUME NEW S, NEW T, NEW x, NEW more \in BOOLEAN, IsFiniteSet(S), x \notin S,
         T = IF more THEN S \cup {x} ELSE S
  PROVE  /\ Cardinality(T) = Cardinality(S) + (IF more THEN 1 ELSE 0)
         /\ Cardinality(S) \in Nat
  BY FS_AddElement, FS_CardinalityType

LEMMA OneLess ==
  ASSUME NEW S, NEW T, NEW x, IsFiniteSet(S), T = S \ {x}
  PROVE  /\ Cardinality(S) = Cardinality(T) + (IF x \in S THEN 1 ELSE 0)
         /\ Cardinality(T) \in Nat
<1>1. IsFiniteSet(T) /\ Cardinality(S) \in Nat
  BY FS_RemoveElement, FS_CardinalityType
<1>. QED BY <1>1, FS_RemoveElement, FS_CardinalityType

-----------------------------------------------------------------------------
(* A step adds one at most to what is counted.                             *)

LEMMA WithinOne ==
  ASSUME NEW S, NEW T, NEW x, IsFiniteSet(S), T \subseteq S \cup {x}
  PROVE  IsFiniteSet(T)
<1>1. IsFiniteSet(S \cup {x})
  BY FS_AddElement
<1>. QED BY <1>1, FS_Subset

LEMMA WithinFiring ==
  ASSUME NEW S, NEW T, NEW t, IsFiniteSet(S), T \subseteq S \cup ({t} \X (1 .. Attempts))
  PROVE  IsFiniteSet(T)
<1>1. IsFiniteSet({t})
  BY FS_Singleton
<1>2. 1 \in Int /\ Attempts \in Int
  BY AttemptsType
<1>3. IsFiniteSet(1 .. Attempts)
  BY <1>2, FS_Interval
<1>4. IsFiniteSet({t} \X (1 .. Attempts))
  BY <1>1, <1>3, FS_Product
<1>5. IsFiniteSet(S \cup ({t} \X (1 .. Attempts)))
  BY <1>4, FS_Union
<1>. QED BY <1>5, FS_Subset

LEMMA PushesFrame ==
  ASSUME NEW t, \A u \in Ticks \ {t} : tick'[u] = tick[u], NEW j
  PROVE  PushesLeft(j)' \subseteq PushesLeft(j) \cup ({t} \X (1 .. Attempts))
<1>. SUFFICES ASSUME NEW p \in PushesLeft(j)', p[1] # t PROVE p \in PushesLeft(j)
  BY DEF PushesLeft
<1>. QED BY DEF PushesLeft

LEMMA PushesWithin ==
  ASSUME TypeOK, [Next]_vars, NEW j \in Jobs
  PROVE  \E t : PushesLeft(j)' \subseteq PushesLeft(j) \cup ({t} \X (1 .. Attempts))
<1>. USE DEF TypeOK, dbVars, supVars, hcVars, tx, procVars, ghosts
<1>1. ASSUME NEW t \in Ticks,
             (\E k \in Jobs : Fire(t, k)) \/ TickPush(t) \/ TickResend(t) \/ TickPushFails(t) \/ TickUndo(t)
      PROVE  PushesLeft(j)' \subseteq PushesLeft(j) \cup ({t} \X (1 .. Attempts))
  <2>1. \A u \in Ticks \ {t} : tick'[u] = tick[u]
    BY <1>1 DEF Fire, Mark, TickPush, TickResend, TickPushFails, TickUndo
  <2>. QED BY <2>1, PushesFrame
<1>2. CASE SupCrash
  <2>1. \A u \in Ticks : tick'[u].left = 0
    BY <1>2 DEF SupCrash, Unused, Done
  <2>2. PushesLeft(j)' = {}
    BY <2>1 DEF PushesLeft
  <2>. QED BY <2>2
<1>3. CASE UNCHANGED tick
  BY <1>3, PushesFrame
<1>4. \/ UNCHANGED tick
      \/ SupCrash
      \/ \E t \in Ticks : \/ \E k \in Jobs : Fire(t, k)
                         \/ TickPush(t) \/ TickResend(t) \/ TickPushFails(t) \/ TickUndo(t)
  <2>1. CASE TickNext
    BY <2>1 DEF TickNext
  <2>2. CASE HealthCheckNext
    BY <2>2
       DEF HealthCheckNext, HcQuery, HcMark, HcFind, HcLock, HcResend, HcPush, HcPushFails, Unlock,
           HcCommit, HcRollback, HcFail, HcDone
  <2>3. CASE RegistryNext
    BY <2>3 DEF RegistryNext, RegisterWorker, Heartbeat, Age, ShutdownCall, ShutdownMark
  <2>4. CASE WorkerNext
    BY <2>4
       DEF WorkerNext, Pop, PopLost, Start, MarkRunning, Finish, Cancel, LoopExit, Exit, Crash,
           Restart
  <2>5. CASE SupervisorNext
    BY <2>5 DEF SupervisorNext, RestartFlush, RestartReset, RestartSchedule, Schedule
  <2>6. CASE UNCHANGED vars
    BY <2>6 DEF vars
  <2>. QED BY <2>1, <2>2, <2>3, <2>4, <2>5, <2>6 DEF Next
<1>. QED BY <1>1, <1>2, <1>3, <1>4

(* The steps of a worker that touch its hand or its slots.                 *)
LEMMA HandsAndSlotsStep ==
  ASSUME [Next]_vars
  PROVE  \/ UNCHANGED <<hand, task>>
         \/ \E w \in Workers : Pop(w)
         \/ \E w \in Workers, s \in Slots : Start(w, s) \/ MarkRunning(w, s)
         \/ \E w \in Workers, s \in Slots, outcome \in Terminal : Finish(w, s, outcome)
         \/ \E w \in Workers : Crash(w)
<1>. USE DEF dbVars, supVars, hcVars, tx, procVars, ghosts
<1>1. CASE TickNext
  BY <1>1 DEF TickNext, Fire, Mark, TickPush, TickResend, TickPushFails, TickUndo
<1>2. CASE HealthCheckNext
  BY <1>2
     DEF HealthCheckNext, HcQuery, HcMark, HcFind, HcLock, HcResend, HcPush, HcPushFails, Unlock,
         HcCommit, HcRollback, HcFail, HcDone
<1>3. CASE RegistryNext
  BY <1>3 DEF RegistryNext, RegisterWorker, Heartbeat, Age, ShutdownCall, ShutdownMark
<1>4. CASE WorkerNext
  BY <1>4 DEF WorkerNext, PopLost, Cancel, LoopExit, Exit, Restart
<1>5. CASE SupervisorNext
  BY <1>5 DEF SupervisorNext, SupCrash, RestartFlush, RestartReset, RestartSchedule, Schedule
<1>6. CASE UNCHANGED vars
  BY <1>6 DEF vars
<1>. QED BY <1>1, <1>2, <1>3, <1>4, <1>5, <1>6 DEF Next

(* What each of them does to the hands and to the slots.                   *)
LEMMA PopHands ==
  ASSUME TypeOK, NEW w \in Workers, Pop(w), NEW j \in Jobs
  PROVE  /\ w \notin Hands(j)
         /\ Hands(j)' = IF j = Head(queue) THEN Hands(j) \cup {w} ELSE Hands(j)
         /\ \A x : Places(x)' = Places(x)
<1>1. hand \in [Workers -> Jobs \cup {NoJob}] /\ hand[w] = NoJob
      /\ hand' = [hand EXCEPT ![w] = Head(queue)] /\ UNCHANGED task
  BY DEF Pop, TypeOK
<1>. QED BY <1>1, NoJobAssumption DEF Hands, Places

LEMMA StartHands ==
  ASSUME TypeOK, NEW w \in Workers, NEW s \in Slots, Start(w, s), NEW j \in Jobs
  PROVE  /\ w \in Hands(j) <=> j = hand[w]
         /\ Hands(j)' = Hands(j) \ {w}
         /\ <<w, s>> \notin Places(Popped(j))
         /\ Places(Popped(j))' = IF j = hand[w] THEN Places(Popped(j)) \cup {<<w, s>>} ELSE Places(Popped(j))
         /\ Places(Scraping(j))' = Places(Scraping(j))
<1>1. /\ hand \in [Workers -> Jobs \cup {NoJob}] /\ task \in [Workers -> [Slots -> TaskStates]]
      /\ hand[w] # NoJob /\ task[w][s] = Free
      /\ hand' = [hand EXCEPT ![w] = NoJob] /\ task' = [task EXCEPT ![w][s] = Popped(hand[w])]
  BY DEF Start, TypeOK
<1>2. \A v \in Workers, r \in Slots : task'[v][r] = IF v = w /\ r = s THEN Popped(hand[w]) ELSE task[v][r]
  BY <1>1
<1>3. Hands(j)' = Hands(j) \ {w} /\ (w \in Hands(j) <=> j = hand[w])
  BY <1>1, NoJobAssumption DEF Hands
<1>4. <<w, s>> \notin Places(Popped(j)) /\ <<w, s>> \notin Places(Scraping(j))
  BY <1>1 DEF Places, Free, Popped, Scraping
<1>5. Places(Scraping(j))' = Places(Scraping(j))
  BY <1>1, <1>2, <1>4 DEF Places, Popped, Scraping
<1>6. Places(Popped(j))' = IF j = hand[w] THEN Places(Popped(j)) \cup {<<w, s>>} ELSE Places(Popped(j))
  BY <1>1, <1>2, <1>4 DEF Places, Popped
<1>. QED BY <1>3, <1>4, <1>5, <1>6

LEMMA MarkRunningPlaces ==
  ASSUME TypeOK, NEW w \in Workers, NEW s \in Slots, MarkRunning(w, s), NEW j \in Jobs
  PROVE  /\ <<w, s>> \in Places(Popped(j)) <=> j = task[w][s].job
         /\ Places(Popped(j))' = Places(Popped(j)) \ {<<w, s>>}
         /\ <<w, s>> \notin Places(Scraping(j))
         /\ Places(Scraping(j))' = IF j = task[w][s].job THEN Places(Scraping(j)) \cup {<<w, s>>}
                                                         ELSE Places(Scraping(j))
         /\ Hands(j)' = Hands(j)
<1>1. /\ task \in [Workers -> [Slots -> TaskStates]]
      /\ task[w][s].pc = "popped" /\ UNCHANGED hand
      /\ task' = [task EXCEPT ![w][s] = Scraping(task[w][s].job)]
  BY DEF MarkRunning, TypeOK
<1>2. \A v \in Workers, r \in Slots :
          task'[v][r] = IF v = w /\ r = s THEN Scraping(task[w][s].job) ELSE task[v][r]
  BY <1>1
<1>3. task[w][s] = Popped(task[w][s].job)
  BY <1>1 DEF TaskStates, Free, Popped
<1>4. /\ <<w, s>> \in Places(Popped(j)) <=> j = task[w][s].job
      /\ <<w, s>> \notin Places(Scraping(j))
  BY <1>3 DEF Places, Popped, Scraping
<1>5. Places(Popped(j))' = Places(Popped(j)) \ {<<w, s>>}
  BY <1>2, <1>3 DEF Places, Popped, Scraping
<1>6. Places(Scraping(j))' = IF j = task[w][s].job THEN Places(Scraping(j)) \cup {<<w, s>>}
                                                   ELSE Places(Scraping(j))
  BY <1>2, <1>4 DEF Places, Scraping
<1>. QED BY <1>1, <1>4, <1>5, <1>6 DEF Hands

LEMMA FinishPlaces ==
  ASSUME TypeOK, NEW w \in Workers, NEW s \in Slots, NEW outcome \in Terminal, Finish(w, s, outcome),
         NEW j \in Jobs
  PROVE  /\ <<w, s>> \in Places(Scraping(j)) <=> j = task[w][s].job
         /\ Places(Scraping(j))' = Places(Scraping(j)) \ {<<w, s>>}
         /\ Places(Popped(j))' = Places(Popped(j))
         /\ Hands(j)' = Hands(j)
<1>1. /\ task \in [Workers -> [Slots -> TaskStates]]
      /\ task[w][s].pc = "scraping" /\ UNCHANGED hand
      /\ task' = [task EXCEPT ![w][s] = Free]
  BY DEF Finish, TypeOK
<1>2. \A v \in Workers, r \in Slots : task'[v][r] = IF v = w /\ r = s THEN Free ELSE task[v][r]
  BY <1>1
<1>3. task[w][s] = Scraping(task[w][s].job)
  BY <1>1 DEF TaskStates, Free, Scraping
<1>4. <<w, s>> \in Places(Scraping(j)) <=> j = task[w][s].job
  BY <1>3 DEF Places, Scraping
<1>5. Places(Scraping(j))' = Places(Scraping(j)) \ {<<w, s>>}
  BY <1>2, <1>3 DEF Places, Scraping, Free
<1>6. Places(Popped(j))' = Places(Popped(j))
  BY <1>2, <1>3 DEF Places, Popped, Scraping, Free
<1>. QED BY <1>1, <1>4, <1>5, <1>6 DEF Hands

LEMMA CrashPlaces ==
  ASSUME TypeOK, NEW w \in Workers, Crash(w), NEW j \in Jobs
  PROVE  /\ Hands(j)' \subseteq Hands(j)
         /\ Places(Popped(j))' \subseteq Places(Popped(j))
         /\ Places(Scraping(j))' \subseteq Places(Scraping(j))
         /\ j \notin Waiting(w) => Hands(j)' = Hands(j) /\ Places(Popped(j))' = Places(Popped(j))
         /\ j \notin Running(w) => Places(Scraping(j))' = Places(Scraping(j))
<1>1. /\ hand \in [Workers -> Jobs \cup {NoJob}] /\ task \in [Workers -> [Slots -> TaskStates]]
      /\ hand' = [hand EXCEPT ![w] = NoJob]
      /\ task' = [task EXCEPT ![w] = [s \in Slots |-> Free]]
  BY DEF Crash, TypeOK
<1>2. \A v \in Workers, r \in Slots : task'[v][r] = IF v = w THEN Free ELSE task[v][r]
  BY <1>1
<1>3. \A x : x # Free => Places(x)' \subseteq Places(x)
  BY <1>2 DEF Places
<1>4. \A x : x # Free /\ (\A r \in Slots : task[w][r] # x) => Places(x)' = Places(x)
  BY <1>2 DEF Places
<1>5. Popped(j) # Free /\ Scraping(j) # Free
  BY DEF Popped, Scraping, Free
<1>6. Hands(j)' \subseteq Hands(j) /\ (hand[w] # j => Hands(j)' = Hands(j))
  BY <1>1, NoJobAssumption DEF Hands
<1>. QED BY <1>3, <1>4, <1>5, <1>6 DEF Waiting, Running

LEMMA FiniteStep == TypeOK /\ Finite /\ [Next]_vars => Finite'
<1>. SUFFICES ASSUME TypeOK, Finite, [Next]_vars, NEW j \in Jobs
              PROVE  /\ IsFiniteSet(Hands(j)') /\ IsFiniteSet(PushesLeft(j)')
                     /\ IsFiniteSet(Places(Popped(j))') /\ IsFiniteSet(Places(Scraping(j))')
  BY DEF Finite, Popped, Scraping
<1>. DEFINE Within(S, T) == \E x : T \subseteq S \cup {x}
<1>1. IsFiniteSet(PushesLeft(j)')
  BY PushesWithin, WithinFiring DEF Finite
<1>2. /\ Within(Hands(j), Hands(j)')
      /\ Within(Places(Popped(j)), Places(Popped(j))')
      /\ Within(Places(Scraping(j)), Places(Scraping(j))')
  <2>1. CASE UNCHANGED <<hand, task>>
    BY <2>1 DEF Hands, Places, Popped, Scraping
  <2>2. ASSUME NEW w \in Workers, Pop(w) PROVE <1>2!:
    BY <2>2, PopHands
  <2>3. ASSUME NEW w \in Workers, NEW s \in Slots, Start(w, s) PROVE <1>2!:
    BY <2>3, StartHands
  <2>4. ASSUME NEW w \in Workers, NEW s \in Slots, MarkRunning(w, s) PROVE <1>2!:
    BY <2>4, MarkRunningPlaces
  <2>5. ASSUME NEW w \in Workers, NEW s \in Slots, NEW outcome \in Terminal, Finish(w, s, outcome)
        PROVE  <1>2!:
    BY <2>5, FinishPlaces
  <2>6. ASSUME NEW w \in Workers, Crash(w) PROVE <1>2!:
    BY <2>6, CrashPlaces
  <2>. QED BY <2>1, <2>2, <2>3, <2>4, <2>5, <2>6, HandsAndSlotsStep
<1>3. ASSUME NEW S, NEW T, IsFiniteSet(S), Within(S, T) PROVE IsFiniteSet(T)
  BY <1>3, WithinOne
<1>. HIDE DEF Within
<1>. QED BY <1>1, <1>2, <1>3 DEF Finite

-----------------------------------------------------------------------------
(* What each step does to the numbers.                                     *)

LEMMA Numbers ==
  ASSUME TypeOK, Finite, NEW j \in Jobs
  PROVE  /\ Cardinality(Positions(queue, j)) \in Nat /\ Cardinality(Hands(j)) \in Nat
         /\ Cardinality(Places(Popped(j))) \in Nat /\ Cardinality(Places(Scraping(j))) \in Nat
         /\ Cardinality(PushesLeft(j)) \in Nat
  BY PositionsFinite, FS_CardinalityType DEF TypeOK, Finite

LEMMA FrameNumbers ==
  ASSUME NEW j, UNCHANGED <<queue, hand, task>>
  PROVE  CopiesOf(j)' = CopiesOf(j) /\ RunsOf(j)' = RunsOf(j)
  BY DEF CopiesOf, RunsOf, Popped, Scraping

LEMMA PushNumbers ==
  ASSUME TypeOK, Finite, NEW k \in Jobs, Push(k), UNCHANGED <<hand, task>>, NEW j \in Jobs
  PROVE  /\ CopiesOf(j)' = IF j = k THEN CopiesOf(j) + 1 ELSE CopiesOf(j)
         /\ RunsOf(j)' = RunsOf(j)
<1>1. queue \in Seq(Jobs) /\ queue' = Append(queue, k)
  BY DEF Push, TypeOK
<1>2. Cardinality(Positions(queue', j)) = Cardinality(Positions(queue, j)) + (IF j = k THEN 1 ELSE 0)
  BY <1>1, PositionsAppend
<1>3. Hands(j)' = Hands(j) /\ Places(Popped(j))' = Places(Popped(j)) /\ Places(Scraping(j))' = Places(Scraping(j))
  BY DEF Hands, Places, Popped, Scraping
<1>. QED BY <1>2, <1>3, Numbers, Counts

LEMMA PopNumbers ==
  ASSUME TypeOK, Finite, NEW w \in Workers, Pop(w), NEW j \in Jobs
  PROVE  CopiesOf(j)' = CopiesOf(j) /\ RunsOf(j)' = RunsOf(j)
<1>1. queue \in Seq(Jobs) /\ queue # <<>> /\ queue' = Tail(queue)
  BY DEF Pop, TypeOK
<1>2. Cardinality(Positions(queue, j))
          = Cardinality(Positions(queue', j)) + (IF j = Head(queue) THEN 1 ELSE 0)
  BY <1>1, PositionsTail
<1>3. Cardinality(Positions(queue', j)) \in Nat
  <2>1. queue' \in Seq(Jobs)
    BY <1>1
  <2>. QED BY <2>1, PositionsFinite
<1>4. Cardinality(Hands(j)') = Cardinality(Hands(j)) + (IF j = Head(queue) THEN 1 ELSE 0)
  BY PopHands, FS_AddElement, Numbers DEF Finite
<1>. QED BY <1>2, <1>3, <1>4, PopHands, Numbers, Counts

LEMMA PopLostNumbers ==
  ASSUME TypeOK, Finite, NEW w \in Workers, PopLost(w), NEW j \in Jobs
  PROVE  /\ IF j \in dropped' THEN CopiesOf(j)' <= CopiesOf(j) ELSE CopiesOf(j)' = CopiesOf(j)
         /\ RunsOf(j)' = RunsOf(j)
<1>1. /\ queue \in Seq(Jobs) /\ queue # <<>> /\ queue' = Tail(queue)
      /\ dropped' = dropped \cup {Head(queue)} /\ UNCHANGED <<hand, task>>
  BY DEF PopLost, TypeOK, procVars
<1>2. Cardinality(Positions(queue, j))
          = Cardinality(Positions(queue', j)) + (IF j = Head(queue) THEN 1 ELSE 0)
  BY <1>1, PositionsTail
<1>3. Cardinality(Positions(queue', j)) \in Nat
  <2>1. queue' \in Seq(Jobs)
    BY <1>1
  <2>. QED BY <2>1, PositionsFinite
<1>4. Hands(j)' = Hands(j) /\ Places(Popped(j))' = Places(Popped(j)) /\ Places(Scraping(j))' = Places(Scraping(j))
  BY <1>1 DEF Hands, Places, Popped, Scraping
<1>5. CopiesOf(j) = Cardinality(Positions(queue, j)) + Cardinality(Hands(j)) + Cardinality(Places(Popped(j)))
  BY Counts
<1>6. CopiesOf(j)' = Cardinality(Positions(queue', j)) + Cardinality(Hands(j)) + Cardinality(Places(Popped(j)))
  BY <1>4, Counts
<1>7. RunsOf(j)' = RunsOf(j)
  BY <1>4, Counts
<1>8. j = Head(queue) => j \in dropped'
  BY <1>1
<1>. QED BY <1>2, <1>3, <1>5, <1>6, <1>7, <1>8, Numbers

LEMMA StartNumbers ==
  ASSUME TypeOK, Finite, NEW w \in Workers, NEW s \in Slots, Start(w, s), NEW j \in Jobs
  PROVE  CopiesOf(j)' = CopiesOf(j) /\ RunsOf(j)' = RunsOf(j)
<1>. DEFINE mine == j = hand[w]
<1>. /\ UNCHANGED queue
     /\ IsFiniteSet(Hands(j)) /\ IsFiniteSet(Places(Popped(j)))
     /\ w \in Hands(j) <=> mine
     /\ Hands(j)' = Hands(j) \ {w}
     /\ <<w, s>> \notin Places(Popped(j))
     /\ Places(Popped(j))' = IF mine THEN Places(Popped(j)) \cup {<<w, s>>} ELSE Places(Popped(j))
     /\ Places(Scraping(j))' = Places(Scraping(j))
  BY StartHands DEF Start, Finite
<1>. mine \in BOOLEAN
  OBVIOUS
<1>. HIDE DEF mine
<1>1. /\ Cardinality(Hands(j)) = Cardinality(Hands(j)') + (IF mine THEN 1 ELSE 0)
      /\ Cardinality(Hands(j)') \in Nat
  BY OneLess
<1>2. Cardinality(Places(Popped(j))') = Cardinality(Places(Popped(j))) + (IF mine THEN 1 ELSE 0)
  BY OneMore
<1>3. CopiesOf(j) = Cardinality(Positions(queue, j)) + Cardinality(Hands(j)) + Cardinality(Places(Popped(j)))
  BY Counts
<1>4. CopiesOf(j)' = Cardinality(Positions(queue, j)) + Cardinality(Hands(j)') + Cardinality(Places(Popped(j))')
  BY Counts
<1>. QED BY <1>1, <1>2, <1>3, <1>4, Numbers, Counts

LEMMA MarkRunningNumbers ==
  ASSUME TypeOK, Finite, NEW w \in Workers, NEW s \in Slots, MarkRunning(w, s), NEW j \in Jobs,
         NEW mine, mine = (j = task[w][s].job)
  PROVE  /\ task[w][s].job \in Jobs
         /\ mine => CopiesOf(j) > 0
         /\ CopiesOf(j)' = IF mine THEN CopiesOf(j) - 1 ELSE CopiesOf(j)
         /\ RunsOf(j)' = IF mine THEN RunsOf(j) + 1 ELSE RunsOf(j)
<1>. /\ UNCHANGED queue /\ task[w][s].job \in Jobs
  BY DEF MarkRunning, TypeOK, TaskStates, Free
<1>. /\ IsFiniteSet(Places(Popped(j))) /\ IsFiniteSet(Places(Scraping(j)))
     /\ <<w, s>> \in Places(Popped(j)) <=> mine
     /\ Places(Popped(j))' = Places(Popped(j)) \ {<<w, s>>}
     /\ <<w, s>> \notin Places(Scraping(j))
     /\ Places(Scraping(j))' = IF mine THEN Places(Scraping(j)) \cup {<<w, s>>} ELSE Places(Scraping(j))
     /\ Hands(j)' = Hands(j)
     /\ mine \in BOOLEAN
  BY MarkRunningPlaces DEF Finite
<1>1. /\ Cardinality(Places(Popped(j))) = Cardinality(Places(Popped(j))') + (IF mine THEN 1 ELSE 0)
      /\ Cardinality(Places(Popped(j))') \in Nat
  BY OneLess
<1>2. Cardinality(Places(Scraping(j))') = Cardinality(Places(Scraping(j))) + (IF mine THEN 1 ELSE 0)
  BY OneMore
<1>3. CopiesOf(j) = Cardinality(Positions(queue, j)) + Cardinality(Hands(j)) + Cardinality(Places(Popped(j)))
  BY Counts
<1>4. CopiesOf(j)' = Cardinality(Positions(queue, j)) + Cardinality(Hands(j)') + Cardinality(Places(Popped(j))')
  BY Counts
<1>5. RunsOf(j) = Cardinality(Places(Scraping(j))) /\ RunsOf(j)' = Cardinality(Places(Scraping(j))')
  BY Counts
<1>. QED BY <1>1, <1>2, <1>3, <1>4, <1>5, Numbers

LEMMA FinishNumbers ==
  ASSUME TypeOK, Finite, NEW w \in Workers, NEW s \in Slots, NEW outcome \in Terminal,
         Finish(w, s, outcome), NEW j \in Jobs, NEW mine, mine = (j = task[w][s].job)
  PROVE  /\ task[w][s].job \in Jobs
         /\ mine => RunsOf(j) > 0
         /\ RunsOf(j)' = IF mine THEN RunsOf(j) - 1 ELSE RunsOf(j)
         /\ CopiesOf(j)' = CopiesOf(j)
<1>. UNCHANGED queue /\ task[w][s].job \in Jobs
  BY DEF Finish, TypeOK, TaskStates, Free
<1>. /\ IsFiniteSet(Places(Scraping(j)))
     /\ <<w, s>> \in Places(Scraping(j)) <=> mine
     /\ Places(Scraping(j))' = Places(Scraping(j)) \ {<<w, s>>}
     /\ Places(Popped(j))' = Places(Popped(j))
     /\ Hands(j)' = Hands(j)
     /\ mine \in BOOLEAN
  BY FinishPlaces DEF Finite
<1>1. /\ Cardinality(Places(Scraping(j))) = Cardinality(Places(Scraping(j))') + (IF mine THEN 1 ELSE 0)
      /\ Cardinality(Places(Scraping(j))') \in Nat
  BY OneLess
<1>3. CopiesOf(j) = Cardinality(Positions(queue, j)) + Cardinality(Hands(j)) + Cardinality(Places(Popped(j)))
  BY Counts
<1>4. CopiesOf(j)' = Cardinality(Positions(queue, j)) + Cardinality(Hands(j)') + Cardinality(Places(Popped(j))')
  BY Counts
<1>5. RunsOf(j) = Cardinality(Places(Scraping(j))) /\ RunsOf(j)' = Cardinality(Places(Scraping(j))')
  BY Counts
<1>. QED BY <1>1, <1>3, <1>4, <1>5, Numbers

LEMMA CrashNumbers ==
  ASSUME TypeOK, Finite, NEW w \in Workers, Crash(w), NEW j \in Jobs
  PROVE  /\ IF j \in dropped' THEN CopiesOf(j)' <= CopiesOf(j) ELSE CopiesOf(j)' = CopiesOf(j)
         /\ IF j \in abandoned' THEN RunsOf(j)' <= RunsOf(j) ELSE RunsOf(j)' = RunsOf(j)
<1>1. UNCHANGED queue /\ dropped' = dropped \cup Waiting(w) /\ abandoned' = abandoned \cup Running(w)
  BY DEF Crash
<1>2. /\ Cardinality(Hands(j)') <= Cardinality(Hands(j))
      /\ Cardinality(Places(Popped(j))') <= Cardinality(Places(Popped(j)))
      /\ Cardinality(Places(Scraping(j))') <= Cardinality(Places(Scraping(j)))
      /\ Cardinality(Hands(j)') \in Nat
      /\ Cardinality(Places(Popped(j))') \in Nat
      /\ Cardinality(Places(Scraping(j))') \in Nat
  BY CrashPlaces, FS_Subset, FS_CardinalityType DEF Finite
<1>. QED BY <1>1, <1>2, CrashPlaces, Numbers, Counts

LEMMA FlushNumbers ==
  ASSUME TypeOK, Finite, RestartFlush, NEW j \in Jobs
  PROVE  CopiesOf(j)' <= CopiesOf(j) /\ RunsOf(j)' = RunsOf(j)
<1>. UNCHANGED <<hand, task>>
  BY DEF RestartFlush, procVars
<1>1. CASE queue' = <<>>
  <2>1. Positions(queue', j) = {}
    BY <1>1 DEF Positions
  <2>2. Cardinality(Positions(queue', j)) = 0
    BY <2>1, FS_EmptySet
  <2>3. Hands(j)' = Hands(j) /\ Places(Popped(j))' = Places(Popped(j)) /\ Places(Scraping(j))' = Places(Scraping(j))
    BY DEF Hands, Places, Popped, Scraping
  <2>4. CopiesOf(j) = Cardinality(Positions(queue, j)) + Cardinality(Hands(j)) + Cardinality(Places(Popped(j)))
    BY Counts
  <2>5. CopiesOf(j)' = 0 + Cardinality(Hands(j)) + Cardinality(Places(Popped(j)))
    BY <2>2, <2>3, Counts
  <2>6. RunsOf(j)' = RunsOf(j)
    BY <2>3, Counts
  <2>. QED BY <2>4, <2>5, <2>6, Numbers
<1>2. CASE queue' = queue
  <2>1. CopiesOf(j)' = CopiesOf(j) /\ RunsOf(j)' = RunsOf(j)
    BY <1>2, FrameNumbers
  <2>2. CopiesOf(j) \in Nat
    BY Numbers, Counts
  <2>. QED BY <2>1, <2>2
<1>. QED BY <1>1, <1>2 DEF RestartFlush

-----------------------------------------------------------------------------
(* A copy is pushed where one is due, and then no longer is.               *)

LEMMA DueByFiring ==
  ASSUME TypeOK, Finite, NEW t \in Ticks, NEW k \in Jobs, tick[t].job = k, tick[t].left \in 1 .. Attempts,
         tick'[t].left \in 0 .. tick[t].left - 1, \A u \in Ticks \ {t} : tick'[u] = tick[u],
         UNCHANGED hcVars
  PROVE  DueOf(k)' < DueOf(k)
<1>. DEFINE last == <<t, tick[t].left>>
<1>1. last \in PushesLeft(k) /\ IsFiniteSet(PushesLeft(k))
  BY DEF PushesLeft, Finite
<1>2. PushesLeft(k)' \subseteq PushesLeft(k) \ {last}
  BY AttemptsType DEF PushesLeft
<1>3. /\ IsFiniteSet(PushesLeft(k) \ {last})
      /\ Cardinality(PushesLeft(k) \ {last}) = Cardinality(PushesLeft(k)) - 1
  BY <1>1, FS_RemoveElement
<1>4. Cardinality(PushesLeft(k)') <= Cardinality(PushesLeft(k)) - 1 /\ Cardinality(PushesLeft(k)') \in Nat
  BY <1>2, <1>3, FS_Subset, FS_CardinalityType
<1>5. RequeueLeft(k) \in Nat /\ RequeueLeft(k)' = RequeueLeft(k)
  BY TxType, AttemptsType DEF RequeueLeft, hcVars, tx
<1>6. /\ DueOf(k) = Cardinality(PushesLeft(k)) + RequeueLeft(k)
      /\ DueOf(k)' = Cardinality(PushesLeft(k)') + RequeueLeft(k)'
  BY DEF DueOf, PushesLeft
<1>. QED BY <1>4, <1>5, <1>6, Numbers

LEMMA DueByRequeue ==
  ASSUME TypeOK, Finite, HcPush \/ HcResend \/ HcPushFails, NEW k \in Jobs, k = locked
  PROVE  DueOf(k)' < DueOf(k)
<1>1. locked \in Jobs /\ hcLeft \in 1 .. Attempts
  BY TxType DEF HcPush, HcResend, HcPushFails
<1>2. RequeueLeft(k) = hcLeft
  BY DEF RequeueLeft
<1>3. RequeueLeft(k)' \in 0 .. hcLeft - 1
  <2>1. CASE HcPush \/ HcResend
    BY <1>1, <2>1 DEF HcPush, HcResend, RequeueLeft
  <2>2. CASE HcPushFails
    BY <1>1, <2>2, NoJobAssumption DEF HcPushFails, Unlock, RequeueLeft
  <2>. QED BY <2>1, <2>2
<1>4. PushesLeft(k)' = PushesLeft(k)
  BY DEF HcPush, HcResend, HcPushFails, supVars, PushesLeft
<1>5. /\ DueOf(k) = Cardinality(PushesLeft(k)) + RequeueLeft(k)
      /\ DueOf(k)' = Cardinality(PushesLeft(k)') + RequeueLeft(k)'
  BY DEF DueOf, PushesLeft
<1>. QED BY <1>1, <1>2, <1>3, <1>4, <1>5, Numbers

(* The steps of the dispatch as the queue of copies sees them.             *)
LEMMA QueueSteps ==
  ASSUME TypeOK, Finite, [Next]_vars
  PROVE  \/ UNCHANGED <<queue, hand, task>>
         \/ \E k \in Jobs : Push(k) /\ DueOf(k)' < DueOf(k) /\ UNCHANGED <<hand, task, sup>>
         \/ \E w \in Workers : Pop(w) \/ PopLost(w) \/ Crash(w)
         \/ \E w \in Workers, s \in Slots : Start(w, s) \/ MarkRunning(w, s)
         \/ \E w \in Workers, s \in Slots, outcome \in Terminal : Finish(w, s, outcome)
         \/ RestartFlush
<1>. USE DEF dbVars, supVars, hcVars, tx, procVars, ghosts
<1>0. tick \in [Ticks -> TickStates]
  BY DEF TypeOK
<1>1. CASE TickNext
  <2>. PICK t \in Ticks : \/ \E k \in Jobs : Fire(t, k)
                          \/ TickPush(t) \/ TickResend(t) \/ TickPushFails(t) \/ TickUndo(t)
    BY <1>1 DEF TickNext
  <2>1. CASE (\E k \in Jobs : Fire(t, k)) \/ TickUndo(t)
    BY <2>1 DEF Fire, Mark, TickUndo
  <2>2. CASE TickPush(t) \/ TickResend(t) \/ TickPushFails(t)
    <3>1. tick[t] \in [pc : {"push"}, job : Jobs, left : 1 .. Attempts]
      BY <1>0, <2>2 DEF TickPush, TickResend, TickPushFails, TickStates, Unused, Done
    <3>. PICK k \in Jobs : k = tick[t].job
      BY <3>1
    <3>2. tick'[t].left \in 0 .. tick[t].left - 1 /\ \A u \in Ticks \ {t} : tick'[u] = tick[u]
      <4>1. CASE TickPush(t) \/ TickPushFails(t)
        BY <1>0, <3>1, <4>1, AttemptsType DEF TickPush, TickPushFails, Done, Undoing
      <4>2. CASE TickResend(t)
        <5>1. tick' = [tick EXCEPT ![t] = [tick[t] EXCEPT !.left = @ - 1]] /\ tick[t].left > 1
          BY <4>2 DEF TickResend
        <5>. QED BY <1>0, <3>1, <5>1, AttemptsType
      <4>. QED BY <2>2, <4>1, <4>2
    <3>3. UNCHANGED <<hcVars, hand, task, sup>>
      BY <2>2 DEF TickPush, TickResend, TickPushFails
    <3>4. DueOf(k)' < DueOf(k)
      BY <3>1, <3>2, <3>3, DueByFiring
    <3>5. Push(k) \/ UNCHANGED queue
      BY <2>2 DEF TickPush, TickResend, TickPushFails, PushUnanswered
    <3>. QED BY <3>3, <3>4, <3>5
  <2>. QED BY <2>1, <2>2
<1>2. CASE HealthCheckNext
  <2>1. CASE HcPush \/ HcResend \/ HcPushFails
    <3>1. locked \in Jobs
      BY <2>1, TxType DEF HcPush, HcResend, HcPushFails
    <3>. PICK k \in Jobs : k = locked
      BY <3>1
    <3>2. UNCHANGED <<hand, task, sup>> /\ (Push(k) \/ UNCHANGED queue)
      BY <2>1 DEF HcPush, HcResend, HcPushFails, PushUnanswered
    <3>3. DueOf(k)' < DueOf(k)
      BY <2>1, DueByRequeue
    <3>. QED BY <3>2, <3>3
  <2>2. CASE ~ (HcPush \/ HcResend \/ HcPushFails)
    BY <1>2, <2>2
       DEF HealthCheckNext, HcQuery, HcMark, HcFind, HcLock, HcCommit, HcRollback, HcFail, HcDone
  <2>. QED BY <2>1, <2>2
<1>3. CASE RegistryNext
  BY <1>3 DEF RegistryNext, RegisterWorker, Heartbeat, Age, ShutdownCall, ShutdownMark
<1>4. CASE WorkerNext
  BY <1>4 DEF WorkerNext, Cancel, LoopExit, Exit, Restart
<1>5. CASE SupervisorNext
  BY <1>5 DEF SupervisorNext, SupCrash, RestartReset, RestartSchedule, Schedule
<1>6. CASE UNCHANGED vars
  BY <1>6 DEF vars
<1>. QED BY <1>1, <1>2, <1>3, <1>4, <1>5, <1>6 DEF Next

-----------------------------------------------------------------------------
(* The refinement.                                                         *)

LEMMA InitEmpty ==
  ASSUME Init, NEW j \in Jobs
  PROVE  /\ Positions(queue, j) = {} /\ Hands(j) = {} /\ PushesLeft(j) = {}
         /\ Places(Popped(j)) = {} /\ Places(Scraping(j)) = {}
         /\ RequeueLeft(j) = 0
<1>1. \A t \in Ticks : tick[t].left = 0
  BY DEF Init, Unused
<1>2. PushesLeft(j) = {}
  BY <1>1 DEF PushesLeft
<1>3. RequeueLeft(j) = 0
  BY NoJobAssumption DEF Init, RequeueLeft
<1>. QED BY <1>2, <1>3, NoJobAssumption DEF Init, Positions, Hands, Places, Popped, Scraping, Free

LEMMA QueueInit == Init => Work!Init
<1>. SUFFICES ASSUME Init PROVE Work!Init
  OBVIOUS
<1>1. ASSUME NEW j \in Jobs PROVE CopiesOf(j) = 0 /\ RunsOf(j) = 0 /\ DueOf(j) = 0
  <2>0. Cardinality({}) = 0
    BY FS_EmptySet
  <2>1. CopiesOf(j) = 0 /\ RunsOf(j) = 0
    BY <2>0, InitEmpty, Counts
  <2>2. DueOf(j) = Cardinality(PushesLeft(j)) + RequeueLeft(j)
    BY DEF DueOf, PushesLeft
  <2>3. DueOf(j) = 0
    BY <2>0, <2>2, InitEmpty
  <2>. QED BY <2>1, <2>3
<1>. QED BY <1>1 DEF Init, Work!Init

LEMMA QueueInitFinite == Init => Finite
  BY InitEmpty, FS_EmptySet DEF Finite

(* A step that takes copies and runs only from jobs on record as losing.   *)
LEMMA LoseStep ==
  ASSUME \A j \in Jobs :
             /\ IF j \in dropped' THEN CopiesOf(j)' <= CopiesOf(j) ELSE CopiesOf(j)' = CopiesOf(j)
             /\ IF j \in abandoned' THEN RunsOf(j)' <= RunsOf(j) ELSE RunsOf(j)' = RunsOf(j),
         UNCHANGED sup
  PROVE  Work!Next
<1>1. Work!Lose
  BY DEF Work!Lose, Work!Fewer
<1>. QED BY <1>1 DEF Work!Next

LEMMA SameStep ==
  ASSUME TypeOK, Finite,
         \A j \in Jobs : CopiesOf(j)' = CopiesOf(j) /\ RunsOf(j)' = RunsOf(j)
  PROVE  Work!Next
<1>1. \A j \in Jobs : CopiesOf(j) \in Nat /\ RunsOf(j) \in Nat
  BY Numbers, Counts
<1>2. CASE (sup = "up") = (sup' = "up")
  <2>1. Work!Lose
    BY <1>1 DEF Work!Lose, Work!Fewer
  <2>. QED BY <1>2, <2>1 DEF Work!Next
<1>3. CASE (sup = "up") # (sup' = "up")
  <2>1. Work!Turn
    BY <1>3 DEF Work!Turn
  <2>. QED BY <2>1 DEF Work!Next
<1>. QED BY <1>2, <1>3

LEMMA QueueStep == TypeOK /\ Finite /\ [Next]_vars => [Work!Next]_Work!vars
<1>. SUFFICES ASSUME TypeOK, Finite, [Next]_vars PROVE Work!Next
  OBVIOUS
<1>0. \A j \in Jobs : CopiesOf(j) \in Nat /\ RunsOf(j) \in Nat
  BY Numbers, Counts
<1>1. CASE UNCHANGED <<queue, hand, task>>
  BY <1>1, FrameNumbers, SameStep
<1>2. ASSUME NEW k \in Jobs, Push(k), DueOf(k)' < DueOf(k), UNCHANGED <<hand, task, sup>>
      PROVE  Work!Next
  <2>1. \A j \in Jobs : /\ CopiesOf(j)' = IF j = k THEN CopiesOf(j) + 1 ELSE CopiesOf(j)
                        /\ RunsOf(j)' = RunsOf(j)
    BY <1>2, PushNumbers
  <2>2. Work!Enqueue(k)
    BY <1>2, <2>1 DEF Work!Enqueue
  <2>. QED BY <1>2, <2>2 DEF Work!Next
<1>3. ASSUME NEW w \in Workers, Pop(w) PROVE Work!Next
  BY <1>3, PopNumbers, SameStep
<1>4. ASSUME NEW w \in Workers, PopLost(w) PROVE Work!Next
  <2>1. UNCHANGED sup
    BY <1>4 DEF PopLost, supVars
  <2>. QED BY <1>0, <1>4, <2>1, PopLostNumbers, LoseStep
<1>5. ASSUME NEW w \in Workers, Crash(w) PROVE Work!Next
  <2>1. UNCHANGED sup
    BY <1>5 DEF Crash, supVars
  <2>. QED BY <1>5, <2>1, CrashNumbers, LoseStep
<1>6. ASSUME NEW w \in Workers, NEW s \in Slots, Start(w, s) PROVE Work!Next
  BY <1>6, StartNumbers, SameStep
<1>7. ASSUME NEW w \in Workers, NEW s \in Slots, MarkRunning(w, s) PROVE Work!Next
  <2>. PICK k \in Jobs : k = task[w][s].job
    BY <1>7 DEF MarkRunning, TypeOK, TaskStates, Free
  <2>1. \A j \in Jobs : /\ j = k => CopiesOf(j) > 0
                        /\ CopiesOf(j)' = IF j = k THEN CopiesOf(j) - 1 ELSE CopiesOf(j)
                        /\ RunsOf(j)' = IF j = k THEN RunsOf(j) + 1 ELSE RunsOf(j)
    BY <1>7, MarkRunningNumbers
  <2>2. Work!Begin(k)
    BY <2>1 DEF Work!Begin
  <2>3. UNCHANGED sup
    BY <1>7 DEF MarkRunning, supVars
  <2>. QED BY <2>2, <2>3 DEF Work!Next
<1>8. ASSUME NEW w \in Workers, NEW s \in Slots, NEW outcome \in Terminal, Finish(w, s, outcome)
      PROVE  Work!Next
  <2>. PICK k \in Jobs : k = task[w][s].job
    BY <1>8 DEF Finish, TypeOK, TaskStates, Free
  <2>1. \A j \in Jobs : /\ j = k => RunsOf(j) > 0
                        /\ RunsOf(j)' = IF j = k THEN RunsOf(j) - 1 ELSE RunsOf(j)
                        /\ CopiesOf(j)' = CopiesOf(j)
    BY <1>8, FinishNumbers
  <2>2. Work!End(k)
    BY <2>1 DEF Work!End
  <2>3. UNCHANGED sup
    BY <1>8 DEF Finish, supVars
  <2>. QED BY <2>2, <2>3 DEF Work!Next
<1>9. CASE RestartFlush
  <2>1. \A j \in Jobs : CopiesOf(j)' <= CopiesOf(j) /\ RunsOf(j)' = RunsOf(j)
    BY <1>9, FlushNumbers
  <2>2. sup = "down" /\ sup' = "flushed"
    BY <1>9 DEF RestartFlush
  <2>3. Work!Flush
    BY <2>1, <2>2 DEF Work!Flush, Work!Fewer
  <2>. QED BY <2>2, <2>3 DEF Work!Next
<1>. QED BY <1>1, <1>2, <1>3, <1>4, <1>5, <1>6, <1>7, <1>8, <1>9, QueueSteps

(* The list, the hands and the slots of the workers, the firings and the   *)
(* requeues behave as the queue of copies that WorkQueue describes: an     *)
(* LPush puts at most as many copies on the list as go-redis sends it,     *)
(* and each is claimed once and run once, or on record as lost             *)
(* (executeJob, requeueWorkerJobs, StartListening, processJob).            *)
THEOREM RefinesWorkQueue == Spec => ImplementsWorkQueue
<1>1. Spec => [](TypeOK /\ Finite)
  <2>1. Init => TypeOK /\ Finite
    BY InitType, QueueInitFinite
  <2>2. TypeOK /\ Finite /\ [Next]_vars => (TypeOK /\ Finite)'
    BY TypeStep, FiniteStep
  <2>. QED BY <2>1, <2>2, PTL DEF Spec
<1>2. Spec => Work!Spec
  BY <1>1, QueueInit, QueueStep, PTL DEF Spec, Work!Spec
<1>. QED BY <1>2 DEF ImplementsWorkQueue

=============================================================================
