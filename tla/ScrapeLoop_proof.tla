-------------------------- MODULE ScrapeLoop_proof --------------------------
(* Theorems of ScrapeLoop, for any finite set of messages, any number of   *)
(* Shutdown calls and any capacity.                                        *)
EXTENDS ScrapeLoop, FiniteSetTheorems, TLAPS

USE MsgsAssumption, CapAssumption DEF loopVars, stopVars

-----------------------------------------------------------------------------
(* Counting.                                                               *)

LEMMA CountAdd ==
  ASSUME NEW S, IsFiniteSet(S), NEW x, x \notin S
  PROVE  Cardinality(S \cup {x}) = Cardinality(S) + 1
  BY FS_AddElement

LEMMA CountRemove ==
  ASSUME NEW S, IsFiniteSet(S), NEW x \in S
  PROVE  Cardinality(S \ {x}) = Cardinality(S) - 1
  BY FS_RemoveElement

LEMMA CountDisjoint ==
  ASSUME NEW S, IsFiniteSet(S), NEW T, IsFiniteSet(T), S \cap T = {}
  PROVE  /\ IsFiniteSet(S \cup T)
         /\ Cardinality(S \cup T) = Cardinality(S) + Cardinality(T)
<1>1. Cardinality(S) \in Nat /\ Cardinality(T) \in Nat /\ Cardinality(S \cap T) = 0
  BY FS_CardinalityType, FS_EmptySet
<1>. QED BY <1>1, FS_Union

(* The three sets that the counters count are finite.                      *)
LEMMA FiniteCounts ==
  ASSUME TypeOK, HandIsPopped
  PROVE  /\ IsFiniteSet(Holding) /\ IsFiniteSet(Counted) /\ IsFiniteSet(Waited)
         /\ Cardinality(Holding) \in Nat /\ Cardinality(Counted) \in Nat /\ Cardinality(Waited) \in Nat
<1>1. Holding \subseteq Msgs /\ Counted \subseteq Msgs /\ Waited \subseteq Msgs
  BY DEF Holding, Counted, Waited, Goroutines, InHand, HandIsPopped
<1>. QED BY <1>1, FS_Subset, FS_CardinalityType

(* The steps that change none of the counted sets nor the counters.        *)
Idle ==
    /\ UNCHANGED <<sem, active, wg>>
    /\ Holding' = Holding /\ Counted' = Counted /\ Waited' = Waited

-----------------------------------------------------------------------------
(* The part of IInv that does not count.                                   *)

Places == TypeOK /\ HandIsPopped /\ ListIsUntouched /\ PoppedIsKept

LEMMA PlacesStep ==
  ASSUME IInv, [Next]_vars
  PROVE  Places'
<1>. USE DEF IInv, Places, TypeOK, HandIsPopped, ListIsUntouched, PoppedIsKept
<1>1. CASE Select \/ PopNothing \/ Count \/ Stop
  BY <1>1 DEF Select, PopNothing, Count, Stop
<1>2. CASE Acquire
  BY <1>2 DEF Acquire
<1>3. CASE Spawn
  BY <1>3 DEF Spawn
<1>4. ASSUME NEW m \in Msgs, Pop(m) PROVE Places'
  BY <1>4 DEF Pop
<1>5. ASSUME NEW m \in Msgs, Process(m) \/ Uncount(m) \/ WgDone(m) PROVE Places'
  BY <1>5 DEF Process, Uncount, WgDone
<1>6. ASSUME NEW m \in Msgs, Release(m) PROVE Places'
  BY <1>6 DEF Release
<1>7. CASE SigTerm \/ Receive \/ Cancel
  <2>1. signals' \in 0 .. 1 /\ UNCHANGED <<loop, list, hand, sem, active, wg, go, caller>>
    BY <1>7 DEF SigTerm, Receive, Cancel
  <2>2. cancelled' \in BOOLEAN /\ waiter' \in {"wait", "cancel", "gone"}
    BY <1>7 DEF SigTerm, Receive, Cancel
  <2>. QED BY <2>1, <2>2
<1>8. ASSUME NEW c \in Callers, Shutdown(c) \/ Send(c) PROVE Places'
  BY <1>8 DEF Shutdown, Send
<1>9. CASE UNCHANGED vars
  BY <1>9 DEF vars
<1>. QED BY <1>1, <1>2, <1>3, <1>4, <1>5, <1>6, <1>7, <1>8, <1>9 DEF Next

-----------------------------------------------------------------------------
(* What each step does to the counted sets.                                *)

LEMMA IdleStep ==
  ASSUME IInv, [Next]_vars, ~Acquire, ~Count, ~Spawn,
         \A m \in Msgs : ~Release(m) /\ ~Uncount(m) /\ ~WgDone(m)
  PROVE  Idle
<1>. USE DEF IInv, TypeOK, Idle, Holding, Counted, Waited, Goroutines, InHand
<1>1. CASE Select \/ PopNothing \/ Stop
  BY <1>1 DEF Select, PopNothing, Stop
<1>2. ASSUME NEW m \in Msgs, Pop(m) PROVE Idle
  BY <1>2 DEF Pop
<1>3. ASSUME NEW m \in Msgs, Process(m) PROVE Idle
  BY <1>3 DEF Process
<1>4. CASE SigTerm \/ Receive \/ Cancel \/ (\E c \in Callers : Shutdown(c) \/ Send(c))
  BY <1>4 DEF SigTerm, Receive, Cancel, Shutdown, Send
<1>5. CASE UNCHANGED vars
  BY <1>5 DEF vars
<1>. QED BY <1>1, <1>2, <1>3, <1>4, <1>5 DEF Next

LEMMA AcquireSets ==
  ASSUME IInv, Acquire
  PROVE  /\ hand \notin Holding /\ Holding' = Holding \cup {hand}
         /\ Counted' = Counted /\ Waited' = Waited
  BY DEF IInv, HandIsPopped, Acquire, Holding, Counted, Waited, Goroutines, InHand

LEMMA CountSets ==
  ASSUME IInv, Count
  PROVE  /\ hand \notin Counted /\ Counted' = Counted \cup {hand}
         /\ Holding' = Holding /\ Waited' = Waited
  BY DEF IInv, HandIsPopped, Count, Holding, Counted, Waited, Goroutines, InHand

LEMMA SpawnSets ==
  ASSUME IInv, Spawn
  PROVE  /\ hand \notin Waited /\ Waited' = Waited \cup {hand}
         /\ Holding' = Holding /\ Counted' = Counted
<1>1. hand \in Msgs /\ go[hand] = "none" /\ loop = "spawn" /\ loop' = "select"
  BY DEF IInv, HandIsPopped, Spawn
<1>2. go'[hand] = "run" /\ \A m \in Msgs : m # hand => go'[m] = go[m]
  BY <1>1 DEF IInv, TypeOK, Spawn
<1>. QED BY <1>1, <1>2 DEF Holding, Counted, Waited, Goroutines, InHand

LEMMA ReleaseSets ==
  ASSUME IInv, NEW m \in Msgs, Release(m)
  PROVE  /\ m \in Holding /\ Holding' = Holding \ {m}
         /\ Counted' = Counted /\ Waited' = Waited
<1>1. /\ go[m] = "ran" /\ go'[m] = "released" /\ \A x \in Msgs : x # m => go'[x] = go[x]
      /\ UNCHANGED <<loop, hand>>
  BY DEF IInv, TypeOK, Release
<1>. QED BY <1>1 DEF IInv, HandIsPopped, Holding, Counted, Waited, Goroutines, InHand

LEMMA UncountSets ==
  ASSUME IInv, NEW m \in Msgs, Uncount(m)
  PROVE  /\ m \in Counted /\ Counted' = Counted \ {m}
         /\ Holding' = Holding /\ Waited' = Waited
<1>1. /\ go[m] = "released" /\ go'[m] = "counted" /\ \A x \in Msgs : x # m => go'[x] = go[x]
      /\ UNCHANGED <<loop, hand>>
  BY DEF IInv, TypeOK, Uncount
<1>. QED BY <1>1 DEF IInv, HandIsPopped, Holding, Counted, Waited, Goroutines, InHand

LEMMA WgDoneSets ==
  ASSUME IInv, NEW m \in Msgs, WgDone(m)
  PROVE  /\ m \in Waited /\ Waited' = Waited \ {m}
         /\ Holding' = Holding /\ Counted' = Counted
<1>1. /\ go[m] = "counted" /\ go'[m] = "done" /\ \A x \in Msgs : x # m => go'[x] = go[x]
      /\ UNCHANGED <<loop, hand>>
  BY DEF IInv, TypeOK, WgDone
<1>. QED BY <1>1 DEF IInv, HandIsPopped, Holding, Counted, Waited, Goroutines, InHand

-----------------------------------------------------------------------------
(* The three counters follow their sets.                                   *)

Exact == TokensAreHeld /\ active = Cardinality(Counted)

LEMMA ExactStep ==
  ASSUME IInv, [Next]_vars
  PROVE  Exact'
<1>. USE DEF IInv, Exact, TokensAreHeld
<1>0. /\ IsFiniteSet(Holding) /\ IsFiniteSet(Counted) /\ IsFiniteSet(Waited)
      /\ Cardinality(Holding) \in Nat /\ Cardinality(Counted) \in Nat /\ Cardinality(Waited) \in Nat
  BY FiniteCounts
<1>1. CASE Acquire
  BY <1>0, <1>1, AcquireSets, CountAdd DEF Acquire
<1>2. CASE Count
  BY <1>0, <1>2, CountSets, CountAdd DEF Count
<1>3. CASE Spawn
  BY <1>0, <1>3, SpawnSets, CountAdd DEF Spawn
<1>4. ASSUME NEW m \in Msgs, Release(m) PROVE Exact'
  BY <1>0, <1>4, ReleaseSets, CountRemove DEF Release
<1>5. ASSUME NEW m \in Msgs, Uncount(m) PROVE Exact'
  BY <1>0, <1>5, UncountSets, CountRemove DEF Uncount
<1>6. ASSUME NEW m \in Msgs, WgDone(m) PROVE Exact'
  BY <1>0, <1>6, WgDoneSets, CountRemove DEF WgDone
<1>7. CASE Idle
  BY <1>7 DEF Idle
<1>. QED BY <1>1, <1>2, <1>3, <1>4, <1>5, <1>6, <1>7, IdleStep

(* The loop waits only when it is cancelled, and the process ends only     *)
(* when no goroutine is left.                                              *)
LEMMA WaitsStep ==
  ASSUME IInv, [Next]_vars
  PROVE  WaitsOnlyCancelled'
<1>. USE DEF IInv, WaitsOnlyCancelled
<1>0. IsFiniteSet(Waited)
  BY FiniteCounts
<1>1. CASE Stop
  <2>1. Waited = {}
    BY <1>0, <1>1, FS_EmptySet DEF Stop, TokensAreHeld
  <2>2. Waited' = Waited
    BY <1>1 DEF Stop, Waited, Goroutines
  <2>. QED BY <1>1, <2>1, <2>2 DEF Stop
<1>2. CASE Select \/ PopNothing \/ Acquire \/ Count \/ Spawn \/ \E m \in Msgs : Pop(m)
  BY <1>2 DEF Select, PopNothing, Acquire, Count, Spawn, Pop
<1>3. CASE \E m \in Msgs : Process(m) \/ Release(m) \/ Uncount(m) \/ WgDone(m)
  BY <1>3 DEF Process, Release, Uncount, WgDone, Alive
<1>4. CASE SigTerm \/ Receive \/ Cancel \/ \E c \in Callers : Shutdown(c) \/ Send(c)
  BY <1>4 DEF SigTerm, Receive, Cancel, Shutdown, Send, Alive
<1>5. CASE UNCHANGED vars
  BY <1>5 DEF vars, Waited, Goroutines
<1>. QED BY <1>1, <1>2, <1>3, <1>4, <1>5 DEF Next

LEMMA InitIInv == Init => IInv
<1>. SUFFICES ASSUME Init PROVE IInv
  OBVIOUS
<1>1. Holding = {} /\ Counted = {} /\ Waited = {}
  BY DEF Init, Holding, Counted, Waited, Goroutines, InHand
<1>2. sem \in 0 .. Cap /\ signals \in 0 .. 1 /\ active \in Int /\ wg \in Int
  BY DEF Init
<1>3. TypeOK
  BY <1>2 DEF Init, TypeOK
<1>. QED BY <1>1, <1>3, FS_EmptySet
         DEF Init, IInv, HandIsPopped, ListIsUntouched, PoppedIsKept, WaitsOnlyCancelled, TokensAreHeld

(* The counters follow the goroutines at every step of StartListening and  *)
(* of what it starts.                                                      *)
THEOREM Inductive == Spec => []IInv
<1>1. IInv /\ [Next]_vars => IInv'
  BY PlacesStep, ExactStep, WaitsStep DEF IInv, Places, Exact
<1>. QED BY InitIInv, <1>1, PTL DEF Spec

-----------------------------------------------------------------------------
(* What follows from it.                                                   *)

(* WorkerCapacity bounds the scrapes (`sem` in StartListening).            *)
THEOREM RunsAlwaysBounded == Spec => []RunsAreBounded
<1>1. IInv => RunsAreBounded
  <2>. SUFFICES ASSUME IInv PROVE Cardinality(Goroutines({"run"})) <= Cap
    BY DEF RunsAreBounded
  <2>1. IsFiniteSet(Holding) /\ Cardinality(Holding) \in Nat
    BY FiniteCounts DEF IInv
  <2>2. Goroutines({"run"}) \in SUBSET Holding
    BY DEF Goroutines, Holding
  <2>3. Cardinality(Goroutines({"run"})) <= Cardinality(Holding) /\ Cardinality(Goroutines({"run"})) \in Nat
    BY <2>1, <2>2, FS_Subset, FS_CardinalityType
  <2>4. Cardinality(Holding) <= Cap
    BY DEF IInv, TypeOK, TokensAreHeld
  <2>. QED BY <2>1, <2>3, <2>4
<1>. QED BY <1>1, Inductive, PTL

(* ActiveJobCount, as heartbeats report it, is exact.                      *)
THEOREM CountAlwaysExact == Spec => []CountIsExact
<1>1. IInv => CountIsExact
  <2>. SUFFICES ASSUME IInv PROVE active <= Cap + Cardinality(Goroutines({"released"}))
    BY DEF CountIsExact, IInv
  <2>1. IsFiniteSet(Holding) /\ IsFiniteSet(Counted) /\ Cardinality(Holding) \in Nat
        /\ Cardinality(Counted) \in Nat
    BY FiniteCounts DEF IInv
  <2>2. Goroutines({"released"}) \in SUBSET Msgs
    BY DEF Goroutines
  <2>3. IsFiniteSet(Goroutines({"released"})) /\ Cardinality(Goroutines({"released"})) \in Nat
    BY <2>2, FS_Subset, FS_CardinalityType
  <2>4. Counted \in SUBSET (Holding \cup Goroutines({"released"}))
    BY DEF Counted, Holding, Goroutines, InHand
  <2>5. Holding \cap Goroutines({"released"}) = {}
    BY DEF IInv, HandIsPopped, Holding, Goroutines, InHand
  <2>6. /\ IsFiniteSet(Holding \cup Goroutines({"released"}))
        /\ Cardinality(Holding \cup Goroutines({"released"}))
              = Cardinality(Holding) + Cardinality(Goroutines({"released"}))
    BY <2>1, <2>3, <2>5, CountDisjoint
  <2>7. Cardinality(Counted) <= Cardinality(Holding) + Cardinality(Goroutines({"released"}))
    BY <2>4, <2>6, FS_Subset
  <2>8. Cardinality(Holding) <= Cap
    BY DEF IInv, TypeOK, TokensAreHeld
  <2>. QED BY <2>1, <2>3, <2>7, <2>8 DEF IInv
<1>. QED BY <1>1, Inductive, PTL

(* No popped message is lost when the worker stops (wg.Wait in             *)
(* StartListening).                                                        *)
THEOREM NothingEverDropped == Spec => []NothingIsDropped
<1>1. IInv => NothingIsDropped
  BY DEF IInv, TypeOK, HandIsPopped, PoppedIsKept, WaitsOnlyCancelled, Waited, Goroutines, NothingIsDropped
<1>. QED BY <1>1, Inductive, PTL

-----------------------------------------------------------------------------
(* Refinement: each step is a step of the worker pool or stutters.         *)

(* The instance's copy of Cardinality is the same function.                *)
LEMMA SameCardinality == \A S : Pool!Cardinality(S) = Cardinality(S)
  BY DEF Pool!Cardinality, Cardinality

LEMMA PoolInit == Init => Pool!Init
  BY DEF Init, Pool!Init, Phase, Holding, Goroutines, InHand

(* The steps that only the implementation has.                             *)
LEMMA PoolStutter ==
  ASSUME IInv,
         \/ Count \/ Spawn \/ SigTerm \/ Receive
         \/ \E m \in Msgs : Process(m) \/ Uncount(m) \/ WgDone(m)
         \/ \E c \in Callers : Shutdown(c) \/ Send(c)
  PROVE  UNCHANGED Pool!vars
<1>. USE DEF IInv, TypeOK, Pool!vars, Phase, Holding, Goroutines, InHand
<1>1. CASE Count
  BY <1>1 DEF Count
<1>2. CASE Spawn
  <2>1. /\ Holding' = Holding
        /\ Goroutines({"released", "counted", "done"})' = Goroutines({"released", "counted", "done"})
        /\ InHand({"acquire"})' = InHand({"acquire"})
    BY <1>2, SpawnSets DEF Spawn, HandIsPopped
  <2>2. list' = list /\ Phase' = Phase
    BY <1>2 DEF Spawn
  <2>. QED BY <2>1, <2>2
<1>3. CASE SigTerm \/ Receive \/ \E c \in Callers : Shutdown(c) \/ Send(c)
  BY <1>3 DEF SigTerm, Receive, Shutdown, Send
<1>4. ASSUME NEW m \in Msgs, Process(m) \/ Uncount(m) \/ WgDone(m)
      PROVE  UNCHANGED Pool!vars
  <2>1. UNCHANGED <<loop, list, hand, cancelled>> /\ \A x \in Msgs : x # m => go'[x] = go[x]
    BY <1>4 DEF Process, Uncount, WgDone
  <2>2. \/ go[m] = "run" /\ go'[m] = "ran"
        \/ go[m] \in {"released", "counted"} /\ go'[m] \in {"counted", "done"}
    BY <1>4 DEF Process, Uncount, WgDone
  <2>3. /\ Holding' = Holding
        /\ Goroutines({"released", "counted", "done"})' = Goroutines({"released", "counted", "done"})
    BY <2>1, <2>2
  <2>. QED BY <2>1, <2>3
<1>. QED BY <1>1, <1>2, <1>3, <1>4

LEMMA PoolStep == IInv /\ [Next]_vars => [Pool!Next]_Pool!vars
<1>. SUFFICES ASSUME IInv, [Next]_vars PROVE [Pool!Next]_Pool!vars
  OBVIOUS
<1>. USE DEF IInv, TypeOK, HandIsPopped
<1>1. ASSUME NEW m \in Msgs, Pop(m) PROVE Pool!Take(m)
  BY <1>1 DEF Pop, Pool!Take, Phase, Holding, Goroutines, InHand
<1>2. CASE Acquire
  <2>1. ASSUME NEW m \in Msgs, hand = m PROVE Pool!Begin(m)
    <3>1. Cardinality(Holding) < Cap /\ Holding' = Holding \cup {m}
      BY <1>2, <2>1, AcquireSets DEF Acquire, TokensAreHeld
    <3>2. InHand({"acquire"}) = {m} /\ InHand({"acquire"})' = {}
      BY <1>2, <2>1 DEF Acquire, InHand
    <3>3. /\ list' = list /\ Phase' = Phase
          /\ Goroutines({"released", "counted", "done"})' = Goroutines({"released", "counted", "done"})
      BY <1>2 DEF Acquire, Goroutines, Phase
    <3>. QED BY <3>1, <3>2, <3>3, SameCardinality DEF Pool!Begin
  <2>2. hand \in Msgs
    BY <1>2 DEF Acquire
  <2>. QED BY <2>1, <2>2 DEF Pool!Next
<1>3. ASSUME NEW m \in Msgs, Release(m) PROVE Pool!Finish(m)
  <2>1. m \in Holding /\ Holding' = Holding \ {m}
    BY <1>3, ReleaseSets
  <2>2. /\ Goroutines({"released", "counted", "done"})' = Goroutines({"released", "counted", "done"}) \cup {m}
        /\ UNCHANGED <<list, InHand({"acquire"}), Phase>>
    BY <1>3 DEF Release, Goroutines, InHand, Phase
  <2>. QED BY <2>1, <2>2 DEF Pool!Finish
<1>4. CASE Cancel
  <2>1. UNCHANGED <<list, InHand({"acquire"}), Holding, Goroutines({"released", "counted", "done"})>>
    BY <1>4 DEF Cancel, InHand, Holding, Goroutines
  <2>2. CASE Phase = "open"
    BY <1>4, <2>1, <2>2 DEF Cancel, Phase, Alive, Pool!Close, Pool!Next
  <2>3. CASE Phase # "open"
    BY <1>4, <2>1, <2>3 DEF Cancel, Phase, Alive, Pool!vars
  <2>. QED BY <2>2, <2>3
<1>5. CASE Select \/ PopNothing
  <2>1. UNCHANGED <<list, InHand({"acquire"}), Holding, Goroutines({"released", "counted", "done"})>>
    BY <1>5 DEF Select, PopNothing, InHand, Holding, Goroutines
  <2>2. CASE Select
    BY <2>1, <2>2 DEF Select, Phase, Pool!vars
  <2>3. CASE PopNothing
    BY <2>1, <2>3 DEF PopNothing, Phase, Pool!NoneCame, Pool!Next, Pool!vars
  <2>. QED BY <1>5, <2>2, <2>3
<1>6. CASE Stop
  <2>1. cancelled /\ Holding = {} /\ InHand({"acquire"}) = {}
    <3>1. IsFiniteSet(Waited) /\ Cardinality(Waited) = 0
      BY <1>6, FiniteCounts DEF Stop, TokensAreHeld
    <3>2. Waited = {}
      BY <3>1, FS_EmptySet
    <3>. QED BY <1>6, <3>2 DEF Stop, WaitsOnlyCancelled, Waited, Holding, Goroutines, InHand
  <2>2. UNCHANGED <<list, InHand({"acquire"}), Holding, Goroutines({"released", "counted", "done"})>>
    BY <1>6 DEF Stop, InHand, Holding, Goroutines
  <2>. QED BY <1>6, <2>1, <2>2 DEF Stop, Phase, Pool!Closed, Pool!Next
<1>7. CASE UNCHANGED vars
  BY <1>7 DEF vars, Pool!vars, Phase, Holding, Goroutines, InHand
<1>. QED BY <1>1, <1>2, <1>3, <1>4, <1>5, <1>6, <1>7, PoolStutter DEF Next, Pool!Next

(* StartListening with its semaphore, wait group and polled context keeps  *)
(* the safety part of what a worker pool promises.                         *)
THEOREM RefinesWorkerPool == Spec => Pool!Spec
  BY PoolInit, PoolStep, Inductive, PTL DEF Spec, Pool!Spec

=============================================================================
