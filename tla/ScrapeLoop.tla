----------------------------- MODULE ScrapeLoop -----------------------------
(***************************************************************************)
(* One worker process at the grain of its goroutines: the StartListening   *)
(* loop with its semaphore, wait group and ActiveJobCount, one goroutine   *)
(* per popped message, and the way a stop request travels from SIGTERM or  *)
(* from the Shutdown handlers over a channel of capacity one to main,      *)
(* which cancels the context the loop polls.                               *)
(***************************************************************************)
EXTENDS Naturals, Integers, FiniteSets

CONSTANTS
    Msgs,      \* messages BRPop may return, each once
    Cap,       \* WorkerCapacity
    Callers,   \* Shutdown calls that may reach the worker
    NoMsg

ASSUME MsgsAssumption == IsFiniteSet(Msgs) /\ NoMsg \notin Msgs
ASSUME CapAssumption == Cap \in Nat \ {0}

VARIABLES
    loop,      \* where StartListening is
    list,      \* messages not popped yet
    hand,      \* jobData of the loop
    sem,       \* tokens in the semaphore channel
    active,    \* ActiveJobCount
    wg,        \* counter of the wait group
    go,        \* the goroutine of each message
    cancelled, \* ctx.Done() is closed
    signals,   \* elements in main's signal channel
    caller,    \* the goroutine of each Shutdown handler
    waiter     \* main's goroutine that waits for a signal

loopVars == <<loop, list, hand>>
stopVars == <<cancelled, signals, caller, waiter>>
vars == <<loopVars, sem, active, wg, go, stopVars>>

TypeOK ==
    /\ loop \in {"select", "brpop", "acquire", "count", "spawn", "wait", "stopped"}
    /\ list \subseteq Msgs
    /\ hand \in Msgs \cup {NoMsg}
    /\ sem \in 0 .. Cap
    /\ active \in Int
    /\ wg \in Int
    /\ go \in [Msgs -> {"none", "run", "ran", "released", "counted", "done"}]
    /\ cancelled \in BOOLEAN
    /\ signals \in 0 .. 1
    /\ caller \in [Callers -> {"idle", "armed", "sent"}]
    /\ waiter \in {"wait", "cancel", "gone"}

Init ==
    /\ loop = "select"
    /\ list = Msgs
    /\ hand = NoMsg
    /\ sem = 0 /\ active = 0 /\ wg = 0
    /\ go = [m \in Msgs |-> "none"]
    /\ cancelled = FALSE
    /\ signals = 0
    /\ caller = [c \in Callers |-> "idle"]
    /\ waiter = "wait"

-----------------------------------------------------------------------------
(* The loop.                                                               *)

(* Faulty variant: the select lacks its ctx.Done() case.                   *)
SelectNoCancel ==
    /\ loop = "select"
    /\ loop' = "brpop"
    /\ UNCHANGED <<list, hand, sem, active, wg, go, stopVars>>

(* select with a default branch: ctx.Done() or one more BRPop.             *)
Select ==
    /\ loop = "select"
    /\ loop' = IF cancelled THEN "wait" ELSE "brpop"
    /\ UNCHANGED <<list, hand, sem, active, wg, go, stopVars>>

(* BRPop returns a message, even when the context was cancelled meanwhile. *)
Pop(m) ==
    /\ loop = "brpop"
    /\ m \in list
    /\ list' = list \ {m}
    /\ hand' = m
    /\ loop' = "acquire"
    /\ UNCHANGED <<sem, active, wg, go, stopVars>>

(* redis.Nil after five seconds, an error, or a malformed reply.           *)
PopNothing ==
    /\ loop = "brpop"
    /\ loop' = "select"
    /\ UNCHANGED <<list, hand, sem, active, wg, go, stopVars>>

(* Faulty variant: an unbounded semaphore.                                 *)
AcquireAlways ==
    /\ loop = "acquire"
    /\ sem' = sem + 1
    /\ loop' = "count"
    /\ UNCHANGED <<list, hand, active, wg, go, stopVars>>

(* sem <- struct{}{} blocks while the channel is full.                     *)
Acquire ==
    /\ loop = "acquire"
    /\ sem < Cap
    /\ sem' = sem + 1
    /\ loop' = "count"
    /\ UNCHANGED <<list, hand, active, wg, go, stopVars>>

Count ==
    /\ loop = "count"
    /\ active' = active + 1
    /\ loop' = "spawn"
    /\ UNCHANGED <<list, hand, sem, wg, go, stopVars>>

(* Faulty variants: the token is returned by the loop instead of by the    *)
(* goroutine; the next BRPop is made without coming round to the select.   *)
SpawnReleases ==
    /\ loop = "spawn"
    /\ wg' = wg + 1
    /\ go' = [go EXCEPT ![hand] = "run"]
    /\ hand' = NoMsg
    /\ sem' = sem - 1
    /\ loop' = "select"
    /\ UNCHANGED <<list, active, stopVars>>

SpawnPopsOn ==
    /\ loop = "spawn"
    /\ wg' = wg + 1
    /\ go' = [go EXCEPT ![hand] = "run"]
    /\ hand' = NoMsg
    /\ loop' = "brpop"
    /\ UNCHANGED <<list, sem, active, stopVars>>

(* wg.Add(1) and the go statement; the loop then comes round.              *)
Spawn ==
    /\ loop = "spawn"
    /\ wg' = wg + 1
    /\ go' = [go EXCEPT ![hand] = "run"]
    /\ hand' = NoMsg
    /\ loop' = "select"
    /\ UNCHANGED <<list, sem, active, stopVars>>

(* Faulty variant: no wg.Wait().                                           *)
StopAtOnce ==
    /\ loop = "wait"
    /\ loop' = "stopped"
    /\ UNCHANGED <<list, hand, sem, active, wg, go, stopVars>>

(* wg.Wait() returns, StartListening returns, main returns: the process    *)
(* and every goroutine still in it end here.                               *)
Stop ==
    /\ loop = "wait"
    /\ wg = 0
    /\ loop' = "stopped"
    /\ UNCHANGED <<list, hand, sem, active, wg, go, stopVars>>

-----------------------------------------------------------------------------
(* The goroutine of message m; its deferred calls run last-in first-out.   *)

Alive == loop # "stopped"

(* processJob returns.                                                     *)
Process(m) ==
    /\ Alive
    /\ go[m] = "run"
    /\ go' = [go EXCEPT ![m] = "ran"]
    /\ UNCHANGED <<loopVars, sem, active, wg, stopVars>>

(* Faulty variant: the token is not returned.                              *)
ReleaseForgets(m) ==
    /\ Alive
    /\ go[m] = "ran"
    /\ go' = [go EXCEPT ![m] = "released"]
    /\ UNCHANGED <<loopVars, sem, active, wg, stopVars>>

Release(m) ==
    /\ Alive
    /\ go[m] = "ran"
    /\ sem > 0
    /\ sem' = sem - 1
    /\ go' = [go EXCEPT ![m] = "released"]
    /\ UNCHANGED <<loopVars, active, wg, stopVars>>

(* Faulty variant: ActiveJobCount only grows.                              *)
UncountForgets(m) ==
    /\ Alive
    /\ go[m] = "released"
    /\ go' = [go EXCEPT ![m] = "counted"]
    /\ UNCHANGED <<loopVars, sem, active, wg, stopVars>>

Uncount(m) ==
    /\ Alive
    /\ go[m] = "released"
    /\ active' = active - 1
    /\ go' = [go EXCEPT ![m] = "counted"]
    /\ UNCHANGED <<loopVars, sem, wg, stopVars>>

WgDone(m) ==
    /\ Alive
    /\ go[m] = "counted"
    /\ wg' = wg - 1
    /\ go' = [go EXCEPT ![m] = "done"]
    /\ UNCHANGED <<loopVars, sem, active, stopVars>>

-----------------------------------------------------------------------------
(* Stop requests.                                                          *)

(* os/signal drops a signal when the channel is full.                      *)
SigTerm ==
    /\ Alive
    /\ signals' = 1
    /\ UNCHANGED <<loopVars, sem, active, wg, go, cancelled, caller, waiter>>

(* The Shutdown handler answers and leaves a goroutine behind; the gRPC    *)
(* server takes no call after the context is cancelled.                    *)
Shutdown(c) ==
    /\ Alive
    /\ ~cancelled
    /\ caller[c] = "idle"
    /\ caller' = [caller EXCEPT ![c] = "armed"]
    /\ UNCHANGED <<loopVars, sem, active, wg, go, cancelled, signals, waiter>>

(* That goroutine's send blocks while the channel is full.                 *)
Send(c) ==
    /\ Alive
    /\ caller[c] = "armed"
    /\ signals = 0
    /\ signals' = 1
    /\ caller' = [caller EXCEPT ![c] = "sent"]
    /\ UNCHANGED <<loopVars, sem, active, wg, go, cancelled, waiter>>

(* main's goroutine receives one signal and cancels the context.           *)
Receive ==
    /\ Alive
    /\ waiter = "wait"
    /\ signals = 1
    /\ signals' = 0
    /\ waiter' = "cancel"
    /\ UNCHANGED <<loopVars, sem, active, wg, go, cancelled, caller>>

Cancel ==
    /\ Alive
    /\ waiter = "cancel"
    /\ cancelled' = TRUE
    /\ waiter' = "gone"
    /\ UNCHANGED <<loopVars, sem, active, wg, go, signals, caller>>

-----------------------------------------------------------------------------
Next ==
    \/ Select \/ PopNothing \/ Acquire \/ Count \/ Spawn \/ Stop
    \/ \E m \in Msgs : Pop(m) \/ Process(m) \/ Release(m) \/ Uncount(m) \/ WgDone(m)
    \/ SigTerm \/ Receive \/ Cancel
    \/ \E c \in Callers : Shutdown(c) \/ Send(c)

Spec == Init /\ [][Next]_vars

(* The Go scheduler runs every runnable goroutine; BRPop returns within    *)
(* five seconds, with or without a message; a scrape ends.  Signals and    *)
(* Shutdown calls need not happen.                                         *)
Fairness ==
    /\ WF_vars(Select) /\ WF_vars(PopNothing \/ \E m \in Msgs : Pop(m))
    /\ WF_vars(Acquire) /\ WF_vars(Count) /\ WF_vars(Spawn) /\ WF_vars(Stop)
    /\ \A m \in Msgs : /\ WF_vars(Process(m)) /\ WF_vars(Release(m))
                       /\ WF_vars(Uncount(m)) /\ WF_vars(WgDone(m))
    /\ WF_vars(Receive) /\ WF_vars(Cancel)
    /\ \A c \in Callers : WF_vars(Send(c))

FairSpec == Spec /\ Fairness

-----------------------------------------------------------------------------
(* Safety.                                                                 *)

Goroutines(S) == {m \in Msgs : go[m] \in S}
InHand(S) == IF loop \in S THEN {hand} ELSE {}

Holding == Goroutines({"run", "ran"}) \cup InHand({"count", "spawn"})
Counted == Goroutines({"run", "ran", "released"}) \cup InHand({"spawn"})
Waited == Goroutines({"run", "ran", "released", "counted"})

(* Every token of the semaphore belongs to one message, so the wait group  *)
(* and the semaphore never get out of step with the goroutines.            *)
TokensAreHeld == sem = Cardinality(Holding) /\ wg = Cardinality(Waited)

(* At most WorkerCapacity scrapes run at once ("max parallel jobs per      *)
(* worker"), although the loop pops a message before it has a token.       *)
RunsAreBounded == Cardinality(Goroutines({"run"})) <= Cap

(* The figure a heartbeat reports counts every message whose goroutine has *)
(* not yet decremented it and the one about to be started, exactly: it may *)
(* exceed Cap by the goroutines between <-sem and Add(-1), but never hides *)
(* a run and never drifts.                                                 *)
CountIsExact ==
    /\ active = Cardinality(Counted)
    /\ active <= Cap + Cardinality(Goroutines({"released"}))

(* When the process ends, each message it ever popped is processed: also   *)
(* the one that BRPop brought after the cancellation, and the one that was *)
(* waiting for a token ("in-flight jobs finish before shutdown").          *)
NothingIsDropped ==
    loop = "stopped" => hand = NoMsg /\ \A m \in Msgs : m \in list \/ go[m] = "done"

-----------------------------------------------------------------------------
(* Liveness.                                                               *)

(* Every Shutdown call that was answered stops the worker, also when the   *)
(* channel is full and its goroutine never gets its signal through.        *)
ShutdownIsObeyed == \A c \in Callers : caller[c] = "armed" ~> loop = "stopped"

(* Every popped message is processed, whether or not a stop comes.         *)
PoppedIsProcessed == \A m \in Msgs : hand = m ~> go[m] \in {"ran", "released", "counted", "done"}

-----------------------------------------------------------------------------
(* Refinement.                                                             *)

Phase ==
    IF loop = "stopped" THEN "closed"
    ELSE IF ~cancelled THEN "open"
    ELSE IF loop = "brpop" THEN "closing"
    ELSE "last"

Pool == INSTANCE WorkerPool WITH
    todo <- list,
    taken <- InHand({"acquire"}),
    running <- Holding,
    finished <- Goroutines({"released", "counted", "done"}),
    phase <- Phase

(* The process is a worker pool: semaphore, wait group and polled context  *)
(* together keep the pool's promise, safety and liveness.                  *)
ImplementsWorkerPool == Pool!FairSpec

-----------------------------------------------------------------------------
(* The inductive invariant.                                                *)

HandIsPopped ==
    IF loop \in {"acquire", "count", "spawn"}
    THEN hand \in Msgs /\ hand \notin list /\ go[hand] = "none"
    ELSE hand = NoMsg

ListIsUntouched == \A m \in Msgs : m \in list => go[m] = "none"

PoppedIsKept == \A m \in Msgs : go[m] = "none" => m \in list \/ hand = m

WaitsOnlyCancelled ==
    /\ loop \in {"wait", "stopped"} => cancelled
    /\ loop = "stopped" => Waited = {}

IInv ==
    /\ TypeOK
    /\ HandIsPopped /\ ListIsUntouched /\ PoppedIsKept /\ WaitsOnlyCancelled
    /\ TokensAreHeld
    /\ active = Cardinality(Counted)
=============================================================================
