--------------------------- MODULE WorkerRegistry ---------------------------
(***************************************************************************)
(* How one worker keeps itself known to the supervisor.  Worker side: the  *)
(* goroutine of main that registers a bounded number of times, and the     *)
(* heartbeat goroutine with its failure counter, its reconnects and its    *)
(* re-registration after a heartbeat that is not acknowledged; both use    *)
(* one client.  Supervisor side: the gRPC handlers, statement by           *)
(* statement, which go on when their caller has given up; the health       *)
(* check and the REST handlers, which write the same rows.                 *)
(*                                                                         *)
(* Every row has the worker's name; a row's id is its position in rows.    *)
(* Other columns than status and the age of last_heartbeat are left out.   *)
(***************************************************************************)
EXTENDS Naturals, Sequences

CONSTANTS
    MaxCalls,     \* bound on the handlers at work at once
    MaxRetries,   \* registration attempts of main
    MaxFailures,  \* maxHeartbeatFailures
    Faults,       \* what may go wrong or be asked for
    Budget        \* bound on how often

FaultKinds == {"timeout", "dial", "db", "supcrash", "crash", "term", "rest"}

ASSUME FaultsAssumption == Faults \subseteq FaultKinds
ASSUME BoundsAssumption == /\ MaxCalls \in Nat /\ Budget \in Nat
                           /\ MaxRetries \in Nat \ {0}
                           /\ MaxFailures \in Nat \ {0}

VARIABLES
    rows,        \* table workers
    call,        \* the handlers of the supervisor's gRPC server
    sup,         \* the supervisor process
    doomed,      \* rows the health check has read and not yet marked
    proc,        \* the worker process
    client,      \* none: Init failed; closed: Reconnect failed; open
    pc,          \* its two goroutines
    attempts,    \* failed attempts of main's goroutine
    failures,    \* consecutiveHeartbeatFailures, up to MaxFailures
    budget,      \* faults left
    overlapped,  \* history: two RegisterWorker handlers were at work at once
    byHand       \* history: a row was added through REST

supervisor == <<rows, call, sup, doomed>>
goroutines == <<client, pc, attempts, failures>>
worker == <<proc, goroutines>>
history == <<overlapped, byHand>>
vars == <<supervisor, worker, budget, history>>

(* "stale" stands for status active and a last_heartbeat that is too old,  *)
(* "gone" for a deleted row.                                               *)
Status == {"active", "stale", "offline", "online", "gone"}
Goroutine == {"main", "heartbeat"}
Steps == {"select", "insert", "update", "registered", "refused",
          "beat", "acked", "nacked"}
Call == [at : Steps, row : Nat, by : Goroutine \cup {"nobody"}]
Idle == [at |-> "idle", row |-> 0, by |-> "nobody"]
Calls == 1 .. MaxCalls

TypeOK ==
    /\ rows \in Seq(Status)
    /\ call \in [Calls -> Call \cup {Idle}]
    /\ sup \in {"up", "down"}
    /\ doomed \subseteq Nat
    /\ proc \in {"up", "stopping", "down"}
    /\ client \in {"none", "closed", "open"}
    /\ pc \in [Goroutine -> {"register", "registering", "wait", "beating", "done"}]
    /\ attempts \in 0 .. MaxRetries
    /\ failures \in 0 .. MaxFailures
    /\ budget \in 0 .. Budget
    /\ overlapped \in BOOLEAN
    /\ byHand \in BOOLEAN

Started == [main |-> "register", heartbeat |-> "wait"]

(* The worker starts, before or after the supervisor. *)
Init ==
    /\ rows = <<>>
    /\ call = [k \in Calls |-> Idle]
    /\ sup \in {"up", "down"} /\ doomed = {}
    /\ proc = "up"
    /\ client \in {"open"} \cup (IF "dial" \in Faults THEN {"none"} ELSE {})
    /\ pc = Started
    /\ attempts = 0 /\ failures = 0
    /\ budget = Budget
    /\ overlapped = FALSE /\ byHand = FALSE

Fault(kind) == kind \in Faults /\ budget > 0 /\ budget' = budget - 1

(* A statement is executed, or fails and leaves the rows alone. *)
Statement(effect, failed) ==
    \/ effect /\ UNCHANGED budget
    \/ failed /\ Fault("db") /\ UNCHANGED rows

-----------------------------------------------------------------------------
(* The handlers of the supervisor.                                         *)

Ids == {i \in DOMAIN rows : rows[i] # "gone"}

Write(i, s) == rows' = IF i \in Ids THEN [rows EXCEPT ![i] = s] ELSE rows

(* The answer, which nobody takes when the caller has given up. *)
Answer(k, a) ==
    call' = [call EXCEPT ![k] = IF @.by = "nobody" THEN Idle ELSE [@ EXCEPT !.at = a]]

HandlerFrame == UNCHANGED <<sup, doomed, worker, history>>

(* FirstOrCreate orders by id, so it finds the lowest one ... *)
SelectNothing(k) ==
    /\ call[k].at = "select"
    /\ \/ call' = [call EXCEPT ![k].at = "insert"] /\ UNCHANGED budget
       \/ Answer(k, "refused") /\ Fault("db")
    /\ HandlerFrame /\ UNCHANGED rows

Select(k) ==
    /\ call[k].at = "select"
    /\ \/ /\ UNCHANGED budget
          /\ IF Ids = {} THEN call' = [call EXCEPT ![k].at = "insert"]
             ELSE \E i \in Ids :
                    /\ \A j \in Ids : i <= j
                    /\ call' = [call EXCEPT ![k].at = "update", ![k].row = i]
       \/ Answer(k, "refused") /\ Fault("db")
    /\ HandlerFrame /\ UNCHANGED rows

(* ... or creates a row, in a statement of its own, ... *)
Insert(k) ==
    /\ call[k].at = "insert"
    /\ Statement(rows' = Append(rows, "active") /\ Answer(k, "registered"),
                 Answer(k, "refused"))
    /\ HandlerFrame

(* ... and the row it found is updated by its id, with any outcome. *)
Update(k) ==
    /\ call[k].at = "update"
    /\ Statement(Write(call[k].row, "active"), TRUE)
    /\ Answer(k, "registered")
    /\ HandlerFrame

(* Heartbeat updates every row of the name. *)
Heartbeat(k) ==
    /\ call[k].at = "beat"
    /\ Statement(/\ rows' = [i \in DOMAIN rows |-> IF i \in Ids THEN "active" ELSE "gone"]
                 /\ Answer(k, IF Ids = {} THEN "nacked" ELSE "acked"),
                 Answer(k, "nacked"))
    /\ HandlerFrame

Handler(k) == Select(k) \/ Insert(k) \/ Update(k) \/ Heartbeat(k)

-----------------------------------------------------------------------------
(* Health check and REST.                                                  *)

AdminFrame == UNCHANGED <<call, sup, overlapped>>

(* 45 seconds without a heartbeat. *)
Age(i) ==
    /\ i \in Ids /\ rows[i] = "active"
    /\ Write(i, "stale")
    /\ AdminFrame /\ UNCHANGED <<doomed, worker, budget, byHand>>

(* The health check, with statuses mixed up with those REST writes. *)
HcQueryOnline ==
    /\ sup = "up" /\ doomed = {}
    /\ doomed' = {i \in Ids : rows[i] = "online"}
    /\ doomed' # {}
    /\ AdminFrame /\ UNCHANGED <<rows, worker, budget, byHand>>

HcQuery ==
    /\ sup = "up" /\ doomed = {}
    /\ doomed' = {i \in Ids : rows[i] = "stale"}
    /\ doomed' # {}
    /\ AdminFrame /\ UNCHANGED <<rows, worker, budget, byHand>>

(* By id, whatever happened to the row since. *)
HcMark ==
    /\ \E i \in doomed :
         Statement(Write(i, "offline"), TRUE) /\ doomed' = doomed \ {i}
    /\ AdminFrame /\ UNCHANGED <<worker, byHand>>

CreateWorker == rows' = Append(rows, "online") /\ byHand' = TRUE

(* PUT has no id to save under, so its Save inserts too. *)
UpdateWorker == rows' = Append(rows, "online") /\ byHand' = TRUE

DeleteWorker(i) == Write(i, "gone") /\ UNCHANGED byHand

Rest ==
    /\ sup = "up"
    /\ Fault("rest")
    /\ CreateWorker \/ UpdateWorker \/ \E i \in DOMAIN rows : DeleteWorker(i)
    /\ AdminFrame /\ UNCHANGED <<doomed, worker>>

(* Every handler and the health check die with the process. *)
SupCrash ==
    /\ sup = "up"
    /\ Fault("supcrash")
    /\ sup' = "down"
    /\ call' = [k \in Calls |-> Idle]
    /\ doomed' = {}
    /\ UNCHANGED <<rows, worker, history>>

SupRestart ==
    /\ sup = "down"
    /\ sup' = "up"
    /\ UNCHANGED <<rows, call, doomed, worker, budget, history>>

-----------------------------------------------------------------------------
(* The worker.                                                             *)

WorkerFrame == UNCHANGED <<rows, sup, doomed, byHand>>

Mine(g) == {k \in Calls : call[k].by = g}

(* The calls once the goroutines gs no longer wait for an answer. *)
Left(gs) ==
    [k \in Calls |->
        IF call[k].by \notin gs THEN call[k]
        ELSE IF call[k].at \in {"registered", "refused", "acked", "nacked"} THEN Idle
        ELSE [call[k] EXCEPT !.by = "nobody"]]

(* The heartbeat's context is cancelled, main's is the background one. *)
Cancelled(g) == g = "heartbeat" /\ proc = "stopping"

(* The RegisterWorker handlers at work. *)
Registrations == {k \in Calls : call[k].at \in {"select", "insert", "update"}}

(* A request reaches a handler unless there is no server or no caller.     *)
Send(g, step) ==
    /\ IF sup = "up" /\ ~Cancelled(g)
       THEN \E k \in Calls :
              /\ call[k] = Idle
              /\ \A i \in Calls : call[i] = Idle => k <= i
              /\ call' = [call EXCEPT ![k] = [at |-> step, row |-> 0, by |-> g]]
       ELSE UNCHANGED call
    /\ overlapped' = (overlapped \/ (step = "select" /\ Registrations # {}))

(* The deadline passes, or the connection breaks. *)
TimeOut(g) ==
    /\ Mine(g) # {}
    /\ Fault("timeout")
    /\ call' = Left({g})
    /\ WorkerFrame /\ UNCHANGED <<worker, overlapped>>

Lost(g) == Mine(g) = {} \/ Cancelled(g)

Got(g, answer) == \E k \in Mine(g) : call[k].at = answer

(* RegisterWorker of either goroutine. *)
Register(g) ==
    /\ pc[g] = "register"
    /\ client = "open"
    /\ Send(g, "select")
    /\ pc' = [pc EXCEPT ![g] = "registering"]
    /\ WorkerFrame /\ UNCHANGED <<proc, client, attempts, failures, budget>>

Registered(g) ==
    /\ pc[g] = "registering"
    /\ Got(g, "registered")
    /\ call' = Left({g})
    /\ pc' = [pc EXCEPT ![g] = IF g = "main" THEN "done" ELSE "wait"]
    /\ attempts' = IF g = "main" THEN 0 ELSE attempts
    /\ WorkerFrame
    /\ UNCHANGED <<proc, client, failures, budget, overlapped>>

(* main tries again after a pause, without a bound. *)
RegisterFailsOn(g) ==
    /\ \/ pc[g] = "register" /\ client = "closed"
       \/ pc[g] = "registering" /\ (Lost(g) \/ Got(g, "refused"))
    /\ call' = Left({g})
    /\ attempts' = IF g = "main" THEN attempts + 1 ELSE attempts
    /\ pc' = [pc EXCEPT ![g] = IF g = "main" THEN "register" ELSE "wait"]
    /\ WorkerFrame
    /\ UNCHANGED <<proc, client, failures, budget, overlapped>>

(* main tries MaxRetries times, the heartbeat goroutine once. *)
RegisterFails(g) ==
    /\ \/ pc[g] = "register" /\ client = "closed"
       \/ pc[g] = "registering" /\ (Lost(g) \/ Got(g, "refused"))
    /\ call' = Left({g})
    /\ attempts' = IF g = "main" THEN attempts + 1 ELSE attempts
    /\ pc' = [pc EXCEPT ![g] = IF g = "heartbeat" THEN "wait"
                               ELSE IF attempts' < MaxRetries THEN "register" ELSE "done"]
    /\ WorkerFrame
    /\ UNCHANGED <<proc, client, failures, budget, overlapped>>

(* A tick; a closed client is connected first, and the tick is void if     *)
(* that fails.                                                             *)
Beat ==
    /\ pc["heartbeat"] = "wait" /\ client # "none"
    /\ client' = "open"
    /\ Send("heartbeat", "beat")
    /\ pc' = [pc EXCEPT !["heartbeat"] = "beating"]
    /\ WorkerFrame /\ UNCHANGED <<proc, attempts, failures, budget>>

BeatSkipped ==
    /\ pc["heartbeat"] = "wait" /\ client = "closed"
    /\ Fault("dial")
    /\ WorkerFrame /\ UNCHANGED <<call, worker, overlapped>>

(* A heartbeat that is not acknowledged is only logged. *)
AnsweredNothing ==
    /\ pc["heartbeat"] = "beating"
    /\ Got("heartbeat", "acked") \/ Got("heartbeat", "nacked")
    /\ call' = Left({"heartbeat"})
    /\ failures' = 0
    /\ pc' = [pc EXCEPT !["heartbeat"] = "wait"]
    /\ WorkerFrame /\ UNCHANGED <<proc, client, attempts, budget, overlapped>>

Answered ==
    /\ pc["heartbeat"] = "beating"
    /\ Got("heartbeat", "acked") \/ Got("heartbeat", "nacked")
    /\ call' = Left({"heartbeat"})
    /\ failures' = 0
    /\ pc' = [pc EXCEPT !["heartbeat"] =
                 IF Got("heartbeat", "acked") THEN "wait" ELSE "register"]
    /\ WorkerFrame /\ UNCHANGED <<proc, client, attempts, budget, overlapped>>

(* The connection is closed, under a registration of main too, and none is *)
(* left if the new one fails.                                              *)
Reconnect ==
    /\ call' = Left(Goroutine)
    /\ \/ client' = "open" /\ UNCHANGED budget
       \/ client' = "closed" /\ Fault("dial")

(* The counter is compared after one failure too many. *)
BeatFailsLate ==
    /\ pc["heartbeat"] = "beating" /\ Lost("heartbeat")
    /\ pc' = [pc EXCEPT !["heartbeat"] = "wait"]
    /\ IF failures < MaxFailures
       THEN /\ failures' = failures + 1 /\ call' = Left({"heartbeat"})
            /\ UNCHANGED <<client, budget>>
       ELSE Reconnect /\ failures' = 0
    /\ WorkerFrame /\ UNCHANGED <<proc, attempts, overlapped>>

(* A successful reconnect forgives the failures. *)
BeatFails ==
    /\ pc["heartbeat"] = "beating" /\ Lost("heartbeat")
    /\ pc' = [pc EXCEPT !["heartbeat"] = "wait"]
    /\ IF failures + 1 < MaxFailures
       THEN /\ failures' = failures + 1 /\ call' = Left({"heartbeat"})
            /\ UNCHANGED <<client, budget>>
       ELSE Reconnect /\ failures' = IF client' = "open" THEN 0 ELSE MaxFailures
    /\ WorkerFrame /\ UNCHANGED <<proc, attempts, overlapped>>

(* SIGTERM, or a Shutdown call. *)
Stop ==
    /\ proc = "up"
    /\ Fault("term")
    /\ proc' = "stopping"
    /\ WorkerFrame /\ UNCHANGED <<call, goroutines, overlapped>>

HeartbeatStops ==
    /\ Cancelled("heartbeat") /\ pc["heartbeat"] = "wait"
    /\ pc' = [pc EXCEPT !["heartbeat"] = "done"]
    /\ WorkerFrame
    /\ UNCHANGED <<call, proc, client, attempts, failures, budget, overlapped>>

(* The process ends after its drain, or dies. *)
End ==
    /\ proc # "down"
    /\ (proc = "stopping" /\ UNCHANGED budget) \/ Fault("crash")
    /\ proc' = "down"
    /\ call' = Left(Goroutine)
    /\ client' = "none" /\ attempts' = 0 /\ failures' = 0
    /\ pc' = [g \in Goroutine |-> "done"]
    /\ WorkerFrame /\ UNCHANGED overlapped

Start ==
    /\ proc = "down"
    /\ proc' = "up"
    /\ pc' = Started
    /\ \/ client' = "open" /\ UNCHANGED budget
       \/ client' = "none" /\ Fault("dial")
    /\ WorkerFrame /\ UNCHANGED <<call, attempts, failures, overlapped>>

-----------------------------------------------------------------------------
Answers(g) == Registered(g) \/ RegisterFails(g)
Pulse == Beat \/ Answered \/ BeatFails

Next ==
    \/ \E k \in Calls : Handler(k)
    \/ \E i \in DOMAIN rows : Age(i)
    \/ HcQuery \/ HcMark \/ Rest \/ SupCrash \/ SupRestart
    \/ \E g \in Goroutine : TimeOut(g) \/ Register(g) \/ Answers(g)
    \/ Pulse \/ BeatSkipped \/ HeartbeatStops
    \/ Stop \/ End \/ Start

Spec == Init /\ [][Next]_vars

(* Handlers return, goroutines go on, tickers tick, time passes.  Faults,  *)
(* requests and restarts are not fair.                                     *)
FairSpec ==
    /\ Spec
    /\ \A k \in Calls : WF_vars(Handler(k))
    /\ \A g \in Goroutine : WF_vars(Register(g)) /\ WF_vars(Answers(g))
    /\ WF_vars(Pulse)
    /\ WF_vars(HcQuery) /\ WF_vars(HcMark)
    /\ WF_vars(\E i \in DOMAIN rows : Age(i))

-----------------------------------------------------------------------------
(* Properties.                                                             *)

(* "Upsert worker record" (System Design.drawio): registering a worker     *)
(* leaves it with one row, unless REST has added one of its name.  Two     *)
(* registrations at work at once can break this.                           *)
RegistrationUpserts == byHand \/ \A i, j \in Ids : i = j

(* However often a worker registers again, restarts or is forgotten, it    *)
(* has one row (the FirstOrCreate of RegisterWorker), as long as one       *)
(* registration is at work at a time.                                      *)
OneRow == overlapped \/ RegistrationUpserts

(* The heartbeat goroutine does not wait for its next tick on a connection *)
(* over which maxHeartbeatFailures heartbeats in a row have failed.        *)
NoDeadConnectionKept ==
    pc["heartbeat"] = "wait" /\ client = "open" => failures < MaxFailures

(* A worker that runs is active with a fresh heartbeat again and again:    *)
(* heartbeats, reconnects and re-registration repair whatever deletes,     *)
(* restarts, late marks and lost calls have done, also after main has      *)
(* given up; not if InitSupervisorClient failed, or without a supervisor.  *)
LiveWorkerIsActive ==
    []<>(\/ proc # "up" \/ sup = "down" \/ client = "none"
         \/ \E i \in Ids : rows[i] = "active")

(* The rows of a worker that is gone do not stay active: whatever its last *)
(* calls still write, the health check gets to them (checkAndRecover).     *)
DeadWorkerIsMarked ==
    []<>(\/ proc # "down" \/ sup = "down"
         \/ \A i \in Ids : rows[i] \notin {"active", "stale"})

=============================================================================
