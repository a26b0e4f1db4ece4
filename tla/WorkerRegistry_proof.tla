------------------------ MODULE WorkerRegistry_proof ------------------------
(* Proofs about WorkerRegistry, for any number of handlers, attempts,      *)
(* failures and faults.                                                    *)
EXTENDS WorkerRegistry, TLAPS

USE FaultsAssumption, BoundsAssumption

-----------------------------------------------------------------------------
(* The invariant.                                                          *)

(* The counters of the worker along the control of its goroutines.         *)
Counters ==
    /\ proc = "down" => /\ pc["main"] = "done" /\ pc["heartbeat"] = "done"
                        /\ attempts = 0 /\ failures = 0
    /\ pc["main"] \in {"register", "registering"} => attempts < MaxRetries
    /\ pc["heartbeat"] \in {"register", "registering"} => failures = 0
    /\ NoDeadConnectionKept

(* While registrations come one at a time, one that is about to insert has *)
(* still no row to find.                                                   *)
OneRegistration ==
    overlapped = FALSE => \A k, l \in Registrations : k = l

NoRowToFind ==
    overlapped = FALSE /\ byHand = FALSE =>
        \A k \in Calls : call[k].at = "insert" => Ids = {}

SingleRow ==
    overlapped = FALSE /\ byHand = FALSE => \A i, j \in Ids : i = j

Rows == OneRegistration /\ NoRowToFind /\ SingleRow

IInv == TypeOK /\ Counters /\ Rows

-----------------------------------------------------------------------------
(* What the helpers do to calls and rows.                                  *)

(* A caller that leaves moves no handler forward. *)
LEMMA LeftCalls ==
  ASSUME TypeOK, NEW gs
  PROVE  /\ Left(gs) \in [Calls -> Call \cup {Idle}]
         /\ \A k \in Calls : Left(gs)[k].at \in {call[k].at, "idle"}
<1>1. ASSUME NEW k \in Calls
      PROVE  /\ Left(gs)[k] \in Call \cup {Idle}
             /\ Left(gs)[k].at \in {call[k].at, "idle"}
  <2>1. call[k] \in Call \cup {Idle}
    BY DEF TypeOK
  <2>2. CASE call[k].by \notin gs
    BY <2>1, <2>2 DEF Left
  <2>3. CASE call[k].by \in gs /\ call[k].at \in {"registered", "refused", "acked", "nacked"}
    BY <2>3 DEF Left, Idle
  <2>4. CASE call[k].by \in gs /\ call[k].at \notin {"registered", "refused", "acked", "nacked"}
    BY <2>1, <2>4 DEF Left, Call, Idle, Steps
  <2> QED BY <2>2, <2>3, <2>4
<1> QED BY <1>1 DEF Left

(* An answer ends the handler, whether it is taken or not. *)
LEMMA AnswerCalls ==
  ASSUME TypeOK, NEW k \in Calls, NEW a \in Steps, Answer(k, a), call[k] # Idle
  PROVE  /\ call' \in [Calls -> Call \cup {Idle}]
         /\ call'[k].at \in {a, "idle"}
         /\ \A l \in Calls \ {k} : call'[l] = call[l]
<1>1. call[k] \in Call
  BY DEF TypeOK
<1>2. CASE call[k].by = "nobody"
  BY <1>2 DEF TypeOK, Answer, Idle
<1>3. CASE call[k].by # "nobody"
  BY <1>1, <1>3 DEF TypeOK, Answer, Call
<1> QED BY <1>2, <1>3

(* Writing a row adds none. *)
LEMMA WriteRows ==
  ASSUME TypeOK, NEW i, NEW s \in Status, Write(i, s)
  PROVE  rows' \in Seq(Status) /\ Ids' \subseteq Ids
BY DEF TypeOK, Write, Ids, Status

(* A fault is paid for. *)
LEMMA FaultBudget ==
  ASSUME TypeOK, NEW kind, Fault(kind)
  PROVE  budget' \in 0 .. Budget
BY DEF TypeOK, Fault

(* With the same handlers, flags and no new rows, the rows agree still.    *)
LEMMA RowsKept ==
  ASSUME TypeOK, Rows, Ids' \subseteq Ids,
         \A k \in Calls : call'[k].at \in {call[k].at, "idle", "registered", "refused",
                                           "acked", "nacked", "update"},
         \A k \in Calls : call'[k].at = "update" => k \in Registrations,
         overlapped' = FALSE => overlapped = FALSE,
         byHand' = FALSE => byHand = FALSE
  PROVE  Rows'
<1>1. Registrations' \subseteq Registrations
  BY DEF Registrations
<1>2. OneRegistration'
  BY <1>1 DEF Rows, OneRegistration
<1>3. NoRowToFind'
  BY DEF Rows, NoRowToFind
<1>4. SingleRow'
  BY DEF Rows, SingleRow
<1> QED BY <1>2, <1>3, <1>4 DEF Rows

-----------------------------------------------------------------------------
(* The steps.                                                              *)

(* Every step keeps the types. *)
LEMMA TypeStep == ASSUME IInv, [Next]_vars PROVE TypeOK'
<1> USE DEF IInv, TypeOK
<1>1. ASSUME NEW k \in Calls, Handler(k) PROVE TypeOK'
  <2> USE DEF HandlerFrame, worker, goroutines, history
  <2>1. CASE Select(k)
    <3>1. call[k] \in Call
      BY <2>1 DEF Select, Idle
    <3>2. budget' \in 0 .. Budget /\ UNCHANGED rows
      BY <2>1, FaultBudget DEF Select
    <3>3. call' \in [Calls -> Call \cup {Idle}]
      <4>1. CASE Answer(k, "refused")
        BY <2>1, <4>1, AnswerCalls DEF Select, Steps, Idle
      <4>2. CASE call' = [call EXCEPT ![k].at = "insert"]
        BY <3>1, <4>2 DEF Call, Steps
      <4>3. CASE \E i \in Ids : call' = [call EXCEPT ![k].at = "update", ![k].row = i]
        <5>1. PICK i \in Ids : call' = [call EXCEPT ![k].at = "update", ![k].row = i]
          BY <4>3
        <5>2. i \in Nat
          BY DEF Ids
        <5> QED BY <3>1, <5>1, <5>2 DEF Call, Steps
      <4> QED BY <2>1, <4>1, <4>2, <4>3 DEF Select
    <3> QED BY <2>1, <3>2, <3>3 DEF Select
  <2>2. CASE Insert(k)
    <3>0. Append(rows, "active") \in Seq(Status)
      BY DEF Status
    <3>1. rows' \in Seq(Status) /\ budget' \in 0 .. Budget
      BY <2>2, <3>0, FaultBudget DEF Insert, Statement
    <3>2. call' \in [Calls -> Call \cup {Idle}]
      BY <2>2, AnswerCalls DEF Insert, Statement, Steps, Idle
    <3> QED BY <2>2, <3>1, <3>2 DEF Insert
  <2>3. CASE Update(k)
    <3>1. "active" \in Status
      BY DEF Status
    <3>2. Write(call[k].row, "active") /\ UNCHANGED budget
            => rows' \in Seq(Status) /\ budget' \in 0 .. Budget
      BY <3>1, WriteRows
    <3>3. Fault("db") /\ UNCHANGED rows
            => rows' \in Seq(Status) /\ budget' \in 0 .. Budget
      BY FaultBudget
    <3>4. rows' \in Seq(Status) /\ budget' \in 0 .. Budget
      BY <2>3, <3>2, <3>3 DEF Update, Statement
    <3>5. call' \in [Calls -> Call \cup {Idle}]
      BY <2>3, AnswerCalls DEF Update, Steps, Idle
    <3> QED BY <2>3, <3>4, <3>5 DEF Update
  <2>4. CASE Heartbeat(k)
    <3> DEFINE beaten == [i \in DOMAIN rows |-> IF i \in Ids THEN "active" ELSE "gone"]
    <3>0. beaten \in Seq(Status)
      <4>1. beaten \in [1 .. Len(rows) -> Status]
        BY DEF Status
      <4> QED BY <4>1
    <3>1. rows' \in Seq(Status) /\ budget' \in 0 .. Budget
      BY <2>4, <3>0, FaultBudget DEF Heartbeat, Statement
    <3>2. call' \in [Calls -> Call \cup {Idle}]
      BY <2>4, AnswerCalls DEF Heartbeat, Statement, Steps, Idle
    <3> QED BY <2>4, <3>1, <3>2 DEF Heartbeat
  <2> QED BY <1>1, <2>1, <2>2, <2>3, <2>4 DEF Handler
<1>2. ASSUME NEW i \in DOMAIN rows, Age(i) PROVE TypeOK'
  <2>1. rows' \in Seq(Status)
    BY <1>2, WriteRows DEF Age, Status
  <2> QED BY <1>2, <2>1 DEF Age, AdminFrame, worker, goroutines
<1>3. CASE HcQuery
  BY <1>3 DEF HcQuery, AdminFrame, worker, goroutines, Ids
<1>4. CASE HcMark
  <2>1. PICK i \in doomed : Statement(Write(i, "offline"), TRUE) /\ doomed' = doomed \ {i}
    BY <1>4 DEF HcMark
  <2>2. rows' \in Seq(Status) /\ budget' \in 0 .. Budget
    BY <2>1, FaultBudget, WriteRows DEF Statement, Status
  <2> QED BY <1>4, <2>1, <2>2 DEF HcMark, AdminFrame, worker, goroutines
<1>5. CASE Rest
  <2>1. CASE CreateWorker \/ UpdateWorker
    <3>1. rows' \in Seq(Status) /\ byHand' = TRUE
      BY <2>1 DEF CreateWorker, UpdateWorker, Status
    <3> QED BY <1>5, <3>1, FaultBudget DEF Rest, AdminFrame, worker, goroutines
  <2>2. CASE \E i \in DOMAIN rows : DeleteWorker(i)
    <3>1. rows' \in Seq(Status) /\ UNCHANGED byHand
      BY <2>2, WriteRows DEF DeleteWorker, Status
    <3> QED BY <1>5, <3>1, FaultBudget DEF Rest, AdminFrame, worker, goroutines
  <2> QED BY <1>5, <2>1, <2>2 DEF Rest
<1>6. CASE SupCrash
  BY <1>6, FaultBudget DEF SupCrash, worker, goroutines, history
<1>7. CASE SupRestart
  BY <1>7 DEF SupRestart, worker, goroutines, history
<1> USE DEF WorkerFrame
<1>8. ASSUME NEW g \in Goroutine, TimeOut(g) PROVE TypeOK'
  BY <1>8, LeftCalls, FaultBudget DEF TimeOut, worker, goroutines
<1>9. ASSUME NEW g, NEW step \in Steps, g \in Goroutine, Send(g, step)
      PROVE call' \in [Calls -> Call \cup {Idle}] /\ overlapped' \in BOOLEAN
  <2>1. overlapped' \in BOOLEAN
    BY <1>9 DEF Send
  <2>2. [at |-> step, row |-> 0, by |-> g] \in Call
    BY <1>9 DEF Call
  <2> QED BY <1>9, <2>1, <2>2 DEF Send
<1>10. ASSUME NEW g \in Goroutine, Register(g) PROVE TypeOK'
  BY <1>9, <1>10 DEF Register, Steps
<1>11. ASSUME NEW g \in Goroutine, Registered(g) PROVE TypeOK'
  BY <1>11, LeftCalls DEF Registered
<1>12. ASSUME NEW g \in Goroutine, RegisterFails(g) PROVE TypeOK'
  <2>1. attempts' \in 0 .. MaxRetries
    BY <1>12 DEF RegisterFails, Counters, Goroutine
  <2> QED BY <1>12, <2>1, LeftCalls DEF RegisterFails
<1>13. CASE Beat
  BY <1>9, <1>13 DEF Beat, Steps, Goroutine
<1>14. CASE Answered
  <2>1. pc' \in [Goroutine -> {"register", "registering", "wait", "beating", "done"}]
    BY <1>14 DEF Answered
  <2> QED BY <1>14, <2>1, LeftCalls DEF Answered
<1>15. CASE BeatFails
  <2>1. pc' \in [Goroutine -> {"register", "registering", "wait", "beating", "done"}]
    BY <1>15 DEF BeatFails, Reconnect
  <2>2. call' \in [Calls -> Call \cup {Idle}]
    BY <1>15, LeftCalls DEF BeatFails, Reconnect
  <2>3. failures' \in 0 .. MaxFailures /\ client' \in {"none", "closed", "open"}
    BY <1>15 DEF BeatFails, Reconnect
  <2>4. budget' \in 0 .. Budget
    BY <1>15, FaultBudget DEF BeatFails, Reconnect
  <2> QED BY <1>15, <2>1, <2>2, <2>3, <2>4 DEF BeatFails, Reconnect
<1>16. CASE BeatSkipped
  BY <1>16, FaultBudget DEF BeatSkipped, worker, goroutines
<1>17. CASE HeartbeatStops
  BY <1>17 DEF HeartbeatStops
<1>18. CASE Stop
  BY <1>18, FaultBudget DEF Stop, goroutines
<1>19. CASE End
  <2>1. pc' \in [Goroutine -> {"register", "registering", "wait", "beating", "done"}]
    BY <1>19 DEF End
  <2>2. attempts' \in 0 .. MaxRetries /\ failures' \in 0 .. MaxFailures
    BY <1>19 DEF End
  <2> QED BY <1>19, <2>1, <2>2, LeftCalls, FaultBudget DEF End
<1>20. CASE Start
  <2>1. pc' \in [Goroutine -> {"register", "registering", "wait", "beating", "done"}]
    BY <1>20 DEF Start, Started, Goroutine
  <2> QED BY <1>20, <2>1, FaultBudget DEF Start
<1>21. CASE UNCHANGED vars
  BY <1>21 DEF vars, supervisor, worker, goroutines, history
<1> QED
  BY <1>1, <1>2, <1>3, <1>4, <1>5, <1>6, <1>7, <1>8, <1>10, <1>11, <1>12,
     <1>13, <1>14, <1>15, <1>16, <1>17, <1>18, <1>19, <1>20, <1>21
     DEF Next, Answers, Pulse

(* Every step keeps the counters. *)
LEMMA CountersStep == ASSUME IInv, [Next]_vars PROVE Counters'
<1> USE DEF IInv, TypeOK, Counters, NoDeadConnectionKept
<1>1. ASSUME UNCHANGED worker PROVE Counters'
  BY <1>1 DEF worker, goroutines
<1>2. ASSUME NEW k \in Calls, Handler(k) PROVE UNCHANGED worker
  BY <1>2 DEF Handler, Select, Insert, Update, Heartbeat, HandlerFrame
<1>3. ASSUME \/ \E i \in DOMAIN rows : Age(i)
             \/ HcQuery \/ HcMark \/ Rest \/ SupCrash \/ SupRestart \/ BeatSkipped
             \/ \E g \in Goroutine : TimeOut(g)
      PROVE  UNCHANGED worker
  BY <1>3 DEF Age, HcQuery, HcMark, Rest, SupCrash, SupRestart, BeatSkipped, TimeOut
<1>4. ASSUME NEW g \in Goroutine, Register(g) PROVE Counters'
  BY <1>4 DEF Register, Goroutine
<1>5. ASSUME NEW g \in Goroutine, Registered(g) PROVE Counters'
  BY <1>5 DEF Registered, Goroutine
<1>6. ASSUME NEW g \in Goroutine, RegisterFails(g) PROVE Counters'
  BY <1>6 DEF RegisterFails, Goroutine
<1>7. CASE Beat
  BY <1>7 DEF Beat, Goroutine
<1>8. CASE Answered
  BY <1>8 DEF Answered, Goroutine
<1>9. CASE BeatFails
  BY <1>9 DEF BeatFails, Reconnect, Goroutine
<1>10. CASE HeartbeatStops
  BY <1>10 DEF HeartbeatStops, Goroutine
<1>11. CASE Stop
  BY <1>11 DEF Stop, goroutines
<1>12. CASE End
  BY <1>12 DEF End, Goroutine
<1>13. CASE Start
  BY <1>13 DEF Start, Started, Goroutine
<1>14. CASE UNCHANGED vars
  BY <1>1, <1>14 DEF vars
<1> QED
  BY <1>1, <1>2, <1>3, <1>4, <1>5, <1>6, <1>7, <1>8, <1>9, <1>10, <1>11,
     <1>12, <1>13, <1>14 DEF Next, Answers, Pulse

(* Every step keeps the rows single and the registrations apart. *)
LEMMA RowsStep == ASSUME IInv, [Next]_vars PROVE Rows'
<1> USE DEF IInv
<1>1. ASSUME NEW k \in Calls, Handler(k) PROVE Rows'
  <2>0. UNCHANGED history
    BY <1>1 DEF Handler, Select, Insert, Update, Heartbeat, HandlerFrame
  <2>1. CASE Select(k)
    <3>0. UNCHANGED rows /\ Ids' = Ids /\ k \in Registrations /\ call[k] # Idle
      BY <2>1 DEF Select, Ids, Registrations, Idle
    <3>1. CASE Answer(k, "refused")
      <4>1. /\ call'[k].at \in {"refused", "idle"}
            /\ \A l \in Calls \ {k} : call'[l] = call[l]
        BY <3>0, <3>1, AnswerCalls DEF Steps
      <4> QED BY <2>0, <3>0, <4>1, RowsKept DEF Registrations, history
    <3>2. CASE Ids = {} /\ call' = [call EXCEPT ![k].at = "insert"]
      <4>1. Registrations' = Registrations
        BY <2>1, <3>2 DEF Select, Registrations, TypeOK
      <4> QED BY <2>0, <3>0, <3>2, <4>1
              DEF Rows, OneRegistration, NoRowToFind, SingleRow, history
    <3>3. CASE \E i \in Ids : call' = [call EXCEPT ![k].at = "update", ![k].row = i]
      <4>1. /\ call'[k].at = "update"
            /\ \A l \in Calls \ {k} : call'[l] = call[l]
        BY <3>3 DEF TypeOK
      <4> QED BY <2>0, <3>0, <4>1, RowsKept DEF Registrations, history
    <3> QED BY <2>1, <3>1, <3>2, <3>3 DEF Select
  <2>2. CASE Insert(k)
    <3>0. k \in Registrations /\ call[k] # Idle
      BY <2>2 DEF Insert, Registrations, Idle
    <3>1. CASE Answer(k, "refused") /\ UNCHANGED rows
      <4>1. /\ call'[k].at \in {"refused", "idle"} /\ Ids' = Ids
            /\ \A l \in Calls \ {k} : call'[l] = call[l]
        BY <3>0, <3>1, AnswerCalls DEF Steps, Ids
      <4> QED BY <2>0, <4>1, RowsKept DEF Registrations, history
    <3>2. CASE rows' = Append(rows, "active") /\ Answer(k, "registered")
      <4>1. /\ call'[k].at \in {"registered", "idle"}
            /\ \A l \in Calls \ {k} : call'[l] = call[l]
        BY <3>0, <3>2, AnswerCalls DEF Steps
      <4>2. Registrations' \subseteq Registrations \ {k}
        BY <4>1 DEF Registrations
      <4>3. OneRegistration'
        BY <2>0, <4>2 DEF Rows, OneRegistration, history
      <4>4. overlapped = FALSE => \A l \in Calls : call'[l].at # "insert"
        BY <3>0, <4>1, <4>2 DEF Rows, OneRegistration, Registrations
      <4>5. NoRowToFind'
        BY <2>0, <4>4 DEF NoRowToFind, history
      <4>6. overlapped = FALSE /\ byHand = FALSE => Ids = {}
        BY <2>2 DEF Insert, Rows, NoRowToFind
      <4>7. Ids' \subseteq Ids \cup {Len(rows) + 1}
        BY <3>2 DEF Ids, TypeOK
      <4>8. SingleRow'
        BY <2>0, <4>6, <4>7 DEF SingleRow, history
      <4> QED BY <4>3, <4>5, <4>8 DEF Rows
    <3> QED BY <2>2, <3>1, <3>2 DEF Insert, Statement
  <2>3. CASE Update(k)
    <3>1. Ids' \subseteq Ids
      BY <2>3, WriteRows DEF Update, Statement, Status, Ids
    <3>2. call[k] # Idle /\ Answer(k, "registered")
      BY <2>3 DEF Update, Idle
    <3> QED BY <2>0, <3>1, <3>2, AnswerCalls, RowsKept DEF Steps, Registrations, history
  <2>4. CASE Heartbeat(k)
    <3>1. Ids' \subseteq Ids
      BY <2>4 DEF Heartbeat, Statement, Ids
    <3>2. call[k] # Idle /\ \E a \in {"acked", "nacked"} : Answer(k, a)
      BY <2>4 DEF Heartbeat, Statement, Idle
    <3> QED BY <2>0, <3>1, <3>2, AnswerCalls, RowsKept DEF Steps, Registrations, history
  <2> QED BY <1>1, <2>1, <2>2, <2>3, <2>4 DEF Handler
<1>2. ASSUME Ids' \subseteq Ids, UNCHANGED <<call, overlapped>>,
             byHand' = FALSE => byHand = FALSE
      PROVE  Rows'
  BY <1>2, RowsKept DEF Registrations
<1>3. ASSUME NEW i \in DOMAIN rows, Age(i) PROVE Rows'
  <2>1. Ids' \subseteq Ids
    BY <1>3, WriteRows DEF Age, Status
  <2> QED BY <1>2, <1>3, <2>1 DEF Age, AdminFrame
<1>4. CASE HcQuery
  BY <1>2, <1>4 DEF HcQuery, AdminFrame, Ids
<1>5. CASE HcMark
  <2>1. PICK i \in doomed : Statement(Write(i, "offline"), TRUE)
    BY <1>5 DEF HcMark
  <2>2. Ids' \subseteq Ids
    BY <2>1, WriteRows DEF Statement, Status, Ids
  <2> QED BY <1>2, <1>5, <2>2 DEF HcMark, AdminFrame
<1>6. CASE Rest
  <2>1. CASE byHand' = TRUE
    BY <1>6, <2>1 DEF Rest, AdminFrame, Rows, OneRegistration, NoRowToFind,
                      SingleRow, Registrations
  <2>2. CASE \E i \in DOMAIN rows : DeleteWorker(i)
    <3>1. Ids' \subseteq Ids /\ UNCHANGED byHand
      BY <2>2, WriteRows DEF DeleteWorker, Status
    <3> QED BY <1>2, <1>6, <3>1 DEF Rest, AdminFrame
  <2> QED BY <1>6, <2>1, <2>2 DEF Rest, CreateWorker, UpdateWorker
<1>7. CASE SupCrash
  BY <1>7, RowsKept DEF SupCrash, Ids, history, Idle
<1>8. CASE SupRestart
  BY <1>2, <1>8 DEF SupRestart, Ids, history
<1>9. ASSUME UNCHANGED <<rows, byHand, overlapped>>,
             \/ UNCHANGED call
             \/ \E gs \in SUBSET Goroutine : call' = Left(gs)
      PROVE  Rows'
  <2>1. Ids' = Ids
    BY <1>9 DEF Ids
  <2>2. CASE UNCHANGED call
    BY <1>2, <1>9, <2>1, <2>2
  <2>3. ASSUME NEW gs, call' = Left(gs) PROVE Rows'
    BY <1>9, <2>1, <2>3, LeftCalls, RowsKept DEF Registrations
  <2> QED BY <1>9, <2>2, <2>3
<1> USE DEF WorkerFrame
<1>10. ASSUME NEW g \in Goroutine, NEW step \in {"select", "beat"}, Send(g, step),
              UNCHANGED <<rows, byHand>>
       PROVE  Rows'
  <2>1. Ids' = Ids
    BY <1>10 DEF Ids
  <2>0. overlapped' = FALSE => overlapped = FALSE
    BY <1>10 DEF Send, TypeOK
  <2>2. CASE UNCHANGED call
    BY <1>10, <2>0, <2>1, <2>2, RowsKept DEF Registrations
  <2>3. CASE \E k \in Calls : call[k] = Idle
                /\ call' = [call EXCEPT ![k] = [at |-> step, row |-> 0, by |-> g]]
    <3>1. PICK k \in Calls : call[k] = Idle
                /\ call' = [call EXCEPT ![k] = [at |-> step, row |-> 0, by |-> g]]
      BY <2>3
    <3>2. call'[k].at = step /\ \A l \in Calls \ {k} : call'[l] = call[l]
      BY <3>1 DEF TypeOK
    <3>3. CASE step = "beat"
      <4>1. Registrations' \subseteq Registrations
        BY <3>2, <3>3 DEF Registrations
      <4> QED BY <1>10, <2>0, <2>1, <3>2, <3>3, <4>1
              DEF Rows, OneRegistration, NoRowToFind, SingleRow
    <3>4. CASE step = "select"
      <4>1. Registrations' \subseteq Registrations \cup {k}
        BY <3>2 DEF Registrations
      <4>2. overlapped' = FALSE => overlapped = FALSE /\ Registrations = {}
        BY <1>10, <3>4 DEF Send, TypeOK
      <4> QED BY <1>10, <2>1, <3>2, <3>4, <4>1, <4>2
              DEF Rows, OneRegistration, NoRowToFind, SingleRow
    <3> QED BY <3>3, <3>4
  <2> QED BY <1>10, <2>2, <2>3 DEF Send
<1>11. ASSUME NEW g \in Goroutine, TimeOut(g) PROVE Rows'
  BY <1>9, <1>11 DEF TimeOut
<1>12. ASSUME NEW g \in Goroutine, Register(g) PROVE Rows'
  BY <1>10, <1>12 DEF Register
<1>13. ASSUME NEW g \in Goroutine, Registered(g) \/ RegisterFails(g) PROVE Rows'
  BY <1>9, <1>13 DEF Registered, RegisterFails
<1>14. CASE Beat
  BY <1>10, <1>14 DEF Beat, Goroutine
<1>15. CASE Answered \/ BeatFails
  BY <1>9, <1>15 DEF Answered, BeatFails, Reconnect, Goroutine
<1>16. CASE BeatSkipped \/ HeartbeatStops \/ Stop \/ Start
  BY <1>9, <1>16 DEF BeatSkipped, HeartbeatStops, Stop, Start
<1>17. CASE End
  BY <1>9, <1>17 DEF End
<1>18. CASE UNCHANGED vars
  BY <1>9, <1>18 DEF vars, supervisor, history
<1> QED
  BY <1>1, <1>3, <1>4, <1>5, <1>6, <1>7, <1>8, <1>11, <1>12, <1>13, <1>14,
     <1>15, <1>16, <1>17, <1>18 DEF Next, Answers, Pulse

-----------------------------------------------------------------------------
(* The theorems.                                                           *)

(* The registry keeps its invariant, whatever fails and whoever registers. *)
THEOREM Inductive == Spec => []IInv
<1>1. ASSUME Init PROVE IInv
  <2>1. rows \in Seq(Status) /\ Ids = {} /\ Registrations = {}
    BY <1>1 DEF Init, Ids, Registrations, Idle
  <2>0. /\ pc \in [Goroutine -> {"register", "registering", "wait", "beating", "done"}]
        /\ call \in [Calls -> Call \cup {Idle}]
        /\ client \in {"none", "closed", "open"}
        /\ budget \in 0 .. Budget
    BY <1>1 DEF Init, Started, Goroutine
  <2>2. attempts \in 0 .. MaxRetries /\ failures \in 0 .. MaxFailures
    BY <1>1 DEF Init
  <2>3. TypeOK
    BY <1>1, <2>0, <2>1, <2>2 DEF Init, TypeOK
  <2>4. Counters
    BY <1>1 DEF Init, Counters, NoDeadConnectionKept, Started
  <2>5. Rows
    BY <2>1 DEF Rows, OneRegistration, NoRowToFind, SingleRow
  <2> QED BY <2>3, <2>4, <2>5 DEF IInv
<1>2. IInv /\ [Next]_vars => IInv'
  BY TypeStep, CountersStep, RowsStep DEF IInv
<1> QED BY <1>1, <1>2, PTL DEF Spec

(* The types of rows, calls and counters; main's attempts stay within its  *)
(* bound.                                                                  *)
THEOREM TypeCorrect == Spec => []TypeOK
<1>1. IInv => TypeOK BY DEF IInv
<1> QED BY <1>1, Inductive, PTL

(* A name has one row unless registrations overlapped or REST added one.   *)
THEOREM AlwaysOneRow == Spec => []OneRow
<1>1. IInv => OneRow
  BY DEF IInv, TypeOK, Rows, SingleRow, OneRow, RegistrationUpserts
<1> QED BY <1>1, Inductive, PTL

(* Heartbeats do not go on over a connection that has failed too often.    *)
THEOREM NoDeadConnection == Spec => []NoDeadConnectionKept
<1>1. IInv => NoDeadConnectionKept BY DEF IInv, Counters
<1> QED BY <1>1, Inductive, PTL
=============================================================================
