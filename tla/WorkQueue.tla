----------------------------- MODULE WorkQueue -----------------------------
(***************************************************************************)
(* What the dispatch promises about the copies of a job, without rows,     *)
(* list, slots and health check: a copy is queued when one is due, claimed *)
(* once and run once.  Copies and runs disappear without having been run   *)
(* or ended only if they are named as lost, or when the queue of a server  *)
(* that is down is thrown away.                                            *)
(***************************************************************************)
EXTENDS Naturals

CONSTANT Jobs

VARIABLES
    due,        \* of each job, the copies that may still be queued
    copies,     \* of each job, the copies that wait for a run
    runs,       \* of each job, the runs under way
    dropped,    \* jobs named as having lost a copy
    abandoned,  \* jobs named as having lost a run
    serving     \* the server is up

vars == <<due, copies, runs, dropped, abandoned, serving>>

Init ==
    /\ due = [j \in Jobs |-> 0]
    /\ copies = [j \in Jobs |-> 0]
    /\ runs = [j \in Jobs |-> 0]
    /\ dropped = {} /\ abandoned = {}
    /\ serving = TRUE

(* When a copy becomes due, or is not queued after all, is left open. *)
Enqueue(j) ==
    /\ due'[j] < due[j]
    /\ copies' = [copies EXCEPT ![j] = @ + 1]
    /\ UNCHANGED runs

Begin(j) ==
    /\ copies[j] > 0
    /\ copies' = [copies EXCEPT ![j] = @ - 1]
    /\ runs' = [runs EXCEPT ![j] = @ + 1]

End(j) ==
    /\ runs[j] > 0
    /\ runs' = [runs EXCEPT ![j] = @ - 1]
    /\ UNCHANGED copies

Fewer(new, old, named) ==
    \A j \in Jobs : IF j \in named THEN new[j] <= old[j] ELSE new[j] = old[j]

(* Who is named, when nothing is lost, is left open. *)
Lose == Fewer(copies', copies, dropped') /\ Fewer(runs', runs, abandoned')

Flush ==
    /\ ~serving
    /\ Fewer(copies', copies, Jobs)
    /\ UNCHANGED runs

(* The server goes down or comes up. *)
Turn == serving' = ~serving /\ UNCHANGED <<copies, runs>>

Next ==
    \/ /\ Lose \/ Flush \/ \E j \in Jobs : Enqueue(j) \/ Begin(j) \/ End(j)
       /\ UNCHANGED serving
    \/ Turn

Spec == Init /\ [][Next]_vars

=============================================================================
