----------------------------- MODULE WorkerPool -----------------------------
(***************************************************************************)
(* What one worker process promises to whoever feeds it, without the       *)
(* semaphore, the wait group and the goroutines that implement it: it      *)
(* takes one message at a time, runs at most Cap of them at once, takes at *)
(* most one more after it has been told to close, and closes only when     *)
(* every message it has taken is finished.                                 *)
(***************************************************************************)
EXTENDS Naturals, FiniteSets

CONSTANTS Msgs, Cap

VARIABLES
    todo,      \* messages not taken
    taken,     \* the message that waits for a place, if any
    running,   \* messages being processed
    finished,  \* messages processed
    phase      \* open, closing (one more may be taken), last (none), closed

vars == <<todo, taken, running, finished, phase>>

Init ==
    /\ todo = Msgs
    /\ taken = {} /\ running = {} /\ finished = {}
    /\ phase = "open"

Take(m) ==
    /\ m \in todo
    /\ taken = {}
    /\ phase \in {"open", "closing"}
    /\ todo' = todo \ {m}
    /\ taken' = {m}
    /\ phase' = IF phase = "open" THEN "open" ELSE "last"
    /\ UNCHANGED <<running, finished>>

Begin(m) ==
    /\ m \in taken
    /\ Cardinality(running) < Cap
    /\ taken' = {}
    /\ running' = running \cup {m}
    /\ UNCHANGED <<todo, finished, phase>>

Finish(m) ==
    /\ m \in running
    /\ running' = running \ {m}
    /\ finished' = finished \cup {m}
    /\ UNCHANGED <<todo, taken, phase>>

(* Close is told once; whether one more message may come is not known.     *)
Close ==
    /\ phase = "open"
    /\ phase' \in {"closing", "last"}
    /\ UNCHANGED <<todo, taken, running, finished>>

NoneCame ==
    /\ phase = "closing"
    /\ phase' = "last"
    /\ UNCHANGED <<todo, taken, running, finished>>

Closed ==
    /\ phase = "last"
    /\ taken = {} /\ running = {}
    /\ phase' = "closed"
    /\ UNCHANGED <<todo, taken, running, finished>>

Next ==
    \/ \E m \in Msgs : Take(m) \/ Begin(m) \/ Finish(m)
    \/ Close
    \/ NoneCame
    \/ Closed

Spec == Init /\ [][Next]_vars

(* A message that was taken is finished, and a pool told to close closes.  *)
FairSpec ==
    /\ Spec
    /\ \A m \in Msgs : WF_vars(Begin(m)) /\ WF_vars(Finish(m))
    /\ WF_vars(NoneCame) /\ WF_vars(Closed)
=============================================================================
