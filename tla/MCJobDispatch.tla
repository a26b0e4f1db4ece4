--------------------------- MODULE MCJobDispatch ---------------------------
(* Model-checking instances of JobDispatch.                                *)
EXTENDS JobDispatch, TLC

(* Jobs, workers, slots and firings are interchangeable.                   *)
Symmetry == Permutations(Jobs) \cup Permutations(Workers)
                \cup Permutations(Slots) \cup Permutations(Ticks)

=============================================================================
