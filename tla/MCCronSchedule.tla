--------------------------- MODULE MCCronSchedule ---------------------------
(* Model-checking instances of CronSchedule.                               *)
EXTENDS CronSchedule, TLC

(* Jobs and handlers are interchangeable.                                  *)
Symmetry == Permutations(Jobs) \cup Permutations(Handlers)

=============================================================================
