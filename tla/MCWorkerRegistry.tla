-------------------------- MODULE MCWorkerRegistry --------------------------
(* Model-checking instances of WorkerRegistry.                             *)
EXTENDS WorkerRegistry
=============================================================================
