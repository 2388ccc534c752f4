---------------------------- MODULE MCSyncWorker ----------------------------
(* SyncWorker on small instances; invocation slots and handlers are alike. *)
EXTENDS SyncWorker, TLC

Symmetry == Permutations(Runs) \cup Permutations(Callers)

\* The state without its history of late requests, for the run whose properties do not read it.
WithoutLate == <<rowVars, disk, copies, active, run, tick, recovered, call, faults>>
=============================================================================
