----------------------------- MODULE MCWorkerPool -----------------------------
(* Small instances of WorkerPool for TLC.                                   *)
EXTENDS WorkerPool, TLC

Symmetry == Permutations(Tasks) \cup Permutations(Outsiders)
================================================================================
