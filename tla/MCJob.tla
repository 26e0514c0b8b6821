--------------------------------- MODULE MCJob ---------------------------------
(* Small instances of Job for TLC.  The run checks liveness, so it declares *)
(* no symmetry.                                                             *)
EXTENDS Job
================================================================================
