------------------------------ MODULE MCJobQueue ------------------------------
(* Small instances of JobQueue for TLC.  The run checks liveness, so it      *)
(* declares no symmetry.                                                     *)
EXTENDS JobQueue
===============================================================================
