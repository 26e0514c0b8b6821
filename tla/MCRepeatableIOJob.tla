-------------------------- MODULE MCRepeatableIOJob --------------------------
(* Small instances of RepeatableIOJob for TLC; "repeatable" checks liveness,*)
(* so no symmetry is declared.                                              *)
EXTENDS RepeatableIOJob
==============================================================================
