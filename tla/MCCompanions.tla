----------------------------- MODULE MCCompanions -----------------------------
(* Small instances of Companions for TLC.                                   *)
EXTENDS Companions
================================================================================
