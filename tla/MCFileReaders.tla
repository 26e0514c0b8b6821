---------------------------- MODULE MCFileReaders ----------------------------
(* A small instance of FileReaders for TLC; liveness, so no symmetry.       *)
EXTENDS FileReaders
==============================================================================
