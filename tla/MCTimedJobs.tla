------------------------------ MODULE MCTimedJobs ------------------------------
(* Small instances of TimedJobs for TLC.  The second thread of the safety   *)
(* run is an owner in WaitUntilDone, which runs jobs as a worker does.      *)
EXTENDS TimedJobs
================================================================================
