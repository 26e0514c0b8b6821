------------------------------ MODULE DelayedTasks ------------------------------
(***************************************************************************)
(* Jobs that are pushed during a time-critical block and wait for its end  *)
(* (jobs/JobScheduler.h: PushDelayedJob, class DelayedTasks).  IsActive    *)
(* says that no block is active.  It is read without mSync, so a job may   *)
(* be added after the block that it was read in has ended; it then waits   *)
(* for the end of another one.                                             *)
(***************************************************************************)
CONSTANTS
  Jobs,     \* delayed jobs, each pushed once, by a thread of its own
  Blocks    \* threads that enter and leave time-critical blocks

VARIABLES
  inBlock,   \* inBlock[b]: "out", "in", or "end": about to lock mSync
  mTasks,    \* DelayedTasks::mTasks
  jobPc      \* jobPc[j]: "new", "add": a block was active, about to lock
             \* mSync, "added", or "pool": pushed into the pool

vars == <<inBlock, mTasks, jobPc>>

TypeOK ==
  /\ inBlock \in [Blocks -> {"out", "in", "end"}]
  /\ mTasks \subseteq Jobs
  /\ jobPc \in [Jobs -> {"new", "add", "added", "pool"}]

Init ==
  /\ inBlock = [b \in Blocks |-> "out"]
  /\ mTasks = {}
  /\ jobPc = [j \in Jobs |-> "new"]

(* mCounter is the number of threads in a block.                           *)
IsActive == \A b \in Blocks : inBlock[b] # "in"

Begin(b) ==
  /\ inBlock[b] = "out"
  /\ inBlock' = [inBlock EXCEPT ![b] = "in"]
  /\ UNCHANGED <<mTasks, jobPc>>

(* The last to leave is the one that has to push the tasks.                *)
End(b) ==
  /\ inBlock[b] = "in"
  /\ inBlock' = [inBlock EXCEPT ![b] =
                   IF \A c \in Blocks \ {b} : inBlock[c] # "in" THEN "end" ELSE "out"]
  /\ UNCHANGED <<mTasks, jobPc>>

(* Mutant: a block that began meanwhile keeps the tasks, which are cleared *)
(* all the same.                                                           *)
PushDelayedTasksIdle(b) ==
  /\ inBlock[b] = "end"
  /\ inBlock' = [inBlock EXCEPT ![b] = "out"]
  /\ mTasks' = {}
  /\ jobPc' = [j \in Jobs |-> IF j \in mTasks /\ IsActive THEN "pool" ELSE jobPc[j]]

PushDelayedTasks(b) ==
  /\ inBlock[b] = "end"
  /\ inBlock' = [inBlock EXCEPT ![b] = "out"]
  /\ mTasks' = {}
  /\ jobPc' = [j \in Jobs |-> IF j \in mTasks THEN "pool" ELSE jobPc[j]]

PushDelayedJob(j) ==
  /\ jobPc[j] = "new"
  /\ jobPc' = [jobPc EXCEPT ![j] = IF IsActive THEN "pool" ELSE "add"]
  /\ UNCHANGED <<inBlock, mTasks>>

Add(j) ==
  /\ jobPc[j] = "add"
  /\ mTasks' = mTasks \cup {j}
  /\ jobPc' = [jobPc EXCEPT ![j] = "added"]
  /\ UNCHANGED inBlock

Next ==
  \/ \E b \in Blocks : Begin(b) \/ End(b) \/ PushDelayedTasks(b)
  \/ \E j \in Jobs : PushDelayedJob(j) \/ Add(j)

Spec == Init /\ [][Next]_vars

--------------------------------------------------------------------------------
(* A delayed job gets into the pool if blocks keep ending, however they    *)
(* overlap.  (If none ends any more, a job that was added late stays.)     *)
DelayedJobRuns ==
  []<>(\E b \in Blocks : inBlock[b] = "end") =>
    \A j \in Jobs : jobPc[j] = "add" ~> jobPc[j] = "pool"
================================================================================
