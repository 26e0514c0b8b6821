--------------------------------- MODULE MCParts ---------------------------------
(* One run for the parts of the library that are small or stand alone: the  *)
(* parallel loops, the IO threads, the temporary allocator, the job group,  *)
(* the ring buffer, the log, the id ranges, and an instance of the delayed  *)
(* tasks.  The variable which says what part a behavior is about; the       *)
(* others rest in their initial states, where their invariants hold and     *)
(* promise nothing.                                                         *)
EXTENDS ParallelFor, IOPool, TemporaryPages, JobGroup, RingBuffer, Tracing, IdRangePool

VARIABLES
  which,
  inBlock, mDelayedTasks, jobPc

delayedVars == <<inBlock, mDelayedTasks, jobPc>>

Call(numItems, partitionSize, batchSize, intermediate) ==
  [items |-> numItems, partitionSize |-> partitionSize, batchSize |-> batchSize,
   intermediate |-> intermediate]

(* One call for each kind of loop, with batches that end in the middle of a *)
(* partition, partitions of different lengths, more batches than twice the  *)
(* workers, and the partition size of a debug build.                        *)
MCLoops ==
  {Call(4, 1, 1, FALSE), Call(4, 1, 2, FALSE), Call(5, 2, 3, FALSE), Call(5, 2, 1, FALSE),
   Call(7, 3, 2, FALSE), Call(4, 0, 1, FALSE), Call(5, 1, 2, TRUE), Call(6, 1, 1, TRUE)}

Delayed == INSTANCE DelayedTasks WITH
  Jobs <- {1, 2}, Blocks <- Workers, mTasks <- mDelayedTasks

Parts == {"loops", "group", "delayed", "io", "temporary", "ring", "trace", "ranges"}

partVars == <<vars, groupVars, delayedVars, ioVars, temporaryVars, ringVars, traceVars, rangeVars>>

PartsInit ==
  /\ which \in Parts
  /\ Init
  /\ which # "loops" => loop = Call(4, 1, 1, FALSE)
  /\ GroupInit /\ Delayed!Init /\ IOInit /\ PagesInit /\ RingInit /\ TraceInit /\ RangeInit
  /\ which # "ring" => ring.mBuffer[0] = CHOOSE w \in Workers : TRUE

(* The part that moves leaves all others alone.                            *)
PartsNext ==
  \/ /\ which = "loops" /\ Next
     /\ UNCHANGED <<which, groupVars, delayedVars, ioVars, temporaryVars, ringVars,
                    traceVars, rangeVars>>
  \/ /\ which = "group" /\ GroupNext
     /\ UNCHANGED <<which, vars, delayedVars, ioVars, temporaryVars, ringVars,
                    traceVars, rangeVars>>
  \/ /\ which = "delayed" /\ Delayed!Next
     /\ UNCHANGED <<which, vars, groupVars, ioVars, temporaryVars, ringVars,
                    traceVars, rangeVars>>
  \/ /\ which = "io" /\ IONext
     /\ UNCHANGED <<which, vars, groupVars, delayedVars, temporaryVars, ringVars,
                    traceVars, rangeVars>>
  \/ /\ which = "temporary" /\ PagesNext
     /\ UNCHANGED <<which, vars, groupVars, delayedVars, ioVars, ringVars, traceVars, rangeVars>>
  \/ /\ which = "ring" /\ RingNext
     /\ UNCHANGED <<which, vars, groupVars, delayedVars, ioVars, temporaryVars,
                    traceVars, rangeVars>>
  \/ /\ which = "trace" /\ TraceNext
     /\ UNCHANGED <<which, vars, groupVars, delayedVars, ioVars, temporaryVars,
                    ringVars, rangeVars>>
  \/ /\ which = "ranges" /\ RangeNext
     /\ UNCHANGED <<which, vars, groupVars, delayedVars, ioVars, temporaryVars,
                    ringVars, traceVars>>

PartsSpec == PartsInit /\ [][PartsNext]_<<which, partVars>>

(* The fairness of each part: threads inside a call go on, tasks and jobs   *)
(* end, and an asked StopThreads goes through.  Nobody has to push a task,  *)
(* to finalize a group, to enter a block or to leave it.                    *)
LoopFairness ==
  /\ WF_vars(which = "loops" /\ CallerStep)
  /\ \A r \in Runners : WF_vars(which = "loops" /\ ListStep(r))

GroupFairness ==
  /\ \A t \in GroupThreads : WF_(groupVars)(which = "group" /\ GroupThreadStep(t))
  /\ WF_(groupVars)(which = "group" /\ GroupOwnerStep)

DelayedFairness ==
  /\ \A b \in Workers : WF_(delayedVars)(which = "delayed" /\ Delayed!PushDelayedTasks(b))
  /\ \A j \in {1, 2} : WF_(delayedVars)(which = "delayed" /\ Delayed!Add(j))

IOFairness ==
  /\ \A p \in Callers : WF_(ioVars)(which = "io" /\ PusherStep(p))
  /\ \A t \in IOThreads : WF_(ioVars)(which = "io" /\ ThreadStep(t))
  /\ WF_(ioVars)(which = "io" /\ StopStep)

PartsFairSpec ==
  PartsSpec /\ LoopFairness /\ GroupFairness /\ DelayedFairness /\ IOFairness

--------------------------------------------------------------------------------
(* The properties of the parts that are instances or need to be told apart. *)

(* A call of ParallelFor returns.                                           *)
LoopReturns == which = "loops" => Returns

(* A delayed job gets into the pool if blocks keep ending.                  *)
DelayedJobRuns == Delayed!DelayedJobRuns
================================================================================
