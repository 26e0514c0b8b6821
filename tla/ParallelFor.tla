------------------------------ MODULE ParallelFor ------------------------------
(***************************************************************************)
(* JobScheduler::ParallelFor (jobs/JobScheduler.h): a loop whose items are *)
(* run by the calling thread alone while no worker is free, and from then  *)
(* on by a ListJob or IntermediateListJob (jobs/ListJob.h,                 *)
(* jobs/IntermediateListJob.h): one list of batches that the caller and a  *)
(* few JobWork items in the queues of the pool claim by fetch-and-add.     *)
(* The job is a local variable of the caller: it is gone when Wait ends.   *)
(*                                                                         *)
(* Items are 0..items-1, the batches and partitions count from the first   *)
(* item of the job.  As in module Job, which has every way that Wait can   *)
(* go, the queues are the number of this job's JobWork in them, the lock   *)
(* of the job is held for one action except where said, and the pool has   *)
(* workers.                                                                *)
(***************************************************************************)
EXTENDS Integers, FiniteSets, Sequences

CONSTANTS
  Workers,        \* threads that may take a JobWork
  Caller,         \* the thread that calls ParallelFor
  Loops,          \* the calls that are made, see LoopType
  MaxPartitions   \* the capacity of MultiPartition::mPartitions (MaxQueues)

(* The arguments of a call; intermediate says that one was given.  A debug *)
(* build calls with the partition size 0.                                  *)
LoopType(loop) ==
  /\ loop.items \in Nat
  /\ loop.partitionSize \in Nat
  /\ loop.batchSize \in Nat \ {0}
  /\ loop.intermediate \in BOOLEAN

ASSUME LoopsAssumption == \A loop \in Loops : LoopType(loop)
ASSUME CallerAssumption == Caller \notin Workers
ASSUME WorkersAssumption ==
  Workers # {} /\ IsFiniteSet(Workers) /\ MaxPartitions \in Nat \ {0}

VARIABLES
  loop,                 \* the call that is made
  iter,                 \* the next item of the serial loop, the job's first
  partitions,           \* of the job: <<[start, end, next], ...>>
  mRunningIndex,        \* the partition where the next list starts, from 0
  mNumTasksAvailable,   \* WaitableJob: lists that nobody started
  mNumTasksInProgress,  \* WaitableJob: lists that have not ended
  unpushed,             \* JobWork that AddTasks still has to push
  queued,               \* JobWork in the queues
  callerPc,             \* where the caller is, see CallerPcs
  runPc,                \* runPc[r]: where thread r is in a list
  visit,                \* visit[r]: the local variables of its loops
  runs                  \* history: how often each item was run

vars == <<loop, iter, partitions, mRunningIndex, mNumTasksAvailable, mNumTasksInProgress,
          unpushed, queued, callerPc, runPc, visit, runs>>

counters == <<mNumTasksAvailable, mNumTasksInProgress>>
jobVars == <<partitions, mRunningIndex>>

Runners == Workers \cup {Caller}

(* "push": in AddTasks, the lock held; "own": in its own list; "help": in  *)
(* one it found in a queue; the others as the OwnerPcs of module Job.      *)
CallerPcs == {"serial", "push", "own", "wait", "block", "scan", "help", "blockEmpty", "nap",
              "napped", "sleep", "woken", "returned"}

(* "start": about to call OnTaskStarted; "enter": about to choose the      *)
(* first partition; "claim": about to call FindTasks; "run": in a batch;   *)
(* "ran": about to lock; "unlock": about to unlock.                        *)
RunPcs == {"idle", "start", "enter", "claim", "run", "ran", "unlock"}

Smaller(a, b) == IF a < b THEN a ELSE b
Larger(a, b) == IF a > b THEN a ELSE b
CeilDiv(a, b) == (a + b - 1) \div b

--------------------------------------------------------------------------------
(* The shape of the job                                                    *)

NumSerialItems == Larger(loop.partitionSize, loop.batchSize)

(* Mutant: one item later than that.                                       *)
MayHandOverLate ==
  /\ loop.items > NumSerialItems
  /\ iter <= loop.items - NumSerialItems

(* The serial loop may hand over at any item up to parallelLast.           *)
MayHandOver ==
  /\ loop.items > NumSerialItems
  /\ iter <= loop.items - NumSerialItems - 1

NumItems == loop.items - iter

IsPartitioned ==
  /\ ~loop.intermediate
  /\ loop.partitionSize > 1
  /\ loop.batchSize <= loop.partitionSize

(* The plain TaskList claims items one by one, whatever the batch size.    *)
ClaimSize == IF ~loop.intermediate /\ loop.partitionSize <= 1 THEN 1 ELSE loop.batchSize

NumPartitions ==
  IF IsPartitioned THEN Larger(1, Smaller(MaxPartitions, NumItems \div loop.partitionSize)) ELSE 1

(* Mutant: the last partition is as long as the others.                    *)
NewPartitionsEqual ==
  LET length == NumItems \div NumPartitions
  IN [p \in 1..NumPartitions |->
        [start |-> (p - 1) * length, end |-> p * length, next |-> 0]]

(* Equal lengths, and the last partition has what remains.                 *)
NewPartitions ==
  LET length == NumItems \div NumPartitions
  IN [p \in 1..NumPartitions |->
        [start |-> (p - 1) * length,
         end |-> IF p = NumPartitions THEN NumItems ELSE p * length,
         next |-> 0]]

NumBatches == CeilDiv(NumItems, loop.batchSize)

(* The JobWork that is pushed, besides the caller's own list.              *)
NumTaskLists ==
  LET lists == Smaller(NumBatches - 1, Cardinality(Workers))
  IN IF loop.intermediate /\ NumBatches > 2 * lists THEN 2 * lists ELSE lists

NoVisit == [from |-> 0, j |-> 0, batch |-> {}]

TypeOK ==
  /\ loop \in Loops
  /\ iter \in 0..loop.items
  /\ partitions \in Seq([start : Nat, end : Nat, next : Nat])
  /\ mRunningIndex \in Nat
  /\ mNumTasksAvailable \in 0..(2 * Cardinality(Workers))
  /\ mNumTasksInProgress \in 0..(2 * Cardinality(Workers))
  /\ unpushed \in 0..(2 * Cardinality(Workers))
  /\ queued \in 0..(2 * Cardinality(Workers))
  /\ callerPc \in CallerPcs
  /\ runPc \in [Runners -> RunPcs]
  /\ visit \in [Runners -> [from : Nat, j : Nat, batch : SUBSET (0..(loop.items - 1))]]
  /\ runs \in [0..(loop.items - 1) -> Nat]

Init ==
  /\ loop \in Loops
  /\ iter = 0
  /\ partitions = <<>>
  /\ mRunningIndex = 0
  /\ mNumTasksAvailable = 0
  /\ mNumTasksInProgress = 0
  /\ unpushed = 0
  /\ queued = 0
  /\ callerPc = "serial"
  /\ runPc = [r \in Runners |-> "idle"]
  /\ visit = [r \in Runners |-> NoVisit]
  /\ runs = [i \in 0..(loop.items - 1) |-> 0]

(* AddTaskLists holds the lock while it pushes.                            *)
LockIsFree == callerPc # "push" /\ \A r \in Runners : runPc[r] # "unlock"

--------------------------------------------------------------------------------
(* The serial loop                                                         *)

RunSerially ==
  /\ callerPc = "serial"
  /\ iter < loop.items
  /\ runs' = [runs EXCEPT ![iter] = @ + 1]
  /\ iter' = iter + 1
  /\ UNCHANGED <<loop, jobVars, counters, unpushed, queued, callerPc, runPc, visit>>

EndSerially ==
  /\ callerPc = "serial"
  /\ iter = loop.items
  /\ callerPc' = "returned"
  /\ UNCHANGED <<loop, iter, jobVars, counters, unpushed, queued, runPc, visit, runs>>

(* A worker is free: the rest is a job.                                    *)
HandOver ==
  /\ callerPc = "serial"
  /\ MayHandOver
  /\ partitions' = NewPartitions
  /\ mNumTasksAvailable' = NumTaskLists
  /\ mNumTasksInProgress' = NumTaskLists
  /\ unpushed' = NumTaskLists
  /\ callerPc' = "push"
  /\ UNCHANGED <<loop, iter, mRunningIndex, queued, runPc, visit, runs>>

--------------------------------------------------------------------------------
(* The caller's lists                                                      *)

PushOne ==
  /\ callerPc = "push"
  /\ unpushed > 0
  /\ unpushed' = unpushed - 1
  /\ queued' = queued + 1
  /\ UNCHANGED <<loop, iter, jobVars, counters, callerPc, runPc, visit, runs>>

StartOwnList ==
  /\ callerPc = "push"
  /\ unpushed = 0
  /\ callerPc' = "own"
  /\ runPc' = [runPc EXCEPT ![Caller] = "enter"]
  /\ UNCHANGED <<loop, iter, jobVars, counters, unpushed, queued, visit, runs>>

EndOwnList ==
  /\ callerPc = "own"
  /\ runPc[Caller] = "ran"
  /\ callerPc' = "wait"
  /\ runPc' = [runPc EXCEPT ![Caller] = "idle"]
  /\ UNCHANGED <<loop, iter, jobVars, counters, unpushed, queued, visit, runs>>

--------------------------------------------------------------------------------
(* A list: DoWork, FindTasks, ProcessBatch                                 *)

TakeWork(r) ==
  /\ runPc[r] = "idle"
  /\ queued > 0
  /\ queued' = queued - 1
  /\ runPc' = [runPc EXCEPT ![r] = "start"]
  /\ UNCHANGED <<loop, iter, jobVars, counters, unpushed, visit, runs>>

StartWork(w) == TakeWork(w) /\ UNCHANGED callerPc

RunnerGoes(r, from, to) ==
  /\ runPc[r] = from
  /\ runPc' = [runPc EXCEPT ![r] = to]
  /\ UNCHANGED <<loop, iter, unpushed, queued>>

OnTaskStarted(r) ==
  /\ RunnerGoes(r, "start", "enter")
  /\ mNumTasksAvailable' = mNumTasksAvailable - 1
  /\ UNCHANGED <<jobVars, mNumTasksInProgress, callerPc, visit, runs>>

ChooseFirstPartition(r) ==
  /\ RunnerGoes(r, "enter", "claim")
  /\ visit' = [visit EXCEPT ![r] = [NoVisit EXCEPT !.from = mRunningIndex]]
  /\ mRunningIndex' = (mRunningIndex + 1) % Len(partitions)
  /\ UNCHANGED <<partitions, counters, callerPc, runs>>

(* The partition a thread visits, and the first item of its next claim.    *)
Place(r) == ((visit[r].from + visit[r].j) % Len(partitions)) + 1
ClaimStart(p) == partitions[p].next * ClaimSize + partitions[p].start

(* A batch ends with its partition.                                        *)
BatchOf(p) ==
  {iter + i : i \in ClaimStart(p)..(Smaller(ClaimStart(p) + ClaimSize, partitions[p].end) - 1)}

(* FindTasks: a fetch-and-add on the index of the partition ...            *)
FindTasks(r) ==
  LET p == Place(r)
  IN /\ RunnerGoes(r, "claim", "run")
     /\ ClaimStart(p) < partitions[p].end
     /\ partitions' = [partitions EXCEPT ![p].next = @ + 1]
     /\ visit' = [visit EXCEPT ![r].batch = BatchOf(p)]
     /\ UNCHANGED <<mRunningIndex, counters, callerPc, runs>>

(* ... that finds nothing left: the next partition, and after the last one *)
(* the list has ended.                                                     *)
FindNone(r) ==
  LET p == Place(r)
      last == visit[r].j + 1 = Len(partitions)
      onward == [visit[r] EXCEPT !.j = @ + 1]
  IN /\ RunnerGoes(r, "claim", IF last THEN "ran" ELSE "claim")
     /\ ClaimStart(p) >= partitions[p].end
     /\ partitions' = [partitions EXCEPT ![p].next = @ + 1]
     /\ visit' = [visit EXCEPT ![r] = IF last THEN NoVisit ELSE onward]
     /\ UNCHANGED <<mRunningIndex, counters, callerPc, runs>>

ProcessBatch(r) ==
  /\ RunnerGoes(r, "run", "claim")
  /\ runs' = [i \in DOMAIN runs |-> IF i \in visit[r].batch THEN runs[i] + 1 ELSE runs[i]]
  /\ visit' = [visit EXCEPT ![r].batch = {}]
  /\ UNCHANGED <<jobVars, counters, callerPc>>

(* The caller's condition variable: notified, and free to lock again.      *)
NotifyCaller == CASE callerPc = "sleep" -> "woken"
                  [] callerPc = "nap" -> "napped"
                  [] OTHER -> callerPc

InOwnList(r) == r = Caller /\ callerPc = "own"

(* Mutant: the last list to end notifies nobody.                           *)
OnTaskDoneSilent(r) ==
  /\ ~InOwnList(r)
  /\ LockIsFree
  /\ RunnerGoes(r, "ran", "unlock")
  /\ mNumTasksInProgress' = mNumTasksInProgress - 1
  /\ UNCHANGED <<jobVars, mNumTasksAvailable, callerPc, visit, runs>>

(* Under the lock, which is kept until Unlock.                             *)
OnTaskDone(r) ==
  /\ ~InOwnList(r)
  /\ LockIsFree
  /\ RunnerGoes(r, "ran", "unlock")
  /\ mNumTasksInProgress' = mNumTasksInProgress - 1
  /\ callerPc' = IF mNumTasksInProgress = 1 THEN NotifyCaller ELSE callerPc
  /\ UNCHANGED <<jobVars, mNumTasksAvailable, visit, runs>>

Unlock(r) ==
  /\ RunnerGoes(r, "unlock", "idle")
  /\ UNCHANGED <<jobVars, counters, callerPc, visit, runs>>

--------------------------------------------------------------------------------
(* Wait                                                                    *)

CallerGoes(from, to) ==
  /\ callerPc = from
  /\ callerPc' = to
  /\ UNCHANGED <<loop, iter, jobVars, counters, unpushed, queued, runPc, visit, runs>>

WaitCheck == CallerGoes("wait", IF mNumTasksAvailable = 0 THEN "block" ELSE "scan")

FindJobTask == TakeWork(Caller) /\ callerPc = "scan" /\ callerPc' = "help"

Helped(next) == runPc[Caller] = "idle" /\ CallerGoes("help", next)

FindNothing == queued = 0 /\ CallerGoes("scan", "blockEmpty")

BlockTasksAvailable ==
  /\ LockIsFree
  /\ mNumTasksAvailable > 0
  /\ \/ CallerGoes("block", "scan")
     \/ CallerGoes("blockEmpty", "nap")
     \/ CallerGoes("napped", "scan")

Napped == CallerGoes("nap", "napped")

(* Mutant: Wait looks at the counters without the lock.                    *)
BlockDoneUnlocked(from) ==
  /\ mNumTasksAvailable = 0
  /\ mNumTasksInProgress = 0
  /\ CallerGoes(from, "returned")

BlockDone(from) ==
  /\ LockIsFree
  /\ mNumTasksAvailable = 0
  /\ mNumTasksInProgress = 0
  /\ CallerGoes(from, "returned")

BlockSleep(from) ==
  /\ LockIsFree
  /\ mNumTasksAvailable = 0
  /\ mNumTasksInProgress > 0
  /\ CallerGoes(from, "sleep")

Woken ==
  /\ LockIsFree
  /\ CallerGoes("woken", IF mNumTasksInProgress = 0 /\ mNumTasksAvailable = 0
                           THEN "returned" ELSE "scan")

SpuriousWake == CallerGoes("sleep", "woken")

--------------------------------------------------------------------------------
ListStep(r) ==
  \/ OnTaskStarted(r)
  \/ ChooseFirstPartition(r)
  \/ FindTasks(r)
  \/ FindNone(r)
  \/ ProcessBatch(r)
  \/ OnTaskDone(r)
  \/ Unlock(r)

CallerStep ==
  \/ RunSerially
  \/ EndSerially
  \/ HandOver
  \/ PushOne
  \/ StartOwnList
  \/ EndOwnList
  \/ WaitCheck
  \/ FindJobTask
  \/ \E next \in {"scan", "blockEmpty"} : Helped(next)
  \/ FindNothing
  \/ BlockTasksAvailable
  \/ Napped
  \/ \E from \in {"block", "blockEmpty", "napped"} : BlockDone(from) \/ BlockSleep(from)
  \/ Woken

Next ==
  \/ CallerStep
  \/ \E w \in Workers : StartWork(w)
  \/ \E r \in Runners : ListStep(r)
  \/ SpuriousWake

Spec == Init /\ [][Next]_vars

(* The caller is scheduled, and so is a thread that is in a list.  Nobody  *)
(* has to take a JobWork from a queue: the workers may all be busy.        *)
Fairness == WF_vars(CallerStep) /\ \A r \in Runners : WF_vars(ListStep(r))

FairSpec == Spec /\ Fairness

--------------------------------------------------------------------------------
(* Properties                                                              *)

(* When ParallelFor returns every item has been run, and none twice, by    *)
(* whatever way the partitions, the batches and the serial items are cut   *)
(* and whoever claims them: runs[i] never decreases.                       *)
AllItemsRun == callerPc = "returned" => \A i \in DOMAIN runs : runs[i] = 1

(* The job is destroyed when Wait returns: no queue names it then, and no  *)
(* thread is in it, not even to unlock it.                                 *)
ReturnedUnused ==
  callerPc = "returned" => queued = 0 /\ \A r \in Runners : runPc[r] = "idle"

(* The assertions of OnTaskStarted, OnTaskDone and AddTaskLists.           *)
AssertionsHold ==
  /\ \A r \in Runners :
       /\ runPc[r] = "start" => mNumTasksAvailable > 0
       /\ runPc[r] = "ran" /\ ~InOwnList(r) => mNumTasksInProgress > 0
  /\ callerPc = "serial" /\ MayHandOver => NumBatches > 1

(* ParallelFor returns, even if no worker ever helps.                      *)
Returns == <>(callerPc = "returned")
================================================================================
