------------------------------- MODULE JobQueue -------------------------------
(***************************************************************************)
(* One JobQueue<JobQueueSynchronizationSingleOwner> (jobs/JobQueue.h) with *)
(* its SCThreadSynchronizer (concurrency/SCThreadSynchronizer.cpp): the    *)
(* queue of one worker thread, its owner.  Any other thread may push into  *)
(* it, take work out of its tail or search it for the work of a job.       *)
(*                                                                         *)
(* The queue has two locks.  mMutex guards the task list; the lock of the  *)
(* synchronizer guards mIsStarving and the condition variable the owner    *)
(* sleeps on.  A section under one lock is one action, because everything  *)
(* it touches is written under that lock only; the steps of a push that    *)
(* happen between the two locks, and Signal's read of mIsStarving without  *)
(* any lock, are actions of their own.                                     *)
(*                                                                         *)
(* JobQueueStats belongs to the ThreadPool and is left to module           *)
(* WorkerPool.  A push that the owner itself makes from inside a task is   *)
(* the push of a producer that has no pending step when the task ends.     *)
(***************************************************************************)
EXTENDS Integers, Sequences, SequencesExt

CONSTANTS
  Tasks,      \* the JobWork items that are pushed, each at most once
  Producers,  \* threads inside PushTask, AddTasks or PushTaskAndWakeUp
  Thieves,    \* threads other than the owner that take tasks
  MaxBatch,   \* bound: tasks one AddTasks call pushes
  None        \* no task

ASSUME NoneAssumption == None \notin Tasks
ASSUME BatchAssumption == MaxBatch \in Nat \ {0}
ASSUME ThreadsAssumption == "owner" \notin Thieves

VARIABLES
  mTasks,       \* JobQueue::mTasks
  mIsStarving,  \* SCThreadSynchronizer::mIsStarving
  mIsRunning,   \* SCThreadSynchronizer::mIsRunning
  ownerPc,      \* where the owner is, see OwnerPcs
  shouldSteal,  \* the local variable of RunBlocked
  pc,           \* pc[p]: where producer p is, see ProducerPcs
  batch,        \* batch[p]: what p pushed and has not finished signalling
  hand,         \* hand[h]: the task thread h is running
  done          \* the tasks that were run

vars == <<mTasks, mIsStarving, mIsRunning, ownerPc, shouldSteal, pc, batch,
          hand, done>>

Takers == Thieves \cup {"owner"}

(* "own": about to lock mMutex in RunBlocked; "run": in DoWork; "wait":    *)
(* about to enter TryWait; "parked": in the condition variable; "woken":   *)
(* returned from it, about to leave TryWait; "sweep": RunBlocked returned  *)
(* Empty; "inactive": RunBlocked returned Inactive, the thread ends.       *)
OwnerPcs == {"own", "run", "wait", "parked", "woken", "sweep", "inactive"}

(* "pushed": mMutex released, about to read mIsStarving; "signal": read    *)
(* TRUE, about to lock the synchronizer.                                   *)
ProducerPcs == {"idle", "pushed", "signal"}

TypeOK ==
  /\ mTasks \in Seq(Tasks)
  /\ mIsStarving \in BOOLEAN
  /\ mIsRunning \in BOOLEAN
  /\ ownerPc \in OwnerPcs
  /\ shouldSteal \in BOOLEAN
  /\ pc \in [Producers -> ProducerPcs]
  /\ batch \in [Producers -> SUBSET Tasks]
  /\ hand \in [Takers -> Tasks \cup {None}]
  /\ done \in SUBSET Tasks

Init ==
  /\ mTasks = <<>>
  /\ mIsStarving = TRUE
  /\ mIsRunning = TRUE
  /\ ownerPc = "own"
  /\ shouldSteal = FALSE
  /\ pc = [p \in Producers |-> "idle"]
  /\ batch = [p \in Producers |-> {}]
  /\ hand = [h \in Takers |-> None]
  /\ done = {}

InHand == {hand[h] : h \in Takers} \ {None}

(* A JobWork is an object of its own: the next one is none of the earlier. *)
Fresh == Tasks \ (ToSet(mTasks) \cup InHand \cup done \cup UNION {batch[p] : p \in Producers})

--------------------------------------------------------------------------------
(* Producers                                                               *)

(* PushTask, PushTaskAndWakeUp and AddTasks up to the release of mMutex.   *)
AddTasks(p, works) ==
  /\ pc[p] = "idle"
  /\ ToSet(works) \subseteq Fresh
  /\ mTasks' = mTasks \o works
  /\ batch' = [batch EXCEPT ![p] = ToSet(works)]
  /\ pc' = [pc EXCEPT ![p] = "pushed"]
  /\ UNCHANGED <<mIsStarving, mIsRunning, ownerPc, shouldSteal, hand, done>>

Batches ==
  UNION {{works \in [1..n -> Tasks] : IsInjective(works)} : n \in 1..MaxBatch}

(* Mutant: Signal skips the lock when nobody is in the condition variable. *)
SignalCheckNobodyAsleep(p) ==
  /\ pc[p] = "pushed"
  /\ IF mIsStarving /\ ownerPc = "parked"
       THEN /\ pc' = [pc EXCEPT ![p] = "signal"]
            /\ UNCHANGED batch
       ELSE /\ pc' = [pc EXCEPT ![p] = "idle"]
            /\ batch' = [batch EXCEPT ![p] = {}]
  /\ UNCHANGED <<mTasks, mIsStarving, mIsRunning, ownerPc, shouldSteal, hand, done>>

(* Signal reads mIsStarving without the lock ...                           *)
SignalCheck(p) ==
  /\ pc[p] = "pushed"
  /\ IF mIsStarving
       THEN /\ pc' = [pc EXCEPT ![p] = "signal"]
            /\ UNCHANGED batch
       ELSE /\ pc' = [pc EXCEPT ![p] = "idle"]
            /\ batch' = [batch EXCEPT ![p] = {}]
  /\ UNCHANGED <<mTasks, mIsStarving, mIsRunning, ownerPc, shouldSteal, hand, done>>

(* ... and locks, clears it and wakes the owner if it saw TRUE.            *)
Wake(from) == IF from = "parked" THEN "woken" ELSE from

SignalLocked(p) ==
  /\ pc[p] = "signal"
  /\ mIsStarving' = FALSE
  /\ ownerPc' = Wake(ownerPc)
  /\ pc' = [pc EXCEPT ![p] = "idle"]
  /\ batch' = [batch EXCEPT ![p] = {}]
  /\ UNCHANGED <<mTasks, mIsRunning, shouldSteal, hand, done>>

--------------------------------------------------------------------------------
(* The owner                                                               *)

(* RunBlocked finds its queue not empty and pops the front ...             *)
PopOwn ==
  /\ ownerPc = "own"
  /\ mTasks # <<>>
  /\ hand' = [hand EXCEPT !["owner"] = Head(mTasks)]
  /\ mTasks' = Tail(mTasks)
  /\ ownerPc' = "run"
  /\ UNCHANGED <<mIsStarving, mIsRunning, shouldSteal, pc, batch, done>>

(* ... or empty, and waits the first time, and returns Empty the next.     *)
FindEmpty ==
  /\ ownerPc = "own"
  /\ mTasks = <<>>
  /\ ownerPc' = IF shouldSteal THEN "sweep" ELSE "wait"
  /\ UNCHANGED <<mTasks, mIsStarving, mIsRunning, shouldSteal, pc, batch, hand, done>>

DoneOwn ==
  /\ ownerPc = "run"
  /\ done' = done \cup {hand["owner"]}
  /\ hand' = [hand EXCEPT !["owner"] = None]
  /\ ownerPc' = "own"
  /\ UNCHANGED <<mTasks, mIsStarving, mIsRunning, shouldSteal, pc, batch>>

(* Mutant: TryWait sleeps without looking at mIsStarving.                  *)
TryWaitAlwaysSleeps ==
  /\ ownerPc = "wait"
  /\ ownerPc' = IF mIsRunning THEN "parked" ELSE "inactive"
  /\ UNCHANGED <<mTasks, mIsStarving, mIsRunning, shouldSteal, pc, batch, hand, done>>

(* TryWait, from its lock to the return or to the condition variable.      *)
TryWaitStarving ==
  /\ ownerPc = "wait"
  /\ mIsStarving
  /\ ownerPc' = IF mIsRunning THEN "parked" ELSE "inactive"
  /\ UNCHANGED <<mTasks, mIsStarving, mIsRunning, shouldSteal, pc, batch, hand, done>>

LeaveTryWait(from) ==
  /\ ownerPc = from
  /\ mIsStarving' = TRUE
  /\ shouldSteal' = TRUE
  /\ ownerPc' = "own"
  /\ UNCHANGED <<mTasks, mIsRunning, pc, batch, hand, done>>

TryWaitSignalled == ~mIsStarving /\ LeaveTryWait("wait")

TryWaitWoken == LeaveTryWait("woken")

(* The wait is timed, and a condition variable may wake for no reason.     *)
SpuriousWake ==
  /\ ownerPc = "parked"
  /\ ownerPc' = "woken"
  /\ UNCHANGED <<mTasks, mIsStarving, mIsRunning, shouldSteal, pc, batch, hand, done>>

(* The worker tried the other queues and calls RunBlocked again.           *)
RunAgain ==
  /\ ownerPc = "sweep"
  /\ ownerPc' = "own"
  /\ shouldSteal' = FALSE
  /\ UNCHANGED <<mTasks, mIsStarving, mIsRunning, pc, batch, hand, done>>

--------------------------------------------------------------------------------
(* Other threads                                                           *)

(* Steal pops the back.                                                    *)
Steal(h) ==
  /\ hand[h] = None
  /\ mTasks # <<>>
  /\ hand' = [hand EXCEPT ![h] = Last(mTasks)]
  /\ mTasks' = Front(mTasks)
  /\ UNCHANGED <<mIsStarving, mIsRunning, ownerPc, shouldSteal, pc, batch, done>>

(* GetJobTask takes the first task of one job, wherever it is; Run, which  *)
(* companion workers and the main thread use, is the case i = 1.           *)
FindJobTask(h, i) ==
  /\ hand[h] = None
  /\ hand' = [hand EXCEPT ![h] = mTasks[i]]
  /\ mTasks' = RemoveAt(mTasks, i)
  /\ UNCHANGED <<mIsStarving, mIsRunning, ownerPc, shouldSteal, pc, batch, done>>

DoneTaken(h) ==
  /\ hand[h] # None
  /\ done' = done \cup {hand[h]}
  /\ hand' = [hand EXCEPT ![h] = None]
  /\ UNCHANGED <<mTasks, mIsStarving, mIsRunning, ownerPc, shouldSteal, pc, batch>>

(* Mutant: Stop does not notify the owner.                                 *)
StopSilent ==
  /\ mIsRunning
  /\ mIsRunning' = FALSE
  /\ UNCHANGED <<mTasks, mIsStarving, ownerPc, shouldSteal, pc, batch, hand, done>>

(* ThreadPool::StopThreads, from the main thread.                          *)
Stop ==
  /\ mIsRunning
  /\ mIsRunning' = FALSE
  /\ ownerPc' = Wake(ownerPc)
  /\ UNCHANGED <<mTasks, mIsStarving, shouldSteal, pc, batch, hand, done>>

--------------------------------------------------------------------------------
OwnerStep ==
  PopOwn \/ FindEmpty \/ TryWaitStarving \/ TryWaitSignalled \/ TryWaitWoken \/ RunAgain

Next ==
  \/ \E p \in Producers :
       \/ \E works \in Batches : AddTasks(p, works)
       \/ SignalCheck(p)
       \/ SignalLocked(p)
  \/ OwnerStep
  \/ DoneOwn
  \/ SpuriousWake
  \/ \E h \in Thieves :
       \/ Steal(h)
       \/ \E i \in 1..Len(mTasks) : FindJobTask(h, i)
       \/ DoneTaken(h)
  \/ Stop

Spec == Init /\ [][Next]_vars

(* A thread that can run is scheduled, and a task returns from DoWork.  No *)
(* fairness on pushes, on stealing, on Stop, and none on SpuriousWake: the *)
(* owner must not need the 49 day timeout of its wait to find its work.    *)
Fairness ==
  /\ WF_vars(OwnerStep)
  /\ WF_vars(DoneOwn)
  /\ \A p \in Producers : WF_vars(SignalCheck(p) \/ SignalLocked(p))
  /\ \A h \in Thieves : WF_vars(DoneTaken(h))

FairSpec == Spec /\ Fairness

--------------------------------------------------------------------------------
(* Properties                                                              *)

(* The tasks whose push has not returned yet.                              *)
Unannounced == UNION {batch[p] : p \in Producers}

(* No lost wake-up: while the owner sleeps unnotified, or is about to go   *)
(* to sleep because it reads mIsStarving, every task in its queue is one   *)
(* whose push has not returned and will still signal (SCThreadSynchronizer *)
(* ::Signal reads the flag without the lock, TryWait sets it after the     *)
(* owner last looked).                                                     *)
NoLostWakeup ==
  \/ ownerPc = "parked"
  \/ ownerPc = "wait" /\ mIsStarving
  => ToSet(mTasks) \subseteq Unannounced

(* A sleeping owner can be woken: Signal notifies only if it sees          *)
(* mIsStarving, so the flag must be set while the owner is in the          *)
(* condition variable, and a stopped queue has nobody in it.               *)
SleeperIsReachable == ownerPc = "parked" => mIsStarving /\ mIsRunning

(* JobQueue::RunBlocked returns Inactive only when every task still queued *)
(* belongs to a push that has not returned: stopping the pool never drops  *)
(* work that was already announced.                                        *)
NoTaskLeftBehind ==
  [][ownerPc' = "inactive" /\ ownerPc # "inactive"
       => ToSet(mTasks) \subseteq Unannounced]_vars

(* A task is in one place only: queued once, in one hand, or done, however *)
(* the owner, the thieves and FindJobTaskLocked's Erase interleave.        *)
RunOnce ==
  /\ IsInjective(mTasks)
  /\ ToSet(mTasks) \cap (InHand \cup done) = {}
  /\ InHand \cap done = {}
  /\ \A g, h \in Takers : hand[g] = hand[h] /\ hand[g] # None => g = h

(* After Stop the owner ends, whatever the producers still do.             *)
StopEndsOwner == ~mIsRunning ~> ownerPc = "inactive"

--------------------------------------------------------------------------------
(* The queue implements the hand-over of tasks: what the owner and the     *)
(* thieves see of the lists and flags above is one stage per task.         *)
stageBar ==
  [t \in Tasks |->
     CASE t \in done -> "done"
       [] t \in InHand -> "running"
       [] t \in ToSet(mTasks) -> IF t \in Unannounced THEN "offered" ELSE "announced"
       [] OTHER -> "new"]

Handoff == INSTANCE TaskHandoff WITH
  stage <- stageBar, open <- mIsRunning, retired <- (ownerPc = "inactive")

ImplementsHandoff == Handoff!FairSpec
================================================================================
