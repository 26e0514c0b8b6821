-------------------------------- MODULE Job_proofs --------------------------------
(***************************************************************************)
(* Proofs about module Job, for every set of callers and workers and every *)
(* number of requests, and about module JobGroup, for every finite set of  *)
(* threads and every number of jobs.                                       *)
(***************************************************************************)
EXTENDS Job, JobGroup, FiniteSetTheorems, TLAPS

USE OwnerAssumption, RequestsAssumption DEF Runners

--------------------------------------------------------------------------------
(* The inductive invariant.  The two counters say where the one JobWork    *)
(* is: nowhere, in a queue, or with one thread, before or after the start  *)
(* of its call.  The thread that decides to leave still holds the lock, so *)
(* neither the next push nor a waiter gets past it.                        *)

Starting == queued = 1 \/ \E r \in Runners : runPc[r] = "start"
Calling == \E r \in Runners : runPc[r] \in {"run", "ran"}

CountersAreRight ==
  /\ mNumTasksInProgress = 0 <=> ~Starting /\ ~Calling
  /\ Calling => mNumTasksAvailable = mNumTasksInProgress - 1
  /\ ~Calling => mNumTasksAvailable = mNumTasksInProgress

HolderIsLast ==
  \A r \in Runners : runPc[r] = "unlock" =>
    /\ mNumTasksInProgress = 0
    /\ \A q \in Runners : runPc[q] = "unlock" => q = r

OwnerState ==
  /\ runPc[Owner] # "idle" => ownerPc = "help"
  /\ needed = IF ownerPc \in {"sleep", "woken"} THEN 1 ELSE 0

ClosedIsQuiet ==
  /\ closing => \A c \in Callers : pc[c] = "idle"
  /\ ownerPc \in {"returned", "destroyed"} =>
       closing /\ mNumTasksInProgress = 0 /\ LockIsFree

JobInv ==
  /\ TypeOK
  /\ RunsAreSequential
  /\ CountersAreRight
  /\ HolderIsLast
  /\ OwnerState
  /\ ClosedIsQuiet
  /\ NoLostRequest

LEMMA JobInit == Init => JobInv
<1> SUFFICES ASSUME Init
             PROVE  JobInv
  OBVIOUS
<1>1. TypeOK
  <2>1. asked \in [Callers -> 0..MaxRequests]
    BY DEF Init
  <2>2. pending \subseteq Callers \X (1..MaxRequests)
    BY DEF Init
  <2>3. pc \in [Callers -> CallerPcs] /\ runPc \in [Runners -> RunPcs]
    BY DEF Init, CallerPcs, RunPcs
  <2>4. /\ mNumTasksAvailable \in 0..2 /\ mNumTasksInProgress \in 0..2
        /\ queued \in 0..1 /\ needed \in 0..1
    BY DEF Init
  <2> QED
    BY <2>1, <2>2, <2>3, <2>4 DEF Init, TypeOK, OwnerPcs
<1>2. \A r \in Runners : runPc[r] = "idle"
  BY DEF Init
<1>3. RunsAreSequential /\ CountersAreRight /\ HolderIsLast
  BY <1>2
     DEF Init, RunsAreSequential, CountersAreRight, HolderIsLast, Active, Starting, Calling
<1>4. OwnerState /\ ClosedIsQuiet
  BY <1>2 DEF Init, OwnerState, ClosedIsQuiet
<1>5. NoLostRequest
  BY DEF Init, NoLostRequest
<1> QED
  BY <1>1, <1>3, <1>4, <1>5 DEF JobInv

LEMMA TypeStep == JobInv /\ [Next]_vars => TypeOK'
<1> SUFFICES ASSUME JobInv, [Next]_vars
             PROVE  TypeOK'
  OBVIOUS
<1>t. /\ TypeOK /\ RunsAreSequential /\ CountersAreRight /\ OwnerState
  BY DEF JobInv
<1> USE DEF TypeOK, CallerPcs, RunPcs, OwnerPcs, Helping, IoWaiting, Searching, RunsAreSequential, CountersAreRight, OwnerState,
            Active, Starting, Calling, counters
<1>1. ASSUME NEW c \in Callers, Request(c)
      PROVE  TypeOK'
  BY <1>1, <1>t DEF Request
<1>2. ASSUME NEW c \in Callers, ExecuteCheck(c)
      PROVE  TypeOK'
  BY <1>2, <1>t DEF ExecuteCheck
<1>3. ASSUME NEW c \in Callers, ExecuteLocked(c)
      PROVE  TypeOK'
  BY <1>3, <1>t DEF ExecuteLocked, Push, Searching
<1>4. ASSUME NEW w \in Workers, StartWork(w)
      PROVE  TypeOK'
  BY <1>4, <1>t DEF StartWork, TakeWork
<1>5. ASSUME NEW r \in Runners, OnTaskStarted(r)
      PROVE  TypeOK'
  BY <1>5, <1>t DEF OnTaskStarted
<1>6. ASSUME NEW r \in Runners, RunFunction(r)
      PROVE  TypeOK'
  BY <1>6, <1>t DEF RunFunction
<1>7. ASSUME NEW r \in Runners, EndRun(r)
      PROVE  TypeOK'
  BY <1>7, <1>t DEF EndRun, NotifyOwner
<1>8. ASSUME NEW r \in Runners, Unlock(r)
      PROVE  TypeOK'
  BY <1>8, <1>t DEF Unlock
<1>9. ASSUME NEW last \in BOOLEAN, StartWait(last)
      PROVE  TypeOK'
  BY <1>9, <1>t DEF StartWait, jobVars
<1>10. CASE WaitCheck
  BY <1>10, <1>t DEF WaitCheck, OwnerGoes, jobVars
<1>11. CASE FindJobTask
  BY <1>11, <1>t DEF FindJobTask, TakeWork
<1>12. ASSUME NEW next \in {"scan", "blockEmpty"}, Helped(next)
      PROVE  TypeOK'
  BY <1>12, <1>t DEF Helped, OwnerGoes, jobVars
<1>13. CASE FindNothing
  BY <1>13, <1>t DEF FindNothing, OwnerGoes, jobVars, Searching
<1>14. CASE BlockTasksAvailable
  BY <1>14, <1>t DEF BlockTasksAvailable, OwnerGoes, jobVars
<1>15. CASE Napped
  BY <1>15, <1>t DEF Napped, OwnerGoes, jobVars
<1>16. ASSUME NEW from \in {"block", "blockEmpty", "napped"}, BlockDone(from)
      PROVE  TypeOK'
  BY <1>16, <1>t DEF BlockDone, Return, OwnerGoes, jobVars
<1>17. ASSUME NEW from \in {"block", "blockEmpty", "napped"}, BlockSleep(from)
      PROVE  TypeOK'
  BY <1>17, <1>t DEF BlockSleep, jobVars
<1>18. CASE Woken
  BY <1>18, <1>t DEF Woken, jobVars
<1>19. CASE IoBlockDone
  BY <1>19, <1>t DEF IoBlockDone, BlockDone, Return, OwnerGoes, jobVars
<1>20. CASE IoBlockSleep
  BY <1>20, <1>t DEF IoBlockSleep, OwnerGoes, jobVars
<1>21. CASE SpuriousWake
  BY <1>21, <1>t DEF SpuriousWake, OwnerGoes, jobVars
<1>22. CASE Destroy
  BY <1>22, <1>t DEF Destroy, OwnerGoes, jobVars
<1>23. CASE UNCHANGED vars
  BY <1>23, <1>t DEF vars
<1> QED
  BY <1>1, <1>2, <1>3, <1>4, <1>5, <1>6, <1>7, <1>8, <1>9, <1>10, <1>11, <1>12, <1>13, <1>14, <1>15, <1>16, <1>17, <1>18, <1>19, <1>20, <1>21, <1>22, <1>23
     DEF Next, RunStep, OwnerStep

LEMMA JobStep == JobInv /\ [Next]_vars => JobInv'
<1> DEFINE Runs == RunsAreSequential /\ CountersAreRight /\ HolderIsLast
           Waits == OwnerState /\ ClosedIsQuiet
<1> SUFFICES ASSUME JobInv, [Next]_vars
             PROVE  Runs' /\ Waits' /\ NoLostRequest'
  BY TypeStep DEF JobInv
<1>t. /\ TypeOK
      /\ Runs /\ Waits /\ NoLostRequest
  BY DEF JobInv
<1> USE DEF TypeOK, RunsAreSequential, CountersAreRight, HolderIsLast, OwnerState, ClosedIsQuiet,
            NoLostRequest, CallToCome, InExecute, LockIsFree, Active, Starting, Calling, counters
<1>1. ASSUME NEW c \in Callers, Request(c)
      PROVE  Runs' /\ Waits' /\ NoLostRequest'
  BY <1>1, <1>t DEF Request
<1>2. ASSUME NEW c \in Callers, ExecuteCheck(c)
      PROVE  Runs' /\ Waits' /\ NoLostRequest'
  BY <1>2, <1>t DEF ExecuteCheck
<1>3. ASSUME NEW c \in Callers, ExecuteLocked(c)
      PROVE  Runs' /\ Waits' /\ NoLostRequest'
  BY <1>3, <1>t DEF ExecuteLocked, Push, Searching
<1>4. ASSUME NEW w \in Workers, StartWork(w)
      PROVE  Runs' /\ Waits' /\ NoLostRequest'
  BY <1>4, <1>t DEF StartWork, TakeWork
<1>5. ASSUME NEW r \in Runners, OnTaskStarted(r)
      PROVE  Runs' /\ Waits' /\ NoLostRequest'
  BY <1>5, <1>t DEF OnTaskStarted
<1>6. ASSUME NEW r \in Runners, RunFunction(r)
      PROVE  Runs' /\ Waits' /\ NoLostRequest'
  BY <1>6, <1>t DEF RunFunction
<1>7. ASSUME NEW r \in Runners, EndRun(r)
      PROVE  Runs' /\ Waits' /\ NoLostRequest'
  BY <1>7, <1>t DEF EndRun, NotifyOwner
<1>8. ASSUME NEW r \in Runners, Unlock(r)
      PROVE  Runs' /\ Waits' /\ NoLostRequest'
  BY <1>8, <1>t DEF Unlock
<1>9. ASSUME NEW last \in BOOLEAN, StartWait(last)
      PROVE  Runs' /\ Waits' /\ NoLostRequest'
  BY <1>9, <1>t DEF StartWait, jobVars
<1>10. CASE WaitCheck
  BY <1>10, <1>t DEF WaitCheck, OwnerGoes, jobVars
<1>11. CASE FindJobTask
  BY <1>11, <1>t DEF FindJobTask, TakeWork
<1>12. ASSUME NEW next \in {"scan", "blockEmpty"}, Helped(next)
      PROVE  Runs' /\ Waits' /\ NoLostRequest'
  BY <1>12, <1>t DEF Helped, OwnerGoes, jobVars
<1>13. CASE FindNothing
  BY <1>13, <1>t DEF FindNothing, OwnerGoes, jobVars, Searching
<1>14. CASE BlockTasksAvailable
  BY <1>14, <1>t DEF BlockTasksAvailable, OwnerGoes, jobVars
<1>15. CASE Napped
  BY <1>15, <1>t DEF Napped, OwnerGoes, jobVars
<1>16. ASSUME NEW from \in {"block", "blockEmpty", "napped"}, BlockDone(from)
      PROVE  Runs' /\ Waits' /\ NoLostRequest'
  BY <1>16, <1>t DEF BlockDone, Return, OwnerGoes, jobVars
<1>17. ASSUME NEW from \in {"block", "blockEmpty", "napped"}, BlockSleep(from)
      PROVE  Runs' /\ Waits' /\ NoLostRequest'
  BY <1>17, <1>t DEF BlockSleep, jobVars
<1>18. CASE Woken
  BY <1>18, <1>t DEF Woken, jobVars
<1>19. CASE IoBlockDone
  BY <1>19, <1>t DEF IoBlockDone, BlockDone, Return, OwnerGoes, jobVars
<1>20. CASE IoBlockSleep
  BY <1>20, <1>t DEF IoBlockSleep, OwnerGoes, jobVars
<1>21. CASE SpuriousWake
  BY <1>21, <1>t DEF SpuriousWake, OwnerGoes, jobVars
<1>22. CASE Destroy
  BY <1>22, <1>t DEF Destroy, OwnerGoes, jobVars
<1>23. CASE UNCHANGED vars
  BY <1>23, <1>t DEF vars
<1> QED
  BY <1>1, <1>2, <1>3, <1>4, <1>5, <1>6, <1>7, <1>8, <1>9, <1>10, <1>11, <1>12, <1>13, <1>14, <1>15, <1>16, <1>17, <1>18, <1>19, <1>20, <1>21, <1>22, <1>23
     DEF Next, RunStep, OwnerStep

LEMMA JobInvariant == Spec => []JobInv
  BY JobInit, JobStep, PTL DEF Spec

(* Every reachable state is well typed.                                    *)
THEOREM JobTypeCorrect == Spec => []TypeOK
  BY JobInvariant, PTL DEF JobInv

(* The function is never called by two threads at a time.                  *)
THEOREM JobCallsAreSequential == Spec => []RunsAreSequential
  BY JobInvariant, PTL DEF JobInv

(* The assertions about the two counters never fail.                       *)
THEOREM JobAssertionsHold == Spec => []AssertionsHold
<1>1. JobInv => AssertionsHold
  BY DEF JobInv, TypeOK, RunsAreSequential, CountersAreRight, ClosedIsQuiet, AssertionsHold,
         Active, Starting, Calling
<1> QED
  BY <1>1, JobInvariant, PTL

(* No request is lost to the unlocked read in Execute.                     *)
THEOREM JobNeverLosesRequest == Spec => []NoLostRequest
  BY JobInvariant, PTL DEF JobInv

(* Nobody uses a job its owner waited for and destroyed.                   *)
THEOREM JobDestroyedUnused == Spec => []DestroyedUnused
<1>1. JobInv => DestroyedUnused
  BY DEF JobInv, TypeOK, CountersAreRight, ClosedIsQuiet, DestroyedUnused, LockIsFree,
         Starting, Calling, RunPcs
<1> QED
  BY <1>1, JobInvariant, PTL

(* However Wait returns, what was asked for before was done.               *)
THEOREM JobWaitServes == Spec => WaitReturnsServed
<1> DEFINE Returns == ownerPc \notin {"using", "returned"} /\ ownerPc' \in {"using", "returned"}
<1>1. ASSUME JobInv, [Next]_vars, Returns
      PROVE  \A r \in pending : InExecute(r)
  <2>1. mNumTasksInProgress = 0
    <3> USE <1>1 DEF JobInv, TypeOK, OwnerPcs, Helping, IoWaiting, Searching, NotifyOwner, OwnerGoes, jobVars, counters
    <3>1. ASSUME NEW c \in Callers, Request(c)
          PROVE  mNumTasksInProgress = 0
      BY <3>1 DEF Request
    <3>2. ASSUME NEW c \in Callers, ExecuteCheck(c)
          PROVE  mNumTasksInProgress = 0
      BY <3>2 DEF ExecuteCheck
    <3>3. ASSUME NEW c \in Callers, ExecuteLocked(c)
          PROVE  mNumTasksInProgress = 0
      BY <3>3 DEF ExecuteLocked, Push, Searching
    <3>4. ASSUME NEW w \in Workers, StartWork(w)
          PROVE  mNumTasksInProgress = 0
      BY <3>4 DEF StartWork, TakeWork
    <3>5. ASSUME NEW r \in Runners, OnTaskStarted(r)
          PROVE  mNumTasksInProgress = 0
      BY <3>5 DEF OnTaskStarted
    <3>6. ASSUME NEW r \in Runners, RunFunction(r)
          PROVE  mNumTasksInProgress = 0
      BY <3>6 DEF RunFunction
    <3>7. ASSUME NEW r \in Runners, EndRun(r)
          PROVE  mNumTasksInProgress = 0
      BY <3>7 DEF EndRun, NotifyOwner
    <3>8. ASSUME NEW r \in Runners, Unlock(r)
          PROVE  mNumTasksInProgress = 0
      BY <3>8 DEF Unlock
    <3>9. ASSUME NEW last \in BOOLEAN, StartWait(last)
          PROVE  mNumTasksInProgress = 0
      BY <3>9 DEF StartWait, jobVars
    <3>10. CASE WaitCheck
      BY <3>10 DEF WaitCheck, OwnerGoes, jobVars
    <3>11. CASE FindJobTask
      BY <3>11 DEF FindJobTask, TakeWork
    <3>12. ASSUME NEW next \in {"scan", "blockEmpty"}, Helped(next)
          PROVE  mNumTasksInProgress = 0
      BY <3>12 DEF Helped, OwnerGoes, jobVars
    <3>13. CASE FindNothing
      BY <3>13 DEF FindNothing, OwnerGoes, jobVars, Searching
    <3>14. CASE BlockTasksAvailable
      BY <3>14 DEF BlockTasksAvailable, OwnerGoes, jobVars
    <3>15. CASE Napped
      BY <3>15 DEF Napped, OwnerGoes, jobVars
    <3>16. ASSUME NEW from \in {"block", "blockEmpty", "napped"}, BlockDone(from)
          PROVE  mNumTasksInProgress = 0
      BY <3>16 DEF BlockDone, Return, OwnerGoes, jobVars
    <3>17. ASSUME NEW from \in {"block", "blockEmpty", "napped"}, BlockSleep(from)
          PROVE  mNumTasksInProgress = 0
      BY <3>17 DEF BlockSleep, jobVars
    <3>18. CASE Woken
      BY <3>18 DEF Woken, jobVars
    <3>19. CASE IoBlockDone
      BY <3>19 DEF IoBlockDone, BlockDone, Return, OwnerGoes, jobVars
    <3>20. CASE IoBlockSleep
      BY <3>20 DEF IoBlockSleep, OwnerGoes, jobVars
    <3>21. CASE SpuriousWake
      BY <3>21 DEF SpuriousWake, OwnerGoes, jobVars
    <3>22. CASE Destroy
      BY <3>22 DEF Destroy, OwnerGoes, jobVars
    <3>23. CASE UNCHANGED vars
      BY <3>23 DEF vars
    <3> QED
      BY <3>1, <3>2, <3>3, <3>4, <3>5, <3>6, <3>7, <3>8, <3>9, <3>10, <3>11, <3>12, <3>13, <3>14, <3>15, <3>16, <3>17, <3>18, <3>19, <3>20, <3>21, <3>22, <3>23
         DEF Next, RunStep, OwnerStep
  <2> QED
    BY <1>1, <2>1
       DEF JobInv, TypeOK, NoLostRequest, CallToCome, CountersAreRight, Starting, Calling
<1> QED
  BY <1>1, JobInvariant, PTL DEF Spec, WaitReturnsServed

--------------------------------------------------------------------------------
USE GroupAssumption

(* The threads that have counted a job and not queued it yet.              *)
Pushing == {t \in GroupThreads : groupPc[t] = "push"}

(* What the counter needs of the types.                                    *)
GroupPlacesOK ==
  /\ mGroupTasks \in Nat
  /\ mIsStarving \in BOOLEAN
  /\ groupPc \in [GroupThreads -> GroupThreadPcs]
  /\ groupOwnerPc \in GroupOwnerPcs
  /\ groupPushed \in 0..MaxJobs
  /\ finalizing \in BOOLEAN

(* The code's words for mNumJobsAvailable: jobs that were pushed and not   *)
(* run, wherever they are, and the Finalize to come.                       *)
JobsAreCounted ==
  mNumJobsAvailable = Cardinality(Pushing) + mGroupTasks
                        + (IF groupOwnerPc = "run" THEN 1 ELSE 0)
                        + (IF finalizing THEN 0 ELSE 1)

(* The owner, which is in Work, pushes only from a job.                    *)
OwnerPushesInJob == groupPc[GroupOwner] # "idle" => groupOwnerPc = "run"

(* Only the owner, from within a job, pushes when Finalize was called.     *)
FinalizedIsClosed == finalizing => \A t \in GroupThreads \ {GroupOwner} : groupPc[t] # "push"

GroupInv ==
  GroupPlacesOK /\ JobsAreCounted /\ OwnerPushesInJob /\ FinalizedIsClosed /\ GroupIsComplete

LEMMA PushingIsFinite == IsFiniteSet(Pushing) /\ Cardinality(Pushing) \in Nat
<1>1. IsFiniteSet(GroupThreads)
  BY FS_AddElement DEF GroupThreads
<1>2. IsFiniteSet(Pushing)
  BY <1>1, FS_Subset DEF Pushing
<1> QED
  BY <1>2, FS_CardinalityType

(* The threads between the two halves of PushJob, when one thread moves.   *)
LEMMA PushingIsCounted ==
  ASSUME NEW t \in GroupThreads, \A u \in GroupThreads \ {t} : groupPc'[u] = groupPc[u]
  PROVE  /\ Cardinality(Pushing) \in Nat /\ Cardinality(Pushing') \in Nat
         /\ (groupPc'[t] = "push" <=> groupPc[t] = "push")
              => Cardinality(Pushing') = Cardinality(Pushing)
         /\ groupPc'[t] = "push" /\ groupPc[t] # "push"
              => Cardinality(Pushing') = Cardinality(Pushing) + 1
         /\ groupPc'[t] # "push" /\ groupPc[t] = "push"
              => Cardinality(Pushing') = Cardinality(Pushing) - 1
<1>2. IsFiniteSet(Pushing) /\ Cardinality(Pushing) \in Nat
  BY PushingIsFinite
<1>3. \A u \in GroupThreads \ {t} : groupPc'[u] = groupPc[u]
  OBVIOUS
<1>5. CASE groupPc'[t] = "push" <=> groupPc[t] = "push"
  <2>1. Pushing' = Pushing
    BY <1>3, <1>5 DEF Pushing
  <2> QED
    BY <1>2, <1>5, <2>1
<1>6. CASE groupPc'[t] = "push" /\ groupPc[t] # "push"
  <2>1. Pushing' = Pushing \cup {t} /\ t \notin Pushing
    BY <1>3, <1>6 DEF Pushing
  <2>2. Cardinality(Pushing') = Cardinality(Pushing) + 1
    BY <1>2, <2>1, FS_AddElement
  <2> QED
    BY <1>2, <1>6, <2>2
<1>7. CASE groupPc'[t] # "push" /\ groupPc[t] = "push"
  <2>1. Pushing' = Pushing \ {t} /\ t \in Pushing
    BY <1>3, <1>7 DEF Pushing
  <2>2. Cardinality(Pushing') = Cardinality(Pushing) - 1 /\ IsFiniteSet(Pushing')
    BY <1>2, <2>1, FS_RemoveElement
  <2> QED
    BY <1>2, <1>7, <2>2, FS_CardinalityType
<1> QED
  BY <1>5, <1>6, <1>7

LEMMA GroupInvInit == GroupInit => GroupInv
<1> SUFFICES ASSUME GroupInit
             PROVE  GroupInv
  OBVIOUS
<1>1. Pushing = {}
  BY DEF GroupInit, Pushing
<1>2. Cardinality(Pushing) = 0
  BY <1>1, FS_EmptySet
<1>3. GroupPlacesOK
  <2>1. groupPushed \in 0..MaxJobs
    BY DEF GroupInit
  <2>2. groupPc \in [GroupThreads -> GroupThreadPcs] /\ groupOwnerPc \in GroupOwnerPcs
    BY DEF GroupInit, GroupThreadPcs, GroupOwnerPcs
  <2> QED
    BY <2>1, <2>2 DEF GroupInit, GroupPlacesOK
<1>4. JobsAreCounted
  BY <1>2 DEF GroupInit, JobsAreCounted
<1> QED
  BY <1>3, <1>4 DEF GroupInit, GroupInv, OwnerPushesInJob, FinalizedIsClosed, GroupIsComplete,
     GroupThreads

LEMMA ThreadKeepsGroupInv ==
  ASSUME GroupInv, NEW t \in GroupThreads, PushJob(t) \/ Finalize(t) \/ GroupThreadStep(t)
  PROVE  GroupInv'
<1>n. Cardinality(Pushing) \in Nat
  BY PushingIsFinite
<1>o. GroupOwner \in GroupThreads
  BY DEF GroupThreads
<1> USE <1>n, <1>o DEF GroupInv, GroupPlacesOK, OwnerPushesInJob,
        FinalizedIsClosed, GroupIsComplete, GroupThreadPcs, GroupOwnerPcs
<1>1. CASE PushJob(t)
  <2>1. Cardinality(Pushing') = Cardinality(Pushing) + 1
    BY <1>1, PushingIsCounted DEF PushJob, MayPushJob
  <2>2. GroupPlacesOK' /\ OwnerPushesInJob' /\ FinalizedIsClosed' /\ GroupIsComplete'
    BY <1>1 DEF PushJob, MayPushJob
  <2>3. JobsAreCounted'
    BY <1>1, <2>1 DEF PushJob, JobsAreCounted
  <2> QED
    BY <2>2, <2>3
<1>2. CASE PushTask(t)
  <2>1. Cardinality(Pushing') = Cardinality(Pushing) - 1
    <3>1. /\ groupPc[t] = "push" /\ groupPc'[t] # "push"
          /\ \A u \in GroupThreads \ {t} : groupPc'[u] = groupPc[u]
      BY <1>2 DEF PushTask
    <3> QED
      BY <3>1, PushingIsCounted
  <2>2. GroupPlacesOK' /\ OwnerPushesInJob' /\ FinalizedIsClosed' /\ GroupIsComplete'
    BY <1>2 DEF PushTask
  <2>3. JobsAreCounted'
    BY <1>2, <2>1 DEF PushTask, JobsAreCounted
  <2> QED
    BY <2>2, <2>3
<1>3. CASE Finalize(t)
  <2>1. groupPc[t] # "push"
    BY <1>3 DEF Finalize, GroupThreads
  <2>2. Cardinality(Pushing') = Cardinality(Pushing)
    <3>1. /\ groupPc'[t] # "push"
          /\ \A u \in GroupThreads \ {t} : groupPc'[u] = groupPc[u]
      BY <1>3 DEF Finalize
    <3> QED
      BY <2>1, <3>1, PushingIsCounted
  <2>3. GroupPlacesOK' /\ OwnerPushesInJob' /\ FinalizedIsClosed' /\ GroupIsComplete'
    BY <1>3 DEF Finalize, GroupThreads
  <2>4. JobsAreCounted'
    BY <1>3, <2>2 DEF Finalize, JobsAreCounted
  <2> QED
    BY <2>3, <2>4
<1>4. CASE SignalCheck(t) \/ SignalLocked(t)
  <2>1. Cardinality(Pushing') = Cardinality(Pushing)
    <3>1. /\ groupPc[t] # "push" /\ groupPc'[t] # "push"
          /\ \A u \in GroupThreads \ {t} : groupPc'[u] = groupPc[u]
      BY <1>4 DEF SignalCheck, SignalLocked
    <3> QED
      BY <3>1, PushingIsCounted
  <2>2. GroupPlacesOK' /\ OwnerPushesInJob' /\ FinalizedIsClosed' /\ GroupIsComplete'
    <3>1. CASE SignalCheck(t)
      BY <3>1 DEF SignalCheck
    <3>2. CASE SignalLocked(t)
      BY <3>2 DEF SignalLocked
    <3> QED
      BY <1>4, <3>1, <3>2
  <2>3. JobsAreCounted'
    BY <1>4, <2>1 DEF SignalCheck, SignalLocked, JobsAreCounted
  <2> QED
    BY <2>2, <2>3
<1> QED
  BY <1>1, <1>2, <1>3, <1>4 DEF GroupThreadStep

LEMMA OwnerKeepsGroupInv ==
  ASSUME GroupInv, GroupOwnerStep \/ GroupSpuriousWake \/ UNCHANGED groupVars
  PROVE  GroupInv'
<1>f. IsFiniteSet(Pushing) /\ Cardinality(Pushing) \in Nat
  BY PushingIsFinite
<1>o. GroupOwner \in GroupThreads
  BY DEF GroupThreads
<1>p. UNCHANGED groupPc => Cardinality(Pushing') = Cardinality(Pushing)
  BY DEF Pushing
<1> USE <1>f, <1>o, <1>p DEF GroupInv, GroupPlacesOK, JobsAreCounted, OwnerPushesInJob,
        FinalizedIsClosed, GroupIsComplete, GroupOwnerPcs, GroupOwnerGoes
<1>1. CASE Run
  BY <1>1 DEF Run
<1>5. CASE FindEmpty \/ TryWait \/ LeaveWait \/ GroupSpuriousWake
  <2>1. /\ UNCHANGED <<mNumJobsAvailable, mGroupTasks, groupPc, groupPushed, finalizing>>
        /\ mIsStarving' \in BOOLEAN
        /\ groupOwnerPc # "run" /\ groupOwnerPc' \in {"wait", "sleep", "check", "woken"}
    BY <1>5 DEF FindEmpty, TryWait, LeaveWait, GroupSpuriousWake
  <2> QED
    BY <2>1
<1>2. CASE EndJob
  BY <1>2 DEF EndJob
<1>3. CASE Work
  <2>1. CASE mNumJobsAvailable = 0
    <3>1. Cardinality(Pushing) = 0 /\ mGroupTasks = 0 /\ finalizing
      BY <2>1
    <3>2. \A t \in GroupThreads : groupPc[t] # "push"
      BY <3>1, FS_EmptySet DEF Pushing
    <3> QED
      BY <1>3, <2>1, <3>1, <3>2 DEF Work
  <2>2. CASE mNumJobsAvailable # 0
    BY <1>3, <2>2 DEF Work
  <2> QED
    BY <2>1, <2>2
<1>4. CASE UNCHANGED groupVars
  BY <1>4 DEF groupVars
<1> QED
  BY <1>1, <1>2, <1>3, <1>4, <1>5 DEF GroupOwnerStep

LEMMA GroupInvariant == GroupSpec => []GroupInv
<1>1. GroupInv /\ [GroupNext]_groupVars => GroupInv'
  BY ThreadKeepsGroupInv, OwnerKeepsGroupInv DEF GroupNext
<1> QED
  BY GroupInvInit, <1>1, PTL DEF GroupSpec

(* JobGroup::Work returns only when Finalize was called and every job that *)
(* was pushed has run: mNumJobsAvailable reaches 0 no earlier, although    *)
(* the last job may itself push (jobs/JobGroup.cpp).                       *)
THEOREM GroupWorkReturnsComplete == GroupSpec => []GroupIsComplete
  BY GroupInvariant, PTL DEF GroupInv

(* Type correctness of the job group.                                      *)
THEOREM GroupTypeCorrect == GroupSpec => []GroupTypeOK
<1>1. GroupInv => GroupTypeOK
  BY PushingIsFinite DEF GroupInv, GroupPlacesOK, JobsAreCounted, GroupTypeOK
<1> QED
  BY <1>1, GroupInvariant, PTL

================================================================================
