---------------------------- MODULE TimedJobs_proofs ----------------------------
(***************************************************************************)
(* Proofs about module TimedJobs, for every set of periodic and one-shot   *)
(* jobs, every set of pool threads and every number of pushes, with the    *)
(* stop at any time.                                                       *)
(***************************************************************************)
EXTENDS TimedJobs, FiniteSetTheorems, TLAPS

USE JobsAssumption, PushesAssumption DEF scanVars

--------------------------------------------------------------------------------
(* The inductive invariant.  What OnePlace says with a sum and a           *)
(* cardinality is said here place by place.                                *)

IsHeld(j) == \E t \in Threads : working[t] = j

(* Of the places a job can be in, it is at most in the one that is named.  *)
NowhereElse(j, place) ==
  /\ place # "in" => mInQueue[j] = 0
  /\ place # "timed" => mTimedQueue[j] = 0
  /\ place # "pooled" => pooled[j] = 0
  /\ place # "held" => ~IsHeld(j)
  /\ place # "owner" => ownerPc[j] # "dispatched"

HasOnePlace(j) ==
  /\ mInQueue[j] \in 0..1 /\ mTimedQueue[j] \in 0..1 /\ pooled[j] \in 0..1
  /\ mInQueue[j] = 1 => NowhereElse(j, "in")
  /\ mTimedQueue[j] = 1 => NowhereElse(j, "timed")
  /\ pooled[j] = 1 => NowhereElse(j, "pooled")
  /\ IsHeld(j) => NowhereElse(j, "held")
  /\ ownerPc[j] = "dispatched" => NowhereElse(j, "owner")

(* The count says whether the job is anywhere, and so does the state.      *)
IsCounted(j) ==
  /\ mNumTasksInProgress[j] \in 0..1
  /\ mNumTasksInProgress[j] = 0 <=> NowhereElse(j, "nowhere")
  /\ mState[j] = "Inactive" <=> mNumTasksInProgress[j] = 0
  /\ ownerPc[j] \in {"free", "destroyed"} => mNumTasksInProgress[j] = 0

(* A job that ran after it was cancelled gets no further than mInQueue.    *)
LateIsLast(j) ==
  /\ late[j] \in 0..1
  /\ late[j] = 1 => mState[j] # "Active" /\ pooled[j] = 0 /\ mTimedQueue[j] = 0

JobInv(j) == HasOnePlace(j) /\ IsCounted(j) /\ LateIsLast(j)

(* A job has one thread at most, which is in its DoWork.                   *)
WorkInv ==
  /\ \A t \in Threads : pc[t] \in {"run", "ran"} <=> working[t] # None
  /\ \A t, u \in Threads : working[t] = working[u] /\ working[t] # None => t = u

VisitsAreTimed == dispatcherPc = "scan" => \A j \in toVisit : mTimedQueue[j] = 1

(* From the end of DequeueAll until the flag is cleared.                   *)
QuietIsCovered ==
  /\ dispatcherPc = "sleep" => mIsStarving
  /\ dispatcherPc \in {"scan", "wait", "sleep"} /\ mIsStarving =>
       (InQueueIsEmpty /\ ~hurried) \/ \E t \in Threads : pc[t] \in {"signal", "lock"}

TimedInv ==
  TypeOK /\ (\A j \in Jobs : JobInv(j)) /\ WorkInv /\ VisitsAreTimed /\ QuietIsCovered

(* The parts about the jobs, and about threads.                            *)
JobsInv == (\A j \in Jobs : JobInv(j)) /\ WorkInv /\ VisitsAreTimed

--------------------------------------------------------------------------------
LEMMA TimedInvInit == Init => TimedInv
<1> SUFFICES ASSUME Init
             PROVE  TimedInv
  OBVIOUS
<1>1. TypeOK
  <2>1. /\ pc \in [Threads -> ThreadPcs] /\ working \in [Threads -> Jobs \cup {None}]
        /\ ownerPc \in [Jobs -> OwnerPcs] /\ pushes \in [Jobs -> 0..MaxPushes]
    BY DEF Init, ThreadPcs, OwnerPcs
  <2>2. dispatcherPc \in DispatcherPcs
    BY DEF Init, DispatcherPcs
  <2>3. /\ mState \in [Jobs -> TimedJobState] /\ mNumTasksInProgress \in [Jobs -> 0..1]
        /\ due \in [Jobs -> BOOLEAN] /\ late \in [Jobs -> Nat]
    BY DEF Init, TimedJobState
  <2>4. /\ mInQueue \in [Jobs -> 0..1] /\ mTimedQueue \in [Jobs -> 0..1]
        /\ pooled \in [Jobs -> 0..1]
    BY DEF Init
  <2>5. /\ queueZero \subseteq Jobs /\ toVisit \subseteq Jobs /\ ready \subseteq Jobs
        /\ {mIsStarving, mIsRunning, gSharedDispatcher, hurried} \subseteq BOOLEAN
    BY DEF Init
  <2> QED
    BY <2>1, <2>2, <2>3, <2>4, <2>5 DEF TypeOK
<1>2. \A j \in Jobs : JobInv(j)
  BY DEF Init, JobInv, HasOnePlace, IsCounted, LateIsLast, NowhereElse, IsHeld
<1>3. WorkInv /\ VisitsAreTimed /\ QuietIsCovered
  BY DEF Init, WorkInv, VisitsAreTimed, QuietIsCovered, InQueueIsEmpty
<1> QED
  BY <1>1, <1>2, <1>3 DEF TimedInv

--------------------------------------------------------------------------------
(* What a step that does not touch a job leaves of it.                     *)
SameJob(j) ==
  /\ mState'[j] = mState[j]
  /\ mNumTasksInProgress'[j] = mNumTasksInProgress[j]
  /\ mInQueue'[j] = mInQueue[j]
  /\ mTimedQueue'[j] = mTimedQueue[j]
  /\ pooled'[j] = pooled[j]
  /\ late'[j] = late[j]
  /\ IsHeld(j)' <=> IsHeld(j)
  /\ ownerPc'[j] = "dispatched" <=> ownerPc[j] = "dispatched"
  /\ ownerPc'[j] \in {"free", "destroyed"} =>
       ownerPc[j] \in {"free", "destroyed"} \/ mNumTasksInProgress[j] = 0

LEMMA SameJobHolds ==
  ASSUME NEW j \in Jobs, JobInv(j), SameJob(j)
  PROVE  JobInv(j)'
  BY DEF JobInv, SameJob, HasOnePlace, IsCounted, LateIsLast, NowhereElse

(* The last task of a job is removed from where it is.                     *)
LEMMA RemovedHolds ==
  ASSUME TypeOK, \A j \in Jobs : JobInv(j), NEW k \in Jobs, OnRemoved(k),
         mNumTasksInProgress[k] = 1, UNCHANGED ownerPc, NowhereElse(k, "nowhere")',
         \A j \in Jobs \ {k} :
           /\ mInQueue'[j] = mInQueue[j] /\ mTimedQueue'[j] = mTimedQueue[j]
           /\ pooled'[j] = pooled[j] /\ (IsHeld(j)' <=> IsHeld(j))
  PROVE  \A j \in Jobs : JobInv(j)'
<1> SUFFICES ASSUME NEW j \in Jobs
             PROVE  JobInv(j)'
  OBVIOUS
<1>1. CASE j # k
  BY <1>1, SameJobHolds DEF OnRemoved, Taken, TypeOK, SameJob
<1>2. CASE j = k
  <2>1. mNumTasksInProgress'[k] = 0 /\ mState'[k] = "Inactive" /\ late'[k] = late[k]
    BY DEF OnRemoved, Taken, TypeOK
  <2>2. mInQueue'[k] = 0 /\ mTimedQueue'[k] = 0 /\ pooled'[k] = 0 /\ ~IsHeld(k)'
        /\ ownerPc'[k] # "dispatched"
    BY DEF NowhereElse
  <2> QED
    BY <1>2, <2>1, <2>2 DEF JobInv, HasOnePlace, IsCounted, LateIsLast, NowhereElse
<1> QED
  BY <1>1, <1>2

--------------------------------------------------------------------------------
LEMMA OwnerStepHolds ==
  ASSUME TypeOK, JobsInv, NEW k \in Jobs, OwnerStep(k)
  PROVE  JobsInv'
<1> USE DEF JobsInv, OwnerAt
<1>w. UNCHANGED working => \A j \in Jobs : IsHeld(j)' <=> IsHeld(j)
  BY DEF IsHeld
<1>v. UNCHANGED <<dispatcherPc, toVisit, mTimedQueue>> => VisitsAreTimed'
  BY DEF VisitsAreTimed
<1>p. ASSUME UNCHANGED working,
             \A t \in Threads : pc'[t] # pc[t] => {pc[t], pc'[t]} \cap {"run", "ran"} = {}
      PROVE  WorkInv'
  BY <1>p DEF WorkInv
<1>s. ASSUME UNCHANGED <<mState, mNumTasksInProgress, queueVars, late, working>>,
             \A j \in Jobs : ownerPc'[j] # ownerPc[j] =>
               /\ "dispatched" \notin {ownerPc[j], ownerPc'[j]}
               /\ ownerPc'[j] \in {"free", "destroyed"} => mNumTasksInProgress[j] = 0
      PROVE  \A j \in Jobs : JobInv(j)'
  BY <1>s, <1>w, SameJobHolds DEF SameJob, queueVars
<1>1. CASE PushJob(k)
  <2>1. ASSUME NEW j \in Jobs
        PROVE  JobInv(j)'
    <3>1. CASE j # k
      BY <1>1, <1>w, <3>1, SameJobHolds DEF PushJob, Added, TypeOK, SameJob, queueVars
    <3>2. CASE j = k
      BY <1>1, <1>w, <3>2 DEF PushJob, Added, TypeOK, queueVars,
         JobInv, HasOnePlace, IsCounted, LateIsLast, NowhereElse
    <3> QED
      BY <3>1, <3>2
  <2> QED
    BY <1>1, <1>p, <1>v, <2>1 DEF PushJob, queueVars, dispatcherVars
<1>2. CASE AddToInQueue(k)
  <2>1. ASSUME NEW j \in Jobs
        PROVE  JobInv(j)'
    <3>1. CASE j # k
      BY <1>2, <1>w, <2>1, <3>1, SameJobHolds DEF AddToInQueue, Added, TypeOK, SameJob, jobVars
    <3>2. CASE j = k
      BY <1>2, <1>w, <2>1, <3>2 DEF AddToInQueue, Added, TypeOK, jobVars,
         JobInv, HasOnePlace, IsCounted, LateIsLast, NowhereElse
    <3> QED
      BY <3>1, <3>2
  <2>2. WorkInv'
    BY <1>2, <1>p DEF AddToInQueue, TypeOK, Threads
  <2> QED
    BY <1>2, <1>v, <2>1, <2>2 DEF AddToInQueue, dispatcherVars
<1>3. CASE RescheduleImmediately(k)
  <2>2. WorkInv'
    BY <1>3, <1>p DEF RescheduleImmediately, TypeOK, Threads
  <2> QED
    BY <1>3, <1>s, <1>v, <2>2 DEF RescheduleImmediately, queueVars, dispatcherVars
<1>c. ASSUME NEW place \in {"using", "wait"}, NEW failed \in {"using", "poll0"},
             CancelFrom(k, place, failed)
      PROVE  \A j \in Jobs : JobInv(j)'
  <2> SUFFICES ASSUME NEW j \in Jobs
               PROVE  JobInv(j)'
    OBVIOUS
  <2>1. CASE j # k
    BY <1>c, <1>w, <2>1, SameJobHolds DEF CancelFrom, TypeOK, SameJob, queueVars
  <2>2. CASE j = k
    BY <1>c, <1>w, <2>2 DEF CancelFrom, Cancelled, TypeOK, queueVars, TimedJobState,
       JobInv, HasOnePlace, IsCounted, LateIsLast, NowhereElse
  <2> QED
    BY <2>1, <2>2
<1>4. CASE Cancel(k)
  BY <1>4, <1>c, <1>p, <1>v DEF Cancel, CancelFrom, queueVars, dispatcherVars
<1>5. CASE WaitUntilDone(k)
  <2>1. WorkInv'
    BY <1>5, <1>p DEF WaitUntilDone, CancelFrom, TypeOK, Threads
  <2> QED
    BY <1>5, <1>c, <1>v, <2>1 DEF WaitUntilDone, CancelFrom, queueVars, dispatcherVars
<1>6. CASE StartWait(k) \/ PollDone(k) \/ FindNoWork(k)
  <2>1. \A j \in Jobs : ownerPc'[j] # ownerPc[j] =>
          "dispatched" \notin {ownerPc[j], ownerPc'[j]} /\ ownerPc'[j] \notin {"free", "destroyed"}
    BY <1>6 DEF StartWait, PollDone, FindNoWork, TypeOK
  <2> QED
    BY <1>6, <1>s, <1>p, <1>v, <2>1
       DEF StartWait, PollDone, FindNoWork, jobVars, queueVars, dispatcherVars
<1>7. CASE Destroy(k)
  <2>1. mNumTasksInProgress[k] = 0
    BY <1>7 DEF Destroy, JobInv, IsCounted
  <2>2. \A j \in Jobs : ownerPc'[j] # ownerPc[j] =>
          "dispatched" \notin {ownerPc[j], ownerPc'[j]} /\ mNumTasksInProgress[j] = 0
    BY <1>7, <2>1 DEF Destroy, TypeOK
  <2> QED
    BY <1>7, <1>s, <1>p, <1>v, <2>2 DEF Destroy, jobVars, queueVars, dispatcherVars
<1> QED
  BY <1>1, <1>2, <1>3, <1>4, <1>5, <1>6, <1>7 DEF OwnerStep

--------------------------------------------------------------------------------
LEMMA StartWorkHolds ==
  ASSUME TypeOK, JobsInv, NEW t \in Threads, NEW k \in Jobs, StartWork(t, k)
  PROVE  JobsInv'
<1> USE DEF JobsInv
<1>1. pooled[k] = 1 /\ pooled'[k] = 0 /\ IsHeld(k)' /\ working[t] = None
  BY DEF StartWork, Taken, TypeOK, IsHeld, WorkInv, JobInv, HasOnePlace
<1>2. \A j \in Jobs \ {k} : IsHeld(j)' <=> IsHeld(j)
  BY <1>1 DEF StartWork, TypeOK, IsHeld, JobInv
<1>3. ASSUME NEW j \in Jobs
      PROVE  JobInv(j)'
  <2>1. \/ ownerPc'[j] = ownerPc[j]
        \/ ownerPc[j] \in {"help0", "help"} /\ ownerPc'[j] \in {"poll0", "poll"}
    BY DEF StartWork, HelpPlace, PollPlace, TypeOK
  <2>2. CASE j # k
    BY <1>2, <2>1, <2>2, SameJobHolds DEF StartWork, Taken, TypeOK, SameJob
  <2>3. CASE j = k
    BY <1>1, <2>1, <2>3 DEF StartWork, Taken, TypeOK, TimedJobState,
       JobInv, HasOnePlace, IsCounted, LateIsLast, NowhereElse
  <2> QED
    BY <2>2, <2>3
<1>4. WorkInv'
  BY <1>1 DEF StartWork, WorkInv, TypeOK, JobInv, HasOnePlace, NowhereElse, IsHeld
<1>5. VisitsAreTimed'
  BY DEF StartWork, VisitsAreTimed, dispatcherVars
<1> QED
  BY <1>3, <1>4, <1>5

LEMMA ThreadStepHolds ==
  ASSUME TypeOK, JobsInv, NEW t \in Threads, ThreadStep(t)
  PROVE  JobsInv'
<1> USE DEF JobsInv
<1>w. UNCHANGED working => \A j \in Jobs : IsHeld(j)' <=> IsHeld(j)
  BY DEF IsHeld
<1>k. pc[t] \in {"run", "ran"} =>
        /\ working[t] \in Jobs /\ IsHeld(working[t]) /\ mNumTasksInProgress[working[t]] = 1
        /\ NowhereElse(working[t], "held")
  BY DEF WorkInv, TypeOK, IsHeld, JobInv, HasOnePlace, IsCounted, NowhereElse
<1>r. ASSUME NEW k \in Jobs, k = working[t], working' = [working EXCEPT ![t] = None]
      PROVE  ~IsHeld(k)' /\ \A j \in Jobs \ {k} : IsHeld(j)' <=> IsHeld(j)
  <2>1. \A u \in Threads : working[u] = k => u = t
    BY <1>r DEF WorkInv
  <2> QED
    BY <1>r, <2>1 DEF TypeOK, IsHeld
<1>1. CASE SignalCheck(t)
  <2>1. \A j \in Jobs : JobInv(j)'
    BY <1>1, <1>w, SameJobHolds DEF SignalCheck, SameJob, jobVars, queueVars
  <2> QED
    BY <1>1, <2>1 DEF SignalCheck, WorkInv, VisitsAreTimed, TypeOK, queueVars, dispatcherVars
<1>2. CASE SignalLocked(t)
  <2>1. \A j \in Jobs : JobInv(j)'
    BY <1>2, <1>w, SameJobHolds DEF SignalLocked, SameJob, jobVars, queueVars
  <2> QED
    BY <1>2, <2>1 DEF SignalLocked, Woken, WorkInv, VisitsAreTimed, TypeOK, queueVars
<1>3. CASE RunTimedTask(t)
  <2>1. ASSUME NEW j \in Jobs
        PROVE  JobInv(j)'
    <3>1. CASE j # working[t]
      BY <1>3, <1>w, <1>k, <3>1, SameJobHolds DEF RunTimedTask, SameJob, TypeOK, queueVars
    <3>2. CASE j = working[t]
      BY <1>3, <1>w, <1>k, <3>2 DEF RunTimedTask, Cancelled, TypeOK, TimedJobState, queueVars,
         JobInv, HasOnePlace, IsCounted, LateIsLast, NowhereElse
    <3> QED
      BY <3>1, <3>2
  <2> QED
    BY <1>3, <2>1 DEF RunTimedTask, WorkInv, VisitsAreTimed, TypeOK, queueVars, dispatcherVars
<1>4. CASE Reschedule(t)
  <2>0. PICK k \in Jobs : k = working[t]
    BY <1>4, <1>k DEF Reschedule
  <2>r. ~IsHeld(k)' /\ \A j \in Jobs \ {k} : IsHeld(j)' <=> IsHeld(j)
    BY <1>4, <1>r, <2>0 DEF Reschedule
  <2>1. ASSUME NEW j \in Jobs
        PROVE  JobInv(j)'
    <3>1. CASE j # k
      BY <1>4, <2>0, <2>r, <3>1, SameJobHolds DEF Reschedule, Added, SameJob, TypeOK, jobVars
    <3>2. CASE j = k
      BY <1>4, <1>k, <2>0, <2>r, <3>2 DEF Reschedule, Added, TypeOK, jobVars,
         JobInv, HasOnePlace, IsCounted, LateIsLast, NowhereElse
    <3> QED
      BY <3>1, <3>2
  <2>2. WorkInv'
    BY <1>4 DEF Reschedule, WorkInv, TypeOK
  <2> QED
    BY <1>4, <2>1, <2>2 DEF Reschedule, VisitsAreTimed, dispatcherVars
<1>5. CASE FinishOneShot(t)
  <2>0. PICK k \in Jobs : k = working[t]
    BY <1>5, <1>k DEF FinishOneShot
  <2>r. ~IsHeld(k)' /\ \A j \in Jobs \ {k} : IsHeld(j)' <=> IsHeld(j)
    BY <1>5, <1>r, <2>0 DEF FinishOneShot
  <2>1. NowhereElse(k, "nowhere")'
    BY <1>5, <1>k, <2>0, <2>r DEF FinishOneShot, NowhereElse, queueVars
  <2>2. \A j \in Jobs : JobInv(j)'
    BY <1>5, <1>k, <2>0, <2>r, <2>1, RemovedHolds DEF FinishOneShot, queueVars
  <2>3. WorkInv'
    BY <1>5 DEF FinishOneShot, WorkInv, TypeOK
  <2> QED
    BY <1>5, <2>2, <2>3 DEF FinishOneShot, VisitsAreTimed, dispatcherVars, queueVars
<1> QED
  BY <1>1, <1>2, <1>3, <1>4, <1>5 DEF ThreadStep

--------------------------------------------------------------------------------
LEMMA DispatcherStepHolds ==
  ASSUME TypeOK, JobsInv, DispatcherStep
  PROVE  JobsInv'
<1> USE DEF JobsInv
<1>w. UNCHANGED working => \A j \in Jobs : IsHeld(j)' <=> IsHeld(j)
  BY DEF IsHeld
<1>p. UNCHANGED <<pc, working>> => WorkInv'
  BY DEF WorkInv
<1>s. UNCHANGED <<jobVars, queueVars, threadVars>> => (\A j \in Jobs : JobInv(j)') /\ WorkInv'
  BY <1>w, <1>p, SameJobHolds DEF SameJob, jobVars, queueVars, threadVars
<1>k. ASSUME NEW k \in Jobs, mInQueue[k] > 0 \/ mTimedQueue[k] > 0
      PROVE  mNumTasksInProgress[k] = 1
  BY <1>k DEF JobInv, HasOnePlace, IsCounted, NowhereElse
<1>1. CASE TryWaitUntil \/ LeaveWait \/ EndScan \/ Exit \/ Flushed \/ FlushedTimed
  BY <1>1, <1>s DEF TryWaitUntil, LeaveWait, EndScan, Exit, Flushed, FlushedTimed,
     DispatcherGoes, VisitsAreTimed
<1>2. CASE StartScan
  BY <1>2, <1>s DEF StartScan, VisitsAreTimed, TypeOK, queueVars
<1>3. ASSUME NEW k \in Jobs, Dequeue(k)
      PROVE  JobsInv'
  <2> USE <1>3 DEF Dequeue, dispatcherRest, dispatcherVars, threadVars
  <2>1. mInQueue[k] = 1 /\ mInQueue'[k] = 0 /\ NowhereElse(k, "in")
    BY DEF TypeOK, Taken, JobInv, HasOnePlace
  <2>2. CASE mState[k] = "Active"
    <3>1. ASSUME NEW j \in Jobs
          PROVE  JobInv(j)'
      <4>1. CASE j # k
        BY <1>w, <2>2, <4>1, SameJobHolds DEF Added, Taken, SameJob, TypeOK
      <4>2. CASE j = k
        BY <1>w, <2>1, <2>2, <4>2 DEF Added, Taken, TypeOK,
           JobInv, HasOnePlace, IsCounted, LateIsLast, NowhereElse
      <4> QED
        BY <4>1, <4>2
    <3> QED
      BY <3>1, <1>p DEF VisitsAreTimed
  <2>3. CASE mState[k] # "Active"
    <3>1. NowhereElse(k, "nowhere")'
      BY <1>w, <2>1, <2>3 DEF NowhereElse
    <3>2. \A j \in Jobs : JobInv(j)'
      BY <1>k, <1>w, <2>1, <2>3, <3>1, RemovedHolds DEF Taken, TypeOK
    <3> QED
      BY <3>2, <1>p DEF VisitsAreTimed
  <2> QED
    BY <2>2, <2>3
<1>4. ASSUME NEW k \in Jobs, Visit(k)
      PROVE  JobsInv'
  <2> USE <1>4 DEF Visit, PushTask, visitRest, threadVars
  <2>1. mTimedQueue[k] = 1 /\ NowhereElse(k, "timed")
    BY DEF VisitsAreTimed, JobInv, HasOnePlace
  <2>2. CASE mState[k] # "Active"
    <3>1. NowhereElse(k, "nowhere")'
      BY <1>w, <2>1, <2>2 DEF NowhereElse, Taken, TypeOK
    <3>2. \A j \in Jobs : JobInv(j)'
      BY <1>k, <1>w, <2>1, <2>2, <3>1, RemovedHolds DEF Taken, TypeOK
    <3> QED
      BY <2>2, <3>2, <1>p DEF VisitsAreTimed, Taken, TypeOK
  <2>3. CASE mState[k] = "Active" /\ k \in ready
    <3>1. ASSUME NEW j \in Jobs
          PROVE  JobInv(j)'
      <4>1. CASE j # k
        BY <1>w, <2>3, <4>1, SameJobHolds DEF Added, Taken, SameJob, TypeOK
      <4>2. CASE j = k
        BY <1>w, <2>1, <2>3, <4>2 DEF Added, Taken, TypeOK,
           JobInv, HasOnePlace, IsCounted, LateIsLast, NowhereElse
      <4> QED
        BY <4>1, <4>2
    <3> QED
      BY <2>3, <3>1, <1>p DEF VisitsAreTimed, Taken, TypeOK
  <2>4. CASE mState[k] = "Active" /\ k \notin ready
    <3>1. \A j \in Jobs : JobInv(j)'
      BY <1>w, <2>4, SameJobHolds DEF SameJob
    <3> QED
      BY <2>4, <3>1, <1>p DEF VisitsAreTimed
  <2> QED
    BY <2>2, <2>3, <2>4
<1>5. ASSUME NEW k \in Jobs, Flush(k) \/ FlushTimed(k)
      PROVE  JobsInv'
  <2> USE <1>5 DEF Flush, FlushTimed, dispatcherVars, threadVars
  <2>1. NowhereElse(k, "nowhere")'
    BY <1>w DEF Taken, TypeOK, JobInv, HasOnePlace, NowhereElse
  <2>2. \A j \in Jobs : JobInv(j)'
    BY <1>k, <1>w, <2>1, RemovedHolds DEF Taken, TypeOK
  <2> QED
    BY <2>2, <1>p DEF VisitsAreTimed
<1> QED
  BY <1>1, <1>2, <1>3, <1>4, <1>5 DEF DispatcherStep

LEMMA JobsStepHolds ==
  ASSUME TypeOK, JobsInv, [Next]_vars
  PROVE  JobsInv'
<1>h. UNCHANGED working => \A j \in Jobs : IsHeld(j)' <=> IsHeld(j)
  BY DEF IsHeld
<1>s. ASSUME UNCHANGED <<mState, mNumTasksInProgress, late, queueVars, pc, working, ownerPc>>
      PROVE  (\A j \in Jobs : JobInv(j)') /\ WorkInv'
  BY <1>h, <1>s, SameJobHolds DEF JobsInv, SameJob, WorkInv, queueVars
<1>1. ASSUME NEW j \in Jobs, OwnerStep(j)
      PROVE  JobsInv'
  BY <1>1, OwnerStepHolds
<1>2. ASSUME NEW j \in Jobs, TimerRunsDown(j)
      PROVE  JobsInv'
  BY <1>2, <1>s DEF TimerRunsDown, JobsInv, VisitsAreTimed, dispatcherVars, threadVars, queueVars
<1>3. ASSUME NEW t \in Threads, ThreadStep(t)
      PROVE  JobsInv'
  BY <1>3, ThreadStepHolds
<1>4. ASSUME NEW t \in Threads, NEW j \in Jobs, StartWork(t, j)
      PROVE  JobsInv'
  BY <1>4, StartWorkHolds
<1>5. CASE DispatcherStep
  BY <1>5, DispatcherStepHolds
<1>6. CASE TimeIsUp \/ Stop
  BY <1>6, <1>s DEF TimeIsUp, Stop, Woken, JobsInv, VisitsAreTimed, threadVars, jobVars, queueVars
<1>7. CASE UNCHANGED vars
  BY <1>7, <1>s DEF vars, JobsInv, VisitsAreTimed, queueVars
<1> QED
  BY <1>1, <1>2, <1>3, <1>4, <1>5, <1>6, <1>7 DEF Next

--------------------------------------------------------------------------------
(* What JobInv says after the step bounds the counts that the step changes. *)
LEMMA TypeOKHolds ==
  ASSUME TypeOK, JobsInv, [Next]_vars
  PROVE  TypeOK'
<1>j. Jobs \subseteq Threads /\ Threads \subseteq Jobs \cup Workers
  BY DEF Threads
<1>c. \A k \in Jobs :
        /\ mInQueue'[k] \in 0..1 /\ mTimedQueue'[k] \in 0..1 /\ pooled'[k] \in 0..1
        /\ mNumTasksInProgress'[k] \in 0..1
  BY JobsStepHolds DEF JobsInv, JobInv, HasOnePlace, IsCounted
<1>d. Woken \in DispatcherPcs
  BY DEF Woken, DispatcherPcs, TypeOK
<1>r. ASSUME NEW k \in Jobs, OnRemoved(k)
      PROVE  /\ mState' \in [Jobs -> TimedJobState] /\ due' \in [Jobs -> BOOLEAN]
             /\ mNumTasksInProgress' \in [Jobs -> 0..1] /\ late' \in [Jobs -> Nat]
  BY <1>r, <1>c DEF OnRemoved, Taken, TypeOK, TimedJobState
<1>1. ASSUME NEW k \in Jobs, OwnerStep(k)
      PROVE  TypeOK'
  <2>1. CASE PushJob(k)
    BY <1>c, <1>j, <2>1 DEF PushJob, OwnerAt, Added, TypeOK, queueVars, dispatcherVars,
       OwnerPcs, Waiting, TimedJobState
  <2>2. CASE AddToInQueue(k)
    BY <1>c, <1>j, <2>2 DEF AddToInQueue, OwnerAt, Added, TypeOK, jobVars, dispatcherVars,
       OwnerPcs, Waiting, ThreadPcs
  <2>3. CASE RescheduleImmediately(k)
    BY <1>j, <2>3 DEF RescheduleImmediately, OwnerAt, TypeOK, queueVars, dispatcherVars,
       OwnerPcs, Waiting, ThreadPcs
  <2>4. CASE Cancel(k)
    BY <1>j, <2>4 DEF Cancel, CancelFrom, Cancelled, OwnerAt, TypeOK, queueVars,
       dispatcherVars, OwnerPcs, Waiting, TimedJobState
  <2>5. CASE WaitUntilDone(k)
    BY <1>j, <2>5 DEF WaitUntilDone, CancelFrom, Cancelled, OwnerAt, TypeOK, queueVars,
       dispatcherVars, OwnerPcs, Waiting, ThreadPcs, TimedJobState
  <2>6. CASE StartWait(k) \/ PollDone(k) \/ FindNoWork(k) \/ Destroy(k)
    BY <2>6 DEF StartWait, PollDone, FindNoWork, Destroy, OwnerAt, TypeOK, jobVars, queueVars,
       dispatcherVars, OwnerPcs, Waiting
  <2> QED
    BY <1>1, <2>1, <2>2, <2>3, <2>4, <2>5, <2>6 DEF OwnerStep
<1>2. ASSUME NEW k \in Jobs, TimerRunsDown(k)
      PROVE  TypeOK'
  BY <1>2 DEF TimerRunsDown, TypeOK, dispatcherVars, threadVars, queueVars
<1>3. ASSUME NEW t \in Threads, ThreadStep(t)
      PROVE  TypeOK'
  <2>k. pc[t] \in {"run", "ran"} => working[t] \in Jobs
    BY DEF JobsInv, WorkInv, TypeOK
  <2>1. CASE SignalCheck(t)
    BY <2>1 DEF SignalCheck, TypeOK, jobVars, queueVars, dispatcherVars, ThreadPcs
  <2>2. CASE SignalLocked(t)
    BY <1>d, <2>2 DEF SignalLocked, TypeOK, jobVars, queueVars, ThreadPcs
  <2>3. CASE RunTimedTask(t)
    BY <2>k, <2>3 DEF RunTimedTask, Cancelled, TypeOK, queueVars, dispatcherVars, ThreadPcs,
       TimedJobState
  <2>4. CASE Reschedule(t)
    BY <1>c, <2>k, <2>4 DEF Reschedule, Added, TypeOK, jobVars, dispatcherVars, ThreadPcs
  <2>5. CASE FinishOneShot(t)
    BY <1>r, <2>k, <2>5 DEF FinishOneShot, TypeOK, queueVars, dispatcherVars, ThreadPcs
  <2> QED
    BY <1>3, <2>1, <2>2, <2>3, <2>4, <2>5 DEF ThreadStep
<1>4. ASSUME NEW t \in Threads, NEW k \in Jobs, StartWork(t, k)
      PROVE  TypeOK'
  BY <1>c, <1>4 DEF StartWork, PollPlace, Taken, TypeOK, dispatcherVars, ThreadPcs, OwnerPcs, Waiting
<1>5. CASE DispatcherStep
  <2>1. CASE TryWaitUntil \/ LeaveWait
    BY <2>1 DEF TryWaitUntil, LeaveWait, TypeOK, jobVars, queueVars, threadVars, DispatcherPcs
  <2>2. CASE EndScan \/ Exit \/ Flushed \/ FlushedTimed
    BY <2>2 DEF EndScan, Exit, Flushed, FlushedTimed, DispatcherGoes, TypeOK, jobVars,
       queueVars, threadVars, DispatcherPcs
  <2>3. CASE StartScan
    BY <2>3 DEF StartScan, TypeOK, jobVars, queueVars, threadVars, DispatcherPcs
  <2>4. ASSUME NEW k \in Jobs, Dequeue(k)
        PROVE  TypeOK'
    BY <1>c, <1>r, <2>4 DEF Dequeue, Added, Taken, TypeOK, dispatcherRest, dispatcherVars, threadVars
  <2>5. ASSUME NEW k \in Jobs, Visit(k)
        PROVE  TypeOK'
    BY <1>c, <1>r, <2>5 DEF Visit, PushTask, Added, Taken, TypeOK, visitRest, threadVars
  <2>6. ASSUME NEW k \in Jobs, Flush(k) \/ FlushTimed(k)
        PROVE  TypeOK'
    BY <1>c, <1>r, <2>6 DEF Flush, FlushTimed, Taken, TypeOK, dispatcherVars, threadVars
  <2> QED
    BY <1>5, <2>1, <2>2, <2>3, <2>4, <2>5, <2>6 DEF DispatcherStep
<1>6. CASE TimeIsUp \/ Stop
  BY <1>d, <1>6 DEF TimeIsUp, Stop, TypeOK, threadVars, jobVars, queueVars, DispatcherPcs
<1>7. CASE UNCHANGED vars
  BY <1>7 DEF vars, TypeOK
<1> QED
  BY <1>1, <1>2, <1>3, <1>4, <1>5, <1>6, <1>7 DEF Next

--------------------------------------------------------------------------------
(* A thread that has something to signal has not done so yet.              *)
LEMMA QuietHolds ==
  ASSUME TypeOK, QuietIsCovered, [Next]_vars
  PROVE  QuietIsCovered'
<1>j. Jobs \subseteq Threads
  BY DEF Threads
<1>q. ASSUME UNCHANGED <<mIsStarving, dispatcherPc, mInQueue, hurried>>,
             \A t \in Threads : pc[t] \in {"signal", "lock"} => pc'[t] \in {"signal", "lock"}
      PROVE  QuietIsCovered'
  BY <1>q DEF QuietIsCovered, InQueueIsEmpty
<1>1. ASSUME NEW k \in Jobs, OwnerStep(k)
      PROVE  QuietIsCovered'
  <2>1. CASE AddToInQueue(k)
    BY <1>j, <2>1 DEF AddToInQueue, QuietIsCovered, TypeOK, dispatcherVars
  <2>2. CASE WaitUntilDone(k)
    <3>1. pc[k] = "idle" /\ \A t \in Threads \ {k} : pc'[t] = pc[t]
      BY <2>2 DEF WaitUntilDone, CancelFrom, OwnerAt, TypeOK
    <3> QED
      BY <1>q, <2>2, <3>1 DEF WaitUntilDone, CancelFrom, queueVars, dispatcherVars
  <2>4. CASE RescheduleImmediately(k)
    BY <1>j, <2>4 DEF RescheduleImmediately, QuietIsCovered, TypeOK
  <2>3. CASE PushJob(k) \/ Cancel(k) \/ StartWait(k) \/ PollDone(k) \/ FindNoWork(k) \/ Destroy(k)
    BY <1>q, <2>3 DEF PushJob, Cancel, CancelFrom, StartWait, PollDone, FindNoWork, Destroy,
       queueVars, dispatcherVars
  <2> QED
    BY <1>1, <2>1, <2>2, <2>3, <2>4 DEF OwnerStep
<1>2. ASSUME NEW k \in Jobs, TimerRunsDown(k)
      PROVE  QuietIsCovered'
  BY <1>q, <1>2 DEF TimerRunsDown, dispatcherVars, threadVars, queueVars
<1>3. ASSUME NEW t \in Threads, ThreadStep(t)
      PROVE  QuietIsCovered'
  <2>1. CASE SignalCheck(t)
    BY <2>1 DEF SignalCheck, QuietIsCovered, InQueueIsEmpty, TypeOK, queueVars, dispatcherVars
  <2>2. CASE SignalLocked(t)
    BY <2>2 DEF SignalLocked, Woken, QuietIsCovered
  <2>3. CASE Reschedule(t)
    BY <2>3 DEF Reschedule, QuietIsCovered, TypeOK, dispatcherVars
  <2>4. CASE RunTimedTask(t) \/ FinishOneShot(t)
    BY <1>q, <2>4 DEF RunTimedTask, FinishOneShot, TypeOK, queueVars, dispatcherVars
  <2> QED
    BY <1>3, <2>1, <2>2, <2>3, <2>4 DEF ThreadStep
<1>4. ASSUME NEW t \in Threads, NEW k \in Jobs, StartWork(t, k)
      PROVE  QuietIsCovered'
  BY <1>q, <1>4 DEF StartWork, TypeOK, dispatcherVars
<1>5. CASE DispatcherStep
  <2>1. CASE TryWaitUntil
    BY <2>1 DEF TryWaitUntil, QuietIsCovered, InQueueIsEmpty, queueVars, threadVars
  <2>2. CASE LeaveWait \/ Exit \/ Flushed \/ FlushedTimed
    BY <2>2 DEF LeaveWait, Exit, Flushed, FlushedTimed, DispatcherGoes, QuietIsCovered
  <2>3. CASE EndScan \/ StartScan
    BY <2>3 DEF EndScan, StartScan, DispatcherGoes, QuietIsCovered, InQueueIsEmpty,
       queueVars, threadVars
  <2>4. ASSUME NEW k \in Jobs, Dequeue(k) \/ Flush(k) \/ FlushTimed(k)
        PROVE  QuietIsCovered'
    BY <2>4 DEF Dequeue, Flush, FlushTimed, QuietIsCovered, dispatcherRest, dispatcherVars
  <2>5. ASSUME NEW k \in Jobs, Visit(k)
        PROVE  QuietIsCovered'
    BY <1>q, <2>5 DEF Visit, visitRest, threadVars
  <2> QED
    BY <1>5, <2>1, <2>2, <2>3, <2>4, <2>5 DEF DispatcherStep
<1>6. CASE TimeIsUp \/ Stop
  BY <1>6 DEF TimeIsUp, Stop, Woken, QuietIsCovered, InQueueIsEmpty, threadVars, queueVars
<1>7. CASE UNCHANGED vars
  BY <1>q, <1>7 DEF vars
<1> QED
  BY <1>1, <1>2, <1>3, <1>4, <1>5, <1>6, <1>7 DEF Next

--------------------------------------------------------------------------------
LEMMA TimedInvHolds == Spec => []TimedInv
<1>1. TimedInv /\ [Next]_vars => TimedInv'
  <2> SUFFICES ASSUME TimedInv, [Next]_vars
               PROVE  TimedInv'
    OBVIOUS
  <2>1. TypeOK' /\ JobsInv' /\ QuietIsCovered'
    BY TypeOKHolds, JobsStepHolds, QuietHolds DEF TimedInv, JobsInv
  <2> QED
    BY <2>1 DEF TimedInv, JobsInv
<1> QED
  BY <1>1, TimedInvInit, PTL DEF Spec

(* Every variable keeps its range: in particular no job is in a queue      *)
(* twice, and the number of its tasks is 0 or 1 (TimedJob.cpp).            *)
THEOREM TimedTypeCorrect == Spec => []TypeOK
<1>1. TimedInv => TypeOK
  BY DEF TimedInv
<1> QED
  BY <1>1, TimedInvHolds, PTL

(* A timed job is in one place at a time, and its count and its state say  *)
(* whether it is anywhere: what OnDispatched, OnRemoved and Reschedule of  *)
(* TimedJob.cpp have to keep between them.                                 *)
THEOREM TimedJobsHaveOnePlace == Spec => []OnePlace
<1>1. TimedInv => OnePlace
  <2> SUFFICES ASSUME TimedInv, NEW j \in Jobs
               PROVE  /\ mNumTasksInProgress[j] = mInQueue[j] + mTimedQueue[j] + pooled[j]
                                                  + Cardinality(Holders(j))
                                                  + IF ownerPc[j] = "dispatched" THEN 1 ELSE 0
                      /\ mNumTasksInProgress[j] \in 0..1
                      /\ mState[j] = "Inactive" <=> mNumTasksInProgress[j] = 0
    BY DEF OnePlace
  <2>1. JobInv(j)
    BY DEF TimedInv
  <2>2. Cardinality(Holders(j)) = IF IsHeld(j) THEN 1 ELSE 0
    <3>1. CASE IsHeld(j)
      <4>1. PICK t \in Threads : working[t] = j
        BY <3>1 DEF IsHeld
      <4>2. Holders(j) = {t}
        BY <4>1, JobsAssumption DEF Holders, TimedInv, WorkInv
      <4> QED
        BY <3>1, <4>2, FS_Singleton
    <3>2. CASE ~IsHeld(j)
      <4>1. Holders(j) = {}
        BY <3>2 DEF Holders, IsHeld
      <4> QED
        BY <3>2, <4>1, FS_EmptySet
    <3> QED
      BY <3>1, <3>2
  <2> QED
    BY <2>1, <2>2 DEF JobInv, HasOnePlace, IsCounted, NowhereElse
<1> QED
  BY <1>1, TimedInvHolds, PTL

(* Nobody has a job any more once its owner destroyed it (TimedJob.cpp).   *)
THEOREM TimedDestroyedUnused == Spec => []DestroyedUnused
<1>1. TimedInv => DestroyedUnused
  BY DEF TimedInv, DestroyedUnused, JobInv, IsCounted, NowhereElse, IsHeld, Holders
<1> QED
  BY <1>1, TimedInvHolds, PTL

(* The dispatcher never sleeps on a job that was queued or moved forward   *)
(* and that nobody will signal (JobDispatcher.cpp and TimedJob.cpp with    *)
(* SCThreadSynchronizer.cpp).                                              *)
THEOREM TimedNoStaleSleep == Spec => []NoStaleSleep
<1>1. TimedInv => NoStaleSleep
  BY DEF TimedInv, NoStaleSleep, QuietIsCovered
<1> QED
  BY <1>1, TimedInvHolds, PTL

(* Cancel lets at most one more run begin (TimedJob.cpp).                  *)
THEOREM TimedCancelLetsOneRunBegin == Spec => []CancelLetsOneRunBegin
<1>1. TimedInv => CancelLetsOneRunBegin
  BY DEF TimedInv, CancelLetsOneRunBegin, JobInv, LateIsLast
<1> QED
  BY <1>1, TimedInvHolds, PTL
================================================================================
