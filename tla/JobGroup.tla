-------------------------------- MODULE JobGroup --------------------------------
(***************************************************************************)
(* JobGroup (jobs/JobGroup.h, jobs/JobGroup.cpp): jobs that one thread,    *)
(* the owner of the group, runs while others still push them.  The owner   *)
(* calls Work until it returns FALSE.  mNumJobsAvailable counts the jobs   *)
(* that were pushed and not run, and one more for the Finalize to come.    *)
(*                                                                         *)
(* The queue is that of module JobQueue, which is never stopped here; its  *)
(* jobs are a number.  Finalize is called once, when no thread but the     *)
(* owner, from within a job, pushes any more.                              *)
(***************************************************************************)
EXTENDS Integers, FiniteSets

CONSTANTS
  GroupPushers,  \* threads that call PushJob and Finalize
  GroupOwner,    \* the thread that calls Work
  MaxJobs        \* bound: jobs that are pushed

ASSUME GroupAssumption == IsFiniteSet(GroupPushers) /\ MaxJobs \in Nat

VARIABLES
  mNumJobsAvailable,  \* JobGroup
  mGroupTasks,        \* jobs in mQueue
  mIsStarving,        \* of the queue's synchronizer
  groupPc,            \* groupPc[t]: where thread t is in PushJob or Finalize
  groupOwnerPc,       \* where the owner is in Work, see GroupOwnerPcs
  groupPushed,        \* jobs pushed
  finalizing          \* Finalize was called

groupVars == <<mNumJobsAvailable, mGroupTasks, mIsStarving, groupPc, groupOwnerPc, groupPushed,
               finalizing>>

GroupThreads == GroupPushers \cup {GroupOwner}

(* "push": counted the job; "signal", "lock": in Signal, see JobQueue.     *)
GroupThreadPcs == {"idle", "push", "signal", "lock"}

(* "run": in a job; "wait": found no job; "sleep", "woken": in TryWait;    *)
(* "check": about to read mNumJobsAvailable; "returned": Work was FALSE.   *)
GroupOwnerPcs == {"work", "run", "wait", "sleep", "woken", "check", "returned"}

GroupTypeOK ==
  /\ mNumJobsAvailable \in Nat
  /\ mGroupTasks \in Nat
  /\ mIsStarving \in BOOLEAN
  /\ groupPc \in [GroupThreads -> GroupThreadPcs]
  /\ groupOwnerPc \in GroupOwnerPcs
  /\ groupPushed \in 0..MaxJobs
  /\ finalizing \in BOOLEAN

GroupInit ==
  /\ mNumJobsAvailable = 1
  /\ mGroupTasks = 0
  /\ mIsStarving = TRUE
  /\ groupPc = [t \in GroupThreads |-> "idle"]
  /\ groupOwnerPc = "work"
  /\ groupPushed = 0
  /\ finalizing = FALSE

MayPushJob(t) ==
  /\ groupPc[t] = "idle"
  /\ groupPushed < MaxJobs
  /\ IF t = GroupOwner THEN groupOwnerPc = "run" ELSE ~finalizing

(* Mutant: the job is counted when it is in the queue.                     *)
PushJobQueued(t) ==
  /\ MayPushJob(t)
  /\ mGroupTasks' = mGroupTasks + 1
  /\ groupPushed' = groupPushed + 1
  /\ groupPc' = [groupPc EXCEPT ![t] = "push"]
  /\ UNCHANGED <<mNumJobsAvailable, mIsStarving, groupOwnerPc, finalizing>>

(* PushJob counts the job before it is in the queue ...                    *)
PushJob(t) ==
  /\ MayPushJob(t)
  /\ mNumJobsAvailable' = mNumJobsAvailable + 1
  /\ groupPushed' = groupPushed + 1
  /\ groupPc' = [groupPc EXCEPT ![t] = "push"]
  /\ UNCHANGED <<mGroupTasks, mIsStarving, groupOwnerPc, finalizing>>

(* ... and signals it when it is.                                          *)
PushTask(t) ==
  /\ groupPc[t] = "push"
  /\ mGroupTasks' = mGroupTasks + 1
  /\ groupPc' = [groupPc EXCEPT ![t] = "signal"]
  /\ UNCHANGED <<mNumJobsAvailable, mIsStarving, groupOwnerPc, groupPushed, finalizing>>

(* Mutant: Finalize wakes nobody.                                          *)
FinalizeSilent(t) ==
  /\ t # GroupOwner
  /\ ~finalizing
  /\ \A p \in GroupPushers : groupPc[p] = "idle"
  /\ finalizing' = TRUE
  /\ mNumJobsAvailable' = mNumJobsAvailable - 1
  /\ UNCHANGED <<mGroupTasks, mIsStarving, groupPc, groupOwnerPc, groupPushed>>

(* Finalize, whose WakeUpAll is a Signal: the queue has one owner.         *)
Finalize(t) ==
  /\ t # GroupOwner
  /\ ~finalizing
  /\ \A p \in GroupPushers : groupPc[p] = "idle"
  /\ finalizing' = TRUE
  /\ mNumJobsAvailable' = mNumJobsAvailable - 1
  /\ groupPc' = [groupPc EXCEPT ![t] = "signal"]
  /\ UNCHANGED <<mGroupTasks, mIsStarving, groupOwnerPc, groupPushed>>

SignalCheck(t) ==
  /\ groupPc[t] = "signal"
  /\ groupPc' = [groupPc EXCEPT ![t] = IF mIsStarving THEN "lock" ELSE "idle"]
  /\ UNCHANGED <<mNumJobsAvailable, mGroupTasks, mIsStarving, groupOwnerPc, groupPushed,
                 finalizing>>

SignalLocked(t) ==
  /\ groupPc[t] = "lock"
  /\ mIsStarving' = FALSE
  /\ groupOwnerPc' = IF groupOwnerPc = "sleep" THEN "woken" ELSE groupOwnerPc
  /\ groupPc' = [groupPc EXCEPT ![t] = "idle"]
  /\ UNCHANGED <<mNumJobsAvailable, mGroupTasks, groupPushed, finalizing>>

--------------------------------------------------------------------------------
(* Work                                                                    *)

GroupOwnerGoes(from, to) ==
  /\ groupOwnerPc = from
  /\ groupOwnerPc' = to
  /\ UNCHANGED <<groupPc, groupPushed, finalizing>>

Run ==
  /\ mGroupTasks > 0
  /\ mGroupTasks' = mGroupTasks - 1
  /\ GroupOwnerGoes("work", "run")
  /\ UNCHANGED <<mNumJobsAvailable, mIsStarving>>

FindEmpty ==
  /\ mGroupTasks = 0
  /\ GroupOwnerGoes("work", "wait")
  /\ UNCHANGED <<mNumJobsAvailable, mGroupTasks, mIsStarving>>

(* The job ends; it may have pushed others.                                *)
EndJob ==
  /\ groupPc[GroupOwner] = "idle"
  /\ mNumJobsAvailable' = mNumJobsAvailable - 1
  /\ GroupOwnerGoes("run", "check")
  /\ UNCHANGED <<mGroupTasks, mIsStarving>>

(* TryWait sleeps unless it was signalled; Work returns after one wait.    *)
TryWait ==
  /\ GroupOwnerGoes("wait", IF mIsStarving THEN "sleep" ELSE "check")
  /\ mIsStarving' = TRUE
  /\ UNCHANGED <<mNumJobsAvailable, mGroupTasks>>

GroupSpuriousWake ==
  GroupOwnerGoes("sleep", "woken") /\ UNCHANGED <<mNumJobsAvailable, mGroupTasks, mIsStarving>>

LeaveWait ==
  /\ GroupOwnerGoes("woken", "check")
  /\ mIsStarving' = TRUE
  /\ UNCHANGED <<mNumJobsAvailable, mGroupTasks>>

Work ==
  /\ GroupOwnerGoes("check", IF mNumJobsAvailable = 0 THEN "returned" ELSE "work")
  /\ UNCHANGED <<mNumJobsAvailable, mGroupTasks, mIsStarving>>

--------------------------------------------------------------------------------
GroupThreadStep(t) == PushTask(t) \/ SignalCheck(t) \/ SignalLocked(t)

GroupOwnerStep == Run \/ FindEmpty \/ EndJob \/ TryWait \/ LeaveWait \/ Work

GroupNext ==
  \/ \E t \in GroupThreads : PushJob(t) \/ Finalize(t) \/ GroupThreadStep(t)
  \/ GroupOwnerStep
  \/ GroupSpuriousWake

GroupSpec == GroupInit /\ [][GroupNext]_groupVars

--------------------------------------------------------------------------------
(* Properties                                                              *)

(* When Work has returned FALSE the group was finalized, every job that    *)
(* was pushed has run, and no thread is about to touch the group but the   *)
(* one that finalizes it, in Signal: that one the owner does not wait for. *)
GroupIsComplete ==
  groupOwnerPc = "returned" =>
    /\ finalizing /\ mGroupTasks = 0 /\ mNumJobsAvailable = 0
    /\ \A t \in GroupThreads : groupPc[t] # "push"

(* A group that is finalized ends: the Signal of Finalize is not lost on   *)
(* an owner that was on its way to sleep.                                  *)
GroupEnds == finalizing ~> groupOwnerPc = "returned"
================================================================================
