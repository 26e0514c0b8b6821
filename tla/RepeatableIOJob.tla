---------------------------- MODULE RepeatableIOJob ----------------------------
(***************************************************************************)
(* RepeatableIOJob (jobs/Job.h, jobs/Job.cpp): a job that many threads ask *)
(* to be run, that runs on the IO threads of the pool, one run at a time,  *)
(* and that coalesces the requests made while a run is under way.  The     *)
(* logger (tracing/Tracing.cpp) and the file readers (filesystem/          *)
(* FileContentJob.cpp) are built on it: a caller first adds its request to *)
(* a list of its own and then calls Execute; RunIOJob empties the list.    *)
(*                                                                         *)
(* The owner of the job stops the callers, calls Wait and then enters the  *)
(* destructor.  mMutex is a variable here because DoWork publishes mIsDone *)
(* before it releases the mutex.                                           *)
(***************************************************************************)
EXTENDS Integers, FiniteSets

CONSTANTS
  Callers,      \* threads that call Execute
  Workers,      \* IO threads of the pool that may run the job
  MaxRequests,  \* bound: requests of one caller
  Nobody        \* holder of a free mutex

ASSUME NobodyAssumption == Nobody \notin Workers
ASSUME RequestsAssumption == MaxRequests \in Nat

VARIABLES
  mIsStarving,  \* RepeatableIOJob::mIsStarving
  mIsDone,      \* RepeatableIOJob::mIsDone
  mMutex,       \* the worker that holds RepeatableIOJob::mMutex, or Nobody
  ioTasks,      \* how many JobWork of this job wait in the IO queue
  pc,           \* pc[c]: where caller c is in Execute, see CallerPcs
  asked,        \* asked[c]: how many requests c has made
  pending,      \* the requests no run has taken
  workerPc,     \* workerPc[w]: where worker w is in DoWork, see WorkerPcs
  ownerPc       \* what the owner of the job is doing, see OwnerPcs

vars == <<mIsStarving, mIsDone, mMutex, ioTasks, pc, asked, pending, workerPc, ownerPc>>

(* "check": about to read mIsStarving; "lock": read TRUE, about to lock.   *)
CallerPcs == {"idle", "check", "lock"}

(* "top": start of DoWork's loop; "run": mIsStarving is set, in RunIOJob;  *)
(* "ran": about to lock mMutex; "unlock": mIsDone set, mMutex still held.  *)
WorkerPcs == {"idle", "top", "run", "ran", "unlock"}

(* "wait": no caller is left and none will come, in Wait; "destroyed":     *)
(* Wait has returned and the destructor has run.                           *)
OwnerPcs == {"using", "wait", "destroyed"}

TypeOK ==
  /\ mIsStarving \in BOOLEAN
  /\ mIsDone \in BOOLEAN
  /\ mMutex \in Workers \cup {Nobody}
  /\ ioTasks \in Nat
  /\ pc \in [Callers -> CallerPcs]
  /\ asked \in [Callers -> 0..MaxRequests]
  /\ pending \subseteq Callers \X (1..MaxRequests)
  /\ workerPc \in [Workers -> WorkerPcs]
  /\ ownerPc \in OwnerPcs

Init ==
  /\ mIsStarving = TRUE
  /\ mIsDone = TRUE
  /\ mMutex = Nobody
  /\ ioTasks = 0
  /\ pc = [c \in Callers |-> "idle"]
  /\ asked = [c \in Callers |-> 0]
  /\ pending = {}
  /\ workerPc = [w \in Workers |-> "idle"]
  /\ ownerPc = "using"

--------------------------------------------------------------------------------
(* Callers                                                                 *)

(* The caller's own list: a log message in the queue, a work item.         *)
Request(c) ==
  /\ ownerPc = "using"
  /\ pc[c] = "idle"
  /\ asked[c] < MaxRequests
  /\ asked' = [asked EXCEPT ![c] = asked[c] + 1]
  /\ pending' = pending \cup {<<c, asked[c] + 1>>}
  /\ pc' = [pc EXCEPT ![c] = "check"]
  /\ UNCHANGED <<mIsStarving, mIsDone, mMutex, ioTasks, workerPc, ownerPc>>

(* Mutant: Execute skips the lock while the job is not done.               *)
ExecuteCheckDone(c) ==
  /\ pc[c] = "check"
  /\ pc' = [pc EXCEPT ![c] = IF mIsStarving /\ mIsDone THEN "lock" ELSE "idle"]
  /\ UNCHANGED <<mIsStarving, mIsDone, mMutex, ioTasks, asked, pending, workerPc, ownerPc>>

(* Execute reads mIsStarving without the lock ...                          *)
ExecuteCheck(c) ==
  /\ pc[c] = "check"
  /\ pc' = [pc EXCEPT ![c] = IF mIsStarving THEN "lock" ELSE "idle"]
  /\ UNCHANGED <<mIsStarving, mIsDone, mMutex, ioTasks, asked, pending, workerPc, ownerPc>>

(* Mutant: Execute forgets to clear mIsDone when it pushes.                *)
ExecuteLockedStaysDone(c) ==
  /\ pc[c] = "lock"
  /\ mMutex = Nobody
  /\ mIsStarving' = FALSE
  /\ ioTasks' = IF mIsDone THEN ioTasks + 1 ELSE ioTasks
  /\ pc' = [pc EXCEPT ![c] = "idle"]
  /\ UNCHANGED <<mIsDone, mMutex, asked, pending, workerPc, ownerPc>>

(* ... and under the lock asks for another run, or pushes the first.       *)
ExecuteLocked(c) ==
  /\ pc[c] = "lock"
  /\ mMutex = Nobody
  /\ mIsStarving' = FALSE
  /\ mIsDone' = FALSE
  /\ ioTasks' = IF mIsDone THEN ioTasks + 1 ELSE ioTasks
  /\ pc' = [pc EXCEPT ![c] = "idle"]
  /\ UNCHANGED <<mMutex, asked, pending, workerPc, ownerPc>>

--------------------------------------------------------------------------------
(* Workers                                                                 *)

StartWork(w) ==
  /\ workerPc[w] = "idle"
  /\ ioTasks > 0
  /\ ioTasks' = ioTasks - 1
  /\ workerPc' = [workerPc EXCEPT ![w] = "top"]
  /\ UNCHANGED <<mIsStarving, mIsDone, mMutex, pc, asked, pending, ownerPc>>

(* Mutant: a round begins and mIsStarving still says that one was asked for. *)
MarkStarvingForgotten(w) ==
  /\ workerPc[w] = "top"
  /\ workerPc' = [workerPc EXCEPT ![w] = "run"]
  /\ UNCHANGED <<mIsStarving, mIsDone, mMutex, ioTasks, pc, asked, pending, ownerPc>>

MarkStarving(w) ==
  /\ workerPc[w] = "top"
  /\ mIsStarving' = TRUE
  /\ workerPc' = [workerPc EXCEPT ![w] = "run"]
  /\ UNCHANGED <<mIsDone, mMutex, ioTasks, pc, asked, pending, ownerPc>>

(* RunIOJob takes every request made before it.                            *)
RunIOJob(w) ==
  /\ workerPc[w] = "run"
  /\ pending' = {}
  /\ workerPc' = [workerPc EXCEPT ![w] = "ran"]
  /\ UNCHANGED <<mIsStarving, mIsDone, mMutex, ioTasks, pc, asked, ownerPc>>

(* Mutant: DoWork ends after one run, whatever was asked meanwhile.        *)
FinishRunAlways(w) ==
  /\ workerPc[w] = "ran"
  /\ mMutex = Nobody
  /\ mIsDone' = TRUE
  /\ mMutex' = w
  /\ workerPc' = [workerPc EXCEPT ![w] = "unlock"]
  /\ UNCHANGED <<mIsStarving, ioTasks, pc, asked, pending, ownerPc>>

(* Under the lock: nobody asked since the run began, or another round.     *)
FinishRun(w) ==
  /\ workerPc[w] = "ran"
  /\ mMutex = Nobody
  /\ IF mIsStarving
       THEN /\ mIsDone' = TRUE
            /\ mMutex' = w
            /\ workerPc' = [workerPc EXCEPT ![w] = "unlock"]
       ELSE /\ workerPc' = [workerPc EXCEPT ![w] = "top"]
            /\ UNCHANGED <<mIsDone, mMutex>>
  /\ UNCHANGED <<mIsStarving, ioTasks, pc, asked, pending, ownerPc>>

Unlock(w) ==
  /\ workerPc[w] = "unlock"
  /\ mMutex' = Nobody
  /\ workerPc' = [workerPc EXCEPT ![w] = "idle"]
  /\ UNCHANGED <<mIsStarving, mIsDone, ioTasks, pc, asked, pending, ownerPc>>

--------------------------------------------------------------------------------
(* The owner                                                               *)

(* It owes the job that no caller is inside Execute any more.              *)
StartWait ==
  /\ ownerPc = "using"
  /\ \A c \in Callers : pc[c] = "idle"
  /\ ownerPc' = "wait"
  /\ UNCHANGED <<mIsStarving, mIsDone, mMutex, ioTasks, pc, asked, pending, workerPc>>

(* Wait polls mIsDone and takes no lock; then the destructor runs.         *)
WaitAndDestroy ==
  /\ ownerPc = "wait"
  /\ mIsDone
  /\ ownerPc' = "destroyed"
  /\ UNCHANGED <<mIsStarving, mIsDone, mMutex, ioTasks, pc, asked, pending, workerPc>>

--------------------------------------------------------------------------------
WorkerStep(w) ==
  StartWork(w) \/ MarkStarving(w) \/ RunIOJob(w) \/ FinishRun(w) \/ Unlock(w)

Next ==
  \/ \E c \in Callers : Request(c) \/ ExecuteCheck(c) \/ ExecuteLocked(c)
  \/ \E w \in Workers : WorkerStep(w)
  \/ StartWait
  \/ WaitAndDestroy

Spec == Init /\ [][Next]_vars

(* The IO threads are scheduled and RunIOJob returns.  One of the threads  *)
(* takes a queued task, whichever, so fairness of starting is about all of *)
(* them.  Callers finish Execute.  Weak fairness is enough: the mutex they *)
(* compete for with the worker is held for a moment only.                  *)
Fairness ==
  /\ WF_vars(\E w \in Workers : StartWork(w))
  /\ \A w \in Workers :
       WF_vars(MarkStarving(w) \/ RunIOJob(w) \/ FinishRun(w) \/ Unlock(w))
  /\ \A c \in Callers : WF_vars(ExecuteCheck(c) \/ ExecuteLocked(c))

FairSpec == Spec /\ Fairness

--------------------------------------------------------------------------------
(* Properties                                                              *)

Active == {w \in Workers : workerPc[w] # "idle"}

(* Job.h:148 "Repeated runs are always sequential": there is never more    *)
(* than one JobWork of the job, queued or running, so no two IO threads    *)
(* are in DoWork and none starts before the last has left it.              *)
RunsAreSequential ==
  /\ \A v, w \in Active : v = w
  /\ ioTasks <= 1
  /\ ioTasks = 1 => Active = {}

(* The assertion of DoWork: every round is entered because somebody asked. *)
RoundHasRequest == \A w \in Workers : workerPc[w] = "top" => ~mIsStarving

(* A request nobody has taken is one whose Execute has not returned, or a  *)
(* run that has not looked at the list yet is certain: Execute may return  *)
(* early on mIsStarving = FALSE only because that run is to come.          *)
RunToCome ==
  \/ ~mIsStarving /\ ~mIsDone
  \/ \E w \in Workers : workerPc[w] = "run"

NoLostRequest ==
  \A r \in pending : (pc[r[1]] # "idle" /\ r[2] = asked[r[1]]) \/ RunToCome

(* Wait returns, and the job is destroyed, only when every request made    *)
(* was served and no JobWork that names the job is left in the IO queue.   *)
WaitMeansServed == ownerPc = "destroyed" => pending = {} /\ ioTasks = 0

(* Job.h:175 and 177 ask the owner to call Wait before the destructor:     *)
(* then no thread should be using the job's mutex when it is destroyed.    *)
DestroyedUnused == ownerPc = "destroyed" => mMutex = Nobody
================================================================================
