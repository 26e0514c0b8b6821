------------------------------ MODULE Companions ------------------------------
(***************************************************************************)
(* The companion threads of a ThreadPool (jobs/ThreadPool.cpp).  They have *)
(* two duties: they run background tasks, at low priority, and they stand  *)
(* in for threads that block inside a task, by running what those left in  *)
(* the queues of the pool.                                                 *)
(*                                                                         *)
(* A section under the lock of mCompanionJobQueue is one action; the       *)
(* counters, which are also read and written without it, change in actions *)
(* of their own.  Two parts are coarser here than in the code: the queues  *)
(* of the pool are one set that is searched in one action, and a worker    *)
(* goes to sleep in the action that finds it empty.  Module WorkerPool has *)
(* those in detail; what it leaves out is here.                            *)
(*                                                                         *)
(* mNumAvailableBackgroundTasks changes under the lock, with the queue: it *)
(* is the cardinality of mCompanionJobQueue.                               *)
(***************************************************************************)
EXTENDS Integers, FiniteSets

CONSTANTS
  Workers,                \* worker threads
  Companions,             \* companion threads that can be created
  Initial,                \* those the constructor creates
  Pushers,                \* threads that push and are none of these
  MaxBackgroundWorkers,   \* mMaxBackgroundWorkers
  Tasks,                  \* JobWork pushed into the queues, each at most once
  BackgroundTasks         \* JobWork pushed as background work, the same

ASSUME ThreadsAssumption ==
  /\ Initial \subseteq Companions
  /\ Workers \cap Companions = {}
ASSUME LimitAssumption == MaxBackgroundWorkers \in Nat
ASSUME FiniteAssumption == IsFiniteSet(Workers) /\ IsFiniteSet(Companions)

VARIABLES
  mJobQueues,               \* the tasks in the queues of the pool
  mCompanionJobQueue,       \* the background tasks in it
  mNumWaiting,              \* JobQueueStats::mNumWaiting
  mNumBackgroundWorkers,
  mCompanionWorkersActive,
  mCompanionWorkersNeeded,
  mAreCompanionsActive,
  workerPc,                 \* workerPc[w]: where worker w is
  pc,                       \* pc[c]: where companion c is, see CompanionPcs
  status,                   \* status[c]: the local variable of companion c
  pushPc,                   \* pushPc[p]: where pusher p is
  pushed                    \* history: the tasks that were pushed

vars == <<mJobQueues, mCompanionJobQueue, mNumWaiting, mNumBackgroundWorkers,
          mCompanionWorkersActive, mCompanionWorkersNeeded, mAreCompanionsActive, workerPc,
          pc, status, pushPc, pushed>>

queueVars == <<mJobQueues, mCompanionJobQueue, pushed>>
countVars == <<mNumWaiting, mNumBackgroundWorkers, mCompanionWorkersActive,
               mCompanionWorkersNeeded>>

(* "look": between two tasks; "idle": in the wait of its queue; "blocked": *)
(* in UnlockAndWaitEnsureWork.                                             *)
WorkerPcs == {"look", "run", "blocked", "idle", "ended"}

(* "none": not created; "begin": counted as a background worker, not yet   *)
(* as active; "top": the outer loop; "background": about to take a         *)
(* background task; "task", "tasked": in one, and back; "leave": about to  *)
(* stop being a background worker; "inner": the inner loop; "decide":      *)
(* about to lock; "sleep", "woken": in the condition variable, and         *)
(* notified; "scan": about to search the queues; "run", "blocked": in a    *)
(* task found there; "held": as "blocked", in a background task;           *)
(* "reenter": about to be a background worker again.                       *)
CompanionPcs == {"none", "start", "begin", "top", "background", "task", "held", "tasked", "leave",
                 "inner", "decide", "sleep", "woken", "scan", "run", "blocked", "reenter",
                 "ended"}

(* "pushed": about to call WakeUp; "companion": about to lock in it.       *)
PusherPcs == {"idle", "pushed", "companion"}

Threads == Workers \cup Companions

TypeOK ==
  /\ mJobQueues \subseteq Tasks
  /\ mCompanionJobQueue \subseteq BackgroundTasks
  /\ mNumWaiting \in 0..Cardinality(Workers)
  /\ mNumBackgroundWorkers \in 0..Cardinality(Companions)
  /\ mCompanionWorkersActive \in 0..Cardinality(Companions)
  /\ mCompanionWorkersNeeded \in 0..Cardinality(Threads)
  /\ mAreCompanionsActive \in BOOLEAN
  /\ workerPc \in [Workers -> WorkerPcs]
  /\ pc \in [Companions -> CompanionPcs]
  /\ status \in [Companions -> {"Waiting", "Empty"}]
  /\ pushPc \in [Pushers -> PusherPcs]
  /\ pushed \subseteq Tasks \cup BackgroundTasks

Init ==
  /\ mJobQueues = {}
  /\ mCompanionJobQueue = {}
  /\ mNumWaiting = 0
  /\ mNumBackgroundWorkers = 0
  /\ mCompanionWorkersActive = 0
  /\ mCompanionWorkersNeeded = 0
  /\ mAreCompanionsActive = TRUE
  /\ workerPc = [w \in Workers |-> "look"]
  /\ pc = [c \in Companions |-> IF c \in Initial THEN "start" ELSE "none"]
  /\ status = [c \in Companions |-> "Waiting"]
  /\ pushPc = [p \in Pushers |-> "idle"]
  /\ pushed = {}

(* pcs after NotifyOne: a sleeping companion is woken, if there is one.    *)
Notified(pcs) ==
  LET sleepers == {c \in Companions : pcs[c] = "sleep"}
  IN IF sleepers = {} THEN {pcs} ELSE {[pcs EXCEPT ![c] = "woken"] : c \in sleepers}

GoTo(c, to) == pc' = [pc EXCEPT ![c] = to]

At(c, from, to) == pc[c] = from /\ GoTo(c, to)

--------------------------------------------------------------------------------
(* Blocking in a task                                                      *)

(* Sizes are compared as in AddCompanionWorker: one more thread is created *)
(* when there may be too few, unless none can be.                          *)
Spawned(pcs) ==
  LET spare == {c \in Companions : pcs[c] = "none"}
      size == Cardinality(Companions \ spare)
  IN IF mCompanionWorkersNeeded + 1 + MaxBackgroundWorkers > size /\ spare # {}
       THEN {[pcs EXCEPT ![c] = "start"] : c \in spare}
       ELSE {pcs}

AddCompanionWorker(pcs) ==
  /\ mCompanionWorkersNeeded' = mCompanionWorkersNeeded + 1
  /\ \E spawned \in Spawned(pcs) : pc' \in Notified(spawned)

(* A worker whose task waits for a job.                                    *)
BlockWorker(w) ==
  /\ workerPc[w] = "run"
  /\ workerPc' = [workerPc EXCEPT ![w] = "blocked"]
  /\ AddCompanionWorker(pc)
  /\ UNCHANGED <<queueVars, mNumWaiting, mNumBackgroundWorkers, mCompanionWorkersActive,
                 mAreCompanionsActive, status, pushPc>>

(* A companion in a worker's task, or in a background task, does the same. *)
BlockCompanion(c) ==
  /\ pc[c] \in {"run", "task"}
  /\ AddCompanionWorker([pc EXCEPT ![c] = IF @ = "run" THEN "blocked" ELSE "held"])
  /\ UNCHANGED <<queueVars, mNumWaiting, mNumBackgroundWorkers, mCompanionWorkersActive,
                 mAreCompanionsActive, workerPc, status, pushPc>>

RemoveCompanionWorker ==
  /\ mCompanionWorkersNeeded' = mCompanionWorkersNeeded - 1
  /\ UNCHANGED <<queueVars, mNumWaiting, mNumBackgroundWorkers, mCompanionWorkersActive,
                 mAreCompanionsActive, status, pushPc>>

UnblockWorker(w) ==
  /\ workerPc[w] = "blocked"
  /\ workerPc' = [workerPc EXCEPT ![w] = "run"]
  /\ RemoveCompanionWorker
  /\ UNCHANGED pc

UnblockCompanion(c) ==
  /\ At(c, "blocked", "run") \/ At(c, "held", "task")
  /\ RemoveCompanionWorker
  /\ UNCHANGED workerPc

--------------------------------------------------------------------------------
(* Pushing                                                                 *)

PushTask(p, t) ==
  /\ pushPc[p] = "idle"
  /\ t \in Tasks \ pushed
  /\ mJobQueues' = mJobQueues \cup {t}
  /\ pushed' = pushed \cup {t}
  /\ pushPc' = [pushPc EXCEPT ![p] = "pushed"]
  /\ UNCHANGED <<mCompanionJobQueue, countVars, mAreCompanionsActive, workerPc, pc, status>>

(* WakeUp tries the workers, and if none sleeps reads the count of blocked *)
(* threads without the lock.                                               *)
WakeUpWorker(p) ==
  /\ pushPc[p] = "pushed"
  /\ \/ \E w \in Workers :
          /\ workerPc[w] = "idle"
          /\ workerPc' = [workerPc EXCEPT ![w] = "look"]
          /\ mNumWaiting' = mNumWaiting - 1
          /\ pushPc' = [pushPc EXCEPT ![p] = "idle"]
     \/ /\ \A w \in Workers : workerPc[w] # "idle"
        /\ pushPc' = [pushPc EXCEPT ![p] =
                        IF mCompanionWorkersNeeded > 0 THEN "companion" ELSE "idle"]
        /\ UNCHANGED <<workerPc, mNumWaiting>>
  /\ UNCHANGED <<queueVars, mNumBackgroundWorkers, mCompanionWorkersActive,
                 mCompanionWorkersNeeded, mAreCompanionsActive, pc, status>>

(* The difference of the two counters is unsigned: it is positive unless   *)
(* they are equal.                                                         *)
WakeUpCompanion(p) ==
  /\ pushPc[p] = "companion"
  /\ pushPc' = [pushPc EXCEPT ![p] = "idle"]
  /\ pc' \in IF mCompanionWorkersNeeded # mCompanionWorkersActive THEN Notified(pc) ELSE {pc}
  /\ UNCHANGED <<queueVars, countVars, mAreCompanionsActive, workerPc, status>>

PushBackgroundTask(t) ==
  /\ t \in BackgroundTasks \ pushed
  /\ mCompanionJobQueue' = mCompanionJobQueue \cup {t}
  /\ pushed' = pushed \cup {t}
  /\ pc' \in IF mNumBackgroundWorkers < MaxBackgroundWorkers THEN Notified(pc) ELSE {pc}
  /\ UNCHANGED <<mJobQueues, countVars, mAreCompanionsActive, workerPc, status, pushPc>>

--------------------------------------------------------------------------------
(* Workers                                                                 *)

workerRest == <<mCompanionJobQueue, pushed, mNumBackgroundWorkers, mCompanionWorkersActive,
                mCompanionWorkersNeeded, mAreCompanionsActive, pc, status, pushPc>>

TakeTask(w, t) ==
  /\ workerPc[w] = "look"
  /\ mJobQueues' = mJobQueues \ {t}
  /\ workerPc' = [workerPc EXCEPT ![w] = "run"]
  /\ UNCHANGED <<mNumWaiting, workerRest>>

WaitForTask(w) ==
  /\ workerPc[w] = "look"
  /\ mJobQueues = {}
  /\ mNumWaiting' = mNumWaiting + 1
  /\ workerPc' = [workerPc EXCEPT ![w] = "idle"]
  /\ UNCHANGED <<mJobQueues, workerRest>>

DoneTask(w) ==
  /\ workerPc[w] = "run"
  /\ workerPc' = [workerPc EXCEPT ![w] = "look"]
  /\ UNCHANGED <<mJobQueues, mNumWaiting, workerRest>>

--------------------------------------------------------------------------------
(* Companions: the outer loop                                              *)

companionRest == <<mNumWaiting, mCompanionWorkersNeeded, mAreCompanionsActive, workerPc, pushPc,
                   pushed>>

Begin(c) ==
  /\ \/ /\ At(c, "start", "begin")
        /\ mNumBackgroundWorkers' = mNumBackgroundWorkers + 1
        /\ UNCHANGED mCompanionWorkersActive
     \/ /\ At(c, "begin", "top")
        /\ mCompanionWorkersActive' = mCompanionWorkersActive + 1
        /\ UNCHANGED mNumBackgroundWorkers
  /\ UNCHANGED <<mJobQueues, mCompanionJobQueue, status, companionRest>>

GoOn(c) ==
  /\ mAreCompanionsActive
  /\ At(c, "top", "background")
  /\ UNCHANGED <<mJobQueues, mCompanionJobQueue, mNumBackgroundWorkers,
                 mCompanionWorkersActive, status, companionRest>>

(* LongTaskRun takes a background task ...                                 *)
TakeBackgroundTask(c, t) ==
  /\ At(c, "background", "task")
  /\ mCompanionJobQueue' = mCompanionJobQueue \ {t}
  /\ UNCHANGED <<mJobQueues, mNumBackgroundWorkers, mCompanionWorkersActive, status,
                 companionRest>>

DoneBackgroundTask(c) ==
  /\ At(c, "task", "tasked")
  /\ UNCHANGED <<mJobQueues, mCompanionJobQueue, mNumBackgroundWorkers,
                 mCompanionWorkersActive, status, companionRest>>

(* ... or there is none, and the companion leaves, as it does when too     *)
(* many run background tasks.                                              *)
NextBackgroundTask(c) ==
  /\ \/ At(c, "background", "leave") /\ mCompanionJobQueue = {}
     \/ At(c, "tasked", IF mNumBackgroundWorkers <= MaxBackgroundWorkers THEN "top" ELSE "leave")
  /\ UNCHANGED <<mJobQueues, mCompanionJobQueue, mNumBackgroundWorkers,
                 mCompanionWorkersActive, status, companionRest>>

Leave(c) ==
  /\ At(c, "leave", "inner")
  /\ mNumBackgroundWorkers' = mNumBackgroundWorkers - 1
  /\ status' = [status EXCEPT ![c] = "Waiting"]
  /\ UNCHANGED <<mJobQueues, mCompanionJobQueue, mCompanionWorkersActive, companionRest>>

Reenter(c) ==
  /\ At(c, "reenter", "top")
  /\ mNumBackgroundWorkers' = mNumBackgroundWorkers + 1
  /\ UNCHANGED <<mJobQueues, mCompanionJobQueue, mCompanionWorkersActive, status,
                 companionRest>>

End(c) ==
  /\ ~mAreCompanionsActive
  /\ At(c, "top", "ended")
  /\ mNumBackgroundWorkers' = mNumBackgroundWorkers - 1
  /\ mCompanionWorkersActive' = mCompanionWorkersActive - 1
  /\ UNCHANGED <<mJobQueues, mCompanionJobQueue, status, companionRest>>

--------------------------------------------------------------------------------
(* Companions: the inner loop                                              *)

BackgroundTaskWaits ==
  mCompanionJobQueue # {} /\ mNumBackgroundWorkers < MaxBackgroundWorkers

IsSpare(active) == mCompanionWorkersNeeded < active + mNumWaiting

StayInner(c) ==
  /\ At(c, "inner", IF mAreCompanionsActive THEN "decide" ELSE "reenter")
  /\ UNCHANGED <<mJobQueues, mCompanionJobQueue, mNumBackgroundWorkers,
                 mCompanionWorkersActive, status, companionRest>>

MustSleep(c) ==
  /\ ~BackgroundTaskWaits
  /\ status[c] = "Empty" \/ IsSpare(mCompanionWorkersActive)
  /\ mAreCompanionsActive

(* Mutant: mAreCompanionsActive is not looked at again under the lock.     *)
DecideStopped(c) ==
  /\ \/ At(c, "decide", "reenter") /\ BackgroundTaskWaits
     \/ /\ At(c, "decide", "sleep")
        /\ ~BackgroundTaskWaits
        /\ status[c] = "Empty" \/ IsSpare(mCompanionWorkersActive)
     \/ /\ At(c, "decide", "scan")
        /\ ~BackgroundTaskWaits
        /\ status[c] # "Empty" /\ ~IsSpare(mCompanionWorkersActive)
  /\ mCompanionWorkersActive' =
       IF pc'[c] = "sleep" THEN mCompanionWorkersActive - 1 ELSE mCompanionWorkersActive
  /\ UNCHANGED <<mJobQueues, mCompanionJobQueue, mNumBackgroundWorkers, status,
                 companionRest>>

(* Mutant: a companion that goes to sleep does not look for background     *)
(* tasks first.                                                            *)
DecideBlindly(c) ==
  /\ \/ /\ At(c, "decide", "sleep")
        /\ status[c] = "Empty" \/ IsSpare(mCompanionWorkersActive)
        /\ mAreCompanionsActive
     \/ At(c, "decide", "scan") /\ ~MustSleep(c) /\ ~BackgroundTaskWaits
     \/ At(c, "decide", "reenter") /\ ~MustSleep(c) /\ BackgroundTaskWaits
  /\ mCompanionWorkersActive' =
       IF pc'[c] = "sleep" THEN mCompanionWorkersActive - 1 ELSE mCompanionWorkersActive
  /\ UNCHANGED <<mJobQueues, mCompanionJobQueue, mNumBackgroundWorkers, status,
                 companionRest>>

(* The section under the lock: a background task, sleep, or the queues.    *)
Decide(c) ==
  /\ \/ At(c, "decide", "reenter") /\ BackgroundTaskWaits
     \/ At(c, "decide", "sleep") /\ MustSleep(c)
     \/ At(c, "decide", "scan") /\ ~BackgroundTaskWaits /\ ~MustSleep(c)
  /\ mCompanionWorkersActive' =
       IF MustSleep(c) THEN mCompanionWorkersActive - 1 ELSE mCompanionWorkersActive
  /\ UNCHANGED <<mJobQueues, mCompanionJobQueue, mNumBackgroundWorkers, status,
                 companionRest>>

SpuriousWake(c) ==
  /\ At(c, "sleep", "woken")
  /\ UNCHANGED <<mJobQueues, mCompanionJobQueue, mNumBackgroundWorkers,
                 mCompanionWorkersActive, status, companionRest>>

(* Mutant: a companion that is not needed is back before it counts.        *)
WakeUncounted(c) ==
  /\ mCompanionWorkersActive' =
       IF IsSpare(mCompanionWorkersActive + 1) THEN mCompanionWorkersActive
                                              ELSE mCompanionWorkersActive + 1
  /\ At(c, "woken", IF IsSpare(mCompanionWorkersActive + 1) THEN "inner" ELSE "scan")
  /\ UNCHANGED <<mJobQueues, mCompanionJobQueue, mNumBackgroundWorkers, status,
                 companionRest>>

(* Woken: back to the start of the loop, with its old status, if a spare   *)
(* companion is not needed, else to the queues.                            *)
Wake(c) ==
  /\ mCompanionWorkersActive' = mCompanionWorkersActive + 1
  /\ At(c, "woken", IF IsSpare(mCompanionWorkersActive + 1) THEN "inner" ELSE "scan")
  /\ UNCHANGED <<mJobQueues, mCompanionJobQueue, mNumBackgroundWorkers, status,
                 companionRest>>

(* ProcessQueues takes a task ...                                          *)
ScanTask(c, t) ==
  /\ At(c, "scan", "run")
  /\ mJobQueues' = mJobQueues \ {t}
  /\ status' = [status EXCEPT ![c] = "Waiting"]
  /\ UNCHANGED <<mCompanionJobQueue, mNumBackgroundWorkers, mCompanionWorkersActive,
                 companionRest>>

DoneScanned(c) ==
  /\ At(c, "run", "inner")
  /\ UNCHANGED <<mJobQueues, mCompanionJobQueue, mNumBackgroundWorkers,
                 mCompanionWorkersActive, status, companionRest>>

(* ... or finds every queue empty.                                         *)
ScanEmpty(c) ==
  /\ At(c, "scan", "inner")
  /\ mJobQueues = {}
  /\ status' = [status EXCEPT ![c] = "Empty"]
  /\ UNCHANGED <<mJobQueues, mCompanionJobQueue, mNumBackgroundWorkers,
                 mCompanionWorkersActive, companionRest>>

--------------------------------------------------------------------------------
(* StopThreads: the workers have ended before it stops the companions.     *)
StopWorkers ==
  /\ \A w \in Workers : workerPc[w] = "idle"
  /\ mJobQueues = {}
  /\ workerPc' = [w \in Workers |-> "ended"]
  /\ mNumWaiting' = 0
  /\ UNCHANGED <<mJobQueues, workerRest>>

Stop ==
  /\ \A w \in Workers : workerPc[w] = "ended"
  /\ mAreCompanionsActive
  /\ mAreCompanionsActive' = FALSE
  /\ pc' = [c \in Companions |-> IF pc[c] = "sleep" THEN "woken" ELSE pc[c]]
  /\ UNCHANGED <<queueVars, countVars, workerPc, status, pushPc>>

--------------------------------------------------------------------------------
WorkerStep(w) ==
  \/ \E t \in mJobQueues : TakeTask(w, t)
  \/ WaitForTask(w)
  \/ DoneTask(w)

CompanionStep(c) ==
  \/ Begin(c)
  \/ GoOn(c)
  \/ \E t \in mCompanionJobQueue : TakeBackgroundTask(c, t)
  \/ DoneBackgroundTask(c)
  \/ NextBackgroundTask(c)
  \/ Leave(c)
  \/ Reenter(c)
  \/ End(c)
  \/ StayInner(c)
  \/ Decide(c)
  \/ Wake(c)
  \/ \E t \in mJobQueues : ScanTask(c, t)
  \/ DoneScanned(c)
  \/ ScanEmpty(c)

Next ==
  \/ \E p \in Pushers :
       (\E t \in Tasks : PushTask(p, t)) \/ WakeUpWorker(p) \/ WakeUpCompanion(p)
  \/ \E t \in BackgroundTasks : PushBackgroundTask(t)
  \/ \E w \in Workers : WorkerStep(w) \/ BlockWorker(w) \/ UnblockWorker(w)
  \/ \E c \in Companions :
       CompanionStep(c) \/ BlockCompanion(c) \/ UnblockCompanion(c) \/ SpuriousWake(c)
  \/ StopWorkers
  \/ Stop

Spec == Init /\ [][Next]_vars

(* Threads that can run are scheduled, what a blocked thread waits for     *)
(* happens in the end, and a task that blocks again and again returns all  *)
(* the same (the strong fairness).  No fairness on pushing, blocking,      *)
(* stopping or waking for no reason.                                       *)
Fairness ==
  /\ \A p \in Pushers : WF_vars(WakeUpWorker(p) \/ WakeUpCompanion(p))
  /\ \A w \in Workers : WF_vars(WorkerStep(w)) /\ WF_vars(UnblockWorker(w))
  /\ \A w \in Workers : SF_vars(DoneTask(w))
  /\ \A c \in Companions :
       /\ WF_vars(CompanionStep(c)) /\ WF_vars(UnblockCompanion(c))
       /\ SF_vars(DoneScanned(c) \/ DoneBackgroundTask(c))

FairSpec == Spec /\ Fairness

--------------------------------------------------------------------------------
(* Properties                                                              *)

CompanionsAt(pcs) == {c \in Companions : pc[c] \in pcs}

(* Each counter is what the places of the threads say, at every step, so   *)
(* none of them underflows, whoever blocks, is created or stops meanwhile. *)
CountersMatch ==
  /\ mNumBackgroundWorkers =
       Cardinality(CompanionsAt({"begin", "top", "background", "task", "held", "tasked",
                                "leave"}))
  /\ mCompanionWorkersActive =
       Cardinality(Companions \ CompanionsAt({"none", "start", "begin", "sleep", "woken", "ended"}))
  /\ mCompanionWorkersNeeded =
       Cardinality(CompanionsAt({"blocked", "held"}))
       + Cardinality({w \in Workers : workerPc[w] = "blocked"})

(* A background task that was pushed is taken, although the companions     *)
(* change their duty by counters they read without the lock.               *)
BackgroundTaskRuns ==
  \A t \in BackgroundTasks :
    t \in mCompanionJobQueue ~> t \notin mCompanionJobQueue \/ ~mAreCompanionsActive

(* StopThreads returns from the Join of every companion.                   *)
StopEndsCompanions ==
  ~mAreCompanionsActive ~> (CompanionsAt({"none", "ended"}) = Companions)

(* "ensure that blocked workers have companion workers"                    *)
(* (ThreadSynchronizer.h:106): when a worker is blocked and nothing else   *)
(* moves, no task is left in the queues.                                   *)
BlockedHaveCompanion ==
  (/\ \E w \in Workers : workerPc[w] = "blocked"
   /\ \A w \in Workers : workerPc[w] \in {"blocked", "idle"}
   /\ \A c \in Companions : pc[c] \in {"none", "sleep", "blocked", "held", "ended"}
   /\ \A p \in Pushers : pushPc[p] = "idle")
  => mJobQueues = {}
================================================================================
