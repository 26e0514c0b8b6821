------------------------------- MODULE TimedJobs -------------------------------
(***************************************************************************)
(* Timed jobs and the dispatcher thread (jobs/TimedJob.cpp and             *)
(* jobs/JobDispatcher.cpp).  A job that was pushed goes round: into        *)
(* mInQueue, into the dispatcher's mTimedQueue, when it is due into the    *)
(* thread pool, and from the thread that ran it back into mInQueue.        *)
(* Cancelling only marks it; the dispatcher or, for a OneShotJob, the      *)
(* thread that ran it removes it, and WaitUntilDone waits for that.        *)
(*                                                                         *)
(* Clocks are left out: due[j] says whether the timer of j has run down,   *)
(* and the dispatcher's sleep may end at any time.  The order of mInQueue  *)
(* and of mTimedQueue is left out too: they are counts, so that a job may  *)
(* be in them twice.  The queues of the pool (module WorkerPool) are the   *)
(* number of JobWork items of each job in them.                            *)
(***************************************************************************)
EXTENDS Integers, FiniteSets

CONSTANTS
  Jobs,       \* the timed jobs; j also names the thread that owns job j
  OneShots,   \* those that are OneShotJobs
  Workers,    \* threads of the pool
  None,       \* no job
  MaxPushes,  \* bound: PushJob calls for one job
  StopEarly   \* TRUE if the scheduler may be stopped while it has jobs

ASSUME JobsAssumption == OneShots \subseteq Jobs /\ Jobs \cap Workers = {} /\ None \notin Jobs
ASSUME PushesAssumption == MaxPushes \in Nat /\ StopEarly \in BOOLEAN

VARIABLES
  mState,               \* mState[j]: DispatcherJob::mState
  mNumTasksInProgress,  \* mNumTasksInProgress[j]: TimedJob
  due,                  \* due[j]: the timer of j has run down
  mInQueue,             \* mInQueue[j]: how often j is in it
  mTimedQueue,          \* mTimedQueue[j]: how often j is in it
  pooled,               \* pooled[j]: JobWork items of j in the queues of the pool
  queueZero,            \* the jobs whose JobWork is in queue 0, which no worker owns
  mIsStarving,          \* of the dispatcher's synchronizer
  mIsRunning,           \* of the dispatcher's synchronizer
  gSharedDispatcher,    \* FALSE: a null pointer
  dispatcherPc,         \* where the dispatcher thread is, see DispatcherPcs
  toVisit,              \* the jobs its loop over mTimedQueue has still to visit
  ready,                \* those of them that were due when the loop read the clock
  pc,                   \* pc[t]: where thread t is in DoWork or Signal
  working,              \* working[t]: the job whose DoWork t is in, or None
  ownerPc,              \* ownerPc[j]: where the owner of j is, see OwnerPcs
  pushes,               \* pushes[j]: PushJob calls for j
  late,                 \* history: runs of j that began after it was cancelled
  hurried               \* history: a job was moved forward since the last scan began

vars == <<mState, mNumTasksInProgress, due, mInQueue, mTimedQueue, pooled, queueZero,
          mIsStarving, mIsRunning, gSharedDispatcher, dispatcherPc, toVisit, ready, pc,
          working, ownerPc, pushes, late, hurried>>

jobVars == <<mState, mNumTasksInProgress, due, late>>
queueVars == <<mInQueue, mTimedQueue, pooled, queueZero>>
scanVars == <<toVisit, ready, hurried>>
dispatcherVars == <<gSharedDispatcher, dispatcherPc, scanVars>>
threadVars == <<pc, working, ownerPc, pushes>>

(* The owner that waits helps the pool.                                    *)
Threads == Workers \cup Jobs

TimedJobState == {"Active", "Stopping", "Inactive"}

(* "wait": about to enter TryWaitUntil; "sleep", "woken": in the condition *)
(* variable, and back from it; "drain": in DequeueAll; "scan": in the loop *)
(* over mTimedQueue; "exit": TryWaitUntil returned FALSE; "flush",         *)
(* "flushTimed": removing what is left.                                    *)
DispatcherPcs == {"wait", "sleep", "woken", "drain", "scan", "exit", "flush",
                  "flushTimed", "ended"}

(* "run": in RunTimedTask; "ran": back from it; "signal": about to read    *)
(* mIsStarving; "lock": read TRUE.                                         *)
ThreadPcs == {"idle", "run", "ran", "signal", "lock"}

(* "free": knows that nobody has the job; "dispatched": counted the job,   *)
(* about to put it into mInQueue; "using"; "wait": in WaitUntilDone, about *)
(* to call Cancel; "poll0": about to look whether its job is done; "help0":*)
(* it was not, about to call DoJobWork for queue 0, where it starts;       *)
(* "poll", "help": the same for the other queues, one after the other.     *)
Waiting == {"wait", "poll0", "help0", "poll", "help"}
OwnerPcs == Waiting \cup {"free", "dispatched", "using", "destroyed"}

TypeOK ==
  /\ mState \in [Jobs -> TimedJobState]
  /\ mNumTasksInProgress \in [Jobs -> 0..1]
  /\ due \in [Jobs -> BOOLEAN]
  /\ mInQueue \in [Jobs -> 0..1]
  /\ mTimedQueue \in [Jobs -> 0..1]
  /\ pooled \in [Jobs -> 0..1]
  /\ queueZero \subseteq Jobs
  /\ mIsStarving \in BOOLEAN
  /\ mIsRunning \in BOOLEAN
  /\ gSharedDispatcher \in BOOLEAN
  /\ dispatcherPc \in DispatcherPcs
  /\ toVisit \subseteq Jobs
  /\ ready \subseteq Jobs
  /\ pc \in [Threads -> ThreadPcs]
  /\ working \in [Threads -> Jobs \cup {None}]
  /\ ownerPc \in [Jobs -> OwnerPcs]
  /\ pushes \in [Jobs -> 0..MaxPushes]
  /\ late \in [Jobs -> Nat]
  /\ hurried \in BOOLEAN

Init ==
  /\ mState = [j \in Jobs |-> "Inactive"]
  /\ mNumTasksInProgress = [j \in Jobs |-> 0]
  /\ due = [j \in Jobs |-> FALSE]
  /\ mInQueue = [j \in Jobs |-> 0]
  /\ mTimedQueue = [j \in Jobs |-> 0]
  /\ pooled = [j \in Jobs |-> 0]
  /\ queueZero = {}
  /\ mIsStarving = TRUE
  /\ mIsRunning = TRUE
  /\ gSharedDispatcher = TRUE
  /\ dispatcherPc = "wait"
  /\ toVisit = {}
  /\ ready = {}
  /\ pc = [t \in Threads |-> "idle"]
  /\ working = [t \in Threads |-> None]
  /\ ownerPc = [j \in Jobs |-> "free"]
  /\ pushes = [j \in Jobs |-> 0]
  /\ late = [j \in Jobs |-> 0]
  /\ hurried = FALSE

Added(queue, j) == [queue EXCEPT ![j] = @ + 1]
Taken(queue, j) == [queue EXCEPT ![j] = @ - 1]

--------------------------------------------------------------------------------
(* TimedJob.  mSynchronizer of the job is held for one action.             *)

(* The last task removed makes the job inactive.                           *)
OnRemoved(j) ==
  /\ mNumTasksInProgress' = Taken(mNumTasksInProgress, j)
  /\ mState' = IF mNumTasksInProgress[j] = 1 THEN [mState EXCEPT ![j] = "Inactive"] ELSE mState
  /\ UNCHANGED <<due, late>>

(* What Cancel makes of the state; it returns TRUE if no task is left.     *)
Cancelled(j) ==
  IF mNumTasksInProgress[j] = 0 THEN "Inactive"
  ELSE IF mState[j] = "Active" THEN "Stopping" ELSE mState[j]

(* Time passes, or SetInterval and ResetTimer changed the timer.           *)
TimerRunsDown(j) ==
  /\ ~due[j]
  /\ ownerPc[j] # "destroyed"
  /\ due' = [due EXCEPT ![j] = TRUE]
  /\ UNCHANGED <<mState, mNumTasksInProgress, late, queueVars, mIsStarving, mIsRunning,
                 dispatcherVars, threadVars>>

--------------------------------------------------------------------------------
(* Signal of the dispatcher's synchronizer, see module JobQueue            *)

SignalCheck(t) ==
  /\ pc[t] = "signal"
  /\ pc' = [pc EXCEPT ![t] = IF mIsStarving THEN "lock" ELSE "idle"]
  /\ UNCHANGED <<jobVars, queueVars, mIsStarving, mIsRunning, dispatcherVars, working,
                 ownerPc, pushes>>

Woken == IF dispatcherPc = "sleep" THEN "woken" ELSE dispatcherPc

SignalLocked(t) ==
  /\ pc[t] = "lock"
  /\ mIsStarving' = FALSE
  /\ dispatcherPc' = Woken
  /\ pc' = [pc EXCEPT ![t] = "idle"]
  /\ UNCHANGED <<jobVars, queueVars, mIsRunning, gSharedDispatcher, scanVars, working,
                 ownerPc, pushes>>

--------------------------------------------------------------------------------
(* The owner of a job, which starts nothing new once it is stopped         *)

OwnerAt(j, place) == ownerPc[j] = place /\ pc[j] = "idle"

(* Mutant: OnDispatched does not count the task.                           *)
PushJobUncounted(j) ==
  /\ OwnerAt(j, "free")
  /\ mIsRunning
  /\ pushes[j] < MaxPushes
  /\ pushes' = [pushes EXCEPT ![j] = @ + 1]
  /\ mState' = [mState EXCEPT ![j] = "Active"]
  /\ late' = [late EXCEPT ![j] = 0]
  /\ ownerPc' = [ownerPc EXCEPT ![j] = "dispatched"]
  /\ UNCHANGED <<due, mNumTasksInProgress, queueVars, mIsStarving, mIsRunning, dispatcherVars,
                 pc, working>>

(* PushJob: Restore and OnDispatched, while nobody else has the job ...    *)
PushJob(j) ==
  /\ OwnerAt(j, "free")
  /\ mIsRunning
  /\ pushes[j] < MaxPushes
  /\ pushes' = [pushes EXCEPT ![j] = @ + 1]
  /\ mState' = [mState EXCEPT ![j] = "Active"]
  /\ mNumTasksInProgress' = Added(mNumTasksInProgress, j)
  /\ late' = [late EXCEPT ![j] = 0]
  /\ ownerPc' = [ownerPc EXCEPT ![j] = "dispatched"]
  /\ UNCHANGED <<due, queueVars, mIsStarving, mIsRunning, dispatcherVars, pc, working>>

(* ... then it is queued, and the dispatcher signalled.                    *)
AddToInQueue(j) ==
  /\ OwnerAt(j, "dispatched")
  /\ mInQueue' = Added(mInQueue, j)
  /\ ownerPc' = [ownerPc EXCEPT ![j] = "using"]
  /\ pc' = [pc EXCEPT ![j] = "signal"]
  /\ UNCHANGED <<jobVars, mTimedQueue, pooled, queueZero, mIsStarving, mIsRunning, dispatcherVars,
                 working, pushes>>

(* Mutant: the dispatcher is not told of the new time.                     *)
RescheduleImmediatelySilent(j) ==
  /\ OwnerAt(j, "using")
  /\ mIsRunning
  /\ due' = [due EXCEPT ![j] = TRUE]
  /\ hurried' = TRUE
  /\ UNCHANGED <<mState, mNumTasksInProgress, late, queueVars, mIsStarving, mIsRunning,
                 gSharedDispatcher, dispatcherPc, toVisit, ready, threadVars>>

(* The timer is reset, wherever the job is, and the dispatcher signalled.  *)
RescheduleImmediately(j) ==
  /\ OwnerAt(j, "using")
  /\ mIsRunning
  /\ due' = [due EXCEPT ![j] = TRUE]
  /\ hurried' = TRUE
  /\ pc' = [pc EXCEPT ![j] = "signal"]
  /\ UNCHANGED <<mState, mNumTasksInProgress, late, queueVars, mIsStarving, mIsRunning,
                 gSharedDispatcher, dispatcherPc, toVisit, ready, working, ownerPc, pushes>>

(* Cancel, and WaitUntilDone's: it waits while a task is left.             *)
CancelFrom(j, place, failed) ==
  /\ OwnerAt(j, place)
  /\ mState' = [mState EXCEPT ![j] = Cancelled(j)]
  /\ ownerPc' = [ownerPc EXCEPT ![j] = IF mNumTasksInProgress[j] = 0 THEN "free" ELSE failed]
  /\ UNCHANGED <<mNumTasksInProgress, due, late, queueVars, mIsStarving, mIsRunning,
                 dispatcherVars, working, pushes>>

Cancel(j) == CancelFrom(j, "using", "using") /\ UNCHANGED pc

StartWait(j) ==
  /\ OwnerAt(j, "using")
  /\ ownerPc' = [ownerPc EXCEPT ![j] = "wait"]
  /\ UNCHANGED <<jobVars, queueVars, mIsStarving, mIsRunning, dispatcherVars, pc, working, pushes>>

WaitUntilDone(j) ==
  /\ CancelFrom(j, "wait", "poll0")
  /\ pc' = [pc EXCEPT ![j] = IF mNumTasksInProgress[j] = 0 THEN "idle" ELSE "signal"]

(* Wait looks whether the job is done before it visits a queue.            *)
PollDone(j) ==
  /\ pc[j] = "idle"
  /\ \E poll \in {<<"poll0", "help0">>, <<"poll", "help">>} :
       /\ ownerPc[j] = poll[1]
       /\ ownerPc' = [ownerPc EXCEPT ![j] = IF mNumTasksInProgress[j] = 0 THEN "wait" ELSE poll[2]]
  /\ UNCHANGED <<jobVars, queueVars, mIsStarving, mIsRunning, dispatcherVars, pc, working, pushes>>

(* DoJobWork found its queue empty: on to the next one, and after the last *)
(* to queue 0 again.  It looks into each with its lock, but one behind it  *)
(* may get a JobWork meanwhile.                                            *)
FindNoWork(j) ==
  /\ \/ /\ OwnerAt(j, "help0")
        /\ queueZero = {}
        /\ ownerPc' = [ownerPc EXCEPT ![j] = "poll"]
     \/ /\ OwnerAt(j, "help")
        /\ ownerPc' = [ownerPc EXCEPT ![j] = "poll0"]
  /\ UNCHANGED <<jobVars, queueVars, mIsStarving, mIsRunning, dispatcherVars, pc, working, pushes>>

Destroy(j) ==
  /\ OwnerAt(j, "free")
  /\ ownerPc' = [ownerPc EXCEPT ![j] = "destroyed"]
  /\ UNCHANGED <<jobVars, queueVars, mIsStarving, mIsRunning, dispatcherVars, pc, working, pushes>>

--------------------------------------------------------------------------------
(* Threads that run jobs: those of the pool, and owners that wait          *)

(* Where DoJobWork of an owner looks for the JobWork of j, and where the   *)
(* owner goes from there: to the same queue once more.                     *)
HelpPlace(j) == IF j \in queueZero THEN "help0" ELSE "help"
PollPlace(j) == IF j \in queueZero THEN "poll0" ELSE "poll"

StartWork(t, j) ==
  /\ pc[t] = "idle"
  /\ t \in Jobs => ownerPc[t] = HelpPlace(j)
  /\ pooled[j] > 0
  /\ ownerPc' = [o \in Jobs |-> IF o = t THEN PollPlace(j) ELSE ownerPc[o]]
  /\ pooled' = Taken(pooled, j)
  /\ queueZero' = queueZero \ {j}
  /\ pc' = [pc EXCEPT ![t] = "run"]
  /\ working' = [working EXCEPT ![t] = j]
  /\ late' = [late EXCEPT ![j] = IF mState[j] = "Stopping" THEN @ + 1 ELSE @]
  /\ UNCHANGED <<mState, mNumTasksInProgress, due, mInQueue, mTimedQueue, mIsStarving,
                 mIsRunning, dispatcherVars, pushes>>

(* RunTimedTask may cancel its own job; the timer is set forward, maybe    *)
(* not far enough.  The loop in which a PeriodicJob catches up on missed   *)
(* intervals is one action: it looks at nothing another thread changes.    *)
RunTimedTask(t) ==
  LET j == working[t] IN
  /\ pc[t] = "run"
  /\ pc' = [pc EXCEPT ![t] = "ran"]
  /\ \E state \in {mState[j], Cancelled(j)} : mState' = [mState EXCEPT ![j] = state]
  /\ \E isLate \in BOOLEAN : due' = [due EXCEPT ![j] = isLate]
  /\ UNCHANGED <<mNumTasksInProgress, late, queueVars, mIsStarving, mIsRunning,
                 dispatcherVars, working, ownerPc, pushes>>

(* Mutant: Reschedule leaves the dispatcher asleep.                        *)
RescheduleSilent(t) ==
  /\ pc[t] = "ran"
  /\ working[t] \notin OneShots
  /\ gSharedDispatcher
  /\ mInQueue' = Added(mInQueue, working[t])
  /\ working' = [working EXCEPT ![t] = None]
  /\ pc' = [pc EXCEPT ![t] = "idle"]
  /\ UNCHANGED <<jobVars, mTimedQueue, pooled, queueZero, mIsStarving, mIsRunning, dispatcherVars,
                 ownerPc, pushes>>

(* Mutant: Reschedule restores the job, as PushJob does.                   *)
RescheduleRestores(t) ==
  /\ pc[t] = "ran"
  /\ working[t] \notin OneShots
  /\ gSharedDispatcher
  /\ mInQueue' = Added(mInQueue, working[t])
  /\ mState' = [mState EXCEPT ![working[t]] = "Active"]
  /\ working' = [working EXCEPT ![t] = None]
  /\ pc' = [pc EXCEPT ![t] = "signal"]
  /\ UNCHANGED <<mNumTasksInProgress, due, late, mTimedQueue, pooled, queueZero, mIsStarving,
                 mIsRunning, dispatcherVars, ownerPc, pushes>>

(* Without a dispatcher it would call a method of a null pointer.          *)
Reschedule(t) ==
  /\ pc[t] = "ran"
  /\ working[t] \notin OneShots
  /\ gSharedDispatcher
  /\ mInQueue' = Added(mInQueue, working[t])
  /\ working' = [working EXCEPT ![t] = None]
  /\ pc' = [pc EXCEPT ![t] = "signal"]
  /\ UNCHANGED <<jobVars, mTimedQueue, pooled, queueZero, mIsStarving, mIsRunning, dispatcherVars,
                 ownerPc, pushes>>

FinishOneShot(t) ==
  /\ pc[t] = "ran"
  /\ working[t] \in OneShots
  /\ OnRemoved(working[t])
  /\ working' = [working EXCEPT ![t] = None]
  /\ pc' = [pc EXCEPT ![t] = "idle"]
  /\ UNCHANGED <<queueVars, mIsStarving, mIsRunning, dispatcherVars, ownerPc, pushes>>

--------------------------------------------------------------------------------
(* The dispatcher thread                                                   *)

(* Mutant: mIsRunning is not looked at.                                    *)
TryWaitUntilStopped ==
  /\ dispatcherPc = "wait"
  /\ dispatcherPc' \in IF mIsStarving THEN {"sleep", "drain"} ELSE {"drain"}
  /\ mIsStarving' = TRUE
  /\ UNCHANGED <<jobVars, queueVars, mIsRunning, gSharedDispatcher, scanVars, threadVars>>

(* TryWaitUntil: sleep unless it was signalled, stopped or mNextUpdate is  *)
(* past; whoever goes on is not starving, and starts to starve again.      *)
TryWaitUntil ==
  /\ dispatcherPc = "wait"
  /\ \/ /\ mIsStarving /\ ~mIsRunning
        /\ dispatcherPc' = "exit"
     \/ /\ mIsStarving /\ mIsRunning
        /\ dispatcherPc' \in {"sleep", "drain"}
     \/ /\ ~mIsStarving
        /\ dispatcherPc' = "drain"
  /\ mIsStarving' = TRUE
  /\ UNCHANGED <<jobVars, queueVars, mIsRunning, gSharedDispatcher, scanVars, threadVars>>

TimeIsUp ==
  /\ dispatcherPc = "sleep"
  /\ dispatcherPc' = "woken"
  /\ UNCHANGED <<jobVars, queueVars, mIsStarving, mIsRunning, gSharedDispatcher, scanVars,
                 threadVars>>

LeaveWait ==
  /\ dispatcherPc = "woken"
  /\ mIsStarving' = TRUE
  /\ dispatcherPc' = "drain"
  /\ UNCHANGED <<jobVars, queueVars, mIsRunning, gSharedDispatcher, scanVars, threadVars>>

dispatcherRest == <<due, late, pooled, queueZero, mIsStarving, mIsRunning, dispatcherVars,
                    threadVars>>

(* Mutant: a job that is not active is dropped.                            *)
DequeueDrops(j) ==
  /\ dispatcherPc = "drain"
  /\ mInQueue[j] > 0
  /\ mInQueue' = Taken(mInQueue, j)
  /\ mTimedQueue' = IF mState[j] = "Active" THEN Added(mTimedQueue, j) ELSE mTimedQueue
  /\ UNCHANGED <<mState, mNumTasksInProgress, dispatcherRest>>

(* Mutant: a job that was removed goes into mTimedQueue all the same.      *)
DequeueAddsAll(j) ==
  /\ dispatcherPc = "drain"
  /\ mInQueue[j] > 0
  /\ mInQueue' = Taken(mInQueue, j)
  /\ mTimedQueue' = Added(mTimedQueue, j)
  /\ IF mState[j] = "Active" THEN UNCHANGED <<mState, mNumTasksInProgress>> ELSE OnRemoved(j)
  /\ UNCHANGED dispatcherRest

Dequeue(j) ==
  /\ dispatcherPc = "drain"
  /\ mInQueue[j] > 0
  /\ mInQueue' = Taken(mInQueue, j)
  /\ IF mState[j] = "Active"
       THEN mTimedQueue' = Added(mTimedQueue, j) /\ UNCHANGED <<mState, mNumTasksInProgress>>
       ELSE OnRemoved(j) /\ UNCHANGED mTimedQueue
  /\ UNCHANGED dispatcherRest

InQueueIsEmpty == \A j \in Jobs : mInQueue[j] = 0

(* The clock is read once for the whole loop.                              *)
StartScan ==
  /\ dispatcherPc = "drain"
  /\ InQueueIsEmpty
  /\ dispatcherPc' = "scan"
  /\ toVisit' = {j \in Jobs : mTimedQueue[j] > 0}
  /\ ready' = {j \in toVisit' : due[j]}
  /\ hurried' = FALSE
  /\ UNCHANGED <<jobVars, queueVars, mIsStarving, mIsRunning, gSharedDispatcher, threadVars>>

visitRest == <<due, late, mInQueue, mIsStarving, mIsRunning, gSharedDispatcher, dispatcherPc,
               hurried, threadVars>>

(* Mutant: a job that is not due leaves mTimedQueue.                       *)
VisitForgets(j) ==
  /\ dispatcherPc = "scan"
  /\ j \in toVisit
  /\ toVisit' = toVisit \ {j}
  /\ ready' = ready \ {j}
  /\ mTimedQueue' = Taken(mTimedQueue, j)
  /\ \/ mState[j] # "Active" /\ OnRemoved(j) /\ UNCHANGED <<pooled, queueZero>>
     \/ /\ mState[j] = "Active"
        /\ pooled' = IF j \in ready THEN Added(pooled, j) ELSE pooled
        /\ UNCHANGED <<mState, mNumTasksInProgress, queueZero>>
  /\ UNCHANGED visitRest

(* The dispatcher has no queue of its own: it may choose any of them.      *)
PushTask(j) ==
  /\ pooled' = Added(pooled, j)
  /\ queueZero' \in {queueZero, queueZero \cup {j}}

(* Every job of mTimedQueue is removed if it was cancelled, dispatched if  *)
(* it was due, else left for the next round.                               *)
Visit(j) ==
  /\ dispatcherPc = "scan"
  /\ j \in toVisit
  /\ toVisit' = toVisit \ {j}
  /\ ready' = ready \ {j}
  /\ \/ /\ mState[j] # "Active"
        /\ mTimedQueue' = Taken(mTimedQueue, j)
        /\ OnRemoved(j)
        /\ UNCHANGED <<pooled, queueZero>>
     \/ /\ mState[j] = "Active" /\ j \in ready
        /\ mTimedQueue' = Taken(mTimedQueue, j)
        /\ PushTask(j)
        /\ UNCHANGED <<mState, mNumTasksInProgress>>
     \/ /\ mState[j] = "Active" /\ j \notin ready
        /\ UNCHANGED <<mState, mNumTasksInProgress, mTimedQueue, pooled, queueZero>>
  /\ UNCHANGED visitRest

DispatcherGoes(from, to) ==
  /\ dispatcherPc = from
  /\ dispatcherPc' = to
  /\ UNCHANGED <<jobVars, queueVars, mIsStarving, mIsRunning, scanVars, threadVars>>

EndScan == toVisit = {} /\ DispatcherGoes("scan", "wait") /\ UNCHANGED gSharedDispatcher

(* The thread ends: first the pointer goes, then the jobs that are left.   *)
Exit == DispatcherGoes("exit", "flush") /\ gSharedDispatcher' = FALSE

Flush(j) ==
  /\ dispatcherPc = "flush"
  /\ mInQueue[j] > 0
  /\ mInQueue' = Taken(mInQueue, j)
  /\ OnRemoved(j)
  /\ UNCHANGED <<mTimedQueue, pooled, queueZero, mIsStarving, mIsRunning, dispatcherVars, threadVars>>

Flushed ==
  InQueueIsEmpty /\ DispatcherGoes("flush", "flushTimed") /\ UNCHANGED gSharedDispatcher

FlushTimed(j) ==
  /\ dispatcherPc = "flushTimed"
  /\ mTimedQueue[j] > 0
  /\ mTimedQueue' = Taken(mTimedQueue, j)
  /\ OnRemoved(j)
  /\ UNCHANGED <<mInQueue, pooled, queueZero, mIsStarving, mIsRunning, dispatcherVars, threadVars>>

FlushedTimed ==
  /\ \A j \in Jobs : mTimedQueue[j] = 0
  /\ DispatcherGoes("flushTimed", "ended")
  /\ UNCHANGED gSharedDispatcher

(* StopThreads, by the thread that destroys the scheduler.                 *)
Stop ==
  /\ mIsRunning
  /\ StopEarly \/ \A j \in Jobs : ownerPc[j] = "destroyed"
  /\ mIsRunning' = FALSE
  /\ dispatcherPc' = Woken
  /\ UNCHANGED <<jobVars, queueVars, mIsStarving, gSharedDispatcher, scanVars, threadVars>>

--------------------------------------------------------------------------------
OwnerStep(j) ==
  \/ PushJob(j)
  \/ AddToInQueue(j)
  \/ RescheduleImmediately(j)
  \/ Cancel(j)
  \/ StartWait(j)
  \/ WaitUntilDone(j)
  \/ PollDone(j)
  \/ FindNoWork(j)
  \/ Destroy(j)

ThreadStep(t) ==
  \/ SignalCheck(t)
  \/ SignalLocked(t)
  \/ RunTimedTask(t)
  \/ Reschedule(t)
  \/ FinishOneShot(t)

DispatcherStep ==
  \/ TryWaitUntil
  \/ LeaveWait
  \/ \E j \in Jobs : Dequeue(j) \/ Visit(j) \/ Flush(j) \/ FlushTimed(j)
  \/ StartScan
  \/ EndScan
  \/ Exit
  \/ Flushed
  \/ FlushedTimed

Next ==
  \/ \E j \in Jobs : OwnerStep(j) \/ TimerRunsDown(j)
  \/ \E t \in Threads : ThreadStep(t) \/ \E j \in Jobs : StartWork(t, j)
  \/ DispatcherStep
  \/ TimeIsUp
  \/ Stop

Spec == Init /\ [][Next]_vars

(* Threads that can run are scheduled, RunTimedTask returns, and the sleep *)
(* of the dispatcher ends: mNextUpdate is at most a minute ahead.  Timers  *)
(* run down.  The workers run what is in their queues (FirstQueueIsServed  *)
(* of module WorkerPool), but need not come to queue 0 (QueueZeroIsServed).*)
(* Nobody has to push or cancel, but an owner in WaitUntilDone goes on.    *)
Fairness ==
  /\ WF_vars(DispatcherStep)
  /\ WF_vars(TimeIsUp)
  /\ \A t \in Threads : WF_vars(ThreadStep(t))
  /\ \A j \in Jobs : WF_vars(TimerRunsDown(j))
  /\ \A j \in Jobs : WF_vars(\E t \in Workers : j \notin queueZero /\ StartWork(t, j))
  /\ \A j \in Jobs : WF_vars(\/ AddToInQueue(j)
                           \/ WaitUntilDone(j)
                           \/ PollDone(j)
                           \/ FindNoWork(j)
                           \/ \E k \in Jobs : StartWork(j, k))

FairSpec == Spec /\ Fairness

--------------------------------------------------------------------------------
(* Properties                                                              *)

Holders(j) == {t \in Threads : working[t] = j}

(* A job that was pushed is in one place only, and the count says so: in   *)
(* mInQueue, in mTimedQueue, in the pool, with the one thread that runs it *)
(* or with its owner.  So its task never runs twice at a time, OnRemoved   *)
(* finds a task to remove, and Restore an inactive job.                    *)
OnePlace ==
  \A j \in Jobs :
    /\ mNumTasksInProgress[j] = mInQueue[j] + mTimedQueue[j] + pooled[j]
                                + Cardinality(Holders(j))
                                + IF ownerPc[j] = "dispatched" THEN 1 ELSE 0
    /\ mNumTasksInProgress[j] \in 0..1
    /\ mState[j] = "Inactive" <=> mNumTasksInProgress[j] = 0

(* "Still running. Call WaitUntilDone() in destructor" (TimedJob.cpp:152): *)
(* an owner that does leaves nobody behind who would use the job.          *)
DestroyedUnused ==
  \A j \in Jobs : ownerPc[j] = "destroyed" =>
    mInQueue[j] = 0 /\ mTimedQueue[j] = 0 /\ pooled[j] = 0 /\ Holders(j) = {}

(* The dispatcher does not sleep on a job in mInQueue, nor until an old    *)
(* time when RescheduleImmediately moved a job forward, in whatever queue, *)
(* after it had read the clock, unless somebody is about to signal it,     *)
(* although Signal reads mIsStarving without the lock.                     *)
NoStaleSleep ==
  dispatcherPc = "sleep" =>
    \/ InQueueIsEmpty /\ ~hurried
    \/ \E t \in Threads : pc[t] \in {"signal", "lock"}

(* After Cancel a thread begins DoWork of the job at most once more,       *)
(* wherever the job was.                                                   *)
CancelLetsOneRunBegin == \A j \in Jobs : late[j] <= 1

(* WaitUntilDone returns, unless the dispatcher is stopped meanwhile.      *)
WaitReturns ==
  \A j \in Jobs : ownerPc[j] \in Waiting ~> ownerPc[j] = "free" \/ ~mIsRunning

Running(j) == \E t \in Threads : working[t] = j /\ pc[t] = "run"

(* A job that stays active is run again and again, unless the dispatcher   *)
(* put it into queue 0 when every worker was about to sleep: there it may  *)
(* rest for ever (ThreadPool.cpp:468), and in no other place.              *)
ActiveJobRuns ==
  \A j \in Jobs :
    []<>(mState[j] # "Active" \/ Running(j) \/ ~mIsRunning) \/ <>[](j \in queueZero)

(* StopThreads returns from the Join of the dispatcher thread, unless a    *)
(* job whose every run is late keeps clearing mIsStarving: TryWaitUntil    *)
(* looks at mIsRunning only when it is set.                                *)
StopEnds ==
  <>[](\A j \in Jobs : ~Running(j)) => (~mIsRunning ~> dispatcherPc = "ended")

(* "Synchronized stopped" (JobDispatcher.cpp:139): no thread puts a job    *)
(* back after the dispatcher was stopped.                                  *)
RescheduledWhileActive == [][\A t \in Threads : Reschedule(t) => mIsRunning]_vars
================================================================================
