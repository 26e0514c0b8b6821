--------------------------------- MODULE IOPool ---------------------------------
(***************************************************************************)
(* The IO threads of the pool (jobs/ThreadPool.cpp: PushIOTask,            *)
(* LongJobWorker, the IO half of StopThreads; jobs/JobQueue.h:             *)
(* JobQueueSynchronization).  They share one queue, whose tasks are a      *)
(* number here, and are started one by one by the pushes that find no      *)
(* thread waiting.  A task may push others: a file that is read writes to  *)
(* the log, which is another IO task.                                      *)
(*                                                                         *)
(* The list, the stop and the number of waiting threads are under the lock *)
(* of one ThreadSynchronizer, so a section is one action.  The pool asks   *)
(* for the stop, joins the threads that push from outside, and then the IO *)
(* threads that there are when it begins.                                  *)
(***************************************************************************)
EXTENDS Integers

CONSTANTS
  IOPushers,  \* threads outside that push IO tasks
  IOThreads,  \* the places of mThreads, MaxIOThreads of them
  MaxPushes   \* bound: tasks that are pushed

ASSUME IOPushesAssumption == MaxPushes \in Nat

VARIABLES
  mTasks,      \* the tasks in the queue
  mIsRunning,  \* of the queue
  ioPc,        \* ioPc[p]: where thread p, of either kind, is in PushIOTask
  threadPc,    \* threadPc[t]: where IO thread t is, see ThreadPcs
  stopPc,      \* "no", "asked": the pushers are joined, "join", "returned"
  joining,     \* the threads that StopThreads has still to join
  ioPushed,    \* tasks pushed
  startedLate, \* history: a thread was started when the joins had begun
  notStarted   \* history: all threads had ended and a push could start none

ioVars == <<mTasks, mIsRunning, ioPc, threadPc, stopPc, joining, ioPushed, startedLate, notStarted>>

(* "none": not in mThreads; "take": about to look at the list; "run": in a *)
(* task; "wait": found the list empty; "sleep", "woken": in the condition  *)
(* variable, and notified.                                                 *)
ThreadPcs == {"none", "take", "run", "wait", "sleep", "woken", "ended"}

(* "size": no thread was waiting, about to read the size of mThreads;      *)
(* "start": it was below the limit, about to lock.                         *)
IOPusherPcs == {"idle", "size", "start"}

Callers == IOPushers \cup IOThreads

IOTypeOK ==
  /\ mTasks \in Nat
  /\ mIsRunning \in BOOLEAN
  /\ ioPc \in [Callers -> IOPusherPcs]
  /\ threadPc \in [IOThreads -> ThreadPcs]
  /\ stopPc \in {"no", "asked", "join", "returned"}
  /\ joining \subseteq IOThreads
  /\ ioPushed \in 0..MaxPushes
  /\ startedLate \in BOOLEAN
  /\ notStarted \in BOOLEAN

IOInit ==
  /\ mTasks = 0
  /\ mIsRunning = TRUE
  /\ ioPc = [p \in Callers |-> "idle"]
  /\ threadPc = [t \in IOThreads |-> "none"]
  /\ stopPc = "no"
  /\ joining = {}
  /\ ioPushed = 0
  /\ startedLate = FALSE
  /\ notStarted = FALSE

HasRoom == \E t \in IOThreads : threadPc[t] = "none"
AllEnded == \A t \in IOThreads : threadPc[t] \in {"none", "ended"}

--------------------------------------------------------------------------------
(* PushIOTask                                                              *)

MayPush(p) ==
  /\ ioPc[p] = "idle"
  /\ ioPushed < MaxPushes
  /\ IF p \in IOThreads THEN threadPc[p] = "run" ELSE stopPc \in {"no", "asked"}

(* A thread that was notified and has not got the lock yet counts as       *)
(* waiting, so a second task may go without a notification of its own.     *)
PushTaskAndWakeUp(p) ==
  /\ MayPush(p)
  /\ ioPushed' = ioPushed + 1
  /\ mTasks' = mTasks + 1
  /\ \/ /\ \A t \in IOThreads : threadPc[t] \notin {"sleep", "woken"}
        /\ ioPc' = [ioPc EXCEPT ![p] = "size"]
        /\ UNCHANGED threadPc
     \/ /\ \A t \in IOThreads : threadPc[t] # "sleep"
        /\ \E t \in IOThreads : threadPc[t] = "woken"
        /\ UNCHANGED <<ioPc, threadPc>>
     \/ \E t \in IOThreads :
          /\ threadPc[t] = "sleep"
          /\ threadPc' = [threadPc EXCEPT ![t] = "woken"]
          /\ UNCHANGED ioPc
  /\ UNCHANGED <<mIsRunning, stopPc, joining, startedLate, notStarted>>

SizeCheck(p) ==
  /\ ioPc[p] = "size"
  /\ ioPc' = [ioPc EXCEPT ![p] = IF HasRoom THEN "start" ELSE "idle"]
  /\ notStarted' = (notStarted \/ (~HasRoom /\ AllEnded))
  /\ UNCHANGED <<mTasks, mIsRunning, threadPc, stopPc, joining, ioPushed, startedLate>>

(* Under the lock: start a thread if there still is room; it may fail.     *)
LongJobWorker(p) ==
  /\ ioPc[p] = "start"
  /\ ioPc' = [ioPc EXCEPT ![p] = "idle"]
  /\ \/ /\ notStarted' = (notStarted \/ AllEnded)
        /\ UNCHANGED <<threadPc, startedLate>>
     \/ \E t \in IOThreads :
          /\ threadPc[t] = "none"
          /\ threadPc' = [threadPc EXCEPT ![t] = "take"]
          /\ startedLate' = (startedLate \/ stopPc \in {"join", "returned"})
          /\ UNCHANGED notStarted
  /\ UNCHANGED <<mTasks, mIsRunning, stopPc, joining, ioPushed>>

--------------------------------------------------------------------------------
(* An IO thread                                                            *)

ThreadGoes(t, from, to) ==
  /\ threadPc[t] = from
  /\ threadPc' = [threadPc EXCEPT ![t] = to]
  /\ UNCHANGED <<mIsRunning, ioPc, stopPc, joining, ioPushed, startedLate, notStarted>>

LongTaskRun(t) ==
  /\ ThreadGoes(t, "take", IF mTasks > 0 THEN "run" ELSE "wait")
  /\ mTasks' = IF mTasks > 0 THEN mTasks - 1 ELSE mTasks

EndTask(t) == ioPc[t] = "idle" /\ ThreadGoes(t, "run", "take") /\ UNCHANGED mTasks

(* Mutant: Wait looks at mIsRunning first.                                 *)
WaitStopFirst(t) ==
  /\ ThreadGoes(t, "wait", IF ~mIsRunning THEN "ended" ELSE IF mTasks > 0 THEN "take" ELSE "sleep")
  /\ UNCHANGED mTasks

(* Mutant: Wait does not look at the list again.                           *)
WaitBlind(t) ==
  ThreadGoes(t, "wait", IF mIsRunning THEN "sleep" ELSE "ended") /\ UNCHANGED mTasks

(* Wait: a task that came meanwhile goes before the stop.                  *)
Wait(t) ==
  /\ ThreadGoes(t, "wait", IF mTasks > 0 THEN "take" ELSE IF mIsRunning THEN "sleep" ELSE "ended")
  /\ UNCHANGED mTasks

IOWoken(t) == ThreadGoes(t, "woken", "take") /\ UNCHANGED mTasks

IOSpuriousWake(t) == ThreadGoes(t, "sleep", "woken") /\ UNCHANGED mTasks

--------------------------------------------------------------------------------
(* StopThreads                                                             *)

StopGoes(from, to) ==
  /\ stopPc = from
  /\ stopPc' = to
  /\ UNCHANGED <<mTasks, ioPc, ioPushed, startedLate, notStarted>>

(* Mutant: the threads are not notified.                                   *)
StopSilent ==
  StopGoes("no", "asked") /\ mIsRunning' = FALSE /\ UNCHANGED <<threadPc, joining>>

IOStop ==
  /\ StopGoes("no", "asked")
  /\ mIsRunning' = FALSE
  /\ threadPc' = [t \in IOThreads |-> IF threadPc[t] = "sleep" THEN "woken" ELSE threadPc[t]]
  /\ UNCHANGED joining

(* The threads that push have ended.  The second Stop changes nothing: no  *)
(* thread has gone to sleep since the first.                               *)
StartJoins ==
  /\ StopGoes("asked", "join")
  /\ \A p \in IOPushers : ioPc[p] = "idle"
  /\ joining' = {t \in IOThreads : threadPc[t] # "none"}
  /\ UNCHANGED <<mIsRunning, threadPc>>

Join(t) ==
  /\ StopGoes("join", "join")
  /\ t \in joining
  /\ threadPc[t] = "ended"
  /\ joining' = joining \ {t}
  /\ UNCHANGED <<mIsRunning, threadPc>>

StopThreads == StopGoes("join", "returned") /\ joining = {} /\ UNCHANGED <<mIsRunning, threadPc, joining>>

--------------------------------------------------------------------------------
PusherStep(p) == SizeCheck(p) \/ LongJobWorker(p)

ThreadStep(t) == LongTaskRun(t) \/ EndTask(t) \/ Wait(t) \/ IOWoken(t)

StopStep == StartJoins \/ (\E t \in IOThreads : Join(t)) \/ StopThreads

IONext ==
  \/ \E p \in Callers : PushTaskAndWakeUp(p) \/ PusherStep(p)
  \/ \E t \in IOThreads : ThreadStep(t) \/ IOSpuriousWake(t)
  \/ IOStop
  \/ StopStep

IOSpec == IOInit /\ [][IONext]_ioVars

--------------------------------------------------------------------------------
(* Properties                                                              *)

(* A task in the queue has a thread that is to look at the list, or a push *)
(* that is about to start one, although a notified thread counts as        *)
(* waiting for the next push too; unless a push could start none: the      *)
(* start failed, or mThreads was full of threads that the stop had ended.  *)
IOTaskHasThread ==
  mTasks > 0 =>
    \/ \E t \in IOThreads : threadPc[t] \in {"take", "run", "wait", "woken"}
    \/ \E p \in Callers : ioPc[p] \in {"size", "start"}
    \/ notStarted

(* IO tasks that were pushed before the stop are run: when StopThreads     *)
(* returns none is left and every thread has ended, unless a task that was *)
(* still running started a thread that StopThreads does not know of.       *)
StopDrainsIO ==
  stopPc = "returned" /\ ~startedLate /\ ~notStarted => mTasks = 0 /\ AllEnded

(* StopThreads returns from its joins of the IO threads.                   *)
StopEndsIO == stopPc = "asked" ~> stopPc = "returned"
================================================================================
