--------------------------------- MODULE Tracing ---------------------------------
(***************************************************************************)
(* The log (tracing/Tracing.cpp).  A message is counted in gTotalMessages, *)
(* put into mQueue and printed by a Flush: of its own thread, when there   *)
(* is no scheduler or it is an error, or of LogJob, a RepeatableIOJob      *)
(* (module RepeatableIOJob, of which this module uses the promise: a round *)
(* begins after each Execute, and rounds do not overlap).  A scheduler     *)
(* that is destroyed calls FlushUntilEmpty, which goes on until the count  *)
(* is zero; the count is read and changed without mFlushMutex.             *)
(* A thread that logs reads gSharedScheduler twice; here both in one step. *)
(***************************************************************************)
EXTENDS Integers, FiniteSets

CONSTANTS
  Loggers,     \* threads that log, one message each, which has their name
  LogIOThread, \* the thread that runs LogJob
  Destroyer,   \* the thread that destroys the scheduler
  NoThread

ASSUME TraceAssumption ==
  /\ IsFiniteSet(Loggers)
  /\ LogIOThread \notin Loggers /\ Destroyer \notin Loggers /\ LogIOThread # Destroyer
  /\ NoThread \notin Loggers \cup {LogIOThread, Destroyer}

VARIABLES
  gTotalMessages,   \* size_t; the difference from Int shows only in that -1 is large
  mQueue,           \* the messages that are queued
  mFlushMutex,      \* its holder
  printed,          \* the messages that have been printed
  gSharedScheduler, \* TRUE while it is not null
  logAsked,         \* LogJob is to run again
  logPc,            \* where each thread is
  totalReceived     \* a local of Flush and of FlushUntilEmpty

traceVars ==
  <<gTotalMessages, mQueue, mFlushMutex, printed, gSharedScheduler, logAsked, logPc,
    totalReceived>>

LogThreads == Loggers \cup {LogIOThread, Destroyer}

LogPcs == {"idle", "counted", "enqueued", "lock", "dequeue", "subtract", "check", "done"}

TraceTypeOK ==
  /\ gTotalMessages \in Int
  /\ mQueue \subseteq Loggers
  /\ mFlushMutex \in LogThreads \cup {NoThread}
  /\ printed \subseteq Loggers
  /\ gSharedScheduler \in BOOLEAN
  /\ logAsked \in BOOLEAN
  /\ logPc \in [LogThreads -> LogPcs]
  /\ totalReceived \in [LogThreads -> Nat]

TraceInit ==
  /\ gTotalMessages = 0
  /\ mQueue = {}
  /\ mFlushMutex = NoThread
  /\ printed = {}
  /\ gSharedScheduler = TRUE
  /\ logAsked = FALSE
  /\ logPc = [t \in LogThreads |-> "idle"]
  /\ totalReceived = [t \in LogThreads |-> 0]

Goes(t, from, to) ==
  /\ logPc[t] = from
  /\ logPc' = [logPc EXCEPT ![t] = to]

--------------------------------------------------------------------------------
(* Mutant: the message is counted when it is in the queue.                 *)
LogEnqueuedFirst(l) ==
  /\ \/ Goes(l, "idle", "counted") /\ mQueue' = mQueue \cup {l} /\ UNCHANGED gTotalMessages
     \/ /\ Goes(l, "counted", "enqueued")
        /\ gTotalMessages' = gTotalMessages + 1
        /\ UNCHANGED mQueue
  /\ UNCHANGED <<mFlushMutex, printed, gSharedScheduler, logAsked, totalReceived>>

(* The end of a log line: the message is counted, then put into the queue. *)
Log(l) ==
  /\ \/ Goes(l, "idle", "counted") /\ gTotalMessages' = gTotalMessages + 1 /\ UNCHANGED mQueue
     \/ /\ Goes(l, "counted", "enqueued")
        /\ mQueue' = mQueue \cup {l}
        /\ UNCHANGED gTotalMessages
  /\ UNCHANGED <<mFlushMutex, printed, gSharedScheduler, logAsked, totalReceived>>

(* An error is flushed by its own thread.                                  *)
FlushOwn(l) ==
  /\ Goes(l, "enqueued", "lock")
  /\ UNCHANGED <<gTotalMessages, mQueue, mFlushMutex, printed, gSharedScheduler, logAsked,
                 totalReceived>>

ExecuteLogJob(l) ==
  /\ gSharedScheduler
  /\ Goes(l, "enqueued", "done")
  /\ logAsked' = TRUE
  /\ UNCHANGED <<gTotalMessages, mQueue, mFlushMutex, printed, gSharedScheduler, totalReceived>>

RunLogJob ==
  /\ logAsked
  /\ Goes(LogIOThread, "idle", "lock")
  /\ logAsked' = FALSE
  /\ UNCHANGED <<gTotalMessages, mQueue, mFlushMutex, printed, gSharedScheduler, totalReceived>>

DestroyScheduler ==
  /\ Goes(Destroyer, "idle", "lock")
  /\ gSharedScheduler' = FALSE
  /\ UNCHANGED <<gTotalMessages, mQueue, mFlushMutex, printed, logAsked, totalReceived>>

(* Flush and FlushUntilEmpty alike: lock, and print what is in the queue.  *)
Lock(t) ==
  /\ mFlushMutex = NoThread
  /\ Goes(t, "lock", "dequeue")
  /\ mFlushMutex' = t
  /\ totalReceived' = [totalReceived EXCEPT ![t] = 0]
  /\ UNCHANGED <<gTotalMessages, mQueue, printed, gSharedScheduler, logAsked>>

DequeueAll(t) ==
  /\ logPc[t] = "dequeue"
  /\ \E message \in mQueue :
       /\ mQueue' = mQueue \ {message}
       /\ printed' = printed \cup {message}
  /\ totalReceived' = [totalReceived EXCEPT ![t] = @ + 1]
  /\ UNCHANGED <<gTotalMessages, mFlushMutex, gSharedScheduler, logAsked, logPc>>

(* FlushUntilEmpty unlocks before it subtracts, Flush after.               *)
FoundEmpty(t) ==
  /\ mQueue = {}
  /\ Goes(t, "dequeue", "subtract")
  /\ mFlushMutex' = IF t = Destroyer THEN NoThread ELSE mFlushMutex
  /\ UNCHANGED <<gTotalMessages, mQueue, printed, gSharedScheduler, logAsked, totalReceived>>

Flush(t) ==
  /\ t # Destroyer
  /\ Goes(t, "subtract", IF t = LogIOThread THEN "idle" ELSE "done")
  /\ gTotalMessages' = gTotalMessages - totalReceived[t]
  /\ mFlushMutex' = NoThread
  /\ UNCHANGED <<mQueue, printed, gSharedScheduler, logAsked, totalReceived>>

(* The same without the lock, then the count is read: again, or return.    *)
FlushUntilEmpty ==
  /\ \/ /\ Goes(Destroyer, "subtract", "check")
        /\ gTotalMessages' = gTotalMessages - totalReceived[Destroyer]
     \/ /\ Goes(Destroyer, "check", IF gTotalMessages = 0 THEN "done" ELSE "lock")
        /\ UNCHANGED gTotalMessages
  /\ UNCHANGED <<mQueue, mFlushMutex, printed, gSharedScheduler, logAsked, totalReceived>>

TraceNext ==
  \/ \E l \in Loggers : Log(l) \/ FlushOwn(l) \/ ExecuteLogJob(l)
  \/ RunLogJob \/ DestroyScheduler \/ FlushUntilEmpty
  \/ \E t \in LogThreads : Lock(t) \/ DequeueAll(t) \/ FoundEmpty(t) \/ Flush(t)

TraceSpec == TraceInit /\ [][TraceNext]_traceVars

--------------------------------------------------------------------------------
(* When FlushUntilEmpty returns, every message whose log line had ended    *)
(* has been printed: also one that another thread took from the queue and  *)
(* one that was counted but not yet in the queue when it looked there.     *)
FlushedIsPrinted ==
  [][Goes(Destroyer, "check", "done") =>
       \A l \in Loggers : logPc[l] # "idle" => l \in printed]_traceVars
================================================================================
