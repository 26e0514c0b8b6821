------------------------------ MODULE WorkerPool ------------------------------
(***************************************************************************)
(* The worker threads of a ThreadPool (jobs/ThreadPool.cpp) and how a push *)
(* finds one that is asleep: RunBlocked and the stealing loop of Worker,   *)
(* PushTask, AddTasks, WakeUp and the Stop of every queue.                 *)
(*                                                                         *)
(* Queues are numbered 0..NumWorkers and worker w owns queue w.  Queue 0   *)
(* belongs to the main thread, which pushes but does not run it: with      *)
(* workers, WorkOnMainThread runs the queue after the last one.  Nobody is *)
(* waiting for a job here, so mCompanionWorkersNeeded is 0 and companion   *)
(* threads sleep (ThreadPool.cpp:376): the workers are all there is.       *)
(*                                                                         *)
(* Module JobQueue has one queue in detail.  Here a task list is a set     *)
(* (either end may be taken), the two locks of a queue are atomic actions  *)
(* again, and mJoblessQueueIndex is left out: it only selects the first    *)
(* queue of a push, which may be any queue but the pusher's own.           *)
(***************************************************************************)
EXTENDS Integers, FiniteSets

CONSTANTS
  NumWorkers, \* mNumWorkers; there is one queue more (mNumWorkerQueues)
  Tasks,      \* the JobWork items that are pushed, each at most once
  Main,       \* the main thread, whose queue index is 0
  Outsiders,  \* pushing threads that own no queue: dispatcher, IO threads
  MaxBatch    \* bound: tasks one AddTasks call pushes

ASSUME NumWorkersAssumption == NumWorkers \in Nat \ {0}
ASSUME BatchAssumption == MaxBatch \in Nat \ {0}

Workers == 1..NumWorkers
Queues == 0..NumWorkers
NoQueueIndex == NumWorkers + 1
Pushers == Workers \cup {Main} \cup Outsiders

(* Thread::GetQueueIndex of a pushing thread.                              *)
OwnQueue(p) == IF p \in Workers THEN p ELSE IF p = Main THEN 0 ELSE NoQueueIndex

Ring(q) == (q + 1) % (NumWorkers + 1)

VARIABLES
  mTasks,       \* mTasks[q]: the tasks in queue q
  mIsStarving,  \* mIsStarving[q]: of its synchronizer
  mIsRunning,   \* mIsRunning[q]: of its synchronizer
  mNumWaiting,  \* JobQueueStats::mNumWaiting
  workerPc,     \* workerPc[w]: where worker w is, see WorkerPcs
  shouldSteal,  \* shouldSteal[w]: the local variable of RunBlocked
  sweep,        \* sweep[w]: the local variables of the stealing loop
  push,         \* push[p]: the local variables of a push
  home,         \* history: the first queue of the push that pushed a task
  skipped       \* history: a thief has found a queue locked and passed it by

vars == <<mTasks, mIsStarving, mIsRunning, mNumWaiting, workerPc, shouldSteal,
          sweep, push, home, skipped>>

(* "own": about to lock its queue; "enter": about to count itself waiting; *)
(* "wait": about to enter TryWait; "parked", "woken": in the condition     *)
(* variable, and back from it; "leave": TryWait returned TRUE; "quit": it  *)
(* returned FALSE; "steal": about to try the next queue of the sweep.      *)
WorkerPcs == {"own", "run", "enter", "wait", "parked", "woken", "leave", "quit",
              "steal", "runStolen", "inactive"}

(* i: the distance of the queue to try, 0 when the loop is over; check,    *)
(* more, dirty, force: checkHint, otherHasMoreTasksLeft, checkHintDirty    *)
(* and forceLocking.                                                       *)
Sweeps == [i : 0..NumWorkers, check : SUBSET Workers, more : BOOLEAN,
           dirty : BOOLEAN, force : BOOLEAN]

FullSweep == [i |-> 1, check |-> Workers, more |-> FALSE, dirty |-> FALSE, force |-> FALSE]
NoSweep == [FullSweep EXCEPT !.i = 0]

(* pc "push": about to push the tasks in rest; "signal": about to read     *)
(* mIsStarving of queue at; "lock": read TRUE; "next": about to read       *)
(* mNumWaiting.  left: numLeftToActivate.                                  *)
Pushes == [pc : {"idle", "push", "signal", "lock", "next"}, first : Queues, at : Queues,
           left : 0..MaxBatch, rest : SUBSET Tasks]

NoPush == [pc |-> "idle", first |-> 0, at |-> 0, left |-> 0, rest |-> {}]

TypeOK ==
  /\ mTasks \in [Queues -> SUBSET Tasks]
  /\ mIsStarving \in [Queues -> BOOLEAN]
  /\ mIsRunning \in [Queues -> BOOLEAN]
  /\ mNumWaiting \in 0..NumWorkers
  /\ workerPc \in [Workers -> WorkerPcs]
  /\ shouldSteal \in [Workers -> BOOLEAN]
  /\ sweep \in [Workers -> Sweeps]
  /\ push \in [Pushers -> Pushes]
  /\ home \in [Tasks -> Queues \cup {NoQueueIndex}]
  /\ skipped \in BOOLEAN

Init ==
  /\ mTasks = [q \in Queues |-> {}]
  /\ mIsStarving = [q \in Queues |-> TRUE]
  /\ mIsRunning = [q \in Queues |-> TRUE]
  /\ mNumWaiting = 0
  /\ workerPc = [w \in Workers |-> "own"]
  /\ shouldSteal = [w \in Workers |-> FALSE]
  /\ sweep = [w \in Workers |-> NoSweep]
  /\ push = [p \in Pushers |-> NoPush]
  /\ home = [t \in Tasks |-> NoQueueIndex]
  /\ skipped = FALSE

InDoWork(w) == workerPc[w] \in {"run", "runStolen"}

Fresh == {t \in Tasks : home[t] = NoQueueIndex}

Batches == {works \in SUBSET Fresh : Cardinality(works) \in 1..MaxBatch}

workerVars == <<mNumWaiting, shouldSteal, sweep>>

--------------------------------------------------------------------------------
(* Pushing                                                                 *)

(* Mutant: WakeUp starts one queue too late.                               *)
AddTaskWakesNext(p, t, q, s) ==
  /\ mTasks' = [mTasks EXCEPT ![q] = @ \cup {t}]
  /\ push' = [push EXCEPT ![p] =
       IF s.rest # {t} THEN [s EXCEPT !.pc = "push", !.at = q, !.rest = @ \ {t}]
                       ELSE [s EXCEPT !.pc = "signal", !.at = Ring(s.first), !.rest = {}]]
  /\ UNCHANGED <<mIsStarving, mIsRunning, workerPc, workerVars, skipped>>

(* Task t goes into queue q; then the rest, or WakeUp from the first queue.*)
AddTask(p, t, q, s) ==
  /\ mTasks' = [mTasks EXCEPT ![q] = @ \cup {t}]
  /\ push' = [push EXCEPT ![p] =
       IF s.rest # {t} THEN [s EXCEPT !.pc = "push", !.at = q, !.rest = @ \ {t}]
                       ELSE [s EXCEPT !.pc = "signal", !.at = s.first, !.rest = {}]]
  /\ UNCHANGED <<mIsStarving, mIsRunning, workerPc, workerVars, skipped>>

(* PushTask and ExecuteOnQueue push one task, AddTasks the batch of a job. *)
StartPush(p, works, t, q) ==
  /\ push[p].pc = "idle"
  /\ p \in Workers => InDoWork(p)
  /\ p = Main => mIsRunning[0]
  /\ q # OwnQueue(p)
  /\ AddTask(p, t, q, [NoPush EXCEPT !.first = q, !.left = Cardinality(works), !.rest = works])
  /\ home' = [u \in Tasks |-> IF u \in works THEN q ELSE home[u]]

(* AddTasks goes on with the next queue that is not its own.               *)
NextQueue(p, q) == IF Ring(q) = OwnQueue(p) THEN Ring(Ring(q)) ELSE Ring(q)

PushNext(p, t) ==
  /\ push[p].pc = "push"
  /\ AddTask(p, t, NextQueue(p, push[p].at), push[p])
  /\ UNCHANGED home

(* WakeUp: Signal reads mIsStarving of the queue without its lock ...      *)
SignalCheck(p) ==
  /\ push[p].pc = "signal"
  /\ push' = [push EXCEPT ![p].pc = IF mIsStarving[push[p].at] THEN "lock" ELSE "next"]
  /\ UNCHANGED <<mTasks, mIsStarving, mIsRunning, workerPc, workerVars, home, skipped>>

(* ... and clears it and wakes the owner, who may be on its way out of the *)
(* condition variable already and is counted as woken again.               *)
IsWaiting(q) == q \in Workers /\ workerPc[q] \in {"parked", "woken"}

Wake(q) == [w \in Workers |-> IF w = q /\ workerPc[w] = "parked" THEN "woken" ELSE workerPc[w]]

(* Mutant: Signal clears the flag and does not notify.                     *)
SignalLockedSilent(p) ==
  /\ push[p].pc = "lock"
  /\ mIsStarving' = [mIsStarving EXCEPT ![push[p].at] = FALSE]
  /\ push' = [push EXCEPT ![p].pc = "next"]
  /\ UNCHANGED <<mTasks, mIsRunning, workerPc, workerVars, home, skipped>>

SignalLocked(p) ==
  /\ push[p].pc = "lock"
  /\ mIsStarving' = [mIsStarving EXCEPT ![push[p].at] = FALSE]
  /\ workerPc' = Wake(push[p].at)
  /\ LET s == push[p] IN
     push' = [push EXCEPT ![p] =
       IF ~IsWaiting(s.at) THEN [s EXCEPT !.pc = "next"]
       ELSE IF s.left = 1 THEN NoPush
       ELSE [s EXCEPT !.pc = "next", !.left = s.left - 1]]
  /\ UNCHANGED <<mTasks, mIsRunning, workerVars, home, skipped>>

(* WakeUp gives up when no worker waits, or after one round of the ring.   *)
NextSignal(p) ==
  /\ push[p].pc = "next"
  /\ LET s == push[p] IN
     push' = [push EXCEPT ![p] =
       IF mNumWaiting = 0 \/ Ring(s.at) = s.first
         THEN NoPush
         ELSE [s EXCEPT !.pc = "signal", !.at = Ring(s.at)]]
  /\ UNCHANGED <<mTasks, mIsStarving, mIsRunning, workerPc, workerVars, home, skipped>>

--------------------------------------------------------------------------------
(* Workers: RunBlocked                                                     *)

GoTo(w, pc) == workerPc' = [workerPc EXCEPT ![w] = pc]

PopOwn(w, t) ==
  /\ workerPc[w] = "own"
  /\ mTasks' = [mTasks EXCEPT ![w] = @ \ {t}]
  /\ GoTo(w, "run")
  /\ UNCHANGED <<mIsStarving, mIsRunning, mNumWaiting, shouldSteal, sweep, push, home, skipped>>

DoneOwn(w) ==
  /\ workerPc[w] = "run"
  /\ push[w].pc = "idle"
  /\ GoTo(w, "own")
  /\ UNCHANGED <<mTasks, mIsStarving, mIsRunning, mNumWaiting, shouldSteal, sweep, push, home, skipped>>

(* The queue is empty: wait the first time, start stealing the next.       *)
FindEmpty(w) ==
  /\ workerPc[w] = "own"
  /\ mTasks[w] = {}
  /\ GoTo(w, IF shouldSteal[w] THEN "steal" ELSE "enter")
  /\ sweep' = [sweep EXCEPT ![w] = IF shouldSteal[w] THEN FullSweep ELSE NoSweep]
  /\ shouldSteal' = [shouldSteal EXCEPT ![w] = FALSE]
  /\ UNCHANGED <<mTasks, mIsStarving, mIsRunning, mNumWaiting, push, home, skipped>>

(* Mutant: the worker is not counted while it waits.                       *)
EnterWaitUncounted(w) ==
  /\ workerPc[w] = "enter"
  /\ GoTo(w, "wait")
  /\ UNCHANGED <<mTasks, mIsStarving, mIsRunning, workerVars, push, home, skipped>>

EnterWait(w) ==
  /\ workerPc[w] = "enter"
  /\ mNumWaiting' = mNumWaiting + 1
  /\ GoTo(w, "wait")
  /\ UNCHANGED <<mTasks, mIsStarving, mIsRunning, shouldSteal, sweep, push, home, skipped>>

(* TryWait, from its lock to the condition variable or to the return.      *)
TryWait(w) ==
  /\ workerPc[w] = "wait"
  /\ GoTo(w, IF ~mIsStarving[w] THEN "leave" ELSE IF mIsRunning[w] THEN "parked" ELSE "quit")
  /\ mIsStarving' = [mIsStarving EXCEPT ![w] = TRUE]
  /\ UNCHANGED <<mTasks, mIsRunning, workerVars, push, home, skipped>>

LeaveTryWait(w) ==
  /\ workerPc[w] = "woken"
  /\ GoTo(w, "leave")
  /\ mIsStarving' = [mIsStarving EXCEPT ![w] = TRUE]
  /\ UNCHANGED <<mTasks, mIsRunning, workerVars, push, home, skipped>>

SpuriousWake(w) ==
  /\ workerPc[w] = "parked"
  /\ GoTo(w, "woken")
  /\ UNCHANGED <<mTasks, mIsStarving, mIsRunning, workerVars, push, home, skipped>>

LeaveWait(w) ==
  /\ workerPc[w] \in {"leave", "quit"}
  /\ mNumWaiting' = mNumWaiting - 1
  /\ GoTo(w, IF workerPc[w] = "leave" THEN "own" ELSE "inactive")
  /\ shouldSteal' = [shouldSteal EXCEPT ![w] = workerPc[w] = "leave"]
  /\ UNCHANGED <<mTasks, mIsStarving, mIsRunning, sweep, push, home, skipped>>

--------------------------------------------------------------------------------
(* Workers: stealing                                                       *)

Least(S) == CHOOSE x \in S : \A y \in S : x <= y

(* The ends of the three nested loops, after queue s.i was tried.          *)
Advance(s) ==
  LET later == {j \in s.check : j > s.i}
  IN IF later # {} THEN [s EXCEPT !.i = Least(later)]
     ELSE IF s.more THEN [s EXCEPT !.i = Least(s.check), !.more = FALSE]
     ELSE IF s.dirty THEN FullSweep
     ELSE NoSweep

Continue(w, s) ==
  /\ sweep' = [sweep EXCEPT ![w] = Advance(s)]
  /\ GoTo(w, IF Advance(s).i = 0 THEN "own" ELSE "steal")

Target(w) == (w + sweep[w].i) % (NumWorkers + 1)

(* Steal finds the queue empty: the hint says not to look there again ...  *)
StealEmpty(w) ==
  /\ workerPc[w] = "steal"
  /\ mTasks[Target(w)] = {}
  /\ Continue(w, [sweep[w] EXCEPT !.check = @ \ {sweep[w].i}])
  /\ UNCHANGED <<mTasks, mIsStarving, mIsRunning, mNumWaiting, shouldSteal, push, home, skipped>>

(* ... finds it locked: the next Steal of this loop waits for the lock ... *)
StealLocked(w) ==
  /\ workerPc[w] = "steal"
  /\ ~sweep[w].force
  /\ Continue(w, [sweep[w] EXCEPT !.force = TRUE])
  /\ skipped' = TRUE
  /\ UNCHANGED <<mTasks, mIsStarving, mIsRunning, mNumWaiting, shouldSteal, push, home>>

(* ... or takes a task; "Waiting" if it left others, else "WentEmpty".     *)
StealTask(w, t) ==
  /\ workerPc[w] = "steal"
  /\ mTasks' = [mTasks EXCEPT ![Target(w)] = @ \ {t}]
  /\ sweep' = [sweep EXCEPT ![w].dirty = TRUE,
                            ![w].more = @ \/ mTasks[Target(w)] # {t}]
  /\ GoTo(w, "runStolen")
  /\ UNCHANGED <<mIsStarving, mIsRunning, mNumWaiting, shouldSteal, push, home, skipped>>

DoneStolen(w) ==
  /\ workerPc[w] = "runStolen"
  /\ push[w].pc = "idle"
  /\ Continue(w, sweep[w])
  /\ UNCHANGED <<mTasks, mIsStarving, mIsRunning, mNumWaiting, shouldSteal, push, home, skipped>>

--------------------------------------------------------------------------------
(* Mutant: the last queue is stopped without waking its owner.             *)
StopLastSilently(q) ==
  /\ push[Main].pc = "idle"
  /\ mIsRunning[q]
  /\ \A r \in Queues : r < q => ~mIsRunning[r]
  /\ mIsRunning' = [mIsRunning EXCEPT ![q] = FALSE]
  /\ workerPc' = IF q = NumWorkers THEN workerPc ELSE Wake(q)
  /\ UNCHANGED <<mTasks, mIsStarving, workerVars, push, home, skipped>>

(* StopThreads stops the queues in order, from the main thread, which then *)
(* pushes no more; tasks that still run may.                               *)
Stop(q) ==
  /\ push[Main].pc = "idle"
  /\ mIsRunning[q]
  /\ \A r \in Queues : r < q => ~mIsRunning[r]
  /\ mIsRunning' = [mIsRunning EXCEPT ![q] = FALSE]
  /\ workerPc' = Wake(q)
  /\ UNCHANGED <<mTasks, mIsStarving, workerVars, push, home, skipped>>

WakeUpStep(p) == SignalCheck(p) \/ SignalLocked(p) \/ NextSignal(p)

PushStep(p) == (\E t \in push[p].rest : PushNext(p, t)) \/ WakeUpStep(p)

WorkerStep(w) ==
  \/ \E t \in mTasks[w] : PopOwn(w, t)
  \/ DoneOwn(w)
  \/ FindEmpty(w)
  \/ EnterWait(w)
  \/ TryWait(w)
  \/ LeaveTryWait(w)
  \/ LeaveWait(w)
  \/ StealEmpty(w)
  \/ StealLocked(w)
  \/ \E t \in mTasks[Target(w)] : StealTask(w, t)
  \/ DoneStolen(w)

Next ==
  \/ \E p \in Pushers :
       \/ \E works \in Batches, q \in Queues : \E t \in works : StartPush(p, works, t, q)
       \/ PushStep(p)
  \/ \E w \in Workers : WorkerStep(w) \/ SpuriousWake(w)
  \/ \E q \in Queues : Stop(q)

Spec == Init /\ [][Next]_vars

(* Threads that can run are scheduled and tasks return from DoWork; no     *)
(* fairness on new pushes, on Stop after its first queue, or on waking for *)
(* no reason.                                                              *)
Fairness ==
  /\ \A w \in Workers : WF_vars(WorkerStep(w))
  /\ \A p \in Pushers : WF_vars(PushStep(p))

FairSpec == Spec /\ Fairness

--------------------------------------------------------------------------------
(* Properties                                                              *)

(* Nothing happens any more until the next push.                           *)
Resting ==
  /\ \A w \in Workers : workerPc[w] = "parked"
  /\ \A p \in Pushers : push[p].pc = "idle"

(* WakeUp stops looking for sleepers when it reads mNumWaiting = 0         *)
(* (ThreadPool.cpp:468): there is none then, although the counter and the  *)
(* condition variable are changed at different times.                      *)
SleepersAreCounted == mNumWaiting = 0 => \A w \in Workers : workerPc[w] # "parked"

(* When all workers sleep, every task that was put into the worker's queue *)
(* where its push began was taken, whatever locks thieves found taken and  *)
(* whoever WakeUp reached before it gave up.                               *)
FirstQueueIsServed ==
  Resting => \A q \in Workers : \A t \in mTasks[q] : home[t] # q

(* "Main thread is also queue 0 worker" (ThreadPool.cpp:416): somebody     *)
(* takes what is pushed into queue 0.                                      *)
QueueZeroIsServed == Resting => mTasks[0] = {}

Taken(t) ==
  /\ home[t] # NoQueueIndex
  /\ \A q \in Queues : t \notin mTasks[q]
  /\ \A p \in Pushers : t \notin push[p].rest

(* A batch whose push began at a worker's queue is taken to the last task, *)
(* by owners or thieves, wherever AddTasks put it, unless the pool is      *)
(* stopped or a thief passed a locked queue.                               *)
BatchIsServed ==
  []<>(\/ ~mIsRunning[0] \/ skipped
       \/ \A t \in Tasks : home[t] \in Workers => Taken(t))

(* StopThreads can join the workers: they end once every queue is stopped. *)
StopEndsWorkers ==
  (\A q \in Queues : ~mIsRunning[q]) ~> (\A w \in Workers : workerPc[w] = "inactive")
================================================================================
