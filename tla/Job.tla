---------------------------------- MODULE Job ----------------------------------
(***************************************************************************)
(* Job (jobs/Job.h, jobs/Job.cpp) and the wait of its base class           *)
(* WaitableJob (jobs/WaitableJob.cpp): a function that threads ask to be   *)
(* run, that runs one call at a time, and that an owner waits for before   *)
(* it destroys it.  Unlike RepeatableIOJob, Wait takes the job's lock      *)
(* before it returns and helps with the work instead of sleeping.          *)
(*                                                                         *)
(* The lock of mSynchronizer is held for one action, except by DoWork      *)
(* between its last notification and its unlock, which is the last time    *)
(* it touches the job.  The queues of the pool appear as the number of     *)
(* JobWork items of this job in them: whoever takes it runs DoWork.  The   *)
(* pool has workers; with none, Wait runs the queues on the main thread.   *)
(***************************************************************************)
EXTENDS Integers, FiniteSets

CONSTANTS
  Callers,      \* threads that call Execute
  Workers,      \* threads of the pool that may run the job
  Owner,        \* the thread that waits for the job and destroys it
  MaxRequests   \* bound: calls of Execute by one caller

ASSUME OwnerAssumption == Owner \notin Workers
ASSUME RequestsAssumption == MaxRequests \in Nat

VARIABLES
  mNumTasksAvailable,   \* WaitableJob: asked for and not started
  mNumTasksInProgress,  \* WaitableJob: asked for and not ended
  queued,               \* how many JobWork of this job are in the queues
  pc,                   \* pc[c]: where caller c is in Execute
  asked,                \* asked[c]: how many requests c has made
  pending,              \* the requests no run of the function has seen
  runPc,                \* runPc[r]: where thread r is in DoWork
  ownerPc,              \* where the owner is in Wait, see OwnerPcs
  closing,              \* TRUE if this Wait is the last, before the destructor
  needed                \* mCompanionWorkersNeeded, as far as the owner adds to it

vars == <<mNumTasksAvailable, mNumTasksInProgress, queued, pc, asked, pending, runPc,
          ownerPc, closing, needed>>

(* Wait may find the JobWork itself and run it.                            *)
Runners == Workers \cup {Owner}

(* "check": about to read mNumTasksInProgress; "lock": about to lock.      *)
CallerPcs == {"idle", "check", "lock"}

(* "start": about to call OnTaskStarted; "run": in mFunction; "ran": about *)
(* to lock; "unlock": notified the waiters, the lock still held.           *)
RunPcs == {"idle", "start", "run", "ran", "unlock"}

(* "wait": at the start of Wait; "block": before BlockingWait(false);      *)
(* "scan", "passed": in the search of DoJobWork, the queue of the latest   *)
(* JobWork still before it or already behind it; "help": in DoWork;        *)
(* "blockEmpty": before BlockingWait(true); "nap": in its wait of 1 ms;    *)
(* "napped": back from it; "sleep": waiting for the end; "woken": back     *)
(* from it; "ioBlock", "ioSleep": the loop of a waiter that is an IO job   *)
(* itself, which does not search.                                          *)
Searching == {"scan", "passed"}
Helping == Searching \cup {"wait", "block", "help", "blockEmpty", "nap", "napped", "sleep", "woken"}
IoWaiting == {"ioBlock", "ioSleep"}
OwnerPcs == Helping \cup IoWaiting \cup {"using", "returned", "destroyed"}

TypeOK ==
  /\ mNumTasksAvailable \in 0..2
  /\ mNumTasksInProgress \in 0..2
  /\ queued \in 0..1
  /\ pc \in [Callers -> CallerPcs]
  /\ asked \in [Callers -> 0..MaxRequests]
  /\ pending \subseteq Callers \X (1..MaxRequests)
  /\ runPc \in [Runners -> RunPcs]
  /\ ownerPc \in OwnerPcs
  /\ closing \in BOOLEAN
  /\ needed \in 0..1

Init ==
  /\ mNumTasksAvailable = 0
  /\ mNumTasksInProgress = 0
  /\ queued = 0
  /\ pc = [c \in Callers |-> "idle"]
  /\ asked = [c \in Callers |-> 0]
  /\ pending = {}
  /\ runPc = [r \in Runners |-> "idle"]
  /\ ownerPc = "using"
  /\ closing = FALSE
  /\ needed = 0

counters == <<mNumTasksAvailable, mNumTasksInProgress>>

LockIsFree == \A r \in Runners : runPc[r] # "unlock"

--------------------------------------------------------------------------------
(* Execute                                                                 *)

(* The caller prepares what the function is to see, and calls Execute.     *)
Request(c) ==
  /\ ~closing
  /\ pc[c] = "idle"
  /\ asked[c] < MaxRequests
  /\ asked' = [asked EXCEPT ![c] = @ + 1]
  /\ pending' = pending \cup {<<c, asked[c] + 1>>}
  /\ pc' = [pc EXCEPT ![c] = "check"]
  /\ UNCHANGED <<counters, queued, runPc, ownerPc, closing, needed>>

(* Mutant: a job with one run under way is not asked for another.          *)
ExecuteCheckBusy(c) ==
  /\ pc[c] = "check"
  /\ pc' = [pc EXCEPT ![c] = IF mNumTasksInProgress < 1 THEN "lock" ELSE "idle"]
  /\ UNCHANGED <<counters, queued, asked, pending, runPc, ownerPc, closing, needed>>

(* It returns at once if two runs are asked for ...                        *)
ExecuteCheck(c) ==
  /\ pc[c] = "check"
  /\ pc' = [pc EXCEPT ![c] = IF mNumTasksInProgress <= 1 THEN "lock" ELSE "idle"]
  /\ UNCHANGED <<counters, queued, asked, pending, runPc, ownerPc, closing, needed>>

(* PushTask chooses a queue, before or behind the owner's search.          *)
Push ==
  /\ queued' = queued + 1
  /\ IF ownerPc \in Searching THEN ownerPc' \in Searching ELSE UNCHANGED ownerPc

(* ... else it looks again under the lock, and the first request pushes.   *)
ExecuteLocked(c) ==
  /\ pc[c] = "lock"
  /\ LockIsFree
  /\ IF mNumTasksInProgress <= 1
       THEN /\ mNumTasksAvailable' = mNumTasksAvailable + 1
            /\ mNumTasksInProgress' = mNumTasksInProgress + 1
            /\ IF mNumTasksInProgress = 0 THEN Push ELSE UNCHANGED <<queued, ownerPc>>
       ELSE UNCHANGED <<counters, queued, ownerPc>>
  /\ pc' = [pc EXCEPT ![c] = "idle"]
  /\ UNCHANGED <<asked, pending, runPc, closing, needed>>

--------------------------------------------------------------------------------
(* DoWork                                                                  *)

TakeWork(r) ==
  /\ runPc[r] = "idle"
  /\ queued > 0
  /\ queued' = queued - 1
  /\ runPc' = [runPc EXCEPT ![r] = "start"]
  /\ UNCHANGED <<counters, pc, asked, pending, closing, needed>>

StartWork(w) == TakeWork(w) /\ UNCHANGED ownerPc

OnTaskStarted(r) ==
  /\ runPc[r] = "start"
  /\ mNumTasksAvailable' = mNumTasksAvailable - 1
  /\ runPc' = [runPc EXCEPT ![r] = "run"]
  /\ UNCHANGED <<mNumTasksInProgress, queued, pc, asked, pending, ownerPc, closing, needed>>

(* The function sees every request made before it.                         *)
RunFunction(r) ==
  /\ runPc[r] = "run"
  /\ pending' = {}
  /\ runPc' = [runPc EXCEPT ![r] = "ran"]
  /\ UNCHANGED <<counters, queued, pc, asked, ownerPc, closing, needed>>

(* The owner's condition variable: notified, and free to lock again.       *)
NotifyOwner == CASE ownerPc = "sleep" -> "woken"
                 [] ownerPc = "nap" -> "napped"
                 [] ownerPc = "ioSleep" -> "ioBlock"
                 [] OTHER -> ownerPc

(* Under the lock: the last run notifies, else the loop goes on.           *)
EndRun(r) ==
  /\ runPc[r] = "ran"
  /\ LockIsFree
  /\ mNumTasksInProgress' = mNumTasksInProgress - 1
  /\ IF mNumTasksInProgress = 1
       THEN /\ ownerPc' = NotifyOwner
            /\ runPc' = [runPc EXCEPT ![r] = "unlock"]
       ELSE /\ runPc' = [runPc EXCEPT ![r] = "start"]
            /\ UNCHANGED ownerPc
  /\ UNCHANGED <<mNumTasksAvailable, queued, pc, asked, pending, closing, needed>>

Unlock(r) ==
  /\ runPc[r] = "unlock"
  /\ runPc' = [runPc EXCEPT ![r] = "idle"]
  /\ UNCHANGED <<counters, queued, pc, asked, pending, ownerPc, closing, needed>>

--------------------------------------------------------------------------------
(* Wait                                                                    *)

jobVars == <<counters, queued, pc, asked, pending, runPc>>

(* Before the last Wait the owner makes sure that no caller is left.       *)
StartWait(last) ==
  /\ ownerPc = "using"
  /\ last => \A c \in Callers : pc[c] = "idle"
  /\ closing' = last
  /\ ownerPc' \in {"wait", "ioBlock"}
  /\ UNCHANGED <<jobVars, needed>>

OwnerGoes(from, to) ==
  /\ ownerPc = from
  /\ ownerPc' = to
  /\ UNCHANGED <<jobVars, closing, needed>>

Return(from) == OwnerGoes(from, IF closing THEN "returned" ELSE "using")

(* Wait reads mNumTasksAvailable without the lock.                         *)
WaitCheck == OwnerGoes("wait", IF mNumTasksAvailable = 0 THEN "block" ELSE "scan")

(* DoJobWork, which looks into every queue with its lock, finds the        *)
(* JobWork and runs it, and searches again unless that was the last queue. *)
FindJobTask == TakeWork(Owner) /\ ownerPc = "scan" /\ ownerPc' = "help"

Helped(next) == runPc[Owner] = "idle" /\ OwnerGoes("help", next)

(* It finds nothing if nothing is left or the JobWork is behind it.        *)
FindNothing ==
  \/ queued = 0 /\ OwnerGoes("scan", "blockEmpty")
  \/ OwnerGoes("passed", "blockEmpty")

(* BlockingWait when tasks are available: search for them, or if the       *)
(* search found none give their owners a millisecond.                      *)
BlockTasksAvailable ==
  /\ LockIsFree
  /\ mNumTasksAvailable > 0
  /\ \/ OwnerGoes("block", "scan")
     \/ OwnerGoes("blockEmpty", "nap")
     \/ OwnerGoes("napped", "scan")

Napped == OwnerGoes("nap", "napped")

(* Mutant: BlockingWait returns without the lock.                          *)
BlockDoneUnlocked(from) ==
  /\ mNumTasksAvailable = 0
  /\ mNumTasksInProgress = 0
  /\ Return(from)

(* BlockingWait when there are none: return when all have ended ...        *)
BlockDone(from) ==
  /\ LockIsFree
  /\ mNumTasksAvailable = 0
  /\ mNumTasksInProgress = 0
  /\ Return(from)

(* Mutant: tasks added before the lock was taken are not looked for.       *)
BlockSleepUnchecked(from) ==
  /\ ownerPc = from
  /\ LockIsFree
  /\ mNumTasksInProgress > 0
  /\ ownerPc' = "sleep"
  /\ needed' = needed + 1
  /\ UNCHANGED <<jobVars, closing>>

(* ... else sleep until they have, with a companion to do other work.      *)
BlockSleep(from) ==
  /\ ownerPc = from
  /\ LockIsFree
  /\ mNumTasksAvailable = 0
  /\ mNumTasksInProgress > 0
  /\ ownerPc' = "sleep"
  /\ needed' = needed + 1
  /\ UNCHANGED <<jobVars, closing>>

(* Mutant: a waiter that was woken does not look at the counters.          *)
WokenReturns ==
  /\ ownerPc = "woken"
  /\ LockIsFree
  /\ needed' = needed - 1
  /\ ownerPc' = IF closing THEN "returned" ELSE "using"
  /\ UNCHANGED <<jobVars, closing>>

Woken ==
  /\ ownerPc = "woken"
  /\ LockIsFree
  /\ needed' = needed - 1
  /\ ownerPc' = IF mNumTasksInProgress = 0 /\ mNumTasksAvailable = 0
                  THEN IF closing THEN "returned" ELSE "using"
                  ELSE "scan"
  /\ UNCHANGED <<jobVars, closing>>

(* An IO job that waits for the job neither helps nor asks for companions. *)
IoBlockDone == BlockDone("ioBlock")

IoBlockSleep ==
  /\ LockIsFree
  /\ mNumTasksInProgress # 0 \/ mNumTasksAvailable # 0
  /\ OwnerGoes("ioBlock", "ioSleep")

SpuriousWake == OwnerGoes("sleep", "woken") \/ OwnerGoes("ioSleep", "ioBlock")

Destroy == OwnerGoes("returned", "destroyed")

--------------------------------------------------------------------------------
RunStep(r) == OnTaskStarted(r) \/ RunFunction(r) \/ EndRun(r) \/ Unlock(r)

OwnerStep ==
  \/ WaitCheck
  \/ FindJobTask
  \/ \E next \in {"scan", "blockEmpty"} : Helped(next)
  \/ FindNothing
  \/ BlockTasksAvailable
  \/ Napped
  \/ \E from \in {"block", "blockEmpty", "napped"} : BlockDone(from) \/ BlockSleep(from)
  \/ Woken
  \/ IoBlockDone
  \/ IoBlockSleep

Next ==
  \/ \E c \in Callers : Request(c) \/ ExecuteCheck(c) \/ ExecuteLocked(c)
  \/ \E w \in Workers : StartWork(w)
  \/ \E r \in Runners : RunStep(r)
  \/ \E last \in BOOLEAN : StartWait(last)
  \/ OwnerStep
  \/ SpuriousWake
  \/ Destroy

Spec == Init /\ [][Next]_vars

(* Threads that can run are scheduled, and the function returns.  Nobody   *)
(* has to call Execute or Wait, no wait ends without its reason, and no    *)
(* worker has to take the JobWork: it may rest in queue 0 (module          *)
(* WorkerPool, QueueZeroIsServed).                                         *)
Fairness ==
  /\ \A r \in Runners : WF_vars(RunStep(r))
  /\ \A c \in Callers : WF_vars(ExecuteCheck(c) \/ ExecuteLocked(c))
  /\ WF_vars(OwnerStep)

FairSpec == Spec /\ Fairness

--------------------------------------------------------------------------------
(* Properties                                                              *)

Active == {r \in Runners : runPc[r] \in {"start", "run", "ran"}}

(* The function is never called by two threads at a time (mTaskGuard in    *)
(* Job::DoWork), although a second request may come during a call and any  *)
(* worker, or the owner, may take the JobWork.                             *)
RunsAreSequential ==
  /\ \A q, r \in Active : q = r
  /\ queued = 1 => Active = {}

(* The assertions of Execute, DoWork, OnTaskStarted and the destructor     *)
(* about the two counters, which are changed at different times.           *)
AssertionsHold ==
  /\ \A r \in Runners :
       /\ runPc[r] = "start" => mNumTasksAvailable > 0
       /\ runPc[r] = "ran" => mNumTasksInProgress > 0
       /\ runPc[r] = "ran" => mNumTasksAvailable <= 1
  /\ mNumTasksInProgress = 0 => mNumTasksAvailable = 0
  /\ ownerPc = "destroyed" => mNumTasksInProgress = 0

(* A request nobody has seen is one whose Execute has not returned, or a   *)
(* call of the function that will see it is certain.                       *)
CallToCome ==
  \/ mNumTasksInProgress = 2
  \/ queued = 1
  \/ \E r \in Runners : runPc[r] \in {"start", "run"}

InExecute(r) == pc[r[1]] # "idle" /\ r[2] = asked[r[1]]

NoLostRequest == \A r \in pending : InExecute(r) \/ CallToCome

(* Whatever way Wait returns, the requests whose Execute has returned were *)
(* all served then.                                                        *)
WaitReturnsServed ==
  [][ownerPc \notin {"using", "returned"} /\ ownerPc' \in {"using", "returned"}
       => \A r \in pending : InExecute(r)]_vars

(* "must have lock before exiting [...] Otherwise other thread notifying   *)
(* this thread might access deleted task" (WaitableJob.cpp:38): nobody     *)
(* uses the job, and no queue names it, after the owner destroyed it.      *)
DestroyedUnused ==
  ownerPc = "destroyed" => queued = 0 /\ \A r \in Runners : runPc[r] = "idle"

(* Wait returns once nobody asks for more calls, without any help of the   *)
(* workers: what they leave in the queues it finds itself.  Only a waiter  *)
(* that is an IO job, which never searches, needs somebody to take what    *)
(* was queued (WaitableJob.cpp:24-34).                                     *)
WaitReturns ==
  /\ ownerPc \in Helping ~> ownerPc \in {"using", "returned"}
  /\ []<>(queued = 0) => (ownerPc \in IoWaiting ~> ownerPc \in {"using", "returned"})
================================================================================
