-------------------------------- MODULE FileReaders_proofs --------------------------------
(***************************************************************************)
(* Proofs about modules RepeatableIOJob and FileReaders, for every set of  *)
(* callers or loaders and of IO threads and every number of requests, and  *)
(* about module Tracing, for every finite set of logging threads.          *)
(***************************************************************************)
EXTENDS FileReaders, Tracing, FiniteSetTheorems, TLAPS

USE NobodyAssumption, RequestsAssumption, FolderAssumption

--------------------------------------------------------------------------------
(* The job by itself.  Sequential runs need the meaning of mIsDone:        *)
(* it is FALSE exactly while a JobWork is queued or a worker has not yet   *)
(* decided to stop.  That needs the mutex: a worker that has decided still *)
(* holds it, so the next push cannot come before it has left.              *)

DoneMeansInactive ==
  mIsDone <=> ioTasks = 0 /\ \A w \in Workers : workerPc[w] \in {"idle", "unlock"}

HolderUnlocks == \A w \in Workers : mMutex = w <=> workerPc[w] = "unlock"

(* A run that is queued or starting was asked for; a job that is done has  *)
(* nothing to look for.                                                    *)
StarvingIsRight ==
  /\ ioTasks > 0 => ~mIsStarving
  /\ mIsDone => mIsStarving

OwnerAlone == ownerPc # "using" => \A c \in Callers : pc[c] = "idle"

JobInv ==
  /\ TypeOK
  /\ RunsAreSequential
  /\ DoneMeansInactive
  /\ HolderUnlocks
  /\ StarvingIsRight
  /\ RoundHasRequest
  /\ NoLostRequest
  /\ OwnerAlone
  /\ WaitMeansServed

LEMMA JobInvInit == Init => JobInv
<1> SUFFICES ASSUME Init
             PROVE  JobInv
  OBVIOUS
<1>1. asked \in [Callers -> 0..MaxRequests]
  BY DEF Init
<1> QED
  BY <1>1
     DEF Init, JobInv, TypeOK, RunsAreSequential, DoneMeansInactive, HolderUnlocks,
         StarvingIsRight, RoundHasRequest, NoLostRequest, OwnerAlone, WaitMeansServed,
         Active, CallerPcs, WorkerPcs, OwnerPcs

LEMMA JobTypeStep == TypeOK /\ RunsAreSequential /\ [Next]_vars => TypeOK'
<1> SUFFICES ASSUME TypeOK, RunsAreSequential, [Next]_vars
             PROVE  TypeOK'
  OBVIOUS
<1> USE DEF TypeOK, CallerPcs, WorkerPcs, OwnerPcs
<1>1. ASSUME NEW c \in Callers, Request(c)
      PROVE  TypeOK'
  BY <1>1 DEF Request
<1>2. ASSUME NEW c \in Callers, ExecuteCheck(c)
      PROVE  TypeOK'
  BY <1>2 DEF ExecuteCheck
<1>3. ASSUME NEW c \in Callers, ExecuteLocked(c)
      PROVE  TypeOK'
  <2>1. ioTasks' \in Nat
    BY <1>3 DEF ExecuteLocked
  <2>2. pc' \in [Callers -> CallerPcs]
    BY <1>3 DEF ExecuteLocked
  <2> QED
    BY <1>3, <2>1, <2>2 DEF ExecuteLocked
<1>4. ASSUME NEW w \in Workers, StartWork(w)
      PROVE  TypeOK'
  BY <1>4 DEF StartWork
<1>5. ASSUME NEW w \in Workers, MarkStarving(w)
      PROVE  TypeOK'
  BY <1>5 DEF MarkStarving
<1>6. ASSUME NEW w \in Workers, RunIOJob(w)
      PROVE  TypeOK'
  BY <1>6 DEF RunIOJob
<1>7. ASSUME NEW w \in Workers, FinishRun(w)
      PROVE  TypeOK'
  BY <1>7 DEF FinishRun
<1>8. ASSUME NEW w \in Workers, Unlock(w)
      PROVE  TypeOK'
  BY <1>8 DEF Unlock
<1>9. CASE StartWait
  BY <1>9 DEF StartWait
<1>10. CASE WaitAndDestroy
  BY <1>10 DEF WaitAndDestroy
<1>11. CASE UNCHANGED vars
  BY <1>11 DEF vars
<1> QED
  BY <1>1, <1>2, <1>3, <1>4, <1>5, <1>6, <1>7, <1>8, <1>9, <1>10, <1>11 DEF Next, WorkerStep

LEMMA JobInvStep == JobInv /\ [Next]_vars => JobInv'
<1> DEFINE Runs == RunsAreSequential /\ DoneMeansInactive /\ HolderUnlocks
           Flags == StarvingIsRight /\ RoundHasRequest
           Requests == NoLostRequest /\ OwnerAlone /\ WaitMeansServed
<1> SUFFICES ASSUME JobInv, [Next]_vars
             PROVE  Runs' /\ Flags' /\ Requests'
  BY JobTypeStep DEF JobInv
<1>t. /\ TypeOK
      /\ Runs /\ Flags /\ Requests
  BY DEF JobInv
<1> USE DEF RunsAreSequential, DoneMeansInactive, HolderUnlocks, StarvingIsRight,
            RoundHasRequest, OwnerAlone, WaitMeansServed, Active
<1>1. ASSUME NEW c \in Callers, Request(c)
      PROVE  Runs' /\ Flags' /\ Requests'
  BY <1>1, <1>t DEF Request, TypeOK, NoLostRequest, RunToCome
<1>2. ASSUME NEW c \in Callers, ExecuteCheck(c)
      PROVE  Runs' /\ Flags' /\ Requests'
  BY <1>2, <1>t DEF ExecuteCheck, TypeOK, NoLostRequest, RunToCome
<1>3. ASSUME NEW c \in Callers, ExecuteLocked(c)
      PROVE  Runs' /\ Flags' /\ Requests'
  BY <1>3, <1>t DEF ExecuteLocked, TypeOK, NoLostRequest, RunToCome
<1>4. ASSUME NEW w \in Workers, StartWork(w)
      PROVE  Runs' /\ Flags' /\ Requests'
  BY <1>4, <1>t DEF StartWork, TypeOK, NoLostRequest, RunToCome
<1>5. ASSUME NEW w \in Workers, MarkStarving(w)
      PROVE  Runs' /\ Flags' /\ Requests'
  BY <1>5, <1>t DEF MarkStarving, TypeOK, NoLostRequest, RunToCome
<1>6. ASSUME NEW w \in Workers, RunIOJob(w)
      PROVE  Runs' /\ Flags' /\ Requests'
  BY <1>6, <1>t DEF RunIOJob, TypeOK, NoLostRequest, RunToCome
<1>7. ASSUME NEW w \in Workers, FinishRun(w)
      PROVE  Runs' /\ Flags' /\ Requests'
  BY <1>7, <1>t DEF FinishRun, TypeOK, NoLostRequest, RunToCome
<1>8. ASSUME NEW w \in Workers, Unlock(w)
      PROVE  Runs' /\ Flags' /\ Requests'
  BY <1>8, <1>t DEF Unlock, TypeOK, NoLostRequest, RunToCome
<1>9. CASE StartWait
  BY <1>9, <1>t DEF StartWait, TypeOK, NoLostRequest, RunToCome
<1>10. CASE WaitAndDestroy
  BY <1>10, <1>t DEF WaitAndDestroy, TypeOK, NoLostRequest, RunToCome
<1>11. CASE UNCHANGED vars
  BY <1>11, <1>t DEF vars, TypeOK, NoLostRequest, RunToCome
<1> QED
  BY <1>1, <1>2, <1>3, <1>4, <1>5, <1>6, <1>7, <1>8, <1>9, <1>10, <1>11
     DEF Next, WorkerStep

LEMMA JobInvariant == Spec => []JobInv
  BY JobInvInit, JobInvStep, PTL DEF Spec

(* Every reachable state of the job is well typed.                         *)
THEOREM JobTypeCorrect == Spec => []TypeOK
  BY JobInvariant, PTL DEF JobInv

(* Repeated runs are sequential, however many threads call Execute.        *)
THEOREM JobRunsAreSequential == Spec => []RunsAreSequential
  BY JobInvariant, PTL DEF JobInv

(* DoWork's assertion that its round was asked for never fails.            *)
THEOREM JobRoundHasRequest == Spec => []RoundHasRequest
  BY JobInvariant, PTL DEF JobInv

(* No request is lost between the unlocked read in Execute and the end of  *)
(* DoWork.                                                                 *)
THEOREM JobNeverLosesRequest == Spec => []NoLostRequest
  BY JobInvariant, PTL DEF JobInv

(* Wait returns only when every request was served.                        *)
THEOREM JobWaitMeansServed == Spec => []WaitMeansServed
  BY JobInvariant, PTL DEF JobInv

--------------------------------------------------------------------------------
(* The readers of a file.  Of the job the inductive invariant says the     *)
(* same; of the loaders, that who is inside Execute, or waits for the job, *)
(* holds the folder's mutex, so that the two exclude each other.           *)

(* Items that are being served have a run that serves them.                *)
ActiveIsServed == active # {} => \E w \in Workers : workerPc[w] = "run"

FolderIsLocked ==
  \A c \in Callers :
    /\ pc[c] # "idle" => load[c] = "asking"
    /\ load[c] \in {"asking", "closing"} => folderMutex = c

RunsInv == RunsAreSequential /\ DoneMeansInactive /\ HolderUnlocks

FlagsInv == StarvingIsRight /\ RoundHasRequest

LoadersInv == FolderIsLocked /\ ActiveIsServed

FilesInv == FilesTypeOK /\ RunsInv /\ FlagsInv /\ LoadersInv /\ NoStrandedItem

--------------------------------------------------------------------------------
(* A loader that waits with the folder locked is alone in the folder, and  *)
(* a job that is done has nothing to serve.                                *)
LEMMA InvGivesDestroyedIdle == FilesInv => DestroyedIdle
  BY DEF FilesInv, FilesTypeOK, RunsInv, LoadersInv, DestroyedIdle, DoneMeansInactive,
         FolderIsLocked, ActiveIsServed, NoStrandedItem, ListIsFree, RunToCome

LEMMA FilesInvInit == FilesInit => FilesInv
<1> SUFFICES ASSUME FilesInit
             PROVE  FilesInv
  OBVIOUS
<1> USE DEF FilesInit, Init
<1>1. FilesTypeOK
  <2>1. asked \in [Callers -> 0..MaxRequests]
    OBVIOUS
  <2> QED
    BY <2>1 DEF FilesTypeOK, TypeOK, LoadStates, CallerPcs, WorkerPcs, OwnerPcs
<1>2. RunsInv
  BY DEF RunsInv, RunsAreSequential, Active, DoneMeansInactive, HolderUnlocks
<1>3. FlagsInv
  BY DEF FlagsInv, StarvingIsRight, RoundHasRequest
<1>4. LoadersInv
  BY DEF LoadersInv, FolderIsLocked, ActiveIsServed
<1>5. NoStrandedItem
  BY DEF NoStrandedItem
<1> QED
  BY <1>1, <1>2, <1>3, <1>4, <1>5 DEF FilesInv

LEMMA FilesTypeStep == FilesInv /\ [FilesNext]_filesVars => FilesTypeOK'
<1> SUFFICES ASSUME FilesInv, [FilesNext]_filesVars
             PROVE  FilesTypeOK'
  OBVIOUS
<1>t. FilesTypeOK
  BY DEF FilesInv
<1> USE <1>t DEF FilesTypeOK, TypeOK, CallerPcs, WorkerPcs, OwnerPcs, LoadStates
<1>1. ASSUME NEW c \in Callers, GetFileContent(c)
      PROVE  FilesTypeOK'
  BY <1>1 DEF GetFileContent
<1>2. ASSUME NEW c \in Callers, Execute(c)
      PROVE  FilesTypeOK'
  <2>1. CASE ExecuteCheck(c)
    BY <1>2, <2>1 DEF Execute, ExecuteCheck
  <2>2. CASE ExecuteLocked(c)
    <3>1. ioTasks' \in Nat
      BY <2>2 DEF ExecuteLocked
    <3>2. pc' \in [Callers -> CallerPcs]
      BY <2>2 DEF ExecuteLocked
    <3> QED
      BY <1>2, <2>2, <3>1, <3>2 DEF Execute, ExecuteLocked
  <2> QED
    BY <1>2, <2>1, <2>2 DEF Execute
<1>3. ASSUME NEW c \in Callers, GotAccess(c)
      PROVE  FilesTypeOK'
  BY <1>3 DEF GotAccess, vars
<1>4. ASSUME NEW c \in Callers, OnContentAccessEnded(c)
      PROVE  FilesTypeOK'
  BY <1>4 DEF OnContentAccessEnded, vars
<1>5. ASSUME NEW c \in Callers, DestroyJob(c)
      PROVE  FilesTypeOK'
  BY <1>5 DEF DestroyJob
<1>6. ASSUME NEW w \in Workers, TakeJob(w)
      PROVE  FilesTypeOK'
  BY <1>6 DEF TakeJob, StartWork
<1>7. ASSUME NEW w \in Workers, CheckHasWork(w)
      PROVE  FilesTypeOK'
  BY <1>7 DEF CheckHasWork
<1>8. ASSUME NEW w \in Workers, ServeItem(w)
      PROVE  FilesTypeOK'
  BY <1>8 DEF ServeItem, vars
<1>9. ASSUME NEW w \in Workers, MarkStarving(w) \/ FinishRun(w) \/ Unlock(w),
             UNCHANGED <<folderMutex, load, active, delivered>>
      PROVE  FilesTypeOK'
  BY <1>9 DEF MarkStarving, FinishRun, Unlock
<1>10. CASE UNCHANGED filesVars
  BY <1>10 DEF filesVars, vars
<1> QED
  BY <1>1, <1>2, <1>3, <1>4, <1>5, <1>6, <1>7, <1>8, <1>9, <1>10 DEF FilesNext, JobStep

LEMMA FilesInvStep == FilesInv /\ [FilesNext]_filesVars => FilesInv'
<1> DEFINE Kept == RunsInv /\ FlagsInv /\ LoadersInv /\ NoStrandedItem
<1> SUFFICES ASSUME FilesInv, [FilesNext]_filesVars
             PROVE  Kept'
  BY FilesTypeStep DEF FilesInv
<1>t. FilesTypeOK /\ Kept /\ DestroyedIdle
  BY InvGivesDestroyedIdle DEF FilesInv
<1> USE <1>t DEF FilesTypeOK, TypeOK, RunsInv, FlagsInv, LoadersInv, RunsAreSequential, Active,
                 DoneMeansInactive, HolderUnlocks, StarvingIsRight, RoundHasRequest,
                 FolderIsLocked, ActiveIsServed, NoStrandedItem, ListIsFree, RunToCome
<1>1. ASSUME NEW c \in Callers, GetFileContent(c)
      PROVE  Kept'
  <2>1. pc[c] = "idle" /\ folderMutex = Nobody
    BY <1>1 DEF GetFileContent
  <2>2. RunsInv' /\ FlagsInv'
    BY <1>1 DEF GetFileContent
  <2>3. LoadersInv'
    BY <1>1 DEF GetFileContent
  <2>4. NoStrandedItem'
    <3>1. CASE pending = {}
      BY <1>1, <3>1 DEF GetFileContent
    <3>2. CASE pending # {}
      BY <1>1, <2>1, <3>2 DEF GetFileContent
    <3> QED
      BY <3>1, <3>2
  <2> QED
    BY <2>2, <2>3, <2>4
<1>2. ASSUME NEW c \in Callers, Execute(c)
      PROVE  Kept'
  <2>1. CASE ExecuteCheck(c)
    BY <1>2, <2>1 DEF Execute, ExecuteCheck
  <2>2. CASE ExecuteLocked(c)
    BY <1>2, <2>2 DEF Execute, ExecuteLocked
  <2> QED
    BY <1>2, <2>1, <2>2 DEF Execute
<1>3. ASSUME NEW c \in Callers, GotAccess(c)
      PROVE  Kept'
  BY <1>3 DEF GotAccess, vars
<1>4. ASSUME NEW c \in Callers, OnContentAccessEnded(c)
      PROVE  Kept'
  BY <1>4 DEF OnContentAccessEnded, vars
<1>5. ASSUME NEW c \in Callers, DestroyJob(c)
      PROVE  Kept'
  BY <1>5 DEF DestroyJob, DestroyedIdle
<1>6. ASSUME NEW w \in Workers, TakeJob(w)
      PROVE  Kept'
  BY <1>6 DEF TakeJob, StartWork
<1>7. ASSUME NEW w \in Workers, CheckHasWork(w)
      PROVE  Kept'
  BY <1>7 DEF CheckHasWork
<1>8. ASSUME NEW w \in Workers, ServeItem(w)
      PROVE  Kept'
  BY <1>8 DEF ServeItem, vars
<1>9. ASSUME NEW w \in Workers, UNCHANGED <<folderMutex, load, active, delivered>>
      PROVE  MarkStarving(w) \/ FinishRun(w) \/ Unlock(w) => Kept'
  <2>1. CASE MarkStarving(w)
    BY <1>9, <2>1 DEF MarkStarving
  <2>2. CASE FinishRun(w)
    BY <1>9, <2>2 DEF FinishRun
  <2>3. CASE Unlock(w)
    BY <1>9, <2>3 DEF Unlock
  <2> QED
    BY <2>1, <2>2, <2>3
<1>10. CASE UNCHANGED filesVars
  BY <1>10 DEF filesVars, vars
<1> HIDE DEF Kept
<1> QED
  BY <1>1, <1>2, <1>3, <1>4, <1>5, <1>6, <1>7, <1>8, <1>9, <1>10 DEF FilesNext, JobStep

LEMMA FilesInvariant == FilesSpec => []FilesInv
  BY FilesInvInit, FilesInvStep, PTL DEF FilesSpec

--------------------------------------------------------------------------------
(* Every reachable state of the file's readers and their job is well typed. *)
THEOREM FilesTypeCorrect == FilesSpec => []FilesTypeOK
  BY FilesInvariant, PTL DEF FilesInv

(* FileContentJob.cpp:22: an item that was added without an Execute of its *)
(* own is never stranded, for any number of loaders.                       *)
THEOREM FilesNeverStrandItem == FilesSpec => []NoStrandedItem
  BY FilesInvariant, PTL DEF FilesInv

(* Folder.cpp:156: the loader that destroys the job leaves nothing behind. *)
THEOREM FilesDestroyIdleJob == FilesSpec => []DestroyedIdle
  BY FilesInvariant, InvGivesDestroyedIdle, PTL

(* The runs of the job stay sequential through its destruction and its     *)
(* creation anew.                                                          *)
THEOREM FilesRunsAreSequential == FilesSpec => []RunsAreSequential
  BY FilesInvariant, PTL DEF FilesInv, RunsInv

--------------------------------------------------------------------------------
USE TraceAssumption

(* The messages that were counted and not printed.                         *)
Unprinted == {l \in Loggers : logPc[l] # "idle" /\ l \notin printed}

(* What a thread has printed and not yet subtracted: the holder of the     *)
(* lock, and FlushUntilEmpty, which has unlocked by then.                  *)
HeldBack == IF mFlushMutex = NoThread THEN 0 ELSE totalReceived[mFlushMutex]
ToSubtract == IF logPc[Destroyer] = "subtract" THEN totalReceived[Destroyer] ELSE 0

(* gTotalMessages counts the messages that were not printed and those that *)
(* a thread has printed and not subtracted.                                *)
MessagesAreCounted == gTotalMessages = Cardinality(Unprinted) + HeldBack + ToSubtract

IsInside(t) == logPc[t] = "dequeue" \/ (t # Destroyer /\ logPc[t] = "subtract")

(* A thread holds mFlushMutex exactly while it prints.                     *)
HolderIsInside == \A t \in LogThreads : mFlushMutex = t <=> IsInside(t)

Logged == {l \in Loggers : logPc[l] \notin {"idle", "counted"}}

(* A message that is in the queue or printed was counted first.            *)
QueueIsUnprinted == mQueue \subseteq Logged /\ printed \subseteq Logged /\ mQueue \cap printed = {}

TraceInv == TraceTypeOK /\ MessagesAreCounted /\ HolderIsInside /\ QueueIsUnprinted

LEMMA UnprintedIsFinite == IsFiniteSet(Unprinted) /\ Cardinality(Unprinted) \in Nat
<1>1. IsFiniteSet(Unprinted)
  BY FS_Subset DEF Unprinted
<1> QED
  BY <1>1, FS_CardinalityType

LEMMA TraceInvInit == TraceInit => TraceInv
<1> SUFFICES ASSUME TraceInit
             PROVE  TraceInv
  OBVIOUS
<1>1. Unprinted = {}
  BY DEF TraceInit, Unprinted, LogThreads
<1>2. Cardinality(Unprinted) = 0
  BY <1>1, FS_EmptySet
<1>3. HeldBack = 0 /\ ToSubtract = 0
  BY DEF TraceInit, HeldBack, ToSubtract, LogThreads
<1>4. MessagesAreCounted
  BY <1>2, <1>3 DEF TraceInit, MessagesAreCounted
<1>5. logPc \in [LogThreads -> LogPcs] /\ totalReceived \in [LogThreads -> Nat]
  BY DEF TraceInit, LogPcs
<1>6. TraceTypeOK
  <2>1. gTotalMessages \in Int /\ mQueue \subseteq Loggers /\ printed \subseteq Loggers
    BY DEF TraceInit
  <2>2. mFlushMutex \in LogThreads \cup {NoThread} /\ gSharedScheduler \in BOOLEAN /\ logAsked \in BOOLEAN
    BY DEF TraceInit
  <2> QED
    BY <1>5, <2>1, <2>2 DEF TraceTypeOK
<1>7. HolderIsInside
  BY DEF TraceInit, HolderIsInside, IsInside, LogThreads
<1>8. QueueIsUnprinted
  BY DEF TraceInit, QueueIsUnprinted
<1> QED
  BY <1>4, <1>6, <1>7, <1>8 DEF TraceInv

(* A step that neither counts nor prints a message leaves Unprinted alone. *)
LEMMA SameUnprinted ==
  ASSUME TraceInv, UNCHANGED printed,
         \A l \in Loggers : logPc'[l] = "idle" <=> logPc[l] = "idle"
  PROVE  Cardinality(Unprinted') = Cardinality(Unprinted)
<1>1. Unprinted' = Unprinted
  BY DEF Unprinted
<1> QED
  BY <1>1

(* A log line, outside of the lock.                                        *)
LEMMA LogKeepsTraceInv ==
  ASSUME TraceInv, NEW l \in Loggers, Log(l) \/ FlushOwn(l) \/ ExecuteLogJob(l)
  PROVE  TraceInv'
<1>t. l \in LogThreads /\ Destroyer \in LogThreads /\ l # Destroyer /\ l # LogIOThread
  BY DEF LogThreads
<1>u. logPc[l] \in {"idle", "counted", "enqueued"} /\ logPc'[l] \in {"counted", "enqueued", "lock", "done"}
      /\ \A t \in LogThreads \ {l} : logPc'[t] = logPc[t]
  BY <1>t DEF TraceInv, TraceTypeOK, Log, FlushOwn, ExecuteLogJob, Goes
<1>v. UNCHANGED <<mFlushMutex, printed, totalReceived>>
  BY DEF Log, FlushOwn, ExecuteLogJob
<1>w. HeldBack' = HeldBack /\ ToSubtract' = ToSubtract
  BY <1>t, <1>u, <1>v DEF HeldBack, ToSubtract
<1>1. TraceTypeOK'
  <2>1. PICK to \in LogPcs : logPc' = [logPc EXCEPT ![l] = to]
    BY DEF Log, FlushOwn, ExecuteLogJob, Goes, LogPcs
  <2>2. logPc' \in [LogThreads -> LogPcs]
    BY <1>t, <2>1 DEF TraceInv, TraceTypeOK
  <2>3. CASE Log(l)
    BY <1>v, <2>2, <2>3 DEF Log, TraceInv, TraceTypeOK
  <2>4. CASE FlushOwn(l) \/ ExecuteLogJob(l)
    BY <1>v, <2>2, <2>4 DEF FlushOwn, ExecuteLogJob, TraceInv, TraceTypeOK
  <2> QED
    BY <2>3, <2>4
<1>2. HolderIsInside'
  BY <1>t, <1>u, <1>v DEF TraceInv, HolderIsInside, IsInside
<1>3. QueueIsUnprinted'
  BY <1>t, <1>u, <1>v DEF TraceInv, TraceTypeOK, QueueIsUnprinted, Logged, Log, FlushOwn, ExecuteLogJob, Goes, LogThreads
<1>4. MessagesAreCounted'
  <2>1. CASE logPc[l] = "idle"
    <3>1. gTotalMessages' = gTotalMessages + 1
      BY <2>1 DEF Log, FlushOwn, ExecuteLogJob, Goes
    <3>2. Unprinted' = Unprinted \cup {l} /\ l \notin Unprinted
      BY <1>t, <1>u, <1>v, <2>1 DEF Unprinted, TraceInv, QueueIsUnprinted, Logged, LogThreads
    <3>3. Cardinality(Unprinted') = Cardinality(Unprinted) + 1
      BY <3>2, UnprintedIsFinite, FS_AddElement
    <3>4. HeldBack \in Nat /\ ToSubtract \in Nat
      BY <1>t DEF TraceInv, TraceTypeOK, HeldBack, ToSubtract
    <3> QED
      BY <1>w, <3>1, <3>3, <3>4, UnprintedIsFinite DEF TraceInv, MessagesAreCounted
  <2>2. CASE logPc[l] # "idle"
    <3>1. gTotalMessages' = gTotalMessages
      BY <2>2 DEF Log, FlushOwn, ExecuteLogJob, Goes
    <3>2. Cardinality(Unprinted') = Cardinality(Unprinted)
      BY <1>u, <1>v, <2>2, SameUnprinted DEF LogThreads
    <3> QED
      BY <1>w, <3>1, <3>2 DEF TraceInv, MessagesAreCounted
  <2> QED
    BY <2>1, <2>2
<1> QED
  BY <1>1, <1>2, <1>3, <1>4 DEF TraceInv

(* A thread in one of the two Flush functions.                             *)
LEMMA FlushKeepsTraceInv ==
  ASSUME TraceInv, NEW t \in LogThreads, Lock(t) \/ DequeueAll(t) \/ FoundEmpty(t) \/ Flush(t)
  PROVE  TraceInv'
<1>d. Destroyer \in LogThreads /\ NoThread \notin LogThreads
  BY DEF LogThreads
<1>n. HeldBack \in Nat /\ ToSubtract \in Nat /\ Cardinality(Unprinted) \in Nat /\ totalReceived[t] \in Nat
  BY <1>d, UnprintedIsFinite DEF TraceInv, TraceTypeOK, HeldBack, ToSubtract
<1>h. TraceTypeOK /\ HolderIsInside /\ QueueIsUnprinted /\ MessagesAreCounted
  BY DEF TraceInv
<1>1. CASE Lock(t)
  <2>1. /\ logPc[t] = "lock" /\ logPc'[t] = "dequeue" /\ mFlushMutex = NoThread /\ mFlushMutex' = t
        /\ totalReceived'[t] = 0
        /\ \A u \in LogThreads \ {t} : logPc'[u] = logPc[u] /\ totalReceived'[u] = totalReceived[u]
        /\ UNCHANGED <<gTotalMessages, mQueue, printed>>
    BY <1>1, <1>h DEF Lock, Goes, TraceTypeOK
  <2>2. TraceTypeOK'
    BY <1>1, <1>h DEF Lock, Goes, TraceTypeOK, LogPcs
  <2>3. HolderIsInside'
    BY <1>h, <1>d, <2>1 DEF HolderIsInside, IsInside
  <2>4. QueueIsUnprinted'
    BY <1>h, <2>1 DEF QueueIsUnprinted, Logged, LogThreads
  <2>5. HeldBack = 0 /\ HeldBack' = 0 /\ ToSubtract' = ToSubtract
    BY <1>d, <2>1 DEF HeldBack, ToSubtract
  <2>6. Cardinality(Unprinted') = Cardinality(Unprinted)
    BY <2>1, SameUnprinted DEF LogThreads
  <2> QED
    BY <1>h, <2>1, <2>2, <2>3, <2>4, <2>5, <2>6 DEF TraceInv, MessagesAreCounted
<1>2. CASE DequeueAll(t)
  <2>1. PICK message \in mQueue : mQueue' = mQueue \ {message} /\ printed' = printed \cup {message}
    BY <1>2 DEF DequeueAll
  <2>2. /\ logPc[t] = "dequeue" /\ mFlushMutex = t
        /\ totalReceived'[t] = totalReceived[t] + 1
        /\ \A u \in LogThreads \ {t} : totalReceived'[u] = totalReceived[u]
        /\ UNCHANGED <<gTotalMessages, mFlushMutex, logPc>>
    BY <1>2, <1>h DEF DequeueAll, TraceTypeOK, HolderIsInside, IsInside
  <2>3. TraceTypeOK'
    BY <1>2, <1>h DEF DequeueAll, TraceTypeOK
  <2>4. HolderIsInside'
    BY <1>h, <2>2 DEF HolderIsInside, IsInside
  <2>5. QueueIsUnprinted'
    BY <1>h, <2>1, <2>2 DEF QueueIsUnprinted, Logged
  <2>6. HeldBack' = HeldBack + 1 /\ ToSubtract' = ToSubtract
    BY <1>d, <2>2 DEF HeldBack, ToSubtract
  <2>7. Cardinality(Unprinted') = Cardinality(Unprinted) - 1
    <3>1. Unprinted' = Unprinted \ {message} /\ message \in Unprinted
      BY <1>h, <2>1, <2>2 DEF Unprinted, QueueIsUnprinted, Logged
    <3> QED
      BY <3>1, UnprintedIsFinite, FS_RemoveElement
  <2> QED
    BY <1>h, <1>n, <2>2, <2>3, <2>4, <2>5, <2>6, <2>7 DEF TraceInv, MessagesAreCounted
<1>3. CASE FoundEmpty(t)
  <2>1. /\ logPc[t] = "dequeue" /\ logPc'[t] = "subtract" /\ mFlushMutex = t
        /\ mFlushMutex' = IF t = Destroyer THEN NoThread ELSE t
        /\ \A u \in LogThreads \ {t} : logPc'[u] = logPc[u]
        /\ UNCHANGED <<gTotalMessages, mQueue, printed, totalReceived>>
    BY <1>3, <1>h DEF FoundEmpty, Goes, TraceTypeOK, HolderIsInside, IsInside
  <2>2. TraceTypeOK'
    BY <1>3, <1>h DEF FoundEmpty, Goes, TraceTypeOK, LogPcs
  <2>3. HolderIsInside'
    BY <1>h, <1>d, <2>1 DEF HolderIsInside, IsInside
  <2>4. QueueIsUnprinted'
    BY <1>h, <2>1 DEF QueueIsUnprinted, Logged, LogThreads
  <2>5. \/ HeldBack' = HeldBack /\ ToSubtract' = ToSubtract
        \/ HeldBack' = 0 /\ ToSubtract' = HeldBack /\ ToSubtract = 0
    BY <1>d, <2>1 DEF HeldBack, ToSubtract
  <2>6. Cardinality(Unprinted') = Cardinality(Unprinted)
    BY <2>1, SameUnprinted DEF LogThreads
  <2>7. gTotalMessages \in Int /\ gTotalMessages' = gTotalMessages
    BY <1>h, <2>1 DEF TraceTypeOK
  <2>8. MessagesAreCounted'
    BY <1>h, <1>n, <2>5, <2>6, <2>7 DEF MessagesAreCounted
  <2> QED
    BY <2>2, <2>3, <2>4, <2>8 DEF TraceInv
<1>4. CASE Flush(t)
  <2>1. /\ t # Destroyer /\ logPc[t] = "subtract" /\ logPc'[t] \in {"idle", "done"}
        /\ logPc'[t] = "idle" => t \notin Loggers
        /\ mFlushMutex = t /\ mFlushMutex' = NoThread
        /\ gTotalMessages' = gTotalMessages - totalReceived[t]
        /\ \A u \in LogThreads \ {t} : logPc'[u] = logPc[u]
        /\ UNCHANGED <<mQueue, printed, totalReceived>>
    BY <1>4, <1>h DEF Flush, Goes, TraceTypeOK, HolderIsInside, IsInside
  <2>2. TraceTypeOK'
    BY <1>4, <1>h, <1>n DEF Flush, Goes, TraceTypeOK, LogPcs
  <2>3. HolderIsInside'
    BY <1>h, <1>d, <2>1 DEF HolderIsInside, IsInside
  <2>4. QueueIsUnprinted'
    BY <1>h, <2>1 DEF QueueIsUnprinted, Logged, LogThreads
  <2>5. HeldBack = totalReceived[t] /\ HeldBack' = 0 /\ ToSubtract' = ToSubtract
    BY <1>d, <2>1 DEF HeldBack, ToSubtract
  <2>6. Cardinality(Unprinted') = Cardinality(Unprinted)
    BY <2>1, SameUnprinted DEF LogThreads
  <2>7. gTotalMessages \in Int /\ gTotalMessages' = gTotalMessages - totalReceived[t]
    BY <1>h, <2>1 DEF TraceTypeOK
  <2>8. MessagesAreCounted'
    BY <1>h, <1>n, <2>5, <2>6, <2>7 DEF MessagesAreCounted
  <2> QED
    BY <2>2, <2>3, <2>4, <2>8 DEF TraceInv
<1> QED
  BY <1>1, <1>2, <1>3, <1>4

LEMMA OtherKeepsTraceInv ==
  ASSUME TraceInv, RunLogJob \/ DestroyScheduler \/ FlushUntilEmpty \/ UNCHANGED traceVars
  PROVE  TraceInv'
<1>d. Destroyer \in LogThreads /\ LogIOThread \in LogThreads /\ NoThread \notin LogThreads
  BY DEF LogThreads
<1>n. HeldBack \in Nat /\ ToSubtract \in Nat /\ Cardinality(Unprinted) \in Nat
  BY <1>d, UnprintedIsFinite DEF TraceInv, TraceTypeOK, HeldBack, ToSubtract
<1>h. TraceTypeOK /\ HolderIsInside /\ QueueIsUnprinted /\ MessagesAreCounted
  BY DEF TraceInv
<1>1. CASE RunLogJob \/ DestroyScheduler \/ FlushUntilEmpty
  <2>1. PICK t \in {LogIOThread, Destroyer} :
          /\ \A u \in LogThreads \ {t} : logPc'[u] = logPc[u]
          /\ logPc'[t] # logPc[t]
          /\ t = LogIOThread => logPc[t] = "idle" /\ logPc'[t] = "lock"
          /\ t = Destroyer => /\ logPc[t] \in {"idle", "subtract", "check"}
                              /\ logPc'[t] \in {"lock", "check", "done"}
          /\ gTotalMessages' = IF t = Destroyer /\ logPc[t] = "subtract"
                                 THEN gTotalMessages - totalReceived[t] ELSE gTotalMessages
    BY <1>1, <1>h, <1>d DEF RunLogJob, DestroyScheduler, FlushUntilEmpty, Goes, TraceTypeOK
  <2>2. UNCHANGED <<mQueue, printed, totalReceived, mFlushMutex>>
    BY <1>1 DEF RunLogJob, DestroyScheduler, FlushUntilEmpty
  <2>3. TraceTypeOK'
    <3>1. PICK u \in LogThreads, to \in LogPcs : logPc' = [logPc EXCEPT ![u] = to]
      BY <1>1, <1>d DEF RunLogJob, DestroyScheduler, FlushUntilEmpty, Goes, LogPcs
    <3>2. logPc' \in [LogThreads -> LogPcs]
      BY <1>h, <3>1 DEF TraceTypeOK
    <3>3. gTotalMessages' \in Int
      BY <1>h, <2>1, <1>d DEF TraceTypeOK
    <3>4. gSharedScheduler' \in BOOLEAN /\ logAsked' \in BOOLEAN
      BY <1>1, <1>h DEF RunLogJob, DestroyScheduler, FlushUntilEmpty, TraceTypeOK
    <3> QED
      BY <1>h, <2>2, <3>2, <3>3, <3>4 DEF TraceTypeOK
  <2>4. HolderIsInside'
    BY <1>h, <1>d, <2>1, <2>2 DEF HolderIsInside, IsInside
  <2>5. \A l \in Loggers : logPc'[l] = logPc[l]
    BY <2>1 DEF LogThreads
  <2>6. QueueIsUnprinted'
    BY <1>h, <2>2, <2>5 DEF QueueIsUnprinted, Logged
  <2>7. Cardinality(Unprinted') = Cardinality(Unprinted)
    BY <2>2, <2>5, SameUnprinted
  <2>8. HeldBack' = HeldBack
    BY <2>2 DEF HeldBack
  <2>9. gTotalMessages' - ToSubtract' = gTotalMessages - ToSubtract /\ ToSubtract' \in Nat
    BY <1>h, <1>n, <1>d, <2>1, <2>2 DEF ToSubtract, TraceTypeOK
  <2>10. MessagesAreCounted'
    BY <1>h, <1>n, <2>3, <2>7, <2>8, <2>9 DEF MessagesAreCounted, TraceTypeOK
  <2> QED
    BY <2>3, <2>4, <2>6, <2>10 DEF TraceInv
<1>2. CASE UNCHANGED traceVars
  BY <1>2 DEF traceVars, TraceInv, TraceTypeOK, MessagesAreCounted, HolderIsInside, IsInside,
     QueueIsUnprinted, Logged, Unprinted, HeldBack, ToSubtract
<1> QED
  BY <1>1, <1>2

LEMMA TraceInvariant == TraceSpec => []TraceInv
<1>1. TraceInv /\ [TraceNext]_traceVars => TraceInv'
  BY LogKeepsTraceInv, FlushKeepsTraceInv, OtherKeepsTraceInv DEF TraceNext
<1> QED
  BY TraceInvInit, <1>1, PTL DEF TraceSpec

(* The flush at the end of the log (FlushUntilEmpty in                     *)
(* tracing/Tracing.cpp) returns only when every message that was counted   *)
(* before has been printed, whoever printed it.                            *)
THEOREM TraceFlushesAll == TraceSpec => FlushedIsPrinted
<1>1. TraceInv /\ [TraceNext]_traceVars =>
        [Goes(Destroyer, "check", "done") => \A l \in Loggers : logPc[l] # "idle" => l \in printed]_traceVars
  <2> SUFFICES ASSUME TraceInv, TraceNext, Goes(Destroyer, "check", "done")
               PROVE  \A l \in Loggers : logPc[l] # "idle" => l \in printed
    OBVIOUS
  <2>1. Destroyer \in LogThreads /\ logPc[Destroyer] = "check" /\ logPc'[Destroyer] = "done"
    BY DEF Goes, TraceInv, TraceTypeOK, LogThreads
  <2>2. gTotalMessages = 0
    <3>1. ASSUME NEW t \in LogThreads, NEW from, NEW to, Goes(t, from, to)
          PROVE  t = Destroyer /\ from = "check" /\ to = "done"
      BY <2>1, <3>1 DEF Goes, TraceInv, TraceTypeOK
    <3>2. Destroyer \in LogThreads /\ LogIOThread \in LogThreads /\ Loggers \subseteq LogThreads
          /\ Destroyer # LogIOThread
      BY DEF LogThreads
    <3>3. FlushUntilEmpty
      <4>1. ~RunLogJob /\ ~DestroyScheduler
        BY <3>1, <3>2 DEF RunLogJob, DestroyScheduler
      <4>2. ASSUME NEW l \in Loggers
            PROVE  ~(Log(l) \/ FlushOwn(l) \/ ExecuteLogJob(l))
        BY <3>1, <3>2 DEF Log, FlushOwn, ExecuteLogJob
      <4>3. ASSUME NEW t \in LogThreads
            PROVE  ~(Lock(t) \/ DequeueAll(t) \/ FoundEmpty(t) \/ Flush(t))
        BY <2>1, <3>1 DEF Lock, DequeueAll, FoundEmpty, Flush
      <4> QED
        BY <4>1, <4>2, <4>3 DEF TraceNext
    <3> QED
      BY <2>1, <3>3 DEF FlushUntilEmpty, Goes, TraceInv, TraceTypeOK
  <2>3. HeldBack \in Nat /\ ToSubtract = 0
    BY <2>1 DEF TraceInv, TraceTypeOK, HeldBack, ToSubtract
  <2>4. Cardinality(Unprinted) = 0
    BY <2>2, <2>3, UnprintedIsFinite DEF TraceInv, MessagesAreCounted
  <2>5. Unprinted = {}
    BY <2>4, UnprintedIsFinite, FS_EmptySet
  <2> QED
    BY <2>5 DEF Unprinted
<1> QED
  BY <1>1, TraceInvariant, PTL DEF TraceSpec, FlushedIsPrinted

(* Type correctness of the log.                                            *)
THEOREM TraceTypeCorrect == TraceSpec => []TraceTypeOK
  BY TraceInvariant, PTL DEF TraceInv

================================================================================
