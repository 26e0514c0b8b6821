---------------------------- MODULE WorkerPool_proofs ----------------------------
(***************************************************************************)
(* Proofs about module WorkerPool, for any number of workers, tasks,       *)
(* pushing threads and batches.                                            *)
(***************************************************************************)
EXTENDS WorkerPool, FiniteSetTheorems, TLAPS

--------------------------------------------------------------------------------
(* The inductive invariant                                                 *)

(* Between EnterWait and LeaveWait a worker is counted in mNumWaiting.     *)
Waiting == {w \in Workers : workerPc[w] \in {"wait", "parked", "woken", "leave", "quit"}}

WaitingCounted == mNumWaiting = Cardinality(Waiting)

(* A push has somebody left to activate, and pushes what began with it.    *)
PushesHold ==
  \A p \in Pushers :
    /\ push[p].pc # "idle" => push[p].left >= 1
    /\ \A t \in push[p].rest : home[t] = push[p].first

(* A sweep is at a queue that it checks; when it is to go round again a    *)
(* queue that it passed has more tasks and is checked still.               *)
SweepsHold ==
  \A w \in Workers :
    LET s == sweep[w] IN
    /\ workerPc[w] \in {"steal", "runStolen"} => s.i \in s.check
    /\ workerPc[w] = "steal" /\ s.more => \E j \in s.check : j < s.i
    /\ workerPc[w] = "runStolen" /\ s.more => \E j \in s.check : j <= s.i

SignalledIsUp == \A w \in Workers : ~mIsStarving[w] => workerPc[w] # "parked"

(* The owner of the queue looks into it again before it sleeps.            *)
WillLook(q) ==
  \/ workerPc[q] \notin {"enter", "wait", "parked"}
  \/ workerPc[q] \in {"enter", "wait"} /\ ~mIsStarving[q]

WillSignal(p, q) ==
  \/ push[p].pc = "push" /\ push[p].first = q
  \/ push[p].pc \in {"signal", "lock"} /\ push[p].at = q

HomeIsServed ==
  \A q \in Workers : \A t \in mTasks[q] :
    home[t] = q => WillLook(q) \/ \E p \in Pushers : WillSignal(p, q)

PoolInv ==
  TypeOK /\ WaitingCounted /\ PushesHold /\ SweepsHold /\ SignalledIsUp /\ HomeIsServed

--------------------------------------------------------------------------------
(* Arithmetic and counting                                                 *)

LEMMA QueueFacts ==
  /\ NumWorkers \in Nat /\ NumWorkers >= 1 /\ MaxBatch \in Nat /\ MaxBatch >= 1
  /\ Workers \subseteq Queues /\ Workers \subseteq Pushers
  /\ NoQueueIndex \notin Queues
  /\ \A q \in Queues : Ring(q) \in Queues
  /\ \A w \in Workers : Target(w) = (w + sweep[w].i) % (NumWorkers + 1)
<1>1. NumWorkers \in Nat /\ NumWorkers >= 1 /\ MaxBatch \in Nat /\ MaxBatch >= 1
  BY NumWorkersAssumption, BatchAssumption
<1>2. \A q \in Queues : Ring(q) \in Queues
  BY <1>1 DEF Queues, Ring
<1> QED
  BY <1>1, <1>2 DEF Workers, Queues, Pushers, NoQueueIndex, Target

(* The least of some queues: the shortest of the intervals up to them.     *)
LEMMA LeastIsLeast ==
  ASSUME NEW S \in SUBSET Workers, S # {}
  PROVE  Least(S) \in S /\ \A y \in S : Least(S) <= y
<1> USE QueueFacts
<1> DEFINE Below == {1..n : n \in S}
<1>1. IsFiniteSet(Workers)
  BY FS_Interval DEF Workers
<1>2. Below \subseteq FiniteSubsetsOf(Workers)
  <2> SUFFICES ASSUME NEW n \in S
               PROVE  1..n \in FiniteSubsetsOf(Workers)
    OBVIOUS
  <2>1. 1..n \subseteq Workers
    BY DEF Workers
  <2>2. IsFiniteSet(1..n)
    BY <1>1, <2>1, FS_Subset
  <2> QED
    BY <2>1, <2>2 DEF FiniteSubsetsOf
<1>3. IsWellFoundedOn(StrictSubsetOrdering(Workers), FiniteSubsetsOf(Workers))
  BY FS_StrictSubsetOrderingWellFounded
<1>4. Below # {}
  OBVIOUS
<1>5. PICK B \in Below : \A C \in Below : <<C, B>> \notin StrictSubsetOrdering(Workers)
  <2> HIDE DEF Below
  <2> QED
    BY <1>2, <1>3, <1>4, WFMin
<1>6. PICK x \in S : B = 1..x
  OBVIOUS
<1>7. ASSUME NEW y \in S
      PROVE  x <= y
  <2>1. SUFFICES ASSUME y < x
                 PROVE  FALSE
    BY DEF Workers
  <2>2. /\ 1..y \subseteq 1..x /\ x \in 1..x /\ x \notin 1..y
        /\ 1..y \in SUBSET Workers /\ 1..x \in SUBSET Workers
    BY <2>1 DEF Workers
  <2>3. <<1..y, 1..x>> \in StrictSubsetOrdering(Workers)
    BY <2>2 DEF StrictSubsetOrdering
  <2>4. 1..y \in Below
    OBVIOUS
  <2> QED
    BY <1>5, <1>6, <2>3, <2>4
<1> QED
  BY <1>7 DEF Least

(* Where a sweep goes on after it has tried queue s.i.                     *)
LEMMA AdvanceHolds ==
  ASSUME NEW s \in Sweeps, s.more => \E j \in s.check : j <= s.i
  PROVE  /\ Advance(s) \in Sweeps
         /\ Advance(s).i # 0 => /\ Advance(s).i \in Advance(s).check
                                /\ Advance(s).more => \E j \in Advance(s).check : j < Advance(s).i
<1> USE QueueFacts
<1> DEFINE later == {j \in s.check : j > s.i}
<1>1. later \in SUBSET Workers /\ s.check \in SUBSET Workers /\ s.i \in 0..NumWorkers
  BY DEF Sweeps
<1>2. CASE later # {}
  <2>1. Advance(s) = [s EXCEPT !.i = Least(later)]
    BY <1>2 DEF Advance
  <2>2. Least(later) \in s.check /\ Least(later) > s.i /\ Least(later) \in Workers
    BY <1>1, <1>2, LeastIsLeast
  <2>3. ASSUME NEW j \in s.check, j <= s.i
        PROVE  j < Least(later)
    BY <1>1, <2>2, <2>3 DEF Workers
  <2> HIDE DEF later
  <2> QED
    BY <2>1, <2>2, <2>3 DEF Sweeps, Workers
<1>3. CASE later = {} /\ s.more
  <2>1. Advance(s) = [s EXCEPT !.i = Least(s.check), !.more = FALSE]
    BY <1>3 DEF Advance
  <2>2. Least(s.check) \in s.check /\ Least(s.check) \in 0..NumWorkers
    BY <1>1, <1>3, LeastIsLeast DEF Workers
  <2>3. /\ Advance(s).i = Least(s.check) /\ Advance(s).check = s.check /\ Advance(s).more = FALSE
        /\ Advance(s) \in Sweeps
    BY <2>1, <2>2 DEF Sweeps
  <2> QED
    BY <2>2, <2>3
<1>4. CASE later = {} /\ ~s.more
  <2>1. Advance(s) = FullSweep \/ Advance(s) = NoSweep
    BY <1>4 DEF Advance
  <2>2. FullSweep \in Sweeps /\ FullSweep.more = FALSE /\ FullSweep.i \in FullSweep.check
    BY DEF FullSweep, Sweeps, Workers
  <2>3. NoSweep \in Sweeps /\ NoSweep.i = 0
    BY <2>2 DEF NoSweep, Sweeps
  <2> QED
    BY <2>1, <2>2, <2>3
<1> QED
  BY <1>2, <1>3, <1>4

LEMMA WorkersAreFinite ==
  ASSUME NEW S \in SUBSET Workers
  PROVE  IsFiniteSet(S) /\ Cardinality(S) \in 0..NumWorkers
<1>1. IsFiniteSet(Workers) /\ Cardinality(Workers) = NumWorkers
  BY QueueFacts, FS_Interval DEF Workers
<1>2. IsFiniteSet(S) /\ Cardinality(S) <= NumWorkers
  BY <1>1, FS_Subset
<1> QED
  BY <1>2, FS_CardinalityType, QueueFacts

--------------------------------------------------------------------------------
LEMMA PoolInvInit ==
  ASSUME Init
  PROVE  PoolInv
<1> USE QueueFacts DEF Init
<1>1. FullSweep \in Sweeps /\ NoSweep \in Sweeps
  <2>1. FullSweep \in Sweeps
    BY DEF FullSweep, Sweeps, Workers
  <2> QED
    BY <2>1 DEF NoSweep, Sweeps
<1>2. NoPush \in Pushes
  BY DEF NoPush, Pushes, Queues
<1>3. TypeOK
  <2>1. mTasks \in [Queues -> SUBSET Tasks] /\ home \in [Tasks -> Queues \cup {NoQueueIndex}]
    OBVIOUS
  <2>2. sweep \in [Workers -> Sweeps] /\ push \in [Pushers -> Pushes]
    BY <1>1, <1>2
  <2>3. /\ mIsStarving \in [Queues -> BOOLEAN] /\ mIsRunning \in [Queues -> BOOLEAN]
        /\ workerPc \in [Workers -> WorkerPcs] /\ shouldSteal \in [Workers -> BOOLEAN]
        /\ mNumWaiting \in 0..NumWorkers
    BY DEF WorkerPcs
  <2>4. skipped \in BOOLEAN
    OBVIOUS
  <2> HIDE DEF Init
  <2> QED
    BY <2>1, <2>2, <2>3, <2>4 DEF TypeOK
<1>4. WaitingCounted
  <2>1. Waiting = {}
    BY DEF Waiting
  <2> QED
    BY <2>1, FS_EmptySet DEF WaitingCounted
<1>5. PushesHold /\ SweepsHold
  BY DEF PushesHold, NoPush, SweepsHold
<1>6. SignalledIsUp /\ HomeIsServed
  BY DEF SignalledIsUp, HomeIsServed
<1> QED
  BY <1>3, <1>4, <1>5, <1>6 DEF PoolInv

(* A worker that goes from one place to another is counted again.          *)
LEMMA CountedAgain ==
  ASSUME TypeOK, WaitingCounted, NEW w \in Workers, NEW to \in WorkerPcs, GoTo(w, to),
         mNumWaiting' = mNumWaiting
           + (IF to \in {"wait", "parked", "woken", "leave", "quit"} THEN 1 ELSE 0)
           - (IF workerPc[w] \in {"wait", "parked", "woken", "leave", "quit"} THEN 1 ELSE 0)
  PROVE  /\ WaitingCounted' /\ mNumWaiting' \in 0..NumWorkers
         /\ workerPc' \in [Workers -> WorkerPcs] /\ workerPc'[w] = to
         /\ \A v \in Workers : v # w => workerPc'[v] = workerPc[v]
<1> DEFINE waits == {"wait", "parked", "woken", "leave", "quit"}
<1>1. /\ workerPc' \in [Workers -> WorkerPcs] /\ workerPc'[w] = to
      /\ \A v \in Workers : v # w => workerPc'[v] = workerPc[v]
  BY DEF TypeOK, GoTo
<1>2. Waiting' = IF to \in waits THEN Waiting \cup {w} ELSE Waiting \ {w}
  BY <1>1 DEF Waiting
<1>3. w \in Waiting <=> workerPc[w] \in waits
  BY DEF Waiting
<1>4. IsFiniteSet(Waiting) /\ Cardinality(Waiting) \in Nat
  BY WorkersAreFinite DEF Waiting
<1>5. Cardinality(Waiting') = Cardinality(Waiting) + (IF to \in waits THEN 1 ELSE 0)
                                                  - (IF workerPc[w] \in waits THEN 1 ELSE 0)
  <2>1. CASE to \in waits
    BY <1>2, <1>3, <1>4, <2>1, FS_AddElement
  <2>2. CASE to \notin waits
    <3>1. Cardinality(Waiting \ {w}) = IF w \in Waiting THEN Cardinality(Waiting) - 1
                                                        ELSE Cardinality(Waiting)
      BY <1>4, FS_RemoveElement
    <3> QED
      BY <1>2, <1>3, <1>4, <2>2, <3>1
  <2> QED
    BY <2>1, <2>2
<1>6. WaitingCounted'
  BY <1>5 DEF WaitingCounted
<1>7. Cardinality(Waiting') \in 0..NumWorkers
  BY WorkersAreFinite DEF Waiting
<1> QED
  BY <1>1, <1>6, <1>7 DEF WaitingCounted

--------------------------------------------------------------------------------
(* Pushes                                                                  *)

LEMMA AddTaskHolds ==
  ASSUME PoolInv, NEW p \in Pushers, NEW t, NEW q \in Queues, NEW s \in Pushes,
         s.left >= 1, t \in s.rest, AddTask(p, t, q, s),
         home' \in [Tasks -> Queues \cup {NoQueueIndex}],
         \A u \in Tasks : IF u \in s.rest THEN home'[u] = s.first ELSE home'[u] = home[u],
         \A r \in Pushers : r # p => \A u \in push[r].rest : home'[u] = push[r].first,
         \A r \in Workers : WillSignal(p, r) => r = s.first
  PROVE  PoolInv'
<1>t. TypeOK /\ s.rest \in SUBSET Tasks /\ s.first \in Queues /\ t \in Tasks
  BY DEF PoolInv, Pushes
<1>a. /\ mTasks' = [mTasks EXCEPT ![q] = @ \cup {t}]
      /\ UNCHANGED <<mIsStarving, mIsRunning, workerPc, mNumWaiting, shouldSteal, sweep, skipped>>
  BY DEF AddTask, workerVars
<1>p. /\ push' \in [Pushers -> Pushes]
      /\ \A r \in Pushers : r # p => push'[r] = push[r]
      /\ push'[p].first = s.first /\ push'[p].left = s.left /\ push'[p].rest \in SUBSET s.rest
      /\ \/ push'[p].pc = "push"
         \/ push'[p].pc = "signal" /\ push'[p].at = s.first
  <2> DEFINE more == [s EXCEPT !.pc = "push", !.at = q, !.rest = @ \ {t}]
             last == [s EXCEPT !.pc = "signal", !.at = s.first, !.rest = {}]
  <2>1. more \in Pushes /\ last \in Pushes
    BY <1>t DEF Pushes
  <2>2. /\ more.first = s.first /\ more.left = s.left /\ more.rest = s.rest \ {t} /\ more.pc = "push"
        /\ last.first = s.first /\ last.left = s.left /\ last.rest = {}
        /\ last.pc = "signal" /\ last.at = s.first
    BY DEF Pushes
  <2>3. push' = [push EXCEPT ![p] = more] \/ push' = [push EXCEPT ![p] = last]
    BY DEF AddTask
  <2> HIDE DEF more, last
  <2> QED
    BY <1>t, <2>1, <2>2, <2>3 DEF TypeOK
<1>1. TypeOK'
  BY <1>t, <1>a, <1>p DEF TypeOK
<1>2. WaitingCounted' /\ SweepsHold' /\ SignalledIsUp'
  BY <1>a DEF PoolInv, WaitingCounted, Waiting, SweepsHold, SignalledIsUp
<1>3. PushesHold'
  BY <1>t, <1>p DEF PoolInv, PushesHold
<1>4. HomeIsServed'
  <2> SUFFICES ASSUME NEW r \in Workers, NEW u \in mTasks'[r], home'[u] = r
               PROVE  WillLook(r)' \/ \E v \in Pushers : WillSignal(v, r)'
    BY DEF HomeIsServed
  <2>1. CASE s.first = r
    BY <1>p, <2>1 DEF WillSignal
  <2>2. CASE s.first # r
    <3>1. u \in Tasks /\ u \notin s.rest /\ u \in mTasks[r]
      BY <1>t, <1>a, <2>2, QueueFacts DEF TypeOK
    <3>2. WillLook(r) \/ \E v \in Pushers : v # p /\ WillSignal(v, r)
      BY <2>2, <3>1 DEF PoolInv, HomeIsServed
    <3>3. WillLook(r)' <=> WillLook(r)
      BY <1>a DEF WillLook
    <3>4. \A v \in Pushers : v # p => (WillSignal(v, r)' <=> WillSignal(v, r))
      BY <1>p DEF WillSignal
    <3> QED
      BY <3>2, <3>3, <3>4
  <2> QED
    BY <2>1, <2>2
<1> QED
  BY <1>1, <1>2, <1>3, <1>4 DEF PoolInv

LEMMA StartPushStep ==
  ASSUME PoolInv, NEW p \in Pushers, NEW works \in Batches, NEW q \in Queues, NEW t \in works,
         StartPush(p, works, t, q)
  PROVE  PoolInv'
<1> DEFINE s == [NoPush EXCEPT !.first = q, !.left = Cardinality(works), !.rest = works]
<1>t. TypeOK
  BY DEF PoolInv
<1>1. works \in SUBSET Tasks /\ Cardinality(works) \in 1..MaxBatch
      /\ \A u \in works : home[u] = NoQueueIndex
  BY DEF Batches, Fresh
<1>2. /\ s \in Pushes /\ s.left = Cardinality(works) /\ s.rest = works /\ s.first = q
  <2>1. NoPush \in Pushes
    BY QueueFacts DEF NoPush, Pushes, Queues
  <2>2. Cardinality(works) \in 0..MaxBatch
    BY <1>1, QueueFacts
  <2> QED
    BY <1>1, <2>1, <2>2 DEF Pushes
<1>3. s.left >= 1
  BY <1>1, <1>2, QueueFacts
<1>4. /\ home' \in [Tasks -> Queues \cup {NoQueueIndex}]
      /\ \A u \in Tasks : IF u \in works THEN home'[u] = q ELSE home'[u] = home[u]
  BY <1>t DEF StartPush, TypeOK
<1>5. \A r \in Pushers : \A u \in push[r].rest : home'[u] = push[r].first
  <2> SUFFICES ASSUME NEW r \in Pushers, NEW u \in push[r].rest
               PROVE  home'[u] = push[r].first
    OBVIOUS
  <2>1. u \in Tasks /\ push[r].first \in Queues
    BY <1>t DEF TypeOK, Pushes
  <2>2. home[u] = push[r].first
    BY DEF PoolInv, PushesHold
  <2>3. u \notin works
    BY <1>1, <2>1, <2>2, QueueFacts
  <2> QED
    BY <1>4, <2>1, <2>2, <2>3
<1>6. AddTask(p, t, q, s) /\ \A r \in Workers : ~WillSignal(p, r)
  BY DEF StartPush, WillSignal
<1> HIDE DEF s
<1> QED
  BY <1>2, <1>3, <1>4, <1>5, <1>6, AddTaskHolds

LEMMA PushNextStep ==
  ASSUME PoolInv, NEW p \in Pushers, NEW t \in push[p].rest, PushNext(p, t)
  PROVE  PoolInv'
<1>t. TypeOK /\ PushesHold
  BY DEF PoolInv
<1>1. push[p] \in Pushes /\ push[p].pc = "push" /\ push[p].left >= 1 /\ push[p].at \in Queues
  BY <1>t DEF PushNext, TypeOK, PushesHold, Pushes
<1>2. NextQueue(p, push[p].at) \in Queues
  BY <1>1, QueueFacts DEF NextQueue
<1>3. AddTask(p, t, NextQueue(p, push[p].at), push[p]) /\ home' = home
  BY DEF PushNext
<1>4. \A r \in Workers : WillSignal(p, r) => r = push[p].first
  BY <1>1 DEF WillSignal
<1>5. /\ home' \in [Tasks -> Queues \cup {NoQueueIndex}]
      /\ \A r \in Pushers : \A u \in push[r].rest : home'[u] = push[r].first
      /\ \A u \in Tasks : IF u \in push[p].rest THEN home'[u] = push[p].first ELSE home'[u] = home[u]
  BY <1>t, <1>3 DEF TypeOK, PushesHold
<1> QED
  BY <1>1, <1>2, <1>3, <1>4, <1>5, AddTaskHolds

LEMMA SignalCheckStep ==
  ASSUME PoolInv, NEW p \in Pushers, SignalCheck(p)
  PROVE  PoolInv'
<1>t. TypeOK
  BY DEF PoolInv
<1> DEFINE to == IF mIsStarving[push[p].at] THEN "lock" ELSE "next"
<1>a. /\ push[p].pc = "signal" /\ push[p] \in Pushes /\ push[p].at \in Queues
      /\ push' = [push EXCEPT ![p].pc = to]
      /\ UNCHANGED <<mTasks, mIsStarving, mIsRunning, workerPc, mNumWaiting, shouldSteal, sweep, home,
                     skipped>>
  BY <1>t DEF SignalCheck, workerVars, TypeOK, Pushes
<1>p. /\ push' \in [Pushers -> Pushes]
      /\ \A r \in Pushers : r # p => push'[r] = push[r]
      /\ push'[p] = [push[p] EXCEPT !.pc = to]
  BY <1>t, <1>a DEF TypeOK, Pushes
<1>1. TypeOK'
  BY <1>t, <1>a, <1>p DEF TypeOK
<1>2. WaitingCounted' /\ SweepsHold' /\ SignalledIsUp'
  BY <1>a DEF PoolInv, WaitingCounted, Waiting, SweepsHold, SignalledIsUp
<1>f. push'[p].rest = push[p].rest /\ push'[p].first = push[p].first
      /\ push'[p].left = push[p].left /\ push'[p].at = push[p].at /\ push'[p].pc = to
  BY <1>a, <1>p DEF Pushes
<1>3. PushesHold'
  BY <1>t, <1>a, <1>p, <1>f DEF PoolInv, PushesHold
<1>4. HomeIsServed'
  <2> SUFFICES ASSUME NEW r \in Workers, NEW u \in mTasks[r], home[u] = r
               PROVE  WillLook(r)' \/ \E v \in Pushers : WillSignal(v, r)'
    BY <1>a DEF HomeIsServed
  <2>1. WillLook(r)' <=> WillLook(r)
    BY <1>a DEF WillLook
  <2>2. \A v \in Pushers : v # p => (WillSignal(v, r)' <=> WillSignal(v, r))
    BY <1>p DEF WillSignal
  <2>3. WillSignal(p, r) => WillSignal(p, r)' \/ WillLook(r)
    <3>1. ASSUME WillSignal(p, r), mIsStarving[r]
          PROVE  WillSignal(p, r)'
      BY <1>a, <1>f, <3>1 DEF WillSignal
    <3>2. ASSUME ~mIsStarving[r]
          PROVE  WillLook(r)
      BY <3>2 DEF PoolInv, SignalledIsUp, WillLook
    <3> QED
      BY <3>1, <3>2
  <2>4. WillLook(r) \/ \E v \in Pushers : WillSignal(v, r)
    BY DEF PoolInv, HomeIsServed
  <2> QED
    BY <2>1, <2>2, <2>3, <2>4
<1> QED
  BY <1>1, <1>2, <1>3, <1>4 DEF PoolInv

(* Waking the owner of a queue changes no count, and no duty to look.      *)
LEMMA WakeHolds ==
  ASSUME TypeOK, NEW q \in Queues, workerPc' = Wake(q)
  PROVE  /\ workerPc' \in [Workers -> WorkerPcs]
         /\ Waiting' = Waiting
         /\ \A w \in Workers : workerPc'[w] = IF w = q /\ workerPc[w] = "parked" THEN "woken" ELSE workerPc[w]
<1>1. \A w \in Workers : workerPc'[w] = IF w = q /\ workerPc[w] = "parked" THEN "woken" ELSE workerPc[w]
  BY DEF Wake
<1>2. workerPc' \in [Workers -> WorkerPcs]
  BY <1>1 DEF Wake, TypeOK, WorkerPcs
<1>3. Waiting' = Waiting
  BY <1>1 DEF Waiting
<1> QED
  BY <1>1, <1>2, <1>3

LEMMA SignalLockedStep ==
  ASSUME PoolInv, NEW p \in Pushers, SignalLocked(p)
  PROVE  PoolInv'
<1>t. TypeOK
  BY DEF PoolInv
<1> DEFINE q == push[p].at
<1>a. /\ push[p].pc = "lock" /\ push[p] \in Pushes /\ q \in Queues
      /\ mIsStarving' = [mIsStarving EXCEPT ![q] = FALSE]
      /\ workerPc' = Wake(q)
      /\ UNCHANGED <<mTasks, mIsRunning, mNumWaiting, shouldSteal, sweep, home, skipped>>
  BY <1>t DEF SignalLocked, workerVars, TypeOK, Pushes
<1>w. /\ workerPc' \in [Workers -> WorkerPcs]
      /\ Waiting' = Waiting
      /\ \A w \in Workers : workerPc'[w] = IF w = q /\ workerPc[w] = "parked" THEN "woken" ELSE workerPc[w]
  BY <1>t, <1>a, WakeHolds
<1>l. push[p].left \in 1..MaxBatch /\ push[p].left >= 1
  BY <1>a, QueueFacts DEF PoolInv, PushesHold, Pushes
<1>s. \E s \in Pushes :
        /\ push' = [push EXCEPT ![p] = s]
        /\ s.pc # "idle" => s.left >= 1
        /\ s.rest # {} => s.rest = push[p].rest /\ s.first = push[p].first
  <2>1. CASE ~IsWaiting(q)
    <3> DEFINE s == [push[p] EXCEPT !.pc = "next"]
    <3>1. s \in Pushes /\ s.left = push[p].left /\ s.rest = push[p].rest /\ s.first = push[p].first
      BY <1>a DEF Pushes
    <3>2. push' = [push EXCEPT ![p] = s]
      BY <2>1 DEF SignalLocked
    <3> HIDE DEF s
    <3> QED
      BY <1>l, <3>1, <3>2
  <2>2. CASE IsWaiting(q) /\ push[p].left = 1
    <3>1. NoPush \in Pushes /\ NoPush.rest = {} /\ NoPush.pc = "idle"
      BY QueueFacts DEF NoPush, Pushes, Queues
    <3>2. push' = [push EXCEPT ![p] = NoPush]
      BY <2>2 DEF SignalLocked
    <3> QED
      BY <3>1, <3>2
  <2>3. CASE IsWaiting(q) /\ push[p].left # 1
    <3>1. PICK n \in 1..MaxBatch : n = push[p].left - 1
      BY <1>l, <2>3, QueueFacts
    <3> DEFINE s == [push[p] EXCEPT !.pc = "next", !.left = n]
    <3>2. n \in 0..MaxBatch /\ n >= 1
      BY QueueFacts
    <3>3. s \in Pushes /\ s.left = n /\ s.rest = push[p].rest /\ s.first = push[p].first
      BY <1>a, <3>2 DEF Pushes
    <3>4. push' = [push EXCEPT ![p] = s]
      BY <2>3, <3>1 DEF SignalLocked
    <3> HIDE DEF s
    <3> QED
      BY <3>2, <3>3, <3>4
  <2> QED
    BY <2>1, <2>2, <2>3
<1>s2. PICK s \in Pushes :
        /\ push' = [push EXCEPT ![p] = s]
        /\ s.pc # "idle" => s.left >= 1
        /\ s.rest # {} => s.rest = push[p].rest /\ s.first = push[p].first
  BY <1>s
<1>p. /\ push' \in [Pushers -> Pushes] /\ push'[p] = s
      /\ \A r \in Pushers : r # p => push'[r] = push[r]
  BY <1>t, <1>s2 DEF TypeOK
<1> HIDE DEF q
<1>1. TypeOK'
  BY <1>t, <1>a, <1>w, <1>p DEF TypeOK
<1>2. WaitingCounted' /\ SignalledIsUp'
  BY <1>t, <1>a, <1>w DEF PoolInv, WaitingCounted, SignalledIsUp, TypeOK
<1>3. SweepsHold'
  BY <1>a, <1>w DEF PoolInv, SweepsHold
<1>4. PushesHold'
  BY <1>t, <1>a, <1>p, <1>s2 DEF PoolInv, PushesHold
<1>5. HomeIsServed'
  <2> SUFFICES ASSUME NEW r \in Workers, NEW u \in mTasks[r], home[u] = r
               PROVE  WillLook(r)' \/ \E v \in Pushers : WillSignal(v, r)'
    BY <1>a DEF HomeIsServed
  <2>1. mIsStarving'[r] = IF r = q THEN FALSE ELSE mIsStarving[r]
    BY <1>t, <1>a, QueueFacts DEF TypeOK
  <2>2. r = q => WillLook(r)'
    BY <1>w, <2>1 DEF WillLook
  <2>3. r # q /\ WillLook(r) => WillLook(r)'
    BY <1>w, <2>1 DEF WillLook
  <2>4. \A v \in Pushers : v # p => (WillSignal(v, r)' <=> WillSignal(v, r))
    BY <1>p DEF WillSignal
  <2>5. WillSignal(p, r) => r = q
    BY <1>a DEF WillSignal, q
  <2>6. WillLook(r) \/ \E v \in Pushers : WillSignal(v, r)
    BY DEF PoolInv, HomeIsServed
  <2> QED
    BY <2>2, <2>3, <2>4, <2>5, <2>6
<1> QED
  BY <1>1, <1>2, <1>3, <1>4, <1>5 DEF PoolInv

LEMMA NextSignalStep ==
  ASSUME PoolInv, NEW p \in Pushers, NextSignal(p)
  PROVE  PoolInv'
<1>t. TypeOK
  BY DEF PoolInv
<1>a. /\ push[p].pc = "next" /\ push[p] \in Pushes
      /\ UNCHANGED <<mTasks, mIsStarving, mIsRunning, workerPc, mNumWaiting, shouldSteal, sweep, home,
                     skipped>>
  BY <1>t DEF NextSignal, workerVars, TypeOK
<1>s. \E s \in Pushes :
        /\ push' = [push EXCEPT ![p] = s]
        /\ s.pc # "idle" => s.left >= 1
        /\ s.rest # {} => s.rest = push[p].rest /\ s.first = push[p].first
  <2>1. CASE mNumWaiting = 0 \/ Ring(push[p].at) = push[p].first
    <3>1. NoPush \in Pushes /\ NoPush.rest = {} /\ NoPush.pc = "idle"
      BY QueueFacts DEF NoPush, Pushes, Queues
    <3>2. push' = [push EXCEPT ![p] = NoPush]
      BY <2>1 DEF NextSignal
    <3> QED
      BY <3>1, <3>2
  <2>2. CASE ~(mNumWaiting = 0 \/ Ring(push[p].at) = push[p].first)
    <3>1. Ring(push[p].at) \in Queues /\ push[p].left >= 1
      BY <1>a, QueueFacts DEF Pushes, PoolInv, PushesHold
    <3> DEFINE s == [push[p] EXCEPT !.pc = "signal", !.at = Ring(push[p].at)]
    <3>2. s \in Pushes /\ s.left = push[p].left /\ s.rest = push[p].rest /\ s.first = push[p].first
      BY <1>a, <3>1 DEF Pushes
    <3>3. push' = [push EXCEPT ![p] = s]
      BY <2>2 DEF NextSignal
    <3> HIDE DEF s
    <3> QED
      BY <3>1, <3>2, <3>3
  <2> QED
    BY <2>1, <2>2
<1>s2. PICK s \in Pushes :
        /\ push' = [push EXCEPT ![p] = s]
        /\ s.pc # "idle" => s.left >= 1
        /\ s.rest # {} => s.rest = push[p].rest /\ s.first = push[p].first
  BY <1>s
<1>p. /\ push' \in [Pushers -> Pushes] /\ push'[p] = s
      /\ \A r \in Pushers : r # p => push'[r] = push[r]
  BY <1>t, <1>s2 DEF TypeOK
<1>1. TypeOK'
  BY <1>t, <1>a, <1>p DEF TypeOK
<1>2. WaitingCounted' /\ SweepsHold' /\ SignalledIsUp'
  BY <1>a DEF PoolInv, WaitingCounted, Waiting, SweepsHold, SignalledIsUp
<1>3. PushesHold'
  BY <1>t, <1>a, <1>p, <1>s2 DEF PoolInv, PushesHold
<1>4. HomeIsServed'
  <2>1. \A r \in Workers : ~WillSignal(p, r) /\ (WillLook(r)' <=> WillLook(r))
    BY <1>a DEF WillSignal, WillLook
  <2>2. \A r \in Workers, v \in Pushers : v # p => (WillSignal(v, r)' <=> WillSignal(v, r))
    BY <1>p DEF WillSignal
  <2> QED
    BY <1>a, <2>1, <2>2 DEF PoolInv, HomeIsServed
<1> QED
  BY <1>1, <1>2, <1>3, <1>4 DEF PoolInv

LEMMA StopStep ==
  ASSUME PoolInv, NEW q \in Queues, Stop(q)
  PROVE  PoolInv'
<1>t. TypeOK
  BY DEF PoolInv
<1>a. /\ workerPc' = Wake(q) /\ mIsRunning' = [mIsRunning EXCEPT ![q] = FALSE]
      /\ UNCHANGED <<mTasks, mIsStarving, mNumWaiting, shouldSteal, sweep, push, home, skipped>>
  BY DEF Stop, workerVars
<1>w. /\ workerPc' \in [Workers -> WorkerPcs]
      /\ Waiting' = Waiting
      /\ \A w \in Workers : workerPc'[w] = IF w = q /\ workerPc[w] = "parked" THEN "woken" ELSE workerPc[w]
  BY <1>t, <1>a, WakeHolds
<1>1. TypeOK'
  BY <1>t, <1>a, <1>w DEF TypeOK
<1>2. WaitingCounted' /\ SignalledIsUp'
  BY <1>a, <1>w DEF PoolInv, WaitingCounted, SignalledIsUp
<1>3. SweepsHold' /\ PushesHold'
  BY <1>a, <1>w DEF PoolInv, SweepsHold, PushesHold
<1>4. HomeIsServed'
  <2>1. \A r \in Workers : WillLook(r) => WillLook(r)'
    BY <1>a, <1>w DEF WillLook
  <2> QED
    BY <1>a, <2>1 DEF PoolInv, HomeIsServed, WillSignal
<1> QED
  BY <1>1, <1>2, <1>3, <1>4 DEF PoolInv

--------------------------------------------------------------------------------
(* Workers                                                                 *)

Waits == {"wait", "parked", "woken", "leave", "quit"}

(* A worker that goes on keeps the invariant when it is counted, its sweep *)
(* is at a queue, and it looks into a queue that has tasks if it was to.   *)
LEMMA WorkerGoesOn ==
  ASSUME PoolInv, NEW w \in Workers, NEW to \in WorkerPcs, NEW s \in Sweeps, GoTo(w, to),
         sweep' = [sweep EXCEPT ![w] = s],
         mNumWaiting' = mNumWaiting + (IF to \in Waits THEN 1 ELSE 0)
                                    - (IF workerPc[w] \in Waits THEN 1 ELSE 0),
         mTasks' \in [Queues -> SUBSET Tasks], \A q \in Queues : mTasks'[q] \subseteq mTasks[q],
         mIsStarving' \in [Queues -> BOOLEAN],
         \A v \in Workers : v # w => mIsStarving'[v] = mIsStarving[v],
         shouldSteal' \in [Workers -> BOOLEAN], skipped' \in BOOLEAN,
         UNCHANGED <<mIsRunning, push, home>>,
         to = "steal" => s.i \in s.check /\ (s.more => \E j \in s.check : j < s.i),
         to = "runStolen" => s.i \in s.check /\ (s.more => \E j \in s.check : j <= s.i),
         to = "parked" => mIsStarving'[w],
         to \in {"enter", "wait", "parked"} =>
           \/ mTasks'[w] = {}
           \/ ~WillLook(w)
           \/ to # "parked" /\ ~mIsStarving'[w]
  PROVE  PoolInv'
<1>t. TypeOK
  BY DEF PoolInv
<1>c. /\ WaitingCounted' /\ mNumWaiting' \in 0..NumWorkers
      /\ workerPc' \in [Workers -> WorkerPcs] /\ workerPc'[w] = to
      /\ \A v \in Workers : v # w => workerPc'[v] = workerPc[v]
  BY <1>t, CountedAgain DEF PoolInv, Waits
<1>1. TypeOK'
  BY <1>t, <1>c DEF TypeOK
<1>2. PushesHold'
  BY DEF PoolInv, PushesHold
<1>3. SweepsHold'
  <2>1. sweep'[w] = s /\ \A v \in Workers : v # w => sweep'[v] = sweep[v]
    BY <1>t DEF TypeOK
  <2> QED
    BY <1>c, <2>1 DEF PoolInv, SweepsHold
<1>4. SignalledIsUp'
  BY <1>c DEF PoolInv, SignalledIsUp
<1>5. HomeIsServed'
  <2> SUFFICES ASSUME NEW r \in Workers, NEW u \in mTasks'[r], home[u] = r
               PROVE  WillLook(r)' \/ \E v \in Pushers : WillSignal(v, r)'
    BY DEF HomeIsServed
  <2>1. u \in mTasks[r]
    BY QueueFacts
  <2>2. WillLook(r) \/ \E v \in Pushers : WillSignal(v, r)
    BY <2>1 DEF PoolInv, HomeIsServed
  <2>3. WillLook(r) => WillLook(r)'
    <3>1. r # w => (WillLook(r)' <=> WillLook(r))
      BY <1>c DEF WillLook
    <3>2. WillLook(w) /\ r = w => WillLook(w)'
      BY <1>c DEF WillLook
    <3> QED
      BY <3>1, <3>2
  <2>4. \A v \in Pushers : WillSignal(v, r)' <=> WillSignal(v, r)
    BY DEF WillSignal
  <2> QED
    BY <2>2, <2>3, <2>4
<1> QED
  BY <1>1, <1>c, <1>2, <1>3, <1>4, <1>5 DEF PoolInv

(* A sweep that goes on after the queue it was at.                         *)
LEMMA ContinueHolds ==
  ASSUME PoolInv, NEW w \in Workers, NEW s \in Sweeps, s.more => \E j \in s.check : j <= s.i,
         Continue(w, s), workerPc[w] \in {"steal", "runStolen"},
         skipped' \in BOOLEAN,
         UNCHANGED <<mTasks, mIsStarving, mIsRunning, mNumWaiting, shouldSteal, push, home>>
  PROVE  PoolInv'
<1>t. TypeOK
  BY DEF PoolInv
<1> DEFINE to == IF Advance(s).i = 0 THEN "own" ELSE "steal"
<1>1. to \in WorkerPcs /\ to \in {"own", "steal"}
  BY DEF WorkerPcs
<1>2. /\ Advance(s) \in Sweeps
      /\ to = "steal" => /\ Advance(s).i \in Advance(s).check
                         /\ Advance(s).more => \E j \in Advance(s).check : j < Advance(s).i
  BY AdvanceHolds
<1>3. GoTo(w, to) /\ sweep' = [sweep EXCEPT ![w] = Advance(s)]
  BY DEF Continue
<1>4. mNumWaiting' = mNumWaiting + (IF to \in Waits THEN 1 ELSE 0)
                                 - (IF workerPc[w] \in Waits THEN 1 ELSE 0)
  BY <1>1, <1>t DEF Waits, TypeOK
<1>5. /\ mTasks' \in [Queues -> SUBSET Tasks] /\ mIsStarving' \in [Queues -> BOOLEAN]
      /\ shouldSteal' \in [Workers -> BOOLEAN]
  BY <1>t DEF TypeOK
<1> HIDE DEF to
<1> QED
  BY <1>1, <1>2, <1>3, <1>4, <1>5, WorkerGoesOn

LEMMA OwnQueueStep ==
  ASSUME PoolInv, NEW w \in Workers,
         (\E t \in mTasks[w] : PopOwn(w, t)) \/ DoneOwn(w) \/ FindEmpty(w)
  PROVE  PoolInv'
<1>t. TypeOK /\ w \in Queues
  BY QueueFacts DEF PoolInv
<1>w. sweep = [sweep EXCEPT ![w] = sweep[w]] /\ sweep[w] \in Sweeps
  BY <1>t DEF TypeOK
<1>n. mNumWaiting = mNumWaiting + 0 - 0
  BY <1>t DEF TypeOK
<1>u. /\ mTasks \in [Queues -> SUBSET Tasks] /\ mIsStarving \in [Queues -> BOOLEAN]
      /\ shouldSteal \in [Workers -> BOOLEAN] /\ skipped \in BOOLEAN
  BY <1>t DEF TypeOK
<1>1. ASSUME NEW t \in mTasks[w], PopOwn(w, t)
      PROVE  PoolInv'
  <2>1. mTasks' \in [Queues -> SUBSET Tasks] /\ \A q \in Queues : mTasks'[q] \subseteq mTasks[q]
    BY <1>1, <1>t DEF PopOwn, TypeOK
  <2>2. workerPc[w] \notin Waits /\ "run" \notin Waits /\ "run" \in WorkerPcs
    BY <1>1 DEF PopOwn, Waits, WorkerPcs
  <2>3. GoTo(w, "run") /\ UNCHANGED <<mIsStarving, mIsRunning, mNumWaiting, shouldSteal, sweep, push,
                                       home, skipped>>
    BY <1>1 DEF PopOwn
  <2> QED
    BY <1>w, <1>n, <1>u, <2>1, <2>2, <2>3, WorkerGoesOn
<1>2. CASE DoneOwn(w)
  <2>1. workerPc[w] \notin Waits /\ "own" \notin Waits /\ "own" \in WorkerPcs
    BY <1>2 DEF DoneOwn, Waits, WorkerPcs
  <2>2. GoTo(w, "own") /\ UNCHANGED <<mTasks, mIsStarving, mIsRunning, mNumWaiting, shouldSteal, sweep,
                                       push, home, skipped>>
    BY <1>2 DEF DoneOwn
  <2> QED
    BY <1>w, <1>n, <1>u, <2>1, <2>2, WorkerGoesOn
<1>3. CASE FindEmpty(w)
  <2> DEFINE to == IF shouldSteal[w] THEN "steal" ELSE "enter"
             s == IF shouldSteal[w] THEN FullSweep ELSE NoSweep
  <2>1. workerPc[w] \notin Waits /\ to \notin Waits /\ to \in WorkerPcs
    BY <1>3 DEF FindEmpty, Waits, WorkerPcs
  <2>2. FullSweep \in Sweeps /\ FullSweep.i \in FullSweep.check /\ FullSweep.more = FALSE
    BY QueueFacts DEF FullSweep, Sweeps, Workers
  <2>3. NoSweep \in Sweeps
    BY <2>2, QueueFacts DEF NoSweep, Sweeps
  <2>4. s \in Sweeps /\ (to = "steal" => s.i \in s.check /\ ~s.more)
    BY <2>2, <2>3
  <2>5. /\ GoTo(w, to) /\ sweep' = [sweep EXCEPT ![w] = s] /\ mTasks'[w] = {}
        /\ UNCHANGED <<mTasks, mIsStarving, mIsRunning, mNumWaiting, push, home, skipped>>
    BY <1>3 DEF FindEmpty
  <2>6. shouldSteal' \in [Workers -> BOOLEAN]
    BY <1>3, <1>u DEF FindEmpty
  <2>7. to \notin {"runStolen", "parked"}
    OBVIOUS
  <2> HIDE DEF to, s
  <2> QED
    BY <1>n, <1>u, <2>1, <2>4, <2>5, <2>6, <2>7, WorkerGoesOn
<1> QED
  BY <1>1, <1>2, <1>3

LEMMA WaitStep ==
  ASSUME PoolInv, NEW w \in Workers,
         EnterWait(w) \/ TryWait(w) \/ LeaveTryWait(w) \/ LeaveWait(w) \/ SpuriousWake(w)
  PROVE  PoolInv'
<1>t. TypeOK /\ w \in Queues /\ mNumWaiting \in Int
  BY QueueFacts DEF PoolInv, TypeOK
<1>w. sweep = [sweep EXCEPT ![w] = sweep[w]] /\ sweep[w] \in Sweeps
  BY <1>t DEF TypeOK
<1>u. /\ mTasks \in [Queues -> SUBSET Tasks] /\ mIsStarving \in [Queues -> BOOLEAN]
      /\ shouldSteal \in [Workers -> BOOLEAN] /\ skipped \in BOOLEAN
  BY <1>t DEF TypeOK
<1>s. /\ [mIsStarving EXCEPT ![w] = TRUE] \in [Queues -> BOOLEAN]
      /\ [mIsStarving EXCEPT ![w] = TRUE][w] = TRUE
      /\ \A v \in Workers : v # w => [mIsStarving EXCEPT ![w] = TRUE][v] = mIsStarving[v]
  BY <1>t, <1>u, QueueFacts
<1>1. CASE EnterWait(w)
  <2>1. workerPc[w] \notin Waits /\ "wait" \in Waits /\ "wait" \in WorkerPcs
    BY <1>1 DEF EnterWait, Waits, WorkerPcs
  <2>2. mNumWaiting' = mNumWaiting + 1 - 0
    BY <1>1, <1>t DEF EnterWait
  <2>3. GoTo(w, "wait") /\ UNCHANGED <<mTasks, mIsStarving, mIsRunning, shouldSteal, sweep, push, home,
                                        skipped>>
    BY <1>1 DEF EnterWait
  <2>4. WillLook(w) => ~mIsStarving[w]
    BY <1>1 DEF EnterWait, WillLook
  <2> QED
    BY <1>w, <1>u, <2>1, <2>2, <2>3, <2>4, WorkerGoesOn
<1>2. CASE TryWait(w)
  <2> DEFINE to == IF ~mIsStarving[w] THEN "leave" ELSE IF mIsRunning[w] THEN "parked" ELSE "quit"
  <2>1. workerPc[w] \in Waits /\ to \in Waits /\ to \in WorkerPcs /\ to \in {"leave", "parked", "quit"}
    BY <1>2 DEF TryWait, Waits, WorkerPcs
  <2>2. mNumWaiting' = mNumWaiting + 1 - 1
    BY <1>2, <1>t DEF TryWait, workerVars
  <2>3. GoTo(w, to) /\ UNCHANGED <<mTasks, mIsRunning, shouldSteal, sweep, push, home, skipped>>
    BY <1>2 DEF TryWait, workerVars
  <2>4. mIsStarving' = [mIsStarving EXCEPT ![w] = TRUE]
    BY <1>2 DEF TryWait
  <2>5. to = "parked" => ~WillLook(w)
    BY <1>2 DEF TryWait, WillLook
  <2> HIDE DEF to
  <2> QED
    BY <1>w, <1>u, <1>s, <2>1, <2>2, <2>3, <2>4, <2>5, WorkerGoesOn
<1>3. CASE LeaveTryWait(w)
  <2>1. workerPc[w] \in Waits /\ "leave" \in Waits /\ "leave" \in WorkerPcs
    BY <1>3 DEF LeaveTryWait, Waits, WorkerPcs
  <2>2. mNumWaiting' = mNumWaiting + 1 - 1
    BY <1>3, <1>t DEF LeaveTryWait, workerVars
  <2>3. GoTo(w, "leave") /\ UNCHANGED <<mTasks, mIsRunning, shouldSteal, sweep, push, home, skipped>>
    BY <1>3 DEF LeaveTryWait, workerVars
  <2>4. mIsStarving' = [mIsStarving EXCEPT ![w] = TRUE]
    BY <1>3 DEF LeaveTryWait
  <2> QED
    BY <1>w, <1>u, <1>s, <2>1, <2>2, <2>3, <2>4, WorkerGoesOn
<1>4. CASE LeaveWait(w)
  <2> DEFINE to == IF workerPc[w] = "leave" THEN "own" ELSE "inactive"
  <2>1. workerPc[w] \in Waits /\ to \notin Waits /\ to \in WorkerPcs /\ to \in {"own", "inactive"}
    BY <1>4 DEF LeaveWait, Waits, WorkerPcs
  <2>2. mNumWaiting' = mNumWaiting + 0 - 1
    BY <1>4, <1>t DEF LeaveWait
  <2>3. GoTo(w, to) /\ UNCHANGED <<mTasks, mIsStarving, mIsRunning, sweep, push, home, skipped>>
    BY <1>4 DEF LeaveWait
  <2>4. shouldSteal' \in [Workers -> BOOLEAN]
    BY <1>4, <1>u DEF LeaveWait
  <2> HIDE DEF to
  <2> QED
    BY <1>w, <1>u, <2>1, <2>2, <2>3, <2>4, WorkerGoesOn
<1>5. CASE SpuriousWake(w)
  <2>1. workerPc[w] \in Waits /\ "woken" \in Waits /\ "woken" \in WorkerPcs
    BY <1>5 DEF SpuriousWake, Waits, WorkerPcs
  <2>2. mNumWaiting' = mNumWaiting + 1 - 1
    BY <1>5, <1>t DEF SpuriousWake, workerVars
  <2>3. GoTo(w, "woken") /\ UNCHANGED <<mTasks, mIsStarving, mIsRunning, shouldSteal, sweep, push, home,
                                         skipped>>
    BY <1>5 DEF SpuriousWake, workerVars
  <2> QED
    BY <1>w, <1>u, <2>1, <2>2, <2>3, WorkerGoesOn
<1> QED
  BY <1>1, <1>2, <1>3, <1>4, <1>5

LEMMA StealStep ==
  ASSUME PoolInv, NEW w \in Workers,
         \/ StealEmpty(w)
         \/ StealLocked(w)
         \/ \E t \in mTasks[Target(w)] : StealTask(w, t)
         \/ DoneStolen(w)
  PROVE  PoolInv'
<1>t. TypeOK /\ mNumWaiting \in Int /\ sweep[w] \in Sweeps
  BY DEF PoolInv, TypeOK
<1>u. /\ mTasks \in [Queues -> SUBSET Tasks] /\ mIsStarving \in [Queues -> BOOLEAN]
      /\ shouldSteal \in [Workers -> BOOLEAN] /\ skipped \in BOOLEAN
  BY <1>t DEF TypeOK
<1>s. /\ sweep[w].i \in 0..NumWorkers /\ sweep[w].check \in SUBSET Workers /\ Workers \subseteq Int
      /\ workerPc[w] = "steal" /\ sweep[w].more => \E j \in sweep[w].check : j < sweep[w].i
      /\ workerPc[w] = "runStolen" /\ sweep[w].more => \E j \in sweep[w].check : j <= sweep[w].i
      /\ workerPc[w] \in {"steal", "runStolen"} => sweep[w].i \in sweep[w].check
  BY <1>t DEF PoolInv, SweepsHold, Sweeps, Workers
<1>1. CASE StealEmpty(w)
  <2> DEFINE s == [sweep[w] EXCEPT !.check = @ \ {sweep[w].i}]
  <2>1. s \in Sweeps /\ s.more = sweep[w].more /\ s.i = sweep[w].i /\ s.check = sweep[w].check \ {sweep[w].i}
    BY <1>t DEF Sweeps
  <2>2. workerPc[w] = "steal" /\ Continue(w, s)
        /\ UNCHANGED <<mTasks, mIsStarving, mIsRunning, mNumWaiting, shouldSteal, push, home, skipped>>
    BY <1>1 DEF StealEmpty
  <2>3. s.more => \E j \in s.check : j <= s.i
    BY <1>s, <2>1, <2>2
  <2> HIDE DEF s
  <2> QED
    BY <1>u, <2>1, <2>2, <2>3, ContinueHolds
<1>2. CASE StealLocked(w)
  <2> DEFINE s == [sweep[w] EXCEPT !.force = TRUE]
  <2>1. s \in Sweeps /\ s.more = sweep[w].more /\ s.i = sweep[w].i /\ s.check = sweep[w].check
    BY <1>t DEF Sweeps
  <2>2. workerPc[w] = "steal" /\ Continue(w, s) /\ skipped' \in BOOLEAN
        /\ UNCHANGED <<mTasks, mIsStarving, mIsRunning, mNumWaiting, shouldSteal, push, home>>
    BY <1>2 DEF StealLocked
  <2>3. s.more => \E j \in s.check : j <= s.i
    BY <1>s, <2>1, <2>2
  <2> HIDE DEF s
  <2> QED
    BY <2>1, <2>2, <2>3, ContinueHolds
<1>3. ASSUME NEW t \in mTasks[Target(w)], StealTask(w, t)
      PROVE  PoolInv'
  <2> DEFINE more == sweep[w].more \/ mTasks[Target(w)] # {t}
             s == [sweep[w] EXCEPT !.dirty = TRUE, !.more = more]
  <2>1. s \in Sweeps /\ s.i = sweep[w].i /\ s.check = sweep[w].check
    BY <1>t DEF Sweeps
  <2>2. sweep' = [sweep EXCEPT ![w] = s]
    BY <1>3, <1>t DEF StealTask, TypeOK, Sweeps
  <2>3. workerPc[w] \notin Waits /\ "runStolen" \notin Waits /\ "runStolen" \in WorkerPcs
    BY <1>3 DEF StealTask, Waits, WorkerPcs
  <2>4. workerPc[w] = "steal" /\ GoTo(w, "runStolen")
        /\ UNCHANGED <<mIsStarving, mIsRunning, mNumWaiting, shouldSteal, push, home, skipped>>
    BY <1>3 DEF StealTask
  <2>5. mTasks' = [mTasks EXCEPT ![Target(w)] = @ \ {t}]
    BY <1>3 DEF StealTask
  <2>6. mTasks' \in [Queues -> SUBSET Tasks] /\ \A q \in Queues : mTasks'[q] \subseteq mTasks[q]
    BY <1>u, <2>5
  <2>7. s.i \in s.check /\ \E j \in s.check : j <= s.i
    BY <1>s, <2>1, <2>4
  <2>8. mNumWaiting' = mNumWaiting + 0 - 0
    BY <1>t, <2>4
  <2> HIDE DEF s
  <2> QED
    BY <1>u, <2>1, <2>2, <2>3, <2>4, <2>6, <2>7, <2>8, WorkerGoesOn
<1>4. CASE DoneStolen(w)
  <2>1. workerPc[w] = "runStolen" /\ Continue(w, sweep[w])
        /\ UNCHANGED <<mTasks, mIsStarving, mIsRunning, mNumWaiting, shouldSteal, push, home, skipped>>
    BY <1>4 DEF DoneStolen
  <2> QED
    BY <1>t, <1>u, <1>s, <2>1, ContinueHolds
<1> QED
  BY <1>1, <1>2, <1>3, <1>4

--------------------------------------------------------------------------------
LEMMA PoolInvStep ==
  ASSUME PoolInv, [Next]_vars
  PROVE  PoolInv'
<1>1. CASE UNCHANGED vars
  BY <1>1 DEF vars, PoolInv, TypeOK, WaitingCounted, Waiting, PushesHold, SweepsHold, SignalledIsUp,
     HomeIsServed, WillLook, WillSignal
<1>2. CASE Next
  <2>1. ASSUME NEW p \in Pushers, NEW works \in Batches, NEW q \in Queues, NEW t \in works,
               StartPush(p, works, t, q)
        PROVE  PoolInv'
    BY <2>1, StartPushStep
  <2>2. ASSUME NEW p \in Pushers, PushStep(p)
        PROVE  PoolInv'
    BY <2>2, PushNextStep, SignalCheckStep, SignalLockedStep, NextSignalStep DEF PushStep, WakeUpStep
  <2>3. ASSUME NEW w \in Workers, WorkerStep(w) \/ SpuriousWake(w)
        PROVE  PoolInv'
    BY <2>3, OwnQueueStep, WaitStep, StealStep DEF WorkerStep
  <2>4. ASSUME NEW q \in Queues, Stop(q)
        PROVE  PoolInv'
    BY <2>4, StopStep
  <2> QED
    BY <1>2, <2>1, <2>2, <2>3, <2>4 DEF Next
<1> QED
  BY <1>1, <1>2

LEMMA PoolInvariant == Spec => []PoolInv
<1>1. Init => PoolInv
  BY PoolInvInit
<1>2. PoolInv /\ [Next]_vars => PoolInv'
  BY PoolInvStep
<1> QED
  BY <1>1, <1>2, PTL DEF Spec

--------------------------------------------------------------------------------
(* Every reachable state of the pool is well typed: the counter of waiting *)
(* workers stays in its range, and a thief's loop names a queue.           *)
THEOREM PoolTypeCorrect == Spec => []TypeOK
<1>1. PoolInv => TypeOK
  BY DEF PoolInv
<1> QED
  BY <1>1, PoolInvariant, PTL

(* WakeUp stops looking for sleepers only when there are none, although it *)
(* reads the counter without a lock.                                       *)
THEOREM PoolCountsSleepers == Spec => []SleepersAreCounted
<1>1. PoolInv => SleepersAreCounted
  <2> SUFFICES ASSUME PoolInv, mNumWaiting = 0, NEW w \in Workers
               PROVE  workerPc[w] # "parked"
    BY DEF SleepersAreCounted
  <2>1. Waiting = {}
    BY WorkersAreFinite, FS_EmptySet DEF PoolInv, WaitingCounted, Waiting
  <2> QED
    BY <2>1 DEF Waiting
<1> QED
  BY <1>1, PoolInvariant, PTL

(* No wake-up is lost: when all workers sleep, none of them has a task in  *)
(* its queue whose push began there.                                       *)
THEOREM PoolServesFirstQueue == Spec => []FirstQueueIsServed
<1>1. PoolInv => FirstQueueIsServed
  <2> SUFFICES ASSUME PoolInv, Resting, NEW q \in Workers, NEW t \in mTasks[q], home[t] = q
               PROVE  FALSE
    BY DEF FirstQueueIsServed
  <2>1. ~WillLook(q)
    BY DEF Resting, WillLook
  <2>2. \A p \in Pushers : ~WillSignal(p, q)
    BY DEF Resting, WillSignal
  <2> QED
    BY <2>1, <2>2 DEF PoolInv, HomeIsServed
<1> QED
  BY <1>1, PoolInvariant, PTL
=================================================================================
