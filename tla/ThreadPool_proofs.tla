-------------------------------- MODULE ThreadPool_proofs --------------------------------
(***************************************************************************)
(* Proofs about the thread pool's own threads: module Companions, for all  *)
(* finite sets of workers and companions, every limit of background workers *)
(* and all sets of tasks, and module IOPool, for every set of pushing      *)
(* threads, every limit of IO threads and every number of tasks.           *)
(***************************************************************************)
EXTENDS Companions, IOPool, FiniteSetTheorems, TLAPS

USE ThreadsAssumption, LimitAssumption, FiniteAssumption

--------------------------------------------------------------------------------
(* The inductive invariant.  The counters match by themselves once they    *)
(* are known to be numbers; mNumWaiting is added to them.                  *)

InBackground == {"begin", "top", "background", "task", "held", "tasked", "leave"}
NotActive == {"none", "start", "begin", "sleep", "woken", "ended"}
Replaced == {"blocked", "held"}

(* How many companions are at one of some places, and not; how many        *)
(* workers are.                                                            *)
CountAt(pcs, places) == Cardinality({c \in Companions : pcs[c] \in places})
CountNotAt(pcs, places) == Cardinality({c \in Companions : pcs[c] \notin places})
WorkersAt(pcs, place) == Cardinality({w \in Workers : pcs[w] = place})


PlacesOK ==
  /\ workerPc \in [Workers -> WorkerPcs]
  /\ pc \in [Companions -> CompanionPcs]


Background == CountAt(pc, InBackground)
Active == CountNotAt(pc, NotActive)
Standing == CountAt(pc, Replaced)
Blocked == WorkersAt(workerPc, "blocked")
Idle == WorkersAt(workerPc, "idle")

WaitingMatch == mNumWaiting = Idle

CountersInv == PlacesOK /\ CountersMatch /\ WaitingMatch

(* CountersMatch in these words, in a state and the next.                  *)
Counted ==
  /\ mNumBackgroundWorkers = Background
  /\ mCompanionWorkersActive = Active
  /\ mCompanionWorkersNeeded = Standing + Blocked

LEMMA MatchIsCounted == (CountersMatch <=> Counted) /\ (CountersMatch' <=> Counted')
<1>1. Companions \ CompanionsAt(NotActive) = {c \in Companions : pc[c] \notin NotActive}
  BY DEF CompanionsAt
<1>2. (Companions \ CompanionsAt(NotActive))' = {c \in Companions : pc'[c] \notin NotActive}
  BY DEF CompanionsAt
<1> USE DEF CountersMatch, Counted, Background, Active, Standing, Blocked, CountAt, CountNotAt,
            WorkersAt, CompanionsAt, InBackground, NotActive, Replaced
<1>3. CountersMatch <=> Counted
  BY <1>1
<1>4. CountersMatch' <=> Counted'
  BY <1>2
<1> QED
  BY <1>3, <1>4

--------------------------------------------------------------------------------
(* Counting                                                                *)

(* A set that may gain or lose the element x.                              *)
LEMMA CountOne ==
  ASSUME NEW S, IsFiniteSet(S), NEW T, NEW x, S \ {x} = T \ {x}
  PROVE  /\ IsFiniteSet(T) /\ Cardinality(S) \in Nat /\ Cardinality(T) \in Nat
         /\ x \in S /\ x \in T => Cardinality(T) = Cardinality(S)
         /\ x \notin S /\ x \notin T => Cardinality(T) = Cardinality(S)
         /\ x \in S /\ x \notin T => Cardinality(T) = Cardinality(S) - 1
         /\ x \notin S /\ x \in T => Cardinality(T) = Cardinality(S) + 1
<1>1. Cardinality(S) \in Nat
  BY FS_CardinalityType
<1>2. CASE x \in S /\ x \notin T
  <2>1. T = S \ {x}
    BY <1>2
  <2>2. IsFiniteSet(T) /\ Cardinality(T) = Cardinality(S) - 1
    BY <1>2, <2>1, FS_RemoveElement
  <2> QED
    BY <1>1, <1>2, <2>2, FS_CardinalityType
<1>3. CASE x \notin S /\ x \in T
  <2>1. T = S \cup {x}
    BY <1>3
  <2>2. IsFiniteSet(T) /\ Cardinality(T) = Cardinality(S) + 1
    BY <1>3, <2>1, FS_AddElement
  <2> QED
    BY <1>1, <1>3, <2>2, FS_CardinalityType
<1>4. CASE x \in S <=> x \in T
  <2>1. S = T
    BY <1>4
  <2> QED
    BY <1>1, <1>4, <2>1
<1> QED
  BY <1>2, <1>3, <1>4

LEMMA CountsAreNumbers ==
  /\ \A f, P : CountAt(f, P) \in Nat /\ CountAt(f, P) <= Cardinality(Companions)
  /\ \A f, P : CountNotAt(f, P) \in Nat /\ CountNotAt(f, P) <= Cardinality(Companions)
  /\ \A f, place : WorkersAt(f, place) \in Nat /\ WorkersAt(f, place) <= Cardinality(Workers)
  /\ Cardinality(Companions) \in Nat /\ Cardinality(Workers) \in Nat
<1>1. \A S \in SUBSET Companions : Cardinality(S) \in Nat /\ Cardinality(S) <= Cardinality(Companions)
  BY FS_Subset, FS_CardinalityType
<1>2. \A S \in SUBSET Workers : Cardinality(S) \in Nat /\ Cardinality(S) <= Cardinality(Workers)
  BY FS_Subset, FS_CardinalityType
<1> QED
  BY <1>1, <1>2, FS_CardinalityType DEF CountAt, CountNotAt, WorkersAt

(* One companion moves, one worker does.                                   *)
CompanionMoved(f, g, c, to) ==
  \A P : /\ CountAt(g, P) = CountAt(f, P) + (IF to \in P THEN 1 ELSE 0)
                                          - (IF f[c] \in P THEN 1 ELSE 0)
        /\ CountNotAt(g, P) = CountNotAt(f, P) + (IF to \in P THEN 0 ELSE 1)
                                                - (IF f[c] \in P THEN 0 ELSE 1)

LEMMA CompanionMoves ==
  ASSUME NEW f \in [Companions -> CompanionPcs], NEW c \in Companions, NEW to
  PROVE  CompanionMoved(f, [f EXCEPT ![c] = to], c, to)
<1> DEFINE g == [f EXCEPT ![c] = to]
<1> SUFFICES ASSUME NEW P
             PROVE  /\ CountAt(g, P) = CountAt(f, P) + (IF to \in P THEN 1 ELSE 0)
                                                     - (IF f[c] \in P THEN 1 ELSE 0)
                    /\ CountNotAt(g, P) = CountNotAt(f, P) + (IF to \in P THEN 0 ELSE 1)
                                                           - (IF f[c] \in P THEN 0 ELSE 1)
  BY DEF CompanionMoved
<1> DEFINE At1 == {d \in Companions : f[d] \in P}
           At2 == {d \in Companions : g[d] \in P}
           Not1 == {d \in Companions : f[d] \notin P}
           Not2 == {d \in Companions : g[d] \notin P}
<1>1. IsFiniteSet(At1) /\ IsFiniteSet(Not1)
  BY FS_Subset
<1>2. At1 \ {c} = At2 \ {c} /\ Not1 \ {c} = Not2 \ {c}
  OBVIOUS
<1>3. /\ c \in At1 <=> f[c] \in P
      /\ c \in At2 <=> to \in P
      /\ c \in Not1 <=> f[c] \notin P
      /\ c \in Not2 <=> to \notin P
  OBVIOUS
<1>4. CountAt(f, P) = Cardinality(At1) /\ CountAt(g, P) = Cardinality(At2)
      /\ CountNotAt(f, P) = Cardinality(Not1) /\ CountNotAt(g, P) = Cardinality(Not2)
  BY DEF CountAt, CountNotAt
<1> HIDE DEF At1, At2, Not1, Not2, g
<1>5. Cardinality(At2) = Cardinality(At1) + (IF to \in P THEN 1 ELSE 0) - (IF f[c] \in P THEN 1 ELSE 0)
  BY <1>1, <1>2, <1>3, CountOne
<1>6. Cardinality(Not2) = Cardinality(Not1) + (IF to \in P THEN 0 ELSE 1) - (IF f[c] \in P THEN 0 ELSE 1)
  BY <1>1, <1>2, <1>3, CountOne
<1> QED
  BY <1>4, <1>5, <1>6

WorkerMoved(f, g, w, to) ==
  \A place : WorkersAt(g, place) = WorkersAt(f, place) + (IF to = place THEN 1 ELSE 0)
                                                      - (IF f[w] = place THEN 1 ELSE 0)

LEMMA WorkerMoves ==
  ASSUME NEW f \in [Workers -> WorkerPcs], NEW w \in Workers, NEW to
  PROVE  WorkerMoved(f, [f EXCEPT ![w] = to], w, to)
<1> DEFINE g == [f EXCEPT ![w] = to]
<1> SUFFICES ASSUME NEW place
             PROVE  WorkersAt(g, place) = WorkersAt(f, place) + (IF to = place THEN 1 ELSE 0)
                                                              - (IF f[w] = place THEN 1 ELSE 0)
  BY DEF WorkerMoved
<1> DEFINE At1 == {v \in Workers : f[v] = place}
           At2 == {v \in Workers : g[v] = place}
<1>1. IsFiniteSet(At1)
  BY FS_Subset
<1>2. At1 \ {w} = At2 \ {w}
  OBVIOUS
<1>3. (w \in At1 <=> f[w] = place) /\ (w \in At2 <=> to = place)
  OBVIOUS
<1>4. WorkersAt(f, place) = Cardinality(At1) /\ WorkersAt(g, place) = Cardinality(At2)
  BY DEF WorkersAt
<1> HIDE DEF At1, At2, g
<1> QED
  BY <1>1, <1>2, <1>3, <1>4, CountOne

(* What NotifyOne, the stop and the creation of a thread do to companions  *)
(* is not counted.                                                         *)
Stirred(f, g) ==
  \A c \in Companions :
    \/ g[c] = f[c]
    \/ f[c] = "sleep" /\ g[c] = "woken"
    \/ f[c] = "none" /\ g[c] = "start"

LEMMA StirredCountsTheSame ==
  ASSUME NEW f, NEW g, Stirred(f, g)
  PROVE  /\ CountAt(g, InBackground) = CountAt(f, InBackground)
         /\ CountNotAt(g, NotActive) = CountNotAt(f, NotActive)
         /\ CountAt(g, Replaced) = CountAt(f, Replaced)
<1>1. \A c \in Companions :
        /\ g[c] \in InBackground <=> f[c] \in InBackground
        /\ g[c] \in NotActive <=> f[c] \in NotActive
        /\ g[c] \in Replaced <=> f[c] \in Replaced
  BY DEF Stirred, InBackground, NotActive, Replaced
<1>2. /\ {c \in Companions : g[c] \in InBackground} = {c \in Companions : f[c] \in InBackground}
      /\ {c \in Companions : g[c] \notin NotActive} = {c \in Companions : f[c] \notin NotActive}
      /\ {c \in Companions : g[c] \in Replaced} = {c \in Companions : f[c] \in Replaced}
  BY <1>1
<1> QED
  BY <1>2 DEF CountAt, CountNotAt

LEMMA NotifiedIsStirred ==
  ASSUME NEW f \in [Companions -> CompanionPcs], NEW g \in Notified(f)
  PROVE  Stirred(f, g) /\ g \in [Companions -> CompanionPcs]
  BY DEF Notified, Stirred, CompanionPcs

LEMMA SpawnedIsStirred ==
  ASSUME NEW f \in [Companions -> CompanionPcs], NEW h \in Spawned(f), NEW g \in Notified(h)
  PROVE  Stirred(f, g) /\ g \in [Companions -> CompanionPcs]
<1>1. Stirred(f, h) /\ h \in [Companions -> CompanionPcs]
  BY DEF Spawned, Stirred, CompanionPcs
<1> QED
  BY <1>1, NotifiedIsStirred DEF Stirred

--------------------------------------------------------------------------------
LEMMA CountersInit == Init => CountersInv
<1> SUFFICES ASSUME Init
             PROVE  CountersInv
  OBVIOUS
<1>1. PlacesOK
  BY DEF Init, PlacesOK, WorkerPcs, CompanionPcs
<1>2. CountAt(pc, InBackground) = 0 /\ CountNotAt(pc, NotActive) = 0 /\ CountAt(pc, Replaced) = 0
  <2>1. /\ {c \in Companions : pc[c] \in InBackground} = {}
        /\ {c \in Companions : pc[c] \notin NotActive} = {}
        /\ {c \in Companions : pc[c] \in Replaced} = {}
    BY DEF Init, InBackground, NotActive, Replaced
  <2> QED
    BY <2>1, FS_EmptySet DEF CountAt, CountNotAt
<1>3. WorkersAt(workerPc, "blocked") = 0 /\ WorkersAt(workerPc, "idle") = 0
  <2>1. {w \in Workers : workerPc[w] = "blocked"} = {} /\ {w \in Workers : workerPc[w] = "idle"} = {}
    BY DEF Init
  <2> QED
    BY <2>1, FS_EmptySet DEF WorkersAt
<1> QED
  BY <1>1, <1>2, <1>3, MatchIsCounted DEF Init, CountersInv, WaitingMatch, Counted, Background, Active, Standing, Blocked, Idle

(* What the step of a thread does to the counts.                           *)
LEMMA MoveIsCounted ==
  ASSUME PlacesOK, NEW c \in Companions, NEW to \in CompanionPcs, pc' = [pc EXCEPT ![c] = to]
  PROVE  /\ pc' \in [Companions -> CompanionPcs]
         /\ Background' = Background + (IF to \in InBackground THEN 1 ELSE 0)
                                      - (IF pc[c] \in InBackground THEN 1 ELSE 0)
         /\ Active' = Active + (IF to \in NotActive THEN 0 ELSE 1)
                              - (IF pc[c] \in NotActive THEN 0 ELSE 1)
         /\ Standing' = Standing + (IF to \in Replaced THEN 1 ELSE 0)
                                  - (IF pc[c] \in Replaced THEN 1 ELSE 0)
<1>1. CompanionMoved(pc, pc', c, to)
  BY CompanionMoves DEF PlacesOK
<1> QED
  BY <1>1 DEF CompanionMoved, PlacesOK, Background, Active, Standing

LEMMA StirIsCounted ==
  ASSUME Stirred(pc, pc')
  PROVE  Background' = Background /\ Active' = Active /\ Standing' = Standing
  BY StirredCountsTheSame DEF Background, Active, Standing

LEMMA WorkerMoveIsCounted ==
  ASSUME PlacesOK, NEW w \in Workers, NEW to \in WorkerPcs, workerPc' = [workerPc EXCEPT ![w] = to]
  PROVE  /\ workerPc' \in [Workers -> WorkerPcs]
         /\ Blocked' = Blocked + (IF to = "blocked" THEN 1 ELSE 0)
                                - (IF workerPc[w] = "blocked" THEN 1 ELSE 0)
         /\ Idle' = Idle + (IF to = "idle" THEN 1 ELSE 0)
                          - (IF workerPc[w] = "idle" THEN 1 ELSE 0)
<1>1. WorkerMoved(workerPc, workerPc', w, to)
  BY WorkerMoves DEF PlacesOK
<1> QED
  BY <1>1 DEF WorkerMoved, PlacesOK, Blocked, Idle

--------------------------------------------------------------------------------
LEMMA CompanionStepCounts ==
  ASSUME CountersInv, NEW c \in Companions, CompanionStep(c) \/ UnblockCompanion(c) \/ SpuriousWake(c)
  PROVE  CountersInv'
<1>t. PlacesOK /\ Counted /\ WaitingMatch
  BY MatchIsCounted DEF CountersInv
<1>n. Background \in Nat /\ Active \in Nat /\ Standing \in Nat /\ Blocked \in Nat
  BY CountsAreNumbers DEF Background, Active, Standing, Blocked
<1>w. UNCHANGED workerPc => Blocked' = Blocked /\ Idle' = Idle
  BY DEF Blocked, Idle
<1> SUFFICES PlacesOK' /\ Counted' /\ WaitingMatch'
  BY MatchIsCounted DEF CountersInv
<1> USE <1>t, <1>n, <1>w, MoveIsCounted DEF At, GoTo, PlacesOK, Counted, WaitingMatch, companionRest,
        InBackground, NotActive, Replaced, CompanionPcs
<1>1. CASE Begin(c)
  BY <1>1 DEF Begin
<1>2. CASE GoOn(c) \/ DoneBackgroundTask(c) \/ NextBackgroundTask(c)
  BY <1>2 DEF GoOn, DoneBackgroundTask, NextBackgroundTask
<1>3. ASSUME NEW t, TakeBackgroundTask(c, t) \/ ScanTask(c, t)
      PROVE  PlacesOK' /\ Counted' /\ WaitingMatch'
  BY <1>3 DEF TakeBackgroundTask, ScanTask
<1>4. CASE Leave(c) \/ Reenter(c) \/ End(c)
  BY <1>4 DEF Leave, Reenter, End
<1>5. CASE StayInner(c) \/ DoneScanned(c) \/ ScanEmpty(c) \/ SpuriousWake(c)
  BY <1>5 DEF StayInner, DoneScanned, ScanEmpty, SpuriousWake
<1>6. CASE Decide(c)
  <2>1. UNCHANGED <<mNumBackgroundWorkers, mNumWaiting, mCompanionWorkersNeeded, workerPc>>
    BY <1>6 DEF Decide
  <2>2. CASE MustSleep(c)
    <3>1. At(c, "decide", "sleep") /\ mCompanionWorkersActive' = mCompanionWorkersActive - 1
      BY <1>6, <2>2 DEF Decide, MustSleep
    <3>2. pc[c] = "decide" /\ pc' = [pc EXCEPT ![c] = "sleep"]
      BY <3>1
    <3>3. CompanionMoved(pc, pc', c, "sleep")
      BY <3>2, CompanionMoves DEF PlacesOK
    <3>4. /\ Background' = Background + (IF "sleep" \in InBackground THEN 1 ELSE 0)
                                      - (IF pc[c] \in InBackground THEN 1 ELSE 0)
          /\ Active' = Active + (IF "sleep" \in NotActive THEN 0 ELSE 1)
                              - (IF pc[c] \in NotActive THEN 0 ELSE 1)
          /\ Standing' = Standing + (IF "sleep" \in Replaced THEN 1 ELSE 0)
                                  - (IF pc[c] \in Replaced THEN 1 ELSE 0)
      BY ONLY <3>3, Zenon DEF CompanionMoved, Background, Active, Standing
    <3>5. Background' = Background /\ Active' = Active - 1 /\ Standing' = Standing
      BY <3>2, <3>4
    <3> QED
      BY <2>1, <3>1, <3>2, <3>5
  <2>3. CASE ~MustSleep(c)
    <3>1. mCompanionWorkersActive' = mCompanionWorkersActive
      BY <1>6, <2>3 DEF Decide
    <3>2. At(c, "decide", "reenter") \/ At(c, "decide", "scan")
      BY <1>6, <2>3 DEF Decide
    <3> QED
      BY <2>1, <3>1, <3>2
  <2> QED
    BY <2>2, <2>3
<1>7. CASE Wake(c)
  <2>1. /\ UNCHANGED <<mNumBackgroundWorkers, mNumWaiting, mCompanionWorkersNeeded, workerPc>>
        /\ mCompanionWorkersActive' = mCompanionWorkersActive + 1
        /\ At(c, "woken", "inner") \/ At(c, "woken", "scan")
    BY <1>7 DEF Wake
  <2>2. Background' = Background /\ Active' = Active + 1 /\ Standing' = Standing
    BY <2>1
  <2> QED
    BY <2>1, <2>2
<1>8. CASE UnblockCompanion(c)
  BY <1>8 DEF UnblockCompanion, RemoveCompanionWorker
<1> QED
  BY <1>1, <1>2, <1>3, <1>4, <1>5, <1>6, <1>7, <1>8 DEF CompanionStep

(* A thread that blocks counts itself, and may stir others.                *)
LEMMA BlockCounts ==
  ASSUME CountersInv,
         (\E w \in Workers : BlockWorker(w)) \/ (\E c \in Companions : BlockCompanion(c))
  PROVE  CountersInv'
<1>t. PlacesOK /\ Counted /\ WaitingMatch
  BY MatchIsCounted DEF CountersInv
<1>n. Background \in Nat /\ Active \in Nat /\ Standing \in Nat /\ Blocked \in Nat /\ Idle \in Nat
  BY CountsAreNumbers DEF Background, Active, Standing, Blocked, Idle
<1> SUFFICES PlacesOK' /\ Counted' /\ WaitingMatch'
  BY MatchIsCounted DEF CountersInv
<1>1. ASSUME NEW w \in Workers, BlockWorker(w)
      PROVE  PlacesOK' /\ Counted' /\ WaitingMatch'
  <2>1. pc' \in [Companions -> CompanionPcs] /\ Stirred(pc, pc')
    <3>1. PICK spawned \in Spawned(pc) : pc' \in Notified(spawned)
      BY <1>1 DEF BlockWorker, AddCompanionWorker
    <3> QED
      BY <1>t, <3>1, SpawnedIsStirred DEF PlacesOK
  <2>2. workerPc' \in [Workers -> WorkerPcs] /\ Blocked' = Blocked + 1 /\ Idle' = Idle
    <3>1. workerPc[w] = "run" /\ workerPc' = [workerPc EXCEPT ![w] = "blocked"]
      BY <1>1 DEF BlockWorker
    <3>2. WorkerMoved(workerPc, workerPc', w, "blocked") /\ workerPc' \in [Workers -> WorkerPcs]
      BY <1>t, <3>1, WorkerMoves DEF PlacesOK, WorkerPcs
    <3>3. /\ Blocked' = Blocked + (IF "blocked" = "blocked" THEN 1 ELSE 0)
                                - (IF workerPc[w] = "blocked" THEN 1 ELSE 0)
          /\ Idle' = Idle + (IF "blocked" = "idle" THEN 1 ELSE 0) - (IF workerPc[w] = "idle" THEN 1 ELSE 0)
      BY ONLY <3>2, Zenon DEF WorkerMoved, Blocked, Idle
    <3> QED
      BY <1>n, <3>1, <3>2, <3>3
  <2> QED
    BY <1>t, <1>n, <1>1, <2>1, <2>2, StirIsCounted
       DEF BlockWorker, AddCompanionWorker, PlacesOK, Counted, WaitingMatch
<1>2. ASSUME NEW c \in Companions, BlockCompanion(c)
      PROVE  PlacesOK' /\ Counted' /\ WaitingMatch'
  <2> DEFINE to == IF pc[c] = "run" THEN "blocked" ELSE "held"
             pcs == [pc EXCEPT ![c] = to]
  <2>1. pc[c] \in {"run", "task"} /\ to \in CompanionPcs /\ pcs \in [Companions -> CompanionPcs]
    BY <1>t, <1>2 DEF BlockCompanion, PlacesOK, CompanionPcs
  <2>2. pc' \in [Companions -> CompanionPcs] /\ Stirred(pcs, pc')
    <3>1. PICK spawned \in Spawned(pcs) : pc' \in Notified(spawned)
      BY <1>2 DEF BlockCompanion, AddCompanionWorker
    <3> QED
      BY <2>1, <3>1, SpawnedIsStirred
  <2>3. /\ CountAt(pc', InBackground) = CountAt(pcs, InBackground)
        /\ CountNotAt(pc', NotActive) = CountNotAt(pcs, NotActive)
        /\ CountAt(pc', Replaced) = CountAt(pcs, Replaced)
    BY <2>2, StirredCountsTheSame
  <2>4. CompanionMoved(pc, pcs, c, to)
    BY <1>t, <2>1, CompanionMoves DEF PlacesOK
  <2> HIDE DEF pcs
  <2>5. Background' = Background /\ Active' = Active /\ Standing' = Standing + 1
    BY <1>n, <2>1, <2>3, <2>4
       DEF CompanionMoved, Background, Active, Standing, InBackground, NotActive, Replaced
  <2>6. Blocked' = Blocked /\ Idle' = Idle
    BY <1>2 DEF BlockCompanion, Blocked, Idle
  <2> QED
    BY <1>t, <1>n, <1>2, <2>2, <2>5, <2>6
       DEF BlockCompanion, AddCompanionWorker, PlacesOK, Counted, WaitingMatch
<1> QED
  BY <1>1, <1>2

LEMMA OtherStepCounts ==
  ASSUME CountersInv,
         \/ \E p \in Pushers :
              (\E t \in Tasks : PushTask(p, t)) \/ WakeUpWorker(p) \/ WakeUpCompanion(p)
         \/ \E t \in BackgroundTasks : PushBackgroundTask(t)
         \/ \E w \in Workers : WorkerStep(w) \/ UnblockWorker(w)
         \/ StopWorkers
         \/ Stop
         \/ UNCHANGED vars
  PROVE  CountersInv'
<1>t. PlacesOK /\ Counted /\ WaitingMatch
  BY MatchIsCounted DEF CountersInv
<1>n. Background \in Nat /\ Active \in Nat /\ Standing \in Nat /\ Blocked \in Nat /\ Idle \in Nat
  BY CountsAreNumbers DEF Background, Active, Standing, Blocked, Idle
<1>w. UNCHANGED workerPc => Blocked' = Blocked /\ Idle' = Idle
  BY DEF Blocked, Idle
<1>c. UNCHANGED pc => Background' = Background /\ Active' = Active /\ Standing' = Standing
  BY DEF Background, Active, Standing
<1>s. pc' \in Notified(pc) =>
        /\ pc' \in [Companions -> CompanionPcs]
        /\ Background' = Background /\ Active' = Active /\ Standing' = Standing
  BY <1>t, NotifiedIsStirred, StirIsCounted DEF PlacesOK
<1> SUFFICES PlacesOK' /\ Counted' /\ WaitingMatch'
  BY MatchIsCounted DEF CountersInv
<1> USE <1>t, <1>n, <1>w, <1>c DEF PlacesOK, Counted, WaitingMatch, countVars, WorkerPcs
<1>1. ASSUME NEW p \in Pushers, NEW t \in Tasks, PushTask(p, t)
      PROVE  PlacesOK' /\ Counted' /\ WaitingMatch'
  BY <1>1 DEF PushTask
<1>2. ASSUME NEW p \in Pushers, WakeUpWorker(p)
      PROVE  PlacesOK' /\ Counted' /\ WaitingMatch'
  <2>0. UNCHANGED <<mNumBackgroundWorkers, mCompanionWorkersActive, mCompanionWorkersNeeded, pc>>
    BY <1>2 DEF WakeUpWorker
  <2>1. CASE UNCHANGED <<workerPc, mNumWaiting>>
    BY <2>0, <2>1
  <2>2. ASSUME NEW w \in Workers, workerPc[w] = "idle", workerPc' = [workerPc EXCEPT ![w] = "look"],
               mNumWaiting' = mNumWaiting - 1
        PROVE  PlacesOK' /\ Counted' /\ WaitingMatch'
    <3>1. workerPc' \in [Workers -> WorkerPcs] /\ Blocked' = Blocked /\ Idle' = Idle - 1
      <4>1. WorkerMoved(workerPc, workerPc', w, "look") /\ workerPc' \in [Workers -> WorkerPcs]
        BY <2>2, WorkerMoves
      <4>2. /\ Blocked' = Blocked + (IF "look" = "blocked" THEN 1 ELSE 0)
                                  - (IF workerPc[w] = "blocked" THEN 1 ELSE 0)
            /\ Idle' = Idle + (IF "look" = "idle" THEN 1 ELSE 0) - (IF workerPc[w] = "idle" THEN 1 ELSE 0)
        BY ONLY <4>1, Zenon DEF WorkerMoved, Blocked, Idle
      <4> QED
        BY <1>n, <2>2, <4>1, <4>2
    <3> QED
      BY <2>0, <2>2, <3>1
  <2> QED
    BY <1>2, <2>1, <2>2 DEF WakeUpWorker
<1>3. ASSUME NEW p \in Pushers, WakeUpCompanion(p)
      PROVE  PlacesOK' /\ Counted' /\ WaitingMatch'
  BY <1>3, <1>s DEF WakeUpCompanion
<1>4. ASSUME NEW t \in BackgroundTasks, PushBackgroundTask(t)
      PROVE  PlacesOK' /\ Counted' /\ WaitingMatch'
  BY <1>4, <1>s DEF PushBackgroundTask
<1>5. ASSUME NEW w \in Workers, WorkerStep(w) \/ UnblockWorker(w)
      PROVE  PlacesOK' /\ Counted' /\ WaitingMatch'
  BY <1>5, WorkerMoveIsCounted DEF WorkerStep, TakeTask, WaitForTask, DoneTask, UnblockWorker,
     RemoveCompanionWorker, workerRest
<1>6. CASE StopWorkers
  <2>1. /\ {w \in Workers : workerPc'[w] = "idle"} = {} /\ {w \in Workers : workerPc'[w] = "blocked"} = {}
        /\ {w \in Workers : workerPc[w] = "blocked"} = {}
    BY <1>6 DEF StopWorkers
  <2>2. Idle' = 0 /\ Blocked' = 0 /\ Blocked = 0
    BY <2>1, FS_EmptySet DEF Idle, Blocked, WorkersAt
  <2> QED
    BY <1>6, <2>2 DEF StopWorkers, workerRest
<1>7. CASE Stop
  <2>1. Stirred(pc, pc') /\ pc' \in [Companions -> CompanionPcs]
    BY <1>7 DEF Stop, Stirred, CompanionPcs
  <2> QED
    BY <1>7, <2>1, StirIsCounted DEF Stop
<1>8. CASE UNCHANGED vars
  BY <1>8 DEF vars
<1> QED
  BY <1>1, <1>2, <1>3, <1>4, <1>5, <1>6, <1>7, <1>8

LEMMA CountersInvariant == Spec => []CountersInv
<1>1. CountersInv /\ [Next]_vars => CountersInv'
  BY CompanionStepCounts, BlockCounts, OtherStepCounts DEF Next
<1> QED
  BY CountersInit, <1>1, PTL DEF Spec

--------------------------------------------------------------------------------
(* The counters of ThreadPool.cpp that are read and changed without the    *)
(* lock are, at every step, what the places of the threads say.            *)
THEOREM CompanionCountersMatch == Spec => []CountersMatch
  BY CountersInvariant, PTL DEF CountersInv

(* What TypeOK says besides the counters.                                  *)
DataOK ==
  /\ mJobQueues \subseteq Tasks
  /\ mCompanionJobQueue \subseteq BackgroundTasks
  /\ mAreCompanionsActive \in BOOLEAN
  /\ status \in [Companions -> {"Waiting", "Empty"}]
  /\ pushPc \in [Pushers -> PusherPcs]
  /\ pushed \subseteq Tasks \cup BackgroundTasks

LEMMA CountersAreBounded == CountersInv /\ DataOK => TypeOK
<1> SUFFICES ASSUME CountersInv, DataOK
             PROVE  TypeOK
  OBVIOUS
<1>1. PlacesOK /\ Counted /\ WaitingMatch
  BY MatchIsCounted DEF CountersInv
<1>2. /\ Background \in 0..Cardinality(Companions) /\ Active \in 0..Cardinality(Companions)
      /\ Idle \in 0..Cardinality(Workers)
  BY CountsAreNumbers DEF Background, Active, Idle
<1>3. Standing + Blocked \in 0..Cardinality(Threads)
  <2>1. Cardinality(Threads) = Cardinality(Companions) + Cardinality(Workers)
    BY FS_Union, FS_EmptySet, CountsAreNumbers DEF Threads
  <2> QED
    BY <2>1, CountsAreNumbers DEF Standing, Blocked
<1> QED
  BY <1>1, <1>2, <1>3 DEF TypeOK, DataOK, PlacesOK, Counted, WaitingMatch

LEMMA DataStep == DataOK /\ [Next]_vars => DataOK'
<1> SUFFICES ASSUME DataOK, [Next]_vars
             PROVE  DataOK'
  OBVIOUS
<1> USE DEF DataOK, PusherPcs, queueVars, countVars, companionRest, workerRest
<1>1. ASSUME NEW p \in Pushers,
             (\E t \in Tasks : PushTask(p, t)) \/ WakeUpWorker(p) \/ WakeUpCompanion(p)
      PROVE  DataOK'
  BY <1>1 DEF PushTask, WakeUpWorker, WakeUpCompanion
<1>2. ASSUME NEW t \in BackgroundTasks, PushBackgroundTask(t)
      PROVE  DataOK'
  BY <1>2 DEF PushBackgroundTask
<1>3. ASSUME NEW w \in Workers, WorkerStep(w) \/ BlockWorker(w) \/ UnblockWorker(w)
      PROVE  DataOK'
  BY <1>3 DEF WorkerStep, TakeTask, WaitForTask, DoneTask, BlockWorker, UnblockWorker,
     AddCompanionWorker, RemoveCompanionWorker
<1>4. ASSUME NEW c \in Companions, BlockCompanion(c) \/ UnblockCompanion(c) \/ SpuriousWake(c)
      PROVE  DataOK'
  BY <1>4 DEF BlockCompanion, UnblockCompanion, SpuriousWake, AddCompanionWorker,
     RemoveCompanionWorker
<1>5. ASSUME NEW c \in Companions, CompanionStep(c)
      PROVE  DataOK'
  BY <1>5 DEF CompanionStep, Begin, GoOn, TakeBackgroundTask, DoneBackgroundTask,
     NextBackgroundTask, Leave, Reenter, End, StayInner, Decide, Wake, ScanTask, DoneScanned,
     ScanEmpty
<1>6. CASE StopWorkers \/ Stop
  BY <1>6 DEF StopWorkers, Stop
<1>7. CASE UNCHANGED vars
  BY <1>7 DEF vars
<1> QED
  BY <1>1, <1>2, <1>3, <1>4, <1>5, <1>6, <1>7 DEF Next

(* So no counter underflows, nor does mNumWaiting: each stays within the   *)
(* number of the threads that it counts.                                   *)
THEOREM CompanionTypeCorrect == Spec => []TypeOK
<1>1. Init => DataOK
  BY DEF Init, DataOK, PusherPcs
<1> QED
  BY <1>1, DataStep, CountersInvariant, CountersAreBounded, PTL DEF Spec

--------------------------------------------------------------------------------
USE IOPushesAssumption

(* Threads that are to look at the list before they sleep or end.          *)
Looking == {t \in IOThreads : threadPc[t] \in {"take", "run", "wait", "woken"}}

(* A thread sleeps on tasks only if another one looks at the list: the     *)
(* push that found it asleep has woken it, or found one that was woken.    *)
SleepersAreCovered ==
  mTasks > 0 /\ (\E t \in IOThreads : threadPc[t] = "sleep") => Looking # {}

(* Who pushes: a task that is run, or, until the joins, a thread outside.  *)
PushersAreAlive ==
  \A p \in Callers :
    ioPc[p] # "idle" => IF p \in IOThreads THEN threadPc[p] = "run" ELSE stopPc \in {"no", "asked"}

StoppedIsAwake ==
  stopPc # "no" => ~mIsRunning /\ \A t \in IOThreads : threadPc[t] # "sleep"

JoinedHaveEnded ==
  /\ stopPc \in {"join", "returned"} /\ ~startedLate =>
       \A t \in IOThreads \ joining : threadPc[t] \in {"none", "ended"}
  /\ stopPc = "returned" => joining = {}

IOInv ==
  IOTypeOK /\ SleepersAreCovered /\ IOTaskHasThread /\ PushersAreAlive /\ StoppedIsAwake /\ JoinedHaveEnded

--------------------------------------------------------------------------------
LEMMA IOInvInit == IOInit => IOInv
<1> SUFFICES ASSUME IOInit
             PROVE  IOInv
  OBVIOUS
<1> USE DEF IOInit
<1>1. IOTypeOK
  <2>1. ioPushed \in 0..MaxPushes
    OBVIOUS
  <2>2. ioPc \in [Callers -> IOPusherPcs] /\ threadPc \in [IOThreads -> ThreadPcs]
    BY DEF ThreadPcs, IOPusherPcs
  <2> QED
    BY <2>1, <2>2 DEF IOTypeOK
<1>2. SleepersAreCovered /\ IOTaskHasThread
  BY DEF SleepersAreCovered, IOTaskHasThread
<1>3. PushersAreAlive /\ StoppedIsAwake /\ JoinedHaveEnded
  BY DEF PushersAreAlive, StoppedIsAwake, JoinedHaveEnded
<1> QED
  BY <1>1, <1>2, <1>3 DEF IOInv

LEMMA IOTypeStep ==
  ASSUME IOTypeOK, [IONext]_ioVars
  PROVE  IOTypeOK'
<1> USE DEF IOTypeOK, ThreadPcs, IOPusherPcs, Callers
<1>1. ASSUME NEW p \in Callers, PushTaskAndWakeUp(p)
      PROVE  IOTypeOK'
  BY <1>1 DEF PushTaskAndWakeUp, MayPush
<1>2. ASSUME NEW p \in Callers, SizeCheck(p)
      PROVE  IOTypeOK'
  BY <1>2 DEF SizeCheck
<1>3. ASSUME NEW p \in Callers, LongJobWorker(p)
      PROVE  IOTypeOK'
  BY <1>3 DEF LongJobWorker
<1>4. ASSUME NEW t \in IOThreads, ThreadStep(t) \/ IOSpuriousWake(t)
      PROVE  IOTypeOK'
  BY <1>4 DEF ThreadStep, IOSpuriousWake, LongTaskRun, EndTask, Wait, IOWoken, ThreadGoes
<1>5. CASE IOStop
  BY <1>5 DEF IOStop, StopGoes
<1>6. CASE StopStep
  BY <1>6 DEF StopStep, StartJoins, Join, StopThreads, StopGoes
<1>7. CASE UNCHANGED ioVars
  BY <1>7 DEF ioVars
<1> QED
  BY <1>1, <1>2, <1>3, <1>4, <1>5, <1>6, <1>7 DEF IONext, PusherStep

LEMMA IOInvStep ==
  ASSUME IOInv, [IONext]_ioVars
  PROVE  IOInv'
<1> DEFINE Kept ==
      SleepersAreCovered /\ IOTaskHasThread /\ PushersAreAlive /\ StoppedIsAwake /\ JoinedHaveEnded
<1>t. IOTypeOK /\ Kept
  BY DEF IOInv
<1>k. IOTypeOK'
  BY <1>t, IOTypeStep
<1> SUFFICES Kept'
  BY <1>k DEF IOInv
<1> USE <1>t DEF IOTypeOK, ThreadPcs, IOPusherPcs, Callers, Looking, SleepersAreCovered,
                 IOTaskHasThread, PushersAreAlive, StoppedIsAwake, JoinedHaveEnded
<1>1. ASSUME NEW p \in Callers, PushTaskAndWakeUp(p)
      PROVE  Kept'
  BY <1>1 DEF PushTaskAndWakeUp, MayPush
<1>2. ASSUME NEW p \in Callers, SizeCheck(p)
      PROVE  Kept'
  <2>1. IOTaskHasThread'
    <3>1. CASE HasRoom
      BY <1>2, <3>1 DEF SizeCheck
    <3>2. CASE AllEnded /\ ~HasRoom
      BY <1>2, <3>2 DEF SizeCheck
    <3>3. ASSUME NEW t \in IOThreads, threadPc[t] \notin {"none", "ended"}, ~HasRoom
          PROVE  IOTaskHasThread'
      BY <1>2, <3>3 DEF SizeCheck
    <3> QED
      BY <3>1, <3>2, <3>3 DEF AllEnded
  <2>2. SleepersAreCovered' /\ PushersAreAlive' /\ StoppedIsAwake' /\ JoinedHaveEnded'
    BY <1>2 DEF SizeCheck
  <2> QED
    BY <2>1, <2>2
<1>3. ASSUME NEW p \in Callers, LongJobWorker(p)
      PROVE  Kept'
  <2>1. CASE UNCHANGED <<threadPc, startedLate>>
    <3>1. IOTaskHasThread'
      <4>1. CASE AllEnded
        BY <1>3, <2>1, <4>1 DEF LongJobWorker
      <4>2. CASE ~AllEnded
        BY <1>3, <2>1, <4>2 DEF LongJobWorker, AllEnded
      <4> QED
        BY <4>1, <4>2
    <3> QED
      BY <1>3, <2>1, <3>1 DEF LongJobWorker
  <2>2. ASSUME NEW t \in IOThreads, threadPc[t] = "none", threadPc' = [threadPc EXCEPT ![t] = "take"],
               startedLate' = (startedLate \/ stopPc \in {"join", "returned"}),
               UNCHANGED notStarted
        PROVE  Kept'
    <3>1. IOTaskHasThread'
      BY <1>3, <2>2 DEF LongJobWorker
    <3>2. SleepersAreCovered' /\ PushersAreAlive' /\ StoppedIsAwake'
      BY <1>3, <2>2 DEF LongJobWorker
    <3>3. JoinedHaveEnded'
      BY <1>3, <2>2 DEF LongJobWorker
    <3> QED
      BY <3>1, <3>2, <3>3
  <2> QED
    BY <1>3, <2>1, <2>2 DEF LongJobWorker
<1>4. ASSUME NEW t \in IOThreads, LongTaskRun(t)
      PROVE  Kept'
  BY <1>4 DEF LongTaskRun, ThreadGoes
<1>5. ASSUME NEW t \in IOThreads, EndTask(t)
      PROVE  Kept'
  BY <1>5 DEF EndTask, ThreadGoes
<1>6. ASSUME NEW t \in IOThreads, Wait(t)
      PROVE  Kept'
  BY <1>6 DEF Wait, ThreadGoes
<1>7. ASSUME NEW t \in IOThreads, IOWoken(t) \/ IOSpuriousWake(t)
      PROVE  Kept'
  BY <1>7 DEF IOWoken, IOSpuriousWake, ThreadGoes
<1>8. CASE IOStop
  BY <1>8 DEF IOStop, StopGoes
<1>9. CASE StartJoins
  BY <1>9 DEF StartJoins, StopGoes
<1>10. ASSUME NEW t \in IOThreads, Join(t)
       PROVE  Kept'
  BY <1>10 DEF Join, StopGoes
<1>11. CASE StopThreads
  BY <1>11 DEF StopThreads, StopGoes
<1>12. CASE UNCHANGED ioVars
  BY <1>12 DEF ioVars
<1> HIDE DEF Kept
<1> QED
  BY <1>1, <1>2, <1>3, <1>4, <1>5, <1>6, <1>7, <1>8, <1>9, <1>10, <1>11, <1>12
     DEF IONext, PusherStep, ThreadStep, StopStep

(* When all are joined every thread has ended, so nobody is in PushIOTask, *)
(* and a task would have a thread that is to look at it.                   *)
LEMMA IOInvGivesDrained == IOInv => StopDrainsIO
  BY DEF IOInv, IOTypeOK, ThreadPcs, IOPusherPcs, Callers, StopDrainsIO, AllEnded, IOTaskHasThread,
         PushersAreAlive, JoinedHaveEnded

LEMMA IOInvariant == IOSpec => []IOInv
<1>1. IOInit => IOInv
  BY IOInvInit
<1>2. IOInv /\ [IONext]_ioVars => IOInv'
  BY IOInvStep
<1> QED
  BY <1>1, <1>2, PTL DEF IOSpec

--------------------------------------------------------------------------------
(* Every reachable state of the IO pool is well typed.                     *)
THEOREM IOTypeCorrect == IOSpec => []IOTypeOK
<1>1. IOInv => IOTypeOK
  BY DEF IOInv
<1> QED
  BY <1>1, IOInvariant, PTL

(* ThreadPool.cpp:277: a queued IO task has a thread that is to look at    *)
(* the list, or a push that is about to start one.                         *)
THEOREM IOTaskAlwaysHasThread == IOSpec => []IOTaskHasThread
<1>1. IOInv => IOTaskHasThread
  BY DEF IOInv
<1> QED
  BY <1>1, IOInvariant, PTL

(* ThreadPool.cpp:138: the joins of the IO threads drain the IO queue.     *)
THEOREM IOStopDrains == IOSpec => []StopDrainsIO
  BY IOInvariant, IOInvGivesDrained, PTL

================================================================================
