-------------------------------- MODULE ParallelFor_proofs --------------------------------
(***************************************************************************)
(* Proofs about module ParallelFor, for every finite set of workers, every *)
(* number of items, partitions and batch size, and every list of jobs.     *)
(***************************************************************************)
EXTENDS ParallelFor, FiniteSetTheorems, TLAPS

--------------------------------------------------------------------------------
(* The inductive invariant of the two counters.  mNumTasksAvailable counts *)
(* the entries of the job that were not begun and mNumTasksInProgress adds *)
(* the threads that work on one; the caller, which works on its own list   *)
(* before it waits, is not counted.                                        *)

InList == {"enter", "claim", "run", "ran"}

(* What the counters need of the types.                                    *)
PlacesOK ==
  /\ loop \in Loops
  /\ iter \in 0..loop.items
  /\ mNumTasksAvailable \in Nat
  /\ mNumTasksInProgress \in Nat
  /\ unpushed \in Nat
  /\ queued \in Nat
  /\ callerPc \in CallerPcs
  /\ runPc \in [Runners -> RunPcs]

(* The caller is in the list of items in two of its places.                *)
CallerPlace ==
  /\ callerPc = "own" => runPc[Caller] \in InList
  /\ callerPc \notin {"own", "help"} => runPc[Caller] = "idle"

(* Nothing was handed out before the serial loop has ended.                *)
NothingYet ==
  callerPc = "serial" =>
    /\ unpushed = 0 /\ queued = 0
    /\ mNumTasksAvailable = 0 /\ mNumTasksInProgress = 0
    /\ \A r \in Runners : runPc[r] = "idle"

(* The threads that took an entry and have not begun it, and those that    *)
(* work on one.                                                            *)
Starting == {r \in Runners : runPc[r] = "start"}
Counted == {r \in Runners : runPc[r] \in InList /\ ~InOwnList(r)}

AvailableIsCounted == mNumTasksAvailable = unpushed + queued + Cardinality(Starting)
ProgressIsCounted == mNumTasksInProgress = mNumTasksAvailable + Cardinality(Counted)

(* The caller has returned only when nobody holds the job any more.        *)
WaitIsOver ==
  callerPc = "returned" =>
    /\ mNumTasksAvailable = 0 /\ mNumTasksInProgress = 0
    /\ \A r \in Runners : runPc[r] # "unlock"

ControlInv ==
  PlacesOK /\ CallerPlace /\ NothingYet /\ AvailableIsCounted /\ ProgressIsCounted /\ WaitIsOver

(* The caller is one of finitely many threads.                             *)
LEMMA RunnersAreFinite == IsFiniteSet(Runners) /\ Caller \in Runners
  BY WorkersAssumption, FS_AddElement DEF Runners

(* Both sets have a number of elements.                                    *)
LEMMA SetsAreCounted ==
  /\ IsFiniteSet(Starting) /\ Cardinality(Starting) \in Nat
  /\ IsFiniteSet(Counted) /\ Cardinality(Counted) \in Nat
<1>1. IsFiniteSet(Starting) /\ IsFiniteSet(Counted)
  BY RunnersAreFinite, FS_Subset DEF Starting, Counted
<1> QED
  BY <1>1, FS_CardinalityType

(* A finite set that one element may enter or leave.                       *)
LEMMA OneMoves ==
  ASSUME NEW A, NEW B, NEW r, IsFiniteSet(A),
         \A u : u # r => (u \in B <=> u \in A)
  PROVE  /\ IsFiniteSet(B)
         /\ (r \in B <=> r \in A) => Cardinality(B) = Cardinality(A)
         /\ r \in B /\ r \notin A => Cardinality(B) = Cardinality(A) + 1
         /\ r \notin B /\ r \in A => Cardinality(B) = Cardinality(A) - 1
<1>1. CASE r \in B <=> r \in A
  <2>1. B = A
    BY <1>1
  <2> QED
    BY <1>1, <2>1
<1>2. CASE r \in B /\ r \notin A
  <2>1. B = A \cup {r}
    BY <1>2
  <2> QED
    BY <1>2, <2>1, FS_AddElement
<1>3. CASE r \notin B /\ r \in A
  <2>1. B = A \ {r}
    BY <1>3
  <2> QED
    BY <1>3, <2>1, FS_RemoveElement
<1> QED
  BY <1>1, <1>2, <1>3

(* The two counts when one thread moves.                                   *)
LEMMA StartingMoves ==
  ASSUME NEW r \in Runners, \A u \in Runners \ {r} : runPc'[u] = runPc[u]
  PROVE  /\ (runPc'[r] = "start" <=> runPc[r] = "start") => Cardinality(Starting') = Cardinality(Starting)
         /\ runPc'[r] = "start" /\ runPc[r] # "start" => Cardinality(Starting') = Cardinality(Starting) + 1
         /\ runPc'[r] # "start" /\ runPc[r] = "start" => Cardinality(Starting') = Cardinality(Starting) - 1
<1>1. IsFiniteSet(Starting)
  BY SetsAreCounted
<1>2. /\ \A u : u # r => (u \in Starting' <=> u \in Starting)
      /\ r \in Starting' <=> runPc'[r] = "start"
      /\ r \in Starting <=> runPc[r] = "start"
  BY DEF Starting
<1>3. /\ (r \in Starting' <=> r \in Starting) => Cardinality(Starting') = Cardinality(Starting)
      /\ r \in Starting' /\ r \notin Starting => Cardinality(Starting') = Cardinality(Starting) + 1
      /\ r \notin Starting' /\ r \in Starting => Cardinality(Starting') = Cardinality(Starting) - 1
  BY ONLY <1>1, <1>2, OneMoves, Zenon
<1> QED
  BY <1>2, <1>3

Counts(r) == runPc[r] \in InList /\ ~InOwnList(r)

LEMMA CountedMoves ==
  ASSUME NEW r \in Runners, \A u \in Runners \ {r} : runPc'[u] = runPc[u],
         \/ callerPc' = callerPc
         \/ r = Caller
         \/ callerPc # "own" /\ callerPc' # "own"
  PROVE  /\ (Counts(r)' <=> Counts(r)) => Cardinality(Counted') = Cardinality(Counted)
         /\ Counts(r)' /\ ~Counts(r) => Cardinality(Counted') = Cardinality(Counted) + 1
         /\ ~Counts(r)' /\ Counts(r) => Cardinality(Counted') = Cardinality(Counted) - 1
<1>1. IsFiniteSet(Counted)
  BY SetsAreCounted
<1>2. /\ \A u : u # r => (u \in Counted' <=> u \in Counted)
      /\ r \in Counted' <=> Counts(r)'
      /\ r \in Counted <=> Counts(r)
  BY DEF Counted, InOwnList, Counts
<1>3. /\ (r \in Counted' <=> r \in Counted) => Cardinality(Counted') = Cardinality(Counted)
      /\ r \in Counted' /\ r \notin Counted => Cardinality(Counted') = Cardinality(Counted) + 1
      /\ r \notin Counted' /\ r \in Counted => Cardinality(Counted') = Cardinality(Counted) - 1
  BY ONLY <1>1, <1>2, OneMoves, Zenon
<1> QED
  BY <1>2, <1>3

LEMMA ControlInit == Init => ControlInv
<1> SUFFICES ASSUME Init PROVE ControlInv
  OBVIOUS
<1>1. Starting = {} /\ Counted = {}
  BY DEF Init, Starting, Counted, InList
<1>2. Cardinality(Starting) = 0 /\ Cardinality(Counted) = 0
  BY <1>1, FS_EmptySet
<1>3. PlacesOK
  BY LoopsAssumption DEF Init, PlacesOK, CallerPcs, RunPcs, LoopType
<1> QED
  BY <1>2, <1>3, RunnersAreFinite DEF Init, ControlInv, CallerPlace, NothingYet, AvailableIsCounted,
     ProgressIsCounted, WaitIsOver

(* The items that are left are more than a batch, and so are cut in two.   *)
LEMMA HandOverCounts ==
  ASSUME loop \in Loops, iter \in 0..loop.items, MayHandOver
  PROVE  /\ NumItems \in Nat /\ NumItems > loop.batchSize
         /\ NumBatches \in Nat /\ NumBatches > 1
         /\ NumTaskLists \in Nat
<1>1. /\ loop.items \in Nat /\ loop.partitionSize \in Nat /\ loop.batchSize \in Nat \ {0}
  BY LoopsAssumption DEF LoopType
<1>2. /\ NumSerialItems \in Nat /\ NumSerialItems >= loop.batchSize
  BY <1>1 DEF NumSerialItems, Larger
<1>3. NumItems \in Nat /\ NumItems > loop.batchSize
  BY <1>1, <1>2 DEF MayHandOver, NumItems
<1>4. NumBatches \in Nat /\ NumBatches > 1
  <2> DEFINE b == loop.batchSize
             n == NumItems + b - 1
  <2>1. b \in Nat \ {0} /\ n \in Nat /\ n >= 2 * b
    BY <1>1, <1>3
  <2>2. NumBatches = n \div b
    BY DEF NumBatches, CeilDiv
  <2> HIDE DEF n, b
  <2>3. n \div b \in Nat /\ n \div b >= 2
    BY <2>1
  <2> QED
    BY <2>2, <2>3
<1>5. Cardinality(Workers) \in Nat
  BY WorkersAssumption, FS_CardinalityType
<1>6. Smaller(NumBatches - 1, Cardinality(Workers)) \in Nat
  BY <1>4, <1>5 DEF Smaller
<1> QED
  BY <1>3, <1>4, <1>6 DEF NumTaskLists

(* The steps of the caller, but for those of a list.                       *)
LEMMA CallerKeepsControl ==
  ASSUME ControlInv, CallerStep \/ SpuriousWake
  PROVE  ControlInv'
<1>n. Cardinality(Starting) \in Nat /\ Cardinality(Counted) \in Nat
  BY SetsAreCounted
<1>r. Caller \in Runners
  BY RunnersAreFinite
<1> USE <1>n, <1>r DEF ControlInv
(* A step that moves no thread in a list.                                  *)
<1>0. ASSUME UNCHANGED runPc, callerPc # "own", callerPc' # "own"
      PROVE  Cardinality(Starting') = Cardinality(Starting) /\ Cardinality(Counted') = Cardinality(Counted)
  <2>1. Starting' = Starting /\ Counted' = Counted
    BY <1>0 DEF Starting, Counted, InOwnList
  <2> QED
    BY <2>1
<1>1. CASE RunSerially
  <2>1. Cardinality(Starting') = Cardinality(Starting) /\ Cardinality(Counted') = Cardinality(Counted)
    BY <1>0, <1>1 DEF RunSerially
  <2>2. iter' \in 0..loop'.items
    <3>1. loop.items \in Nat
      BY LoopsAssumption DEF LoopType, PlacesOK
    <3> QED
      BY <1>1, <3>1 DEF RunSerially, PlacesOK
  <2>3. PlacesOK' /\ CallerPlace' /\ NothingYet' /\ WaitIsOver'
    BY <1>1, <2>2 DEF RunSerially, PlacesOK, CallerPlace, NothingYet, WaitIsOver, counters
  <2> QED
    BY <1>1, <2>1, <2>3 DEF RunSerially, AvailableIsCounted, ProgressIsCounted, counters
<1>2. CASE EndSerially
  <2>1. Cardinality(Starting') = Cardinality(Starting) /\ Cardinality(Counted') = Cardinality(Counted)
    BY <1>0, <1>2 DEF EndSerially
  <2>3. PlacesOK' /\ CallerPlace' /\ NothingYet' /\ WaitIsOver'
    BY <1>2 DEF EndSerially, PlacesOK, CallerPlace, NothingYet, WaitIsOver, counters, CallerPcs
  <2> QED
    BY <1>2, <2>1, <2>3 DEF EndSerially, AvailableIsCounted, ProgressIsCounted, counters
<1>3. CASE HandOver
  <2>0. NumTaskLists \in Nat
    BY <1>3, HandOverCounts DEF HandOver, PlacesOK
  <2>1. Cardinality(Starting') = Cardinality(Starting) /\ Cardinality(Counted') = Cardinality(Counted)
    BY <1>0, <1>3 DEF HandOver
  <2>3. PlacesOK' /\ CallerPlace' /\ NothingYet' /\ WaitIsOver'
    BY <1>3, <2>0 DEF HandOver, PlacesOK, CallerPlace, NothingYet, WaitIsOver, CallerPcs
  <2>4. /\ mNumTasksAvailable = 0 /\ mNumTasksInProgress = 0 /\ unpushed = 0 /\ queued = 0
        /\ mNumTasksAvailable' = NumTaskLists /\ mNumTasksInProgress' = NumTaskLists
        /\ unpushed' = NumTaskLists /\ queued' = 0
    BY <1>3 DEF HandOver, NothingYet
  <2>5. Cardinality(Starting) = 0 /\ Cardinality(Counted) = 0
    BY <2>4 DEF AvailableIsCounted, ProgressIsCounted
  <2> QED
    BY <2>0, <2>1, <2>3, <2>4, <2>5 DEF AvailableIsCounted, ProgressIsCounted
<1>4. CASE PushOne
  <2>1. Cardinality(Starting') = Cardinality(Starting) /\ Cardinality(Counted') = Cardinality(Counted)
    BY <1>0, <1>4 DEF PushOne
  <2>3. PlacesOK' /\ CallerPlace' /\ NothingYet' /\ WaitIsOver'
    BY <1>4 DEF PushOne, PlacesOK, CallerPlace, NothingYet, WaitIsOver, counters
  <2> QED
    BY <1>4, <2>1, <2>3 DEF PushOne, PlacesOK, AvailableIsCounted, ProgressIsCounted, counters
<1>5. CASE StartOwnList
  <2>0. /\ runPc[Caller] = "idle" /\ runPc'[Caller] = "enter" /\ callerPc' = "own"
        /\ \A u \in Runners \ {Caller} : runPc'[u] = runPc[u]
    BY <1>5 DEF StartOwnList, PlacesOK, CallerPlace
  <2>1. Cardinality(Starting') = Cardinality(Starting)
    BY <2>0, StartingMoves
  <2>2. ~Counts(Caller)' /\ ~Counts(Caller)
    BY <2>0 DEF Counts, InOwnList, InList
  <2>3. Cardinality(Counted') = Cardinality(Counted)
    BY <2>0, <2>2, CountedMoves
  <2>4. PlacesOK' /\ CallerPlace' /\ NothingYet' /\ WaitIsOver'
    BY <1>5, <2>0 DEF StartOwnList, PlacesOK, CallerPlace, NothingYet, WaitIsOver, counters, CallerPcs,
       RunPcs, InList
  <2> QED
    BY <1>5, <2>1, <2>3, <2>4 DEF StartOwnList, AvailableIsCounted, ProgressIsCounted, counters
<1>6. CASE EndOwnList
  <2>0. /\ runPc[Caller] = "ran" /\ runPc'[Caller] = "idle" /\ callerPc = "own"
        /\ \A u \in Runners \ {Caller} : runPc'[u] = runPc[u]
    BY <1>6 DEF EndOwnList, PlacesOK, CallerPlace
  <2>1. Cardinality(Starting') = Cardinality(Starting)
    BY <2>0, StartingMoves
  <2>2. ~Counts(Caller)' /\ ~Counts(Caller)
    BY <2>0 DEF Counts, InOwnList, InList
  <2>3. Cardinality(Counted') = Cardinality(Counted)
    BY <2>0, <2>2, CountedMoves
  <2>4. PlacesOK' /\ CallerPlace' /\ NothingYet' /\ WaitIsOver'
    BY <1>6, <2>0 DEF EndOwnList, PlacesOK, CallerPlace, NothingYet, WaitIsOver, counters, CallerPcs,
       RunPcs, InList
  <2> QED
    BY <1>6, <2>1, <2>3, <2>4 DEF EndOwnList, AvailableIsCounted, ProgressIsCounted, counters
<1>7. CASE FindJobTask
  <2>0. /\ runPc[Caller] = "idle" /\ runPc'[Caller] = "start" /\ callerPc = "scan" /\ callerPc' = "help"
        /\ queued > 0 /\ queued' = queued - 1
        /\ \A u \in Runners \ {Caller} : runPc'[u] = runPc[u]
    BY <1>7 DEF FindJobTask, TakeWork, PlacesOK
  <2>1. Cardinality(Starting') = Cardinality(Starting) + 1
    BY <2>0, StartingMoves
  <2>2. ~Counts(Caller)' /\ ~Counts(Caller)
    BY <2>0 DEF Counts, InOwnList, InList
  <2>3. Cardinality(Counted') = Cardinality(Counted)
    BY <2>0, <2>2, CountedMoves
  <2>4. PlacesOK' /\ CallerPlace' /\ NothingYet' /\ WaitIsOver'
    BY <1>7, <2>0 DEF FindJobTask, TakeWork, PlacesOK, CallerPlace, NothingYet, WaitIsOver, counters,
       CallerPcs, RunPcs, InList
  <2> QED
    BY <1>7, <2>0, <2>1, <2>3, <2>4 DEF FindJobTask, TakeWork, PlacesOK, AvailableIsCounted,
       ProgressIsCounted, counters
(* The other steps move the caller in Wait and nothing else.               *)
<1>8. ASSUME NEW from \in CallerPcs \ {"serial", "push", "own", "returned"},
             NEW to \in CallerPcs \ {"serial", "push", "own", "help"}, CallerGoes(from, to),
             from = "help" => runPc[Caller] = "idle",
             to = "returned" => LockIsFree /\ mNumTasksAvailable = 0 /\ mNumTasksInProgress = 0
      PROVE  ControlInv'
  <2>1. Cardinality(Starting') = Cardinality(Starting) /\ Cardinality(Counted') = Cardinality(Counted)
    BY <1>0, <1>8 DEF CallerGoes
  <2>2. PlacesOK' /\ CallerPlace' /\ NothingYet'
    BY <1>8 DEF CallerGoes, PlacesOK, CallerPlace, NothingYet, counters
  <2>3. WaitIsOver'
    BY <1>8 DEF CallerGoes, WaitIsOver, LockIsFree, counters
  <2> QED
    BY <1>8, <2>1, <2>2, <2>3 DEF CallerGoes, AvailableIsCounted, ProgressIsCounted, counters
<1>9. CASE WaitCheck \/ FindNothing \/ BlockTasksAvailable \/ Napped \/ Woken \/ SpuriousWake
  BY <1>8, <1>9 DEF WaitCheck, FindNothing, BlockTasksAvailable, Napped, Woken, SpuriousWake, CallerPcs
<1>10. CASE \E next \in {"scan", "blockEmpty"} : Helped(next)
  BY <1>8, <1>10 DEF Helped, CallerPcs
<1>11. CASE \E from \in {"block", "blockEmpty", "napped"} : BlockDone(from) \/ BlockSleep(from)
  BY <1>8, <1>11 DEF BlockDone, BlockSleep, CallerPcs
<1> QED
  BY <1>1, <1>2, <1>3, <1>4, <1>5, <1>6, <1>7, <1>9, <1>10, <1>11 DEF CallerStep

LEMMA WorkersAreRunners == \A w \in Workers : w \in Runners /\ w # Caller
  BY CallerAssumption DEF Runners

(* A worker takes a JobWork.                                               *)
LEMMA StartWorkKeepsControl ==
  ASSUME ControlInv, NEW w \in Workers, StartWork(w)
  PROVE  ControlInv'
<1>n. Cardinality(Starting) \in Nat /\ Cardinality(Counted) \in Nat
  BY SetsAreCounted
<1> USE <1>n DEF ControlInv
<1>1. /\ w \in Runners /\ w # Caller
      /\ runPc[w] = "idle" /\ runPc'[w] = "start" /\ callerPc' = callerPc
      /\ queued > 0 /\ queued' = queued - 1
      /\ \A u \in Runners \ {w} : runPc'[u] = runPc[u]
  BY WorkersAreRunners DEF StartWork, TakeWork, PlacesOK
<1>2. Cardinality(Starting') = Cardinality(Starting) + 1
  BY <1>1, StartingMoves
<1>3. ~Counts(w)' /\ ~Counts(w)
  BY <1>1 DEF Counts, InList
<1>4. Cardinality(Counted') = Cardinality(Counted)
  BY <1>1, <1>3, CountedMoves
<1>5. PlacesOK' /\ CallerPlace' /\ NothingYet' /\ WaitIsOver'
  BY <1>1, RunnersAreFinite DEF StartWork, TakeWork, PlacesOK, CallerPlace, NothingYet, WaitIsOver, counters,
     RunPcs, InList
<1> QED
  BY <1>1, <1>2, <1>4, <1>5 DEF StartWork, TakeWork, PlacesOK, AvailableIsCounted, ProgressIsCounted,
     counters

(* A thread in a list.                                                     *)
LEMMA ListKeepsControl ==
  ASSUME ControlInv, NEW r \in Runners, ListStep(r)
  PROVE  ControlInv'
<1>n. Cardinality(Starting) \in Nat /\ Cardinality(Counted) \in Nat
  BY SetsAreCounted
<1>r. Caller \in Runners
  BY RunnersAreFinite
<1> USE <1>n, <1>r DEF ControlInv
<1>1. CASE OnTaskStarted(r)
  <2>1. /\ runPc[r] = "start" /\ runPc'[r] = "enter" /\ callerPc' = callerPc
        /\ \A u \in Runners \ {r} : runPc'[u] = runPc[u]
    BY <1>1 DEF OnTaskStarted, RunnerGoes, PlacesOK
  <2>2. ~InOwnList(r) /\ callerPc \notin {"serial", "returned"}
    <3>1. callerPc # "own" \/ r # Caller
      BY <2>1 DEF CallerPlace, InList
    <3>2. Starting # {}
      BY <2>1 DEF Starting
    <3>3. Cardinality(Starting) # 0
      BY <3>2, SetsAreCounted, FS_EmptySet
    <3> QED
      BY <3>1, <3>3 DEF InOwnList, NothingYet, WaitIsOver, AvailableIsCounted, PlacesOK
  <2>3. Cardinality(Starting') = Cardinality(Starting) - 1
    BY <2>1, StartingMoves
  <2>4. Counts(r)' /\ ~Counts(r)
    BY <2>1, <2>2 DEF Counts, InList, InOwnList
  <2>5. Cardinality(Counted') = Cardinality(Counted) + 1
    BY <2>1, <2>4, CountedMoves
  <2>6. Cardinality(Starting) > 0 /\ mNumTasksAvailable - 1 \in Nat
    <3>1. Starting # {}
      BY <2>1 DEF Starting
    <3>2. Cardinality(Starting) # 0
      BY <3>1, SetsAreCounted, FS_EmptySet
    <3> QED
      BY <3>2 DEF AvailableIsCounted, PlacesOK
  <2>7. PlacesOK' /\ CallerPlace' /\ NothingYet' /\ WaitIsOver'
    BY <1>1, <2>1, <2>2, <2>6 DEF OnTaskStarted, RunnerGoes, PlacesOK, CallerPlace, NothingYet,
       WaitIsOver, RunPcs, InList, InOwnList
  <2> QED
    BY <1>1, <2>3, <2>5, <2>6, <2>7 DEF OnTaskStarted, RunnerGoes, PlacesOK, AvailableIsCounted,
       ProgressIsCounted
(* A step within a list.                                                   *)
<1>2. ASSUME NEW from \in InList, NEW to \in InList, RunnerGoes(r, from, to), UNCHANGED <<counters, callerPc>>
      PROVE  ControlInv'
  <2>1. /\ runPc[r] = from /\ runPc'[r] = to /\ callerPc' = callerPc
        /\ \A u \in Runners \ {r} : runPc'[u] = runPc[u]
        /\ from # "start" /\ to # "start"
    BY <1>2 DEF RunnerGoes, PlacesOK, InList
  <2>2. Cardinality(Starting') = Cardinality(Starting)
    BY <2>1, StartingMoves
  <2>3. Counts(r)' <=> Counts(r)
    BY <1>2, <2>1 DEF Counts, InOwnList
  <2>4. Cardinality(Counted') = Cardinality(Counted)
    BY <2>1, <2>3, CountedMoves
  <2>5. PlacesOK' /\ CallerPlace' /\ NothingYet' /\ WaitIsOver'
    BY <1>2, <2>1 DEF RunnerGoes, PlacesOK, CallerPlace, NothingYet, WaitIsOver, RunPcs, InList, counters
  <2> QED
    BY <1>2, <2>2, <2>4, <2>5 DEF RunnerGoes, AvailableIsCounted, ProgressIsCounted, counters
<1>3. CASE ChooseFirstPartition(r) \/ FindTasks(r) \/ FindNone(r) \/ ProcessBatch(r)
  BY <1>2, <1>3 DEF ChooseFirstPartition, FindTasks, FindNone, ProcessBatch, InList
<1>4. CASE OnTaskDone(r)
  <2>1. /\ runPc[r] = "ran" /\ runPc'[r] = "unlock" /\ ~InOwnList(r)
        /\ \A u \in Runners \ {r} : runPc'[u] = runPc[u]
        /\ mNumTasksInProgress' = mNumTasksInProgress - 1
    BY <1>4 DEF OnTaskDone, RunnerGoes, PlacesOK
  <2>2. /\ callerPc' \in CallerPcs
        /\ \/ callerPc' = callerPc
           \/ callerPc = "sleep" /\ callerPc' = "woken"
           \/ callerPc = "nap" /\ callerPc' = "napped"
    BY <1>4 DEF OnTaskDone, NotifyCaller, PlacesOK, CallerPcs
  <2>3. Cardinality(Starting') = Cardinality(Starting)
    BY <2>1, StartingMoves
  <2>4. ~Counts(r)' /\ Counts(r)
    BY <2>1 DEF Counts, InList
  <2>5. Cardinality(Counted') = Cardinality(Counted) - 1
    BY <2>1, <2>2, <2>4, CountedMoves
  <2>6. Cardinality(Counted) > 0
    <3>1. Counted # {}
      BY <2>4 DEF Counts, Counted
    <3> QED
      BY <3>1, SetsAreCounted, FS_EmptySet
  <2>7. mNumTasksInProgress - 1 \in Nat /\ callerPc \notin {"serial", "returned"}
    BY <2>6 DEF ProgressIsCounted, PlacesOK, NothingYet, WaitIsOver
  <2>8. PlacesOK' /\ CallerPlace' /\ NothingYet' /\ WaitIsOver'
    <3>1. CallerPlace'
      BY <1>4, <2>1, <2>2 DEF CallerPlace, InList, InOwnList
    <3> QED
      BY <1>4, <2>1, <2>2, <2>7, <3>1 DEF OnTaskDone, RunnerGoes, PlacesOK, NothingYet, WaitIsOver, RunPcs
  <2> QED
    BY <1>4, <2>1, <2>3, <2>5, <2>6, <2>8 DEF OnTaskDone, RunnerGoes, PlacesOK, AvailableIsCounted,
       ProgressIsCounted
<1>5. CASE Unlock(r)
  <2>1. /\ runPc[r] = "unlock" /\ runPc'[r] = "idle" /\ callerPc' = callerPc
        /\ \A u \in Runners \ {r} : runPc'[u] = runPc[u]
    BY <1>5 DEF Unlock, RunnerGoes, PlacesOK
  <2>2. Cardinality(Starting') = Cardinality(Starting)
    BY <2>1, StartingMoves
  <2>3. ~Counts(r)' /\ ~Counts(r)
    BY <2>1 DEF Counts, InList
  <2>4. Cardinality(Counted') = Cardinality(Counted)
    BY <2>1, <2>3, CountedMoves
  <2>5. PlacesOK' /\ CallerPlace' /\ NothingYet' /\ WaitIsOver'
    BY <1>5, <2>1 DEF Unlock, RunnerGoes, PlacesOK, CallerPlace, NothingYet, WaitIsOver, RunPcs, InList, counters
  <2> QED
    BY <1>5, <2>2, <2>4, <2>5 DEF Unlock, RunnerGoes, AvailableIsCounted, ProgressIsCounted, counters
<1> QED
  BY <1>1, <1>3, <1>4, <1>5 DEF ListStep

LEMMA ControlStep == ControlInv /\ [Next]_vars => ControlInv'
<1> SUFFICES ASSUME ControlInv, [Next]_vars PROVE ControlInv'
  OBVIOUS
<1>1. CASE UNCHANGED vars
  BY <1>1 DEF vars, ControlInv, PlacesOK, CallerPlace, NothingYet, AvailableIsCounted, ProgressIsCounted,
     WaitIsOver, Starting, Counted, InOwnList, counters
<1> QED
  BY <1>1, CallerKeepsControl, StartWorkKeepsControl, ListKeepsControl DEF Next

LEMMA ControlInvariant == Spec => []ControlInv
  BY ControlInit, ControlStep, PTL DEF Spec

(* A caller that sees no entry and no work in progress leaves nobody       *)
(* behind.                                                                 *)
LEMMA ControlGivesUnused == ControlInv => ReturnedUnused
<1> SUFFICES ASSUME ControlInv, callerPc = "returned"
             PROVE  queued = 0 /\ \A r \in Runners : runPc[r] = "idle"
  BY DEF ReturnedUnused
<1> USE DEF ControlInv
<1>1. Cardinality(Starting) = 0 /\ Cardinality(Counted) = 0 /\ queued = 0
  <2>1. /\ unpushed \in Nat /\ queued \in Nat
        /\ Cardinality(Starting) \in Nat /\ Cardinality(Counted) \in Nat
    BY SetsAreCounted DEF PlacesOK
  <2>2. mNumTasksAvailable = 0 /\ mNumTasksInProgress = 0
    BY DEF WaitIsOver
  <2> QED
    BY <2>1, <2>2 DEF AvailableIsCounted, ProgressIsCounted
<1>2. Starting = {} /\ Counted = {}
  BY <1>1, SetsAreCounted, FS_EmptySet
<1>3. \A r \in Runners : runPc[r] \notin {"start", "unlock"} /\ runPc[r] \notin InList
  BY <1>2 DEF Starting, Counted, InOwnList, WaitIsOver
<1> QED
  BY <1>1, <1>3 DEF PlacesOK, RunPcs, InList

(* What the invariant says at the code's assertions.                       *)
LEMMA ControlGivesAssertions == ControlInv => AssertionsHold
<1> SUFFICES ASSUME ControlInv PROVE AssertionsHold
  OBVIOUS
<1> USE DEF ControlInv
<1>1. ASSUME NEW r \in Runners, runPc[r] = "start"
      PROVE  mNumTasksAvailable > 0
  <2>1. Starting # {}
    BY <1>1 DEF Starting
  <2>2. Cardinality(Starting) \in Nat /\ Cardinality(Starting) # 0
    BY <2>1, SetsAreCounted, FS_EmptySet
  <2> QED
    BY <2>2 DEF PlacesOK, AvailableIsCounted
<1>2. ASSUME NEW r \in Runners, runPc[r] = "ran", ~InOwnList(r)
      PROVE  mNumTasksInProgress > 0
  <2>1. Counted # {}
    BY <1>2 DEF Counted, InList
  <2>2. Cardinality(Counted) \in Nat /\ Cardinality(Counted) # 0
    BY <2>1, SetsAreCounted, FS_EmptySet
  <2> QED
    BY <2>2 DEF PlacesOK, ProgressIsCounted
<1>3. callerPc = "serial" /\ MayHandOver => NumBatches > 1
  BY HandOverCounts DEF PlacesOK
<1> QED
  BY <1>1, <1>2, <1>3 DEF AssertionsHold

(* When ParallelFor returns, and its job is destroyed with the caller's    *)
(* stack, no entry of the thread pool and no worker refers to the job      *)
(* (Wait in jobs/WaitableJob.cpp, OnTaskDone in jobs/WaitableJob.h).       *)
THEOREM LoopReturnsUnused == Spec => []ReturnedUnused
  BY ControlInvariant, ControlGivesUnused, PTL

(* No ION_ASSERT about the counters or the number of batches fails in a    *)
(* parallel loop, whatever the order in which the threads take and leave   *)
(* the job.                                                                *)
THEOREM LoopAssertionsHold == Spec => []AssertionsHold
  BY ControlInvariant, ControlGivesAssertions, PTL

--------------------------------------------------------------------------------
(* The inductive invariant of the items: an item is claimed when the index *)
(* of its partition is past it, and then it was run or is in the batch of  *)
(* one thread.                                                             *)
PartitionsOK ==
  /\ partitions \in Seq([start : Nat, end : Nat, next : Nat])
  /\ mRunningIndex \in Nat
  /\ partitions # <<>> => mRunningIndex < Len(partitions)
  /\ runs \in [0..(loop.items - 1) -> {0, 1}]

(* Without a job only the serial loop runs, and the call ends with it.     *)
NoJobYet ==
  partitions = <<>> =>
    /\ callerPc \in {"serial", "returned"}
    /\ callerPc = "returned" => iter = loop.items
    /\ \A r \in Runners : runPc[r] = "idle"
    /\ queued = 0
    /\ mRunningIndex = 0

(* The partitions of the job follow on each other and have every item.     *)
JobCoversItems ==
  partitions # <<>> =>
    /\ callerPc # "serial"
    /\ \A i \in 0..(NumItems - 1) : \E p \in 1..Len(partitions) :
         partitions[p].start <= i /\ i < partitions[p].end
    /\ \A p \in 1..Len(partitions) : partitions[p].end <= NumItems
    /\ \A p, q \in 1..Len(partitions) : p < q => partitions[p].end <= partitions[q].start

(* A partition has nothing left to claim; this never changes back.         *)
Exhausted(p) == ClaimStart(p) >= partitions[p].end
AllExhausted == \A p \in 1..Len(partitions) : Exhausted(p)

(* The partitions in which a thread found nothing left.                    *)
Visited(r) == {((visit[r].from + k) % Len(partitions)) + 1 : k \in 0..(visit[r].j - 1)}

(* A thread has seen every partition it passed exhausted; one that leaves  *)
(* has gone round all of them.                                             *)
VisitOK ==
  /\ visit \in [Runners -> [from : Nat, j : Nat, batch : SUBSET (0..(loop.items - 1))]]
  /\ \A r \in Runners :
       /\ runPc[r] # "run" => visit[r].batch = {}
       /\ runPc[r] \in {"claim", "run"} =>
            /\ visit[r].from < Len(partitions)
            /\ visit[r].j < Len(partitions)
            /\ \A q \in Visited(r) : Exhausted(q)
       /\ runPc[r] \in {"ran", "unlock"} => AllExhausted

(* The caller waits only after its own round found all partitions          *)
(* exhausted.                                                              *)
CallerIsThrough ==
  partitions # <<>> /\ callerPc \notin {"push", "own"} => AllExhausted

(* The serial loop has passed the item, or a claim has.                    *)
Claimed(i) ==
  \/ i < iter
  \/ \E p \in 1..Len(partitions) :
       /\ partitions[p].start <= i - iter
       /\ i - iter < partitions[p].end
       /\ i - iter < ClaimStart(p)

(* An item has run once if it was claimed and no thread still has it.      *)
ItemsOnce ==
  /\ \A i \in 0..(loop.items - 1) : runs[i] = 1 <=> Claimed(i) /\ \A r \in Runners : i \notin visit[r].batch
  /\ \A r \in Runners : \A i \in visit[r].batch : Claimed(i)
  /\ \A r, u \in Runners : r # u => visit[r].batch \cap visit[u].batch = {}

ItemsInv == PartitionsOK /\ NoJobYet /\ JobCoversItems /\ VisitOK /\ CallerIsThrough /\ ItemsOnce

(* The numbers of a call.                                                  *)
LEMMA LoopNumbers ==
  ASSUME PlacesOK
  PROVE  /\ loop.items \in Nat /\ loop.partitionSize \in Nat /\ loop.batchSize \in Nat \ {0}
         /\ ClaimSize \in Nat \ {0}
         /\ iter \in Nat /\ NumItems \in Nat /\ iter + NumItems = loop.items
  BY LoopsAssumption DEF LoopType, PlacesOK, ClaimSize, NumItems

(* The partitions of a new job follow on each other and have every item.   *)
LEMMA NewPartitionsCover ==
  ASSUME PlacesOK, MayHandOver
  PROVE  /\ NewPartitions \in Seq([start : Nat, end : Nat, next : Nat])
         /\ Len(NewPartitions) = NumPartitions /\ NumPartitions \in Nat \ {0}
         /\ \A p \in 1..NumPartitions : NewPartitions[p].next = 0
         /\ \A i \in 0..(NumItems - 1) : \E p \in 1..NumPartitions :
              NewPartitions[p].start <= i /\ i < NewPartitions[p].end
         /\ \A p \in 1..NumPartitions : NewPartitions[p].end <= NumItems
         /\ \A p, q \in 1..NumPartitions : p < q => NewPartitions[p].end <= NewPartitions[q].start
<1>0. NumItems \in Nat \ {0} /\ loop.partitionSize \in Nat
  BY HandOverCounts, LoopNumbers DEF PlacesOK
<1>1. NumPartitions \in Nat \ {0}
  <2>1. CASE IsPartitioned
    <3> DEFINE x == NumItems \div loop.partitionSize
    <3>1. loop.partitionSize > 1
      BY <2>1 DEF IsPartitioned
    <3>2. x \in Nat
      BY <1>0, <3>1
    <3>3. NumPartitions = Larger(1, Smaller(MaxPartitions, x))
      BY <2>1 DEF NumPartitions
    <3> HIDE DEF x
    <3> QED
      BY <3>2, <3>3, WorkersAssumption DEF Larger, Smaller
  <2>2. CASE ~IsPartitioned
    BY <2>2 DEF NumPartitions
  <2> QED
    BY <2>1, <2>2
<1> DEFINE n == NumItems
           k == NumPartitions
           d == n \div k
           P(p) == [start |-> (p - 1) * d, end |-> IF p = k THEN n ELSE p * d, next |-> 0]
<1>2. NewPartitions = [p \in 1..k |-> P(p)]
  BY DEF NewPartitions
<1> HIDE DEF n, k
<1>3. n \in Nat \ {0} /\ k \in Nat \ {0}
  BY <1>0, <1>1 DEF n, k
<1>4. d \in Nat /\ d * k <= n
  BY <1>3
<1> HIDE DEF d
<1>5. \A a, b \in Nat : a <= b => a * d <= b * d /\ a * d \in Nat /\ b * d \in Nat
  BY <1>4
<1>6. ASSUME NEW p \in 1..k
      PROVE  /\ P(p) \in [start : Nat, end : Nat, next : Nat]
             /\ p - 1 \in Nat /\ p \in Nat /\ p * d <= k * d /\ k * d = d * k
  <2>1. p - 1 \in Nat /\ p \in Nat /\ p <= k /\ p - 1 <= p
    BY <1>3
  <2>2. (p - 1) * d \in Nat /\ p * d \in Nat /\ p * d <= k * d
    BY <1>3, <1>5, <2>1
  <2>3. k * d = d * k
    BY <1>3, <1>4
  <2> QED
    BY <1>3, <2>1, <2>2, <2>3
<1>7. \A p \in 1..k : NewPartitions[p] = P(p)
  BY <1>2
<1>8. NewPartitions \in Seq([start : Nat, end : Nat, next : Nat]) /\ Len(NewPartitions) = k
  <2> DEFINE R == [start : Nat, end : Nat, next : Nat]
             s == NewPartitions
  <2>1. s \in [1..k -> R]
    BY <1>2, <1>6
  <2> HIDE DEF R, s
  <2>2. s \in Seq(R) /\ Len(s) = k
    BY <1>3, <2>1
  <2> QED
    BY <2>2 DEF R, s
<1>9. ASSUME NEW i \in 0..(n - 1)
      PROVE  \E p \in 1..k : (p - 1) * d <= i /\ i < (IF p = k THEN n ELSE p * d)
  <2>1. CASE (k - 1) * d <= i
    <3>1. k \in 1..k /\ i < n
      BY <1>3
    <3> QED
      BY <2>1, <3>1
  <2>2. CASE ~((k - 1) * d <= i)
    <3>1. d # 0
      BY <1>3, <2>2
    <3> DEFINE q == i \div d
    <3>2. q \in Nat /\ q * d <= i /\ i < (q + 1) * d
      BY <1>4, <3>1
    <3> HIDE DEF q
    <3>3. q + 1 < k
      <4>1. CASE q + 1 >= k
        <5>1. k - 1 <= q /\ k - 1 \in Nat
          BY <1>3, <3>2, <4>1
        <5>2. (k - 1) * d <= q * d /\ (k - 1) * d \in Nat /\ q * d \in Nat
          BY <1>5, <3>2, <5>1
        <5> QED
          BY <2>2, <3>2, <5>2
      <4> QED
        BY <1>3, <3>2, <4>1
    <3>4. q + 1 \in 1..k /\ q + 1 # k /\ (q + 1) - 1 = q
      BY <1>3, <3>2, <3>3
    <3> QED
      BY <3>2, <3>4
  <2> QED
    BY <2>1, <2>2
<1>10. ASSUME NEW p \in 1..k, NEW q \in 1..k, p < q
       PROVE  (IF p = k THEN n ELSE p * d) <= (q - 1) * d
  <2>1. p # k /\ p \in Nat /\ q - 1 \in Nat /\ p <= q - 1
    BY <1>3, <1>10
  <2> QED
    BY <1>5, <2>1
<1>11. ASSUME NEW p \in 1..k
       PROVE  (IF p = k THEN n ELSE p * d) <= n
  <2>1. p * d <= k * d /\ k * d = d * k
    BY <1>6
  <2>2. p * d \in Nat
    BY <1>5, <1>6
  <2> QED
    BY <1>3, <1>4, <2>1, <2>2
<1> QED
  <2>1. \A p \in 1..k : /\ NewPartitions[p].next = 0
                        /\ NewPartitions[p].start = (p - 1) * d
                        /\ NewPartitions[p].end = IF p = k THEN n ELSE p * d
    <3>1. ASSUME NEW p \in 1..k
          PROVE  /\ P(p).next = 0 /\ P(p).start = (p - 1) * d
                 /\ P(p).end = IF p = k THEN n ELSE p * d
      OBVIOUS
    <3> HIDE DEF P
    <3> QED
      BY <1>7, <3>1
  <2>2. /\ \A i \in 0..(n - 1) : \E p \in 1..k : NewPartitions[p].start <= i /\ i < NewPartitions[p].end
    BY <1>9, <2>1
  <2>3. \A p \in 1..k : NewPartitions[p].end <= n
    BY <1>11, <2>1
  <2>4. \A p, q \in 1..k : p < q => NewPartitions[p].end <= NewPartitions[q].start
    BY <1>10, <2>1
  <2> QED
    BY <1>3, <1>8, <2>1, <2>2, <2>3, <2>4 DEF n, k

LEMMA HasPartition ==
  ASSUME NEW p \in 1..Len(partitions)
  PROVE  partitions # <<>>
  OBVIOUS

(* What a fetch-and-add on the index of a partition does.                  *)
LEMMA ClaimMoves ==
  ASSUME PlacesOK, PartitionsOK, NEW p \in 1..Len(partitions),
         partitions' = [partitions EXCEPT ![p].next = @ + 1], UNCHANGED <<loop, iter>>
  PROVE  /\ partitions' \in Seq([start : Nat, end : Nat, next : Nat])
         /\ Len(partitions') = Len(partitions)
         /\ \A q \in 1..Len(partitions) :
              /\ partitions'[q].start = partitions[q].start /\ partitions[q].start \in Nat
              /\ partitions'[q].end = partitions[q].end /\ partitions[q].end \in Nat
              /\ ClaimStart(q) \in Nat /\ ClaimStart(q) >= partitions[q].start
              /\ ClaimStart(q)' = IF q = p THEN ClaimStart(q) + ClaimSize ELSE ClaimStart(q)
<1> DEFINE R == [start : Nat, end : Nat, next : Nat]
           c == ClaimSize
<1>1. ClaimSize' = ClaimSize /\ c \in Nat \ {0}
  BY LoopNumbers DEF ClaimSize
<1> HIDE DEF c
<1>2. /\ partitions \in Seq(R) /\ Len(partitions) \in Nat
      /\ \A q \in 1..Len(partitions) : partitions[q] \in R
  <2>1. partitions \in Seq(R)
    BY DEF PartitionsOK
  <2> HIDE DEF R
  <2> QED
    BY <2>1
<1>3. \A q \in 1..Len(partitions) : partitions[q].start \in Nat /\ partitions[q].end \in Nat /\ partitions[q].next \in Nat
  BY <1>2
<1>4. [partitions[p] EXCEPT !.next = @ + 1] \in R
  <2>1. \A t \in R : [t EXCEPT !.next = @ + 1] \in R
    OBVIOUS
  <2> HIDE DEF R
  <2> QED
    BY <1>2, <2>1
<1>5. /\ partitions' \in Seq(R) /\ Len(partitions') = Len(partitions)
      /\ \A q \in 1..Len(partitions) :
           partitions'[q] = IF q = p THEN [partitions[p] EXCEPT !.next = @ + 1] ELSE partitions[q]
  <2> DEFINE e == [partitions[p] EXCEPT !.next = @ + 1]
  <2>1. partitions' = [partitions EXCEPT ![p] = e] /\ e \in R
    BY <1>4
  <2> HIDE DEF e, R
  <2>2. /\ [partitions EXCEPT ![p] = e] \in Seq(R) /\ Len([partitions EXCEPT ![p] = e]) = Len(partitions)
        /\ \A q \in 1..Len(partitions) : [partitions EXCEPT ![p] = e][q] = IF q = p THEN e ELSE partitions[q]
    BY <1>2, <2>1
  <2> QED
    BY <2>1, <2>2 DEF e
<1>6. ASSUME NEW q \in 1..Len(partitions)
      PROVE  /\ partitions'[q].start = partitions[q].start
             /\ partitions'[q].end = partitions[q].end
             /\ partitions'[q].next = IF q = p THEN partitions[q].next + 1 ELSE partitions[q].next
  BY <1>2, <1>5, SMTT(30)
<1>7. \A n, b \in Nat : (n + 1) * c + b = n * c + b + c /\ n * c + b \in Nat /\ n * c + b >= b
  <2>1. \A n \in Nat : (n + 1) * c = n * c + c /\ n * c \in Nat
    BY <1>1
  <2> QED
    BY <1>1, <2>1
<1>8. ASSUME NEW q \in 1..Len(partitions)
      PROVE  /\ ClaimStart(q) \in Nat /\ ClaimStart(q) >= partitions[q].start
             /\ ClaimStart(q)' = IF q = p THEN ClaimStart(q) + ClaimSize ELSE ClaimStart(q)
  <2>1. /\ ClaimStart(q) = partitions[q].next * c + partitions[q].start
        /\ ClaimStart(q)' = partitions'[q].next * c + partitions'[q].start
    BY <1>1 DEF ClaimStart, c
  <2>2. ClaimStart(q) \in Nat /\ ClaimStart(q) >= partitions[q].start
    BY <1>3, <1>7, <2>1
  <2>3. CASE q = p
    <3>1. ClaimStart(q)' = (partitions[q].next + 1) * c + partitions[q].start
      BY <1>6, <2>1, <2>3
    <3> QED
      BY <1>3, <1>7, <2>1, <2>2, <2>3, <3>1 DEF c
  <2>4. CASE q # p
    BY <1>6, <2>1, <2>2, <2>4
  <2> QED
    BY <2>3, <2>4
<1> QED
  BY <1>3, <1>5, <1>6, <1>8

LEMMA ExhaustedStays ==
  ASSUME PlacesOK, PartitionsOK, NEW p \in 1..Len(partitions),
         partitions' = [partitions EXCEPT ![p].next = @ + 1], UNCHANGED <<loop, iter>>
  PROVE  /\ \A q \in 1..Len(partitions) : Exhausted(q) => Exhausted(q)'
         /\ AllExhausted => AllExhausted'
<1>1. ClaimSize \in Nat
  BY LoopNumbers
<1>2. ASSUME NEW q \in 1..Len(partitions), Exhausted(q)
      PROVE  Exhausted(q)'
  <2>1. /\ partitions'[q].end = partitions[q].end /\ partitions[q].end \in Nat
        /\ ClaimStart(q) \in Nat /\ ClaimStart(q) >= partitions[q].end
        /\ ClaimStart(q)' = IF q = p THEN ClaimStart(q) + ClaimSize ELSE ClaimStart(q)
    BY <1>2, ClaimMoves DEF Exhausted
  <2>2. ClaimStart(q)' >= partitions'[q].end
    BY <1>1, <2>1
  <2> QED
    BY <2>2 DEF Exhausted
<1> QED
  BY <1>2, ClaimMoves DEF AllExhausted

(* The claim takes what BatchOf says, and nobody had claimed that before.  *)
LEMMA ClaimTakes ==
  ASSUME PlacesOK, PartitionsOK, JobCoversItems, NEW p \in 1..Len(partitions),
         partitions' = [partitions EXCEPT ![p].next = @ + 1], UNCHANGED <<loop, iter>>
  PROVE  /\ BatchOf(p) \subseteq 0..(loop.items - 1)
         /\ \A i \in 0..(loop.items - 1) :
              /\ Claimed(i)' <=> Claimed(i) \/ i \in BatchOf(p)
              /\ i \in BatchOf(p) => ~Claimed(i)
         /\ Exhausted(p) => BatchOf(p) = {}
<1> DEFINE c == ClaimSize
           a == ClaimStart(p)
           e == partitions[p].end
<1>1. /\ c \in Nat \ {0} /\ iter \in Nat /\ NumItems \in Nat /\ iter + NumItems = loop.items
      /\ loop.items \in Nat
  BY LoopNumbers
<1>2. /\ a \in Nat /\ a >= partitions[p].start /\ e \in Nat /\ partitions[p].start \in Nat
      /\ ClaimStart(p)' = a + c
      /\ e <= NumItems
  BY ClaimMoves, HasPartition DEF JobCoversItems
<1> HIDE DEF c, a, e
<1>3. \A i \in Int : i \in BatchOf(p) <=> a <= i - iter /\ i - iter < a + c /\ i - iter < e
  <2>1. BatchOf(p) = {iter + i : i \in a..(Smaller(a + c, e) - 1)}
    BY DEF BatchOf, a, c, e
  <2>2. \A x \in Int : x \in a..(Smaller(a + c, e) - 1) <=> a <= x /\ x < a + c /\ x < e
    BY <1>1, <1>2 DEF Smaller
  <2>3. ASSUME NEW i \in Int
        PROVE  i \in BatchOf(p) <=> i - iter \in a..(Smaller(a + c, e) - 1)
    <3>1. i - iter \in Int /\ iter + (i - iter) = i
      BY <1>1
    <3>2. \A x \in Int : iter + x = i => x = i - iter
      BY <1>1
    <3>3. Smaller(a + c, e) \in Int
      BY <1>1, <1>2 DEF Smaller
    <3> QED
      BY <2>1, <3>1, <3>2, <3>3, <1>2
  <2>4. \A i \in Int : i - iter \in Int
    BY <1>1
  <2> QED
    BY <2>2, <2>3, <2>4
<1>4. BatchOf(p) \subseteq 0..(loop.items - 1)
  <2>1. ASSUME NEW x \in BatchOf(p)
        PROVE  x \in 0..(loop.items - 1)
    <3>1. x \in Int
      <4>1. PICK i \in ClaimStart(p)..(Smaller(ClaimStart(p) + ClaimSize, partitions[p].end) - 1) : x = iter + i
        BY DEF BatchOf
      <4> QED
        BY <1>1, <4>1
    <3> QED
      BY <1>1, <1>2, <1>3, <2>1, <3>1
  <2> QED
    BY <2>1
<1>5. Exhausted(p) => BatchOf(p) = {}
  <2>1. ASSUME Exhausted(p), NEW x \in BatchOf(p)
        PROVE  FALSE
    <3>1. x \in Int /\ x - iter \in Int
      BY <1>1, <1>4
    <3>2. a >= e
      BY <2>1 DEF Exhausted, a, e
    <3> QED
      BY <1>1, <1>2, <1>3, <3>1, <3>2
  <2> QED
    BY <2>1
<1>6. ASSUME NEW i \in 0..(loop.items - 1)
      PROVE  i \in BatchOf(p) => ~Claimed(i)
  <2> SUFFICES ASSUME i \in BatchOf(p), Claimed(i) PROVE FALSE
    OBVIOUS
  <2>1. a <= i - iter /\ i - iter < e /\ ~(i < iter) /\ i - iter \in Int
    BY <1>1, <1>2, <1>3
  <2>2. PICK q \in 1..Len(partitions) : /\ partitions[q].start <= i - iter
                                        /\ i - iter < partitions[q].end
                                        /\ i - iter < ClaimStart(q)
    BY <2>1 DEF Claimed
  <2>3. q # p
    BY <1>2, <2>1, <2>2 DEF a
  <2>4. /\ partitions[q].start \in Nat /\ partitions[q].end \in Nat
        /\ partitions[p].start <= i - iter /\ i - iter < partitions[p].end
    <3>1. partitions[q].start \in Nat /\ partitions[q].end \in Nat
      BY ClaimMoves
    <3> QED
      BY <1>1, <1>2, <2>1, <3>1, SMTT(30) DEF e
  <2>5. /\ p < q => partitions[p].end <= partitions[q].start
        /\ q < p => partitions[q].end <= partitions[p].start
    BY HasPartition DEF JobCoversItems
  <2>6. p < q \/ q < p
    BY <2>3
  <2> QED
    BY <1>2, <2>2, <2>4, <2>5, <2>6, <2>1 DEF e
<1>7. ASSUME NEW i \in 0..(loop.items - 1)
      PROVE  Claimed(i)' <=> Claimed(i) \/ i \in BatchOf(p)
  <2> DEFINE x == i - iter
  <2>0. x \in Int /\ i \in Int /\ x = i - iter
    BY <1>1
  <2>1. i \in BatchOf(p) <=> a <= x /\ x < a + c /\ x < e
    BY <1>3
  <2> HIDE DEF x
  <2>2. Claimed(i) <=> \/ i < iter
                       \/ \E q \in 1..Len(partitions) :
                            partitions[q].start <= x /\ x < partitions[q].end /\ x < ClaimStart(q)
    BY DEF Claimed, x
  <2>3. Claimed(i)' <=> \/ i < iter
                        \/ \E q \in 1..Len(partitions) :
                             partitions[q].start <= x /\ x < partitions[q].end /\ x < ClaimStart(q)'
    BY ClaimMoves DEF Claimed, x
  <2>4. ASSUME NEW q \in 1..Len(partitions), q # p
        PROVE  ClaimStart(q)' = ClaimStart(q)
    BY <2>4, ClaimMoves
  <2>5. x < ClaimStart(p)' <=> x < a + c
    BY <1>2
  <2>6. x < a + c <=> x < a \/ (a <= x /\ x < a + c)
    BY <1>1, <1>2, <2>0
  <2>7. a <= x => partitions[p].start <= x
    BY <1>2, <2>0
  <2>8. ASSUME Claimed(i)'
        PROVE  Claimed(i) \/ i \in BatchOf(p)
    <3>1. CASE i < iter
      BY <2>2, <3>1
    <3>2. CASE ~(i < iter)
      <4>1. PICK q \in 1..Len(partitions) :
               partitions[q].start <= x /\ x < partitions[q].end /\ x < ClaimStart(q)'
        BY <2>3, <2>8, <3>2
      <4>2. CASE q = p
        BY <2>1, <2>2, <2>5, <2>6, <4>1, <4>2 DEF a, e
      <4>3. CASE q # p
        BY <2>2, <2>4, <4>1, <4>3
      <4> QED
        BY <4>2, <4>3
    <3> QED
      BY <3>1, <3>2
  <2>9. ASSUME Claimed(i) \/ i \in BatchOf(p)
        PROVE  Claimed(i)'
    <3>1. CASE i \in BatchOf(p)
      BY <2>1, <2>3, <2>5, <2>7, <3>1 DEF e
    <3>2. CASE Claimed(i) /\ ~(i < iter)
      <4>1. PICK q \in 1..Len(partitions) :
               partitions[q].start <= x /\ x < partitions[q].end /\ x < ClaimStart(q)
        BY <2>2, <3>2
      <4>2. x < ClaimStart(q)'
        BY <2>4, <2>5, <2>6, <4>1 DEF a
      <4> QED
        BY <2>3, <4>1, <4>2
    <3>3. CASE i < iter
      BY <2>3, <3>3
    <3> QED
      BY <2>9, <3>1, <3>2, <3>3
  <2> QED
    BY <2>8, <2>9
<1> QED
  BY <1>4, <1>5, <1>6, <1>7

(* A round over all partitions, from any of them, comes to every one.      *)
LEMMA RoundIsComplete ==
  ASSUME NEW n \in Nat \ {0}, NEW from \in 0..(n - 1), NEW q \in 1..n
  PROVE  \E k \in 0..(n - 1) : ((from + k) % n) + 1 = q
<1>1. CASE from <= q - 1
  <2> DEFINE k == q - 1 - from
  <2>1. k \in 0..(n - 1) /\ from + k = q - 1 /\ (q - 1) \in 0..(n - 1)
    BY <1>1
  <2>2. (q - 1) % n = q - 1
    BY <2>1
  <2>3. ((from + k) % n) + 1 = q
    BY <2>1, <2>2
  <2> HIDE DEF k
  <2> QED
    BY <2>1, <2>3
<1>2. CASE ~(from <= q - 1)
  <2> DEFINE k == q - 1 - from + n
             x == q - 1
  <2>1. k \in 0..(n - 1) /\ from + k = x + n /\ x \in 0..(n - 1)
    BY <1>2
  <2> HIDE DEF x, k
  <2>2. (x + n) % n = x
    BY <2>1
  <2>3. ((from + k) % n) + 1 = q
    BY <2>1, <2>2 DEF x
  <2> QED
    BY <2>1, <2>3
<1> QED
  BY <1>1, <1>2

LEMMA RoundStays ==
  ASSUME NEW n \in Nat \ {0}, NEW from \in Nat, NEW k \in Nat
  PROVE  ((from + k) % n) + 1 \in 1..n
<1>1. (from + k) % n \in 0..(n - 1)
  OBVIOUS
<1> QED
  BY <1>1

LEMMA ItemsInit == Init => ItemsInv
<1> SUFFICES ASSUME Init PROVE ItemsInv
  OBVIOUS
<1>1. PlacesOK
  BY ControlInit DEF ControlInv
<1>2. loop.items \in Nat
  BY <1>1, LoopNumbers
<1>3. PartitionsOK
  BY <1>2 DEF Init, PartitionsOK
<1>4. NoJobYet /\ JobCoversItems /\ CallerIsThrough
  BY DEF Init, NoJobYet, JobCoversItems, CallerIsThrough
<1>5. \A r \in Runners : visit[r] = NoVisit /\ NoVisit.batch = {}
  BY DEF Init, NoVisit
<1>6. NoVisit \in [from : Nat, j : Nat, batch : SUBSET (0..(loop.items - 1))]
  BY DEF NoVisit
<1>7. VisitOK
  BY <1>5, <1>6 DEF Init, VisitOK
<1>8. Len(partitions) = 0 /\ iter = 0
  BY DEF Init
<1>9. \A i \in 0..(loop.items - 1) : ~Claimed(i) /\ runs[i] = 0
  BY <1>8, <1>2 DEF Claimed, Init
<1>10. ItemsOnce
  BY <1>5, <1>9 DEF ItemsOnce
<1> QED
  BY <1>3, <1>4, <1>7, <1>10 DEF ItemsInv

(* A step that leaves the items, the partitions and the visits alone.      *)
LEMMA QuietStep ==
  ASSUME ItemsInv, UNCHANGED <<loop, iter, jobVars, visit, runs>>, partitions # <<>>,
         callerPc' # "serial",
         \A r \in Runners :
           /\ runPc'[r] = "run" <=> runPc[r] = "run"
           /\ runPc'[r] \in {"claim", "run"} => runPc[r] \in {"claim", "run"}
           /\ runPc'[r] \in {"ran", "unlock"} => runPc[r] \in {"ran", "unlock"},
         \/ callerPc' \in {"push", "own"}
         \/ callerPc \notin {"push", "own"}
         \/ \E r \in Runners : runPc[r] = "ran"
  PROVE  ItemsInv'
<1> USE DEF ItemsInv, jobVars
<1>1. PartitionsOK' /\ NoJobYet'
  BY DEF PartitionsOK, NoJobYet
<1>2. JobCoversItems'
  BY DEF JobCoversItems, NumItems
<1>3. /\ \A q : Exhausted(q)' <=> Exhausted(q)
      /\ AllExhausted' <=> AllExhausted
  BY DEF Exhausted, AllExhausted, ClaimStart, ClaimSize
<1>4. VisitOK'
  <2>1. visit' = visit /\ Len(partitions') = Len(partitions) /\ loop' = loop
    OBVIOUS
  <2>2. ASSUME NEW r \in Runners
        PROVE  /\ runPc'[r] # "run" => visit'[r].batch = {}
               /\ runPc'[r] \in {"claim", "run"} =>
                    /\ visit'[r].from < Len(partitions')
                    /\ visit'[r].j < Len(partitions')
                    /\ \A q \in Visited(r) : Exhausted(q)'
               /\ runPc'[r] \in {"ran", "unlock"} => AllExhausted'
    BY <1>3, <2>1 DEF VisitOK
  <2>3. \A r : Visited(r)' = Visited(r)
    BY <2>1 DEF Visited
  <2> QED
    BY <2>1, <2>2, <2>3 DEF VisitOK
<1>5. CallerIsThrough'
  BY <1>3 DEF CallerIsThrough, VisitOK
<1>6. ItemsOnce'
  <2>1. \A i : Claimed(i)' <=> Claimed(i)
    BY DEF Claimed, ClaimStart, ClaimSize
  <2> QED
    BY <2>1 DEF ItemsOnce
<1> QED
  BY <1>1, <1>2, <1>4, <1>5, <1>6

LEMMA SerialStep ==
  ASSUME PlacesOK, PlacesOK', ItemsInv, RunSerially \/ EndSerially
  PROVE  ItemsInv'
<1> USE DEF ItemsInv
<1>1. /\ partitions = <<>> /\ partitions' = <<>> /\ mRunningIndex' = mRunningIndex
      /\ Len(partitions) = 0 /\ Len(partitions') = 0
      /\ visit' = visit /\ runPc' = runPc /\ loop' = loop /\ queued' = queued
      /\ \A r \in Runners : runPc[r] = "idle"
      /\ queued = 0 /\ mRunningIndex = 0
  BY DEF RunSerially, EndSerially, JobCoversItems, NoJobYet, jobVars
<1>2. loop.items \in Nat /\ iter \in Nat
  BY LoopNumbers
<1>3. JobCoversItems' /\ CallerIsThrough'
  BY <1>1 DEF JobCoversItems, CallerIsThrough
<1>4. NoJobYet'
  BY <1>1 DEF RunSerially, EndSerially, NoJobYet
<1>5. VisitOK'
  BY <1>1 DEF VisitOK
<1>6. /\ \A i : Claimed(i) <=> i < iter
      /\ \A i : Claimed(i)' <=> i < iter'
  BY <1>1 DEF Claimed
<1>7. \A r \in Runners : visit[r].batch = {}
  BY <1>1 DEF VisitOK
<1>8. \A i \in 0..(loop.items - 1) : runs[i] = 1 <=> i < iter
  BY <1>6, <1>7 DEF ItemsOnce
<1>9. PartitionsOK' /\ \A i \in 0..(loop.items - 1) : runs'[i] = 1 <=> i < iter'
  <2>1. CASE RunSerially
    <3>1. iter \in 0..(loop.items - 1) /\ iter' = iter + 1
      BY <1>2, <2>1 DEF RunSerially
    <3>2. runs[iter] = 0
      BY <1>8, <3>1 DEF PartitionsOK
    <3>3. \A i \in 0..(loop.items - 1) : runs'[i] = IF i = iter THEN 1 ELSE runs[i]
      BY <2>1, <3>2, <3>1 DEF RunSerially, PartitionsOK
    <3>4. runs' \in [0..(loop.items - 1) -> {0, 1}]
      BY <2>1, <3>1, <3>2 DEF RunSerially, PartitionsOK
    <3>5. \A i \in 0..(loop.items - 1) : i < iter' <=> i < iter \/ i = iter
      BY <1>2, <3>1
    <3> QED
      BY <1>1, <1>8, <3>3, <3>4, <3>5 DEF PartitionsOK
  <2>2. CASE EndSerially
    BY <1>1, <1>8, <2>2 DEF EndSerially, PartitionsOK
  <2> QED
    BY <2>1, <2>2
<1>10. ItemsOnce'
  BY <1>1, <1>6, <1>7, <1>9 DEF ItemsOnce
<1> QED
  BY <1>3, <1>4, <1>5, <1>9, <1>10

LEMMA PartitionFields ==
  ASSUME NEW s \in Seq([start : Nat, end : Nat, next : Nat]), NEW p \in 1..Len(s)
  PROVE  s[p].start \in Nat /\ s[p].end \in Nat /\ s[p].next \in Nat
<1> DEFINE R == [start : Nat, end : Nat, next : Nat]
<1>1. \A r \in R : r.start \in Nat /\ r.end \in Nat /\ r.next \in Nat
  OBVIOUS
<1>2. s \in Seq(R)
  OBVIOUS
<1> HIDE DEF R
<1>3. s[p] \in R
  BY <1>2
<1> QED
  BY <1>1, <1>3

LEMMA HandOverStep ==
  ASSUME PlacesOK, ItemsInv, HandOver
  PROVE  ItemsInv'
<1> USE DEF ItemsInv
<1> DEFINE n == NumPartitions
<1>1. /\ partitions = <<>> /\ mRunningIndex = 0 /\ Len(partitions) = 0
      /\ visit' = visit /\ runPc' = runPc /\ loop' = loop /\ iter' = iter /\ runs' = runs
      /\ mRunningIndex' = mRunningIndex
      /\ \A r \in Runners : runPc[r] = "idle"
      /\ partitions' = NewPartitions /\ callerPc' = "push" /\ MayHandOver
  BY DEF HandOver, JobCoversItems, NoJobYet
<1>2. /\ partitions' \in Seq([start : Nat, end : Nat, next : Nat])
      /\ Len(partitions') = n /\ n \in Nat \ {0}
      /\ \A p \in 1..n : partitions'[p].next = 0
      /\ \A i \in 0..(NumItems - 1) : \E p \in 1..n :
           partitions'[p].start <= i /\ i < partitions'[p].end
      /\ \A p \in 1..n : partitions'[p].end <= NumItems
      /\ \A p, q \in 1..n : p < q => partitions'[p].end <= partitions'[q].start
  BY <1>1, NewPartitionsCover
<1> HIDE DEF n
<1>3. NumItems' = NumItems /\ partitions' # <<>>
  BY <1>1, <1>2 DEF NumItems
<1>4. PartitionsOK'
  BY <1>1, <1>2 DEF PartitionsOK
<1>5. NoJobYet' /\ CallerIsThrough'
  BY <1>1, <1>3 DEF NoJobYet, CallerIsThrough
<1>6. JobCoversItems'
  BY <1>1, <1>2, <1>3 DEF JobCoversItems
<1>7. VisitOK'
  BY <1>1 DEF VisitOK
<1>8. ASSUME NEW i \in 0..(loop.items - 1)
      PROVE  Claimed(i)' <=> Claimed(i)
  <2>1. Claimed(i) <=> i < iter
    BY <1>1 DEF Claimed
  <2>2. \A p \in 1..n : ClaimStart(p)' = partitions'[p].start
    <3>1. ASSUME NEW p \in 1..n
          PROVE  ClaimStart(p)' = partitions'[p].start
      <4>1. ClaimSize' = ClaimSize /\ ClaimSize \in Nat
        BY <1>1, LoopNumbers DEF ClaimSize
      <4>2. ClaimStart(p)' = 0 * ClaimSize + partitions'[p].start
        BY <1>2, <4>1 DEF ClaimStart
      <4>3. partitions'[p].start \in Nat
        BY <1>2, PartitionFields
      <4> QED
        BY <4>1, <4>2, <4>3
    <3> QED
      BY <3>1
  <2>3. i - iter \in Int
    BY LoopNumbers
  <2>4. ASSUME NEW p \in 1..n
        PROVE  ~(partitions'[p].start <= i - iter /\ i - iter < ClaimStart(p)')
    <3>1. partitions'[p].start \in Nat
      BY <1>2, PartitionFields
    <3> QED
      BY <2>2, <2>3, <3>1
  <2>5. Claimed(i)' <=> i < iter
    BY <1>1, <1>2, <2>4 DEF Claimed
  <2> QED
    BY <2>1, <2>5
<1>9. \A r \in Runners : visit[r].batch = {}
  BY <1>1 DEF VisitOK
<1>10. ItemsOnce'
  BY <1>1, <1>8, <1>9 DEF ItemsOnce
<1> QED
  BY <1>4, <1>5, <1>6, <1>7, <1>10

(* A thread in a list is in a job, and the caller not in its serial loop.  *)
LEMMA InJob ==
  ASSUME PlacesOK, ItemsInv
  PROVE  /\ (\E r \in Runners : runPc[r] # "idle") => partitions # <<>>
         /\ queued > 0 => partitions # <<>>
         /\ partitions # <<>> => callerPc # "serial" /\ Len(partitions) \in Nat \ {0}
<1>1. Len(partitions) \in Nat /\ (partitions # <<>> => Len(partitions) # 0)
  <2> DEFINE R == [start : Nat, end : Nat, next : Nat]
  <2>1. partitions \in Seq(R)
    BY DEF ItemsInv, PartitionsOK
  <2> HIDE DEF R
  <2> QED
    BY <2>1
<1> QED
  BY <1>1 DEF ItemsInv, NoJobYet, JobCoversItems

LEMMA ChooseStep ==
  ASSUME PlacesOK, ItemsInv, NEW r \in Runners, ChooseFirstPartition(r)
  PROVE  ItemsInv'
<1> USE DEF ItemsInv
<1>1. /\ runPc[r] = "enter" /\ runPc' = [runPc EXCEPT ![r] = "claim"]
      /\ UNCHANGED <<loop, iter, queued, partitions, callerPc, runs>>
      /\ visit' = [visit EXCEPT ![r] = [NoVisit EXCEPT !.from = mRunningIndex]]
      /\ mRunningIndex' = (mRunningIndex + 1) % Len(partitions)
  BY DEF ChooseFirstPartition, RunnerGoes
<1>2. partitions # <<>> /\ Len(partitions) \in Nat \ {0} /\ callerPc # "serial"
  BY <1>1, InJob
<1>3. mRunningIndex \in Nat /\ mRunningIndex < Len(partitions)
  BY <1>2 DEF PartitionsOK
<1>4. mRunningIndex' \in Nat /\ mRunningIndex' < Len(partitions)
  BY <1>1, <1>2, <1>3
<1>5. PartitionsOK' /\ NoJobYet' /\ JobCoversItems'
  BY <1>1, <1>2, <1>4 DEF PartitionsOK, NoJobYet, JobCoversItems, NumItems
<1>6. /\ \A q : Exhausted(q)' <=> Exhausted(q)
      /\ AllExhausted' <=> AllExhausted
      /\ \A i : Claimed(i)' <=> Claimed(i)
  BY <1>1 DEF Exhausted, AllExhausted, ClaimStart, ClaimSize, Claimed
<1>7. /\ [NoVisit EXCEPT !.from = mRunningIndex] = [from |-> mRunningIndex, j |-> 0, batch |-> {}]
      /\ [from |-> mRunningIndex, j |-> 0, batch |-> {}]
           \in [from : Nat, j : Nat, batch : SUBSET (0..(loop.items - 1))]
  BY <1>3, SMTT(30) DEF NoVisit
<1>8. /\ visit'[r] = [from |-> mRunningIndex, j |-> 0, batch |-> {}]
      /\ runPc'[r] = "claim"
      /\ \A u \in Runners \ {r} : visit'[u] = visit[u] /\ runPc'[u] = runPc[u]
      /\ visit' \in [Runners -> [from : Nat, j : Nat, batch : SUBSET (0..(loop.items - 1))]]
  <2> DEFINE e == [from |-> mRunningIndex, j |-> 0, batch |-> {}]
             T == [from : Nat, j : Nat, batch : SUBSET (0..(loop.items - 1))]
  <2>1. visit \in [Runners -> T] /\ visit' = [visit EXCEPT ![r] = e] /\ e \in T
    BY <1>1, <1>7 DEF VisitOK
  <2>2. runPc \in [Runners -> RunPcs]
    BY DEF PlacesOK
  <2> HIDE DEF e, T
  <2>3. /\ visit'[r] = e /\ runPc'[r] = "claim"
        /\ \A u \in Runners \ {r} : visit'[u] = visit[u] /\ runPc'[u] = runPc[u]
        /\ visit' \in [Runners -> T]
    BY <1>1, <2>1, <2>2
  <2> QED
    BY <2>3 DEF e, T
<1>9. \A u \in Runners : visit'[u].batch = visit[u].batch
  <2>1. visit[r].batch = {}
    BY <1>1 DEF VisitOK
  <2>2. visit'[r].batch = {}
    BY ONLY <1>8
  <2> QED
    BY ONLY <1>8, <2>1, <2>2
<1>10. VisitOK'
  <2>1. loop' = loop /\ Len(partitions') = Len(partitions)
    BY <1>1
  <2>2. /\ Visited(r)' = {}
        /\ \A u \in Runners \ {r} : Visited(u)' = Visited(u)
    BY <1>8, <2>1 DEF Visited
  <2>3. ASSUME NEW u \in Runners
        PROVE  /\ runPc'[u] # "run" => visit'[u].batch = {}
               /\ runPc'[u] \in {"claim", "run"} =>
                    /\ visit'[u].from < Len(partitions)
                    /\ visit'[u].j < Len(partitions)
                    /\ \A q \in Visited(u)' : Exhausted(q)
               /\ runPc'[u] \in {"ran", "unlock"} => AllExhausted
    <3>1. CASE u = r
      BY <1>2, <1>3, <1>8, <2>2, <3>1
    <3>2. CASE u # r
      BY <1>8, <2>2, <3>2 DEF VisitOK
    <3> QED
      BY <3>1, <3>2
  <2> QED
    BY <1>6, <1>8, <2>1, <2>3 DEF VisitOK
<1>11. CallerIsThrough'
  BY <1>1, <1>6 DEF CallerIsThrough
<1>12. ItemsOnce'
  BY <1>1, <1>6, <1>9 DEF ItemsOnce
<1> QED
  BY <1>5, <1>10, <1>11, <1>12

(* The partition that a thread visits is one of the job.                   *)
LEMMA PlaceIs ==
  ASSUME PlacesOK, ItemsInv, NEW r \in Runners, runPc[r] = "claim"
  PROVE  /\ Place(r) \in 1..Len(partitions)
         /\ partitions # <<>> /\ Len(partitions) \in Nat \ {0} /\ callerPc # "serial"
         /\ visit[r].from \in 0..(Len(partitions) - 1) /\ visit[r].j \in 0..(Len(partitions) - 1)
         /\ visit[r].batch = {}
<1>1. partitions # <<>> /\ Len(partitions) \in Nat \ {0} /\ callerPc # "serial"
  BY InJob
<1>2. /\ visit[r].from \in Nat /\ visit[r].j \in Nat /\ visit[r].batch = {}
      /\ visit[r].from < Len(partitions) /\ visit[r].j < Len(partitions)
  BY DEF ItemsInv, VisitOK
<1>3. Place(r) \in 1..Len(partitions)
  BY <1>1, <1>2, RoundStays DEF Place
<1> QED
  BY <1>1, <1>2, <1>3

LEMMA VisitedAreIn ==
  ASSUME PlacesOK, ItemsInv, partitions # <<>>
  PROVE  \A r \in Runners : Visited(r) \subseteq 1..Len(partitions)
<1>1. Len(partitions) \in Nat \ {0}
  BY InJob
<1>2. ASSUME NEW r \in Runners, NEW k \in 0..(visit[r].j - 1)
      PROVE  ((visit[r].from + k) % Len(partitions)) + 1 \in 1..Len(partitions)
  <2>1. visit[r].from \in Nat /\ visit[r].j \in Nat
    BY DEF ItemsInv, VisitOK
  <2>2. k \in Nat
    BY <2>1
  <2> QED
    BY <1>1, <2>1, <2>2, RoundStays
<1> QED
  BY <1>2 DEF Visited

(* What all claims keep.                                                   *)
LEMMA ClaimKeeps ==
  ASSUME PlacesOK, ItemsInv, NEW r \in Runners, runPc[r] = "claim",
         partitions' = [partitions EXCEPT ![Place(r)].next = @ + 1],
         UNCHANGED <<loop, iter, queued, mRunningIndex, callerPc, runs>>
  PROVE  /\ PartitionsOK' /\ NoJobYet' /\ JobCoversItems' /\ CallerIsThrough'
         /\ Len(partitions') = Len(partitions)
<1> DEFINE p == Place(r)
           n == Len(partitions)
<1> USE DEF ItemsInv
<1>1. /\ p \in 1..n /\ partitions # <<>> /\ n \in Nat \ {0}
      /\ callerPc # "serial"
  BY PlaceIs
<1> HIDE DEF p
<1>2. partitions' = [partitions EXCEPT ![p].next = @ + 1]
  BY DEF p
<1>3. /\ partitions' \in Seq([start : Nat, end : Nat, next : Nat])
      /\ Len(partitions') = n
      /\ \A q \in 1..n : partitions'[q].start = partitions[q].start /\ partitions'[q].end = partitions[q].end
  BY <1>1, <1>2, ClaimMoves
<1>4. partitions' # <<>>
  BY <1>1, <1>3, <1>2
<1> HIDE DEF n
<1>5. PartitionsOK' /\ NoJobYet'
  BY <1>1, <1>3, <1>4 DEF PartitionsOK, NoJobYet, n
<1>6. JobCoversItems'
  <2>1. Len(partitions') = n /\ Len(partitions) = n /\ NumItems' = NumItems
    BY <1>3 DEF n, NumItems
  <2>2. /\ \A i \in 0..(NumItems - 1) : \E q \in 1..n :
             partitions[q].start <= i /\ i < partitions[q].end
        /\ \A q \in 1..n : partitions[q].end <= NumItems
        /\ \A x, y \in 1..n : x < y => partitions[x].end <= partitions[y].start
    BY <1>1, <2>1 DEF JobCoversItems
  <2>3. /\ \A i \in 0..(NumItems - 1) : \E q \in 1..n :
             partitions'[q].start <= i /\ i < partitions'[q].end
        /\ \A q \in 1..n : partitions'[q].end <= NumItems
        /\ \A x, y \in 1..n : x < y => partitions'[x].end <= partitions'[y].start
    BY <1>3, <2>2, SMTT(30)
  <2> QED
    BY <1>1, <2>1, <2>3 DEF JobCoversItems
<1>7. CallerIsThrough'
  BY <1>1, <1>2, <1>4, ExhaustedStays DEF CallerIsThrough, n
<1> QED
  BY <1>3, <1>5, <1>6, <1>7 DEF n

LEMMA FindTasksStep ==
  ASSUME PlacesOK, ItemsInv, NEW r \in Runners, FindTasks(r)
  PROVE  ItemsInv'
<1> USE DEF ItemsInv
<1> DEFINE p == Place(r)
           n == Len(partitions)
           b == BatchOf(p)
<1>1. /\ runPc[r] = "claim" /\ runPc' = [runPc EXCEPT ![r] = "run"]
      /\ UNCHANGED <<loop, iter, queued, mRunningIndex, callerPc, runs>>
      /\ visit' = [visit EXCEPT ![r].batch = b]
      /\ partitions' = [partitions EXCEPT ![p].next = @ + 1]
  BY DEF FindTasks, RunnerGoes
<1>2. PartitionsOK' /\ NoJobYet' /\ JobCoversItems' /\ CallerIsThrough' /\ Len(partitions') = n
  BY <1>1, ClaimKeeps
<1>3. /\ p \in 1..n /\ n \in Nat \ {0}
      /\ visit[r].from \in 0..(n - 1) /\ visit[r].j \in 0..(n - 1)
      /\ visit[r].batch = {}
  BY <1>1, PlaceIs
<1> HIDE DEF p, n
<1>4. /\ b \subseteq 0..(loop.items - 1)
      /\ \A i \in 0..(loop.items - 1) : (Claimed(i)' <=> Claimed(i) \/ i \in b) /\ (i \in b => ~Claimed(i))
  BY <1>1, <1>3, ClaimTakes DEF n
<1>5. /\ \A q \in 1..n : Exhausted(q) => Exhausted(q)'
      /\ AllExhausted => AllExhausted'
  BY <1>1, <1>3, ExhaustedStays DEF n
<1> HIDE DEF b
<1>6. /\ visit'[r].from = visit[r].from /\ visit'[r].j = visit[r].j /\ visit'[r].batch = b
      /\ runPc'[r] = "run"
      /\ \A u \in Runners \ {r} : visit'[u] = visit[u] /\ runPc'[u] = runPc[u]
      /\ visit' \in [Runners -> [from : Nat, j : Nat, batch : SUBSET (0..(loop.items - 1))]]
  BY <1>1, <1>4 DEF VisitOK, PlacesOK
<1>7. VisitOK'
  <2>1. loop' = loop /\ Len(partitions') = n
    BY <1>1, <1>2
  <2>2. \A u \in Runners : visit'[u].from = visit[u].from /\ visit'[u].j = visit[u].j
    BY <1>6
  <2>3. \A u \in Runners : Visited(u)' = Visited(u)
    BY <2>1, <2>2 DEF Visited, n
  <2>4. \A u \in Runners : Visited(u) \subseteq 1..n
    BY <1>1, PlaceIs, VisitedAreIn DEF n
  <2>5. ASSUME NEW u \in Runners
        PROVE  /\ runPc'[u] # "run" => visit'[u].batch = {}
               /\ runPc'[u] \in {"claim", "run"} =>
                    /\ visit'[u].from < n
                    /\ visit'[u].j < n
                    /\ \A q \in Visited(u) : Exhausted(q)
               /\ runPc'[u] \in {"ran", "unlock"} => AllExhausted
    <3>1. CASE u = r
      BY <1>1, <1>3, <1>6, <3>1 DEF VisitOK, n
    <3>2. CASE u # r
      BY <1>6, <3>2 DEF VisitOK, n
    <3> QED
      BY <3>1, <3>2
  <2>6. ASSUME NEW u \in Runners
        PROVE  /\ runPc'[u] \in {"claim", "run"} => \A q \in Visited(u)' : Exhausted(q)'
               /\ runPc'[u] \in {"ran", "unlock"} => AllExhausted'
    BY <1>5, <2>3, <2>4, <2>5
  <2> QED
    BY <1>6, <2>1, <2>5, <2>6 DEF VisitOK
<1>8. ItemsOnce'
  <2> DEFINE B(u) == visit[u].batch
  <2>1. \A u \in Runners : visit'[u].batch = IF u = r THEN b ELSE visit[u].batch
    BY <1>6
  <2>2. /\ \A i \in 0..(loop.items - 1) : runs[i] = 1 <=> Claimed(i) /\ \A u \in Runners : i \notin visit[u].batch
        /\ \A u \in Runners : \A i \in visit[u].batch : Claimed(i)
        /\ \A u, v \in Runners : u # v => visit[u].batch \cap visit[v].batch = {}
        /\ \A u \in Runners : visit[u].batch \subseteq 0..(loop.items - 1)
    BY DEF ItemsOnce, VisitOK
  <2>3. ASSUME NEW i \in 0..(loop.items - 1)
        PROVE  runs'[i] = 1 <=> Claimed(i)' /\ \A u \in Runners : i \notin visit'[u].batch
    BY <1>1, <1>3, <1>4, <2>1, <2>2
  <2>4. ASSUME NEW u \in Runners, NEW i \in visit'[u].batch
        PROVE  Claimed(i)'
    BY <1>4, <2>1, <2>2
  <2>5. ASSUME NEW u \in Runners, NEW v \in Runners, u # v
        PROVE  visit'[u].batch \cap visit'[v].batch = {}
    BY <1>4, <2>1, <2>2, <2>5
  <2> QED
    BY <1>1, <2>3, <2>4, <2>5 DEF ItemsOnce
<1> QED
  BY <1>2, <1>7, <1>8

LEMMA FindNoneStep ==
  ASSUME PlacesOK, ItemsInv, NEW r \in Runners, FindNone(r)
  PROVE  ItemsInv'
<1> USE DEF ItemsInv
<1> DEFINE p == Place(r)
           n == Len(partitions)
           last == visit[r].j + 1 = n
           T == [from : Nat, j : Nat, batch : SUBSET (0..(loop.items - 1))]
           e == IF last THEN NoVisit ELSE [visit[r] EXCEPT !.j = @ + 1]
<1>1. /\ runPc[r] = "claim" /\ runPc' = [runPc EXCEPT ![r] = IF last THEN "ran" ELSE "claim"]
      /\ UNCHANGED <<loop, iter, queued, mRunningIndex, callerPc, runs>>
      /\ visit' = [visit EXCEPT ![r] = e]
      /\ partitions' = [partitions EXCEPT ![p].next = @ + 1]
      /\ Exhausted(p)
  <2>1. visit' = [visit EXCEPT ![r] = e]
    <3>1. CASE last
      BY <3>1 DEF FindNone
    <3>2. CASE ~last
      BY <3>2 DEF FindNone
    <3> QED
      BY <3>1, <3>2
  <2> HIDE DEF e
  <2> QED
    BY <2>1 DEF FindNone, RunnerGoes, Exhausted
<1>2. PartitionsOK' /\ NoJobYet' /\ JobCoversItems' /\ CallerIsThrough' /\ Len(partitions') = n
  BY <1>1, ClaimKeeps
<1>3. /\ p \in 1..n /\ n \in Nat \ {0} /\ partitions # <<>>
      /\ visit[r].from \in 0..(n - 1) /\ visit[r].j \in 0..(n - 1)
      /\ visit[r].batch = {}
      /\ p = ((visit[r].from + visit[r].j) % n) + 1
  BY <1>1, PlaceIs DEF Place
<1> HIDE DEF p, n
<1>4. \A i \in 0..(loop.items - 1) : Claimed(i)' <=> Claimed(i)
  BY <1>1, <1>3, ClaimTakes DEF n
<1>5. /\ \A q \in 1..n : Exhausted(q) => Exhausted(q)'
      /\ AllExhausted => AllExhausted'
  BY <1>1, <1>3, ExhaustedStays DEF n
<1>6. /\ visit \in [Runners -> T] /\ e \in T /\ e.batch = {}
      /\ ~last => e.from = visit[r].from /\ e.j = visit[r].j + 1
  <2>1. visit \in [Runners -> T]
    BY DEF VisitOK
  <2>2. visit[r] \in T
    BY <2>1
  <2>3. CASE last
    BY <2>1, <2>3 DEF NoVisit
  <2>4. CASE ~last
    <3> DEFINE v == visit[r]
               d == [v EXCEPT !.j = @ + 1]
    <3>1. \A t \in T : LET c == [t EXCEPT !.j = @ + 1] IN
            c \in T /\ c.from = t.from /\ c.j = t.j + 1 /\ c.batch = t.batch
      OBVIOUS
    <3>2. e = d
      BY <2>4
    <3> HIDE DEF T, e
    <3>3. d \in T /\ d.from = v.from /\ d.j = v.j + 1 /\ d.batch = v.batch
      BY <2>2, <3>1
    <3> HIDE DEF d
    <3> QED
      BY <1>3, <2>1, <3>2, <3>3
  <2> QED
    BY <2>3, <2>4
<1> HIDE DEF e, T
<1>7. /\ visit'[r] = e /\ runPc'[r] = IF last THEN "ran" ELSE "claim"
      /\ \A u \in Runners \ {r} : visit'[u] = visit[u] /\ runPc'[u] = runPc[u]
      /\ visit' \in [Runners -> T]
  BY <1>1, <1>6 DEF PlacesOK
<1>8. \A q \in Visited(r) \cup {p} : Exhausted(q)
  BY <1>1 DEF VisitOK
<1>9. \A u \in Runners : Visited(u) \subseteq 1..n
  BY <1>3, VisitedAreIn DEF n
<1>10. last => AllExhausted
  <2>1. ASSUME last, NEW q \in 1..n
        PROVE  Exhausted(q)
    <3>1. PICK k \in 0..(n - 1) : ((visit[r].from + k) % n) + 1 = q
      BY <1>3, RoundIsComplete
    <3>2. visit[r].j = n - 1 /\ k \in Int
      <4>1. visit[r].j + 1 = n /\ visit[r].j \in Int /\ n \in Int
        BY <1>3, <2>1
      <4> QED
        BY <4>1
    <3>3. CASE k = visit[r].j
      BY <1>3, <1>8, <3>1, <3>3
    <3>4. CASE k # visit[r].j
      <4>1. k \in 0..(visit[r].j - 1)
        BY <1>3, <3>2, <3>4
      <4>2. q \in Visited(r)
        BY <3>1, <4>1 DEF Visited, n
      <4> QED
        BY <1>8, <4>2
    <3> QED
      BY <3>3, <3>4
  <2> QED
    BY <2>1 DEF AllExhausted, n
<1>11. VisitOK'
  <2>1. loop' = loop /\ Len(partitions') = n
    BY <1>1, <1>2
  <2>2. \A u \in Runners \ {r} : Visited(u)' = Visited(u)
    BY <1>7, <2>1 DEF Visited, n
  <2>3. ~last => Visited(r)' \subseteq Visited(r) \cup {p}
    <3>1. ASSUME ~last, NEW k \in 0..(visit'[r].j - 1)
          PROVE  ((visit'[r].from + k) % n) + 1 \in Visited(r) \cup {p}
      <4>1. visit'[r].from = visit[r].from /\ visit'[r].j = visit[r].j + 1 /\ visit[r].j \in Nat
        BY <1>3, <1>6, <1>7, <3>1
      <4>2. k \in 0..(visit[r].j - 1) \/ k = visit[r].j
        BY <4>1
      <4> QED
        BY <1>3, <4>1, <4>2 DEF Visited, n
    <3> QED
      BY <2>1, <3>1 DEF Visited, n
  <2>4. ASSUME NEW u \in Runners
        PROVE  /\ runPc'[u] # "run" => visit'[u].batch = {}
               /\ runPc'[u] \in {"claim", "run"} =>
                    /\ visit'[u].from < n
                    /\ visit'[u].j < n
                    /\ \A q \in Visited(u)' : q \in 1..n /\ Exhausted(q)
               /\ runPc'[u] \in {"ran", "unlock"} => AllExhausted
    <3>1. CASE u = r /\ last
      BY <1>6, <1>7, <1>10, <3>1
    <3>2. CASE u = r /\ ~last
      <4>1. visit[r].j + 1 < n
        BY <1>3, <3>2
      <4>2. \A q \in Visited(r)' : q \in 1..n /\ Exhausted(q)
        BY <1>3, <1>8, <1>9, <2>3, <3>2
      <4> QED
        BY <1>3, <1>6, <1>7, <3>2, <4>1, <4>2
    <3>3. CASE u # r
      BY <1>7, <1>9, <2>2, <3>3 DEF VisitOK, n
    <3> QED
      BY <3>1, <3>2, <3>3
  <2>5. ASSUME NEW u \in Runners
        PROVE  /\ runPc'[u] \in {"claim", "run"} => \A q \in Visited(u)' : Exhausted(q)'
               /\ runPc'[u] \in {"ran", "unlock"} => AllExhausted'
    BY <1>5, <2>4
  <2> QED
    BY <1>7, <2>1, <2>4, <2>5 DEF VisitOK, T
<1>12. ItemsOnce'
  <2>1. \A u \in Runners : visit'[u].batch = visit[u].batch
    BY <1>3, <1>6, <1>7
  <2>2. \A u \in Runners : visit[u].batch \subseteq 0..(loop.items - 1)
    BY DEF VisitOK
  <2> QED
    BY <1>1, <1>4, <2>1, <2>2 DEF ItemsOnce
<1> QED
  BY <1>2, <1>11, <1>12

LEMMA ProcessBatchStep ==
  ASSUME PlacesOK, ItemsInv, NEW r \in Runners, ProcessBatch(r)
  PROVE  ItemsInv'
<1> USE DEF ItemsInv
<1> DEFINE b == visit[r].batch
           T == [from : Nat, j : Nat, batch : SUBSET (0..(loop.items - 1))]
           e == [visit[r] EXCEPT !.batch = {}]
<1>1. /\ runPc[r] = "run" /\ runPc' = [runPc EXCEPT ![r] = "claim"]
      /\ UNCHANGED <<loop, iter, queued, partitions, mRunningIndex, callerPc>>
      /\ visit' = [visit EXCEPT ![r] = e]
      /\ runs' = [i \in DOMAIN runs |-> IF i \in b THEN runs[i] + 1 ELSE runs[i]]
  BY DEF ProcessBatch, RunnerGoes, jobVars
<1>2. partitions # <<>> /\ callerPc # "serial"
  BY <1>1, InJob
<1>3. /\ visit \in [Runners -> T] /\ e \in T /\ e.batch = {}
      /\ e.from = visit[r].from /\ e.j = visit[r].j
  <2>1. visit \in [Runners -> T]
    BY DEF VisitOK
  <2>2. visit[r] \in T
    BY <2>1
  <2> QED
    BY <2>1, <2>2
<1> HIDE DEF e, T
<1>4. /\ visit'[r] = e /\ runPc'[r] = "claim"
      /\ \A u \in Runners \ {r} : visit'[u] = visit[u] /\ runPc'[u] = runPc[u]
      /\ visit' \in [Runners -> T]
  BY <1>1, <1>3 DEF PlacesOK
<1>5. /\ \A q : Exhausted(q)' <=> Exhausted(q)
      /\ AllExhausted' <=> AllExhausted
      /\ \A i : Claimed(i)' <=> Claimed(i)
  BY <1>1 DEF Exhausted, AllExhausted, ClaimStart, ClaimSize, Claimed
<1>6. /\ \A i \in 0..(loop.items - 1) : runs[i] = 1 <=> Claimed(i) /\ \A u \in Runners : i \notin visit[u].batch
      /\ \A u \in Runners : \A i \in visit[u].batch : Claimed(i)
      /\ \A u, v \in Runners : u # v => visit[u].batch \cap visit[v].batch = {}
      /\ \A u \in Runners : visit[u].batch \subseteq 0..(loop.items - 1)
      /\ runs \in [0..(loop.items - 1) -> {0, 1}]
  BY DEF ItemsOnce, VisitOK, PartitionsOK
<1>7. ASSUME NEW i \in 0..(loop.items - 1)
      PROVE  /\ i \in b => runs'[i] = 1
             /\ i \notin b => runs'[i] = runs[i]
             /\ runs'[i] \in {0, 1}
  <2>1. runs[i] \in {0, 1} /\ (i \in b => runs[i] # 1)
    BY <1>6
  <2>2. runs'[i] = IF i \in b THEN runs[i] + 1 ELSE runs[i]
    BY <1>1, <1>6
  <2> HIDE DEF b
  <2> QED
    BY <2>1, <2>2
<1>8. PartitionsOK'
  <2>1. runs' \in [0..(loop.items - 1) -> {0, 1}]
    BY <1>1, <1>6, <1>7
  <2> QED
    BY <1>1, <2>1 DEF PartitionsOK
<1>9. NoJobYet' /\ JobCoversItems' /\ CallerIsThrough'
  BY <1>1, <1>2, <1>5 DEF NoJobYet, JobCoversItems, CallerIsThrough, NumItems
<1>10. VisitOK'
  <2>1. loop' = loop /\ Len(partitions') = Len(partitions)
    BY <1>1
  <2>2. \A u \in Runners : Visited(u)' = Visited(u)
    BY <1>3, <1>4, <2>1 DEF Visited
  <2>3. ASSUME NEW u \in Runners
        PROVE  /\ runPc'[u] # "run" => visit'[u].batch = {}
               /\ runPc'[u] \in {"claim", "run"} =>
                    /\ visit'[u].from < Len(partitions)
                    /\ visit'[u].j < Len(partitions)
                    /\ \A q \in Visited(u)' : Exhausted(q)
               /\ runPc'[u] \in {"ran", "unlock"} => AllExhausted
    <3>1. CASE u = r
      BY <1>1, <1>3, <1>4, <2>2, <3>1 DEF VisitOK
    <3>2. CASE u # r
      BY <1>4, <2>2, <3>2 DEF VisitOK
    <3> QED
      BY <3>1, <3>2
  <2> QED
    BY <1>4, <1>5, <2>1, <2>3 DEF VisitOK, T
<1>11. ItemsOnce'
  <2>1. \A u \in Runners : visit'[u].batch = IF u = r THEN {} ELSE visit[u].batch
    BY <1>3, <1>4
  <2>2. ASSUME NEW i \in 0..(loop.items - 1)
        PROVE  runs'[i] = 1 <=> Claimed(i)' /\ \A u \in Runners : i \notin visit'[u].batch
    BY <1>5, <1>6, <1>7, <2>1
  <2>3. ASSUME NEW u \in Runners, NEW i \in visit'[u].batch
        PROVE  Claimed(i)'
    BY <1>5, <1>6, <2>1
  <2>4. ASSUME NEW u \in Runners, NEW v \in Runners, u # v
        PROVE  visit'[u].batch \cap visit'[v].batch = {}
    BY <1>6, <2>1, <2>4
  <2> QED
    BY <1>1, <2>2, <2>3, <2>4 DEF ItemsOnce
<1> QED
  BY <1>8, <1>9, <1>10, <1>11

LEMMA ItemsStep == ControlInv /\ ControlInv' /\ ItemsInv /\ [Next]_vars => ItemsInv'
<1> SUFFICES ASSUME ControlInv, ControlInv', ItemsInv, [Next]_vars PROVE ItemsInv'
  OBVIOUS
<1>1. /\ PlacesOK /\ PlacesOK' /\ CallerPlace /\ Caller \in Runners
      /\ runPc \in [Runners -> RunPcs]
  BY RunnersAreFinite DEF ControlInv, PlacesOK
<1>2. /\ (\E r \in Runners : runPc[r] # "idle") => partitions # <<>>
      /\ queued > 0 => partitions # <<>>
      /\ callerPc \notin {"serial", "returned"} => partitions # <<>>
  BY <1>1, InJob DEF ItemsInv, NoJobYet
<1>3. CASE RunSerially \/ EndSerially
  BY <1>1, <1>3, SerialStep
<1>4. CASE HandOver
  BY <1>1, <1>4, HandOverStep
<1>5. CASE PushOne
  BY <1>2, <1>5, QuietStep DEF PushOne
<1>6. CASE StartOwnList
  <2>1. callerPc = "push" /\ callerPc' = "own" /\ runPc' = [runPc EXCEPT ![Caller] = "enter"]
        /\ UNCHANGED <<loop, iter, jobVars, visit, runs>>
    BY <1>6 DEF StartOwnList
  <2>2. partitions # <<>> /\ runPc[Caller] = "idle"
    BY <1>1, <1>2, <2>1 DEF CallerPlace
  <2>3. \A r \in Runners :
          /\ runPc'[r] = "run" <=> runPc[r] = "run"
          /\ runPc'[r] \in {"claim", "run"} => runPc[r] \in {"claim", "run"}
          /\ runPc'[r] \in {"ran", "unlock"} => runPc[r] \in {"ran", "unlock"}
    BY <1>1, <2>1, <2>2
  <2> QED
    BY <2>1, <2>2, <2>3, QuietStep
<1>7. CASE EndOwnList
  BY <1>1, <1>2, <1>7, QuietStep DEF EndOwnList
<1>8. ASSUME NEW r \in Runners, TakeWork(r), callerPc' = callerPc \/ (callerPc = "scan" /\ callerPc' = "help")
      PROVE  ItemsInv'
  <2>1. partitions # <<>> /\ callerPc # "serial"
    BY <1>1, <1>2, <1>8, InJob DEF TakeWork
  <2> QED
    BY <1>1, <1>8, <2>1, QuietStep DEF TakeWork
<1>9. CASE FindJobTask
  BY <1>1, <1>8, <1>9 DEF FindJobTask
<1>10. CASE \E w \in Workers : StartWork(w)
  BY <1>8, <1>10, WorkersAreRunners DEF StartWork
(* The caller in Wait.                                                     *)
<1>11. ASSUME NEW from \in CallerPcs \ {"serial", "push", "own", "returned"},
              NEW to \in CallerPcs \ {"serial"}, CallerGoes(from, to)
       PROVE  ItemsInv'
  BY <1>2, <1>11, QuietStep DEF CallerGoes
<1>12. CASE WaitCheck \/ FindNothing \/ BlockTasksAvailable \/ Napped \/ Woken \/ SpuriousWake
  BY <1>11, <1>12 DEF WaitCheck, FindNothing, BlockTasksAvailable, Napped, Woken, SpuriousWake, CallerPcs
<1>13. CASE \E next \in {"scan", "blockEmpty"} : Helped(next)
  BY <1>11, <1>13 DEF Helped, CallerPcs
<1>14. CASE \E from \in {"block", "blockEmpty", "napped"} : BlockDone(from) \/ BlockSleep(from)
  BY <1>11, <1>14 DEF BlockDone, BlockSleep, CallerPcs
(* A thread in a list.                                                     *)
<1>15. ASSUME NEW r \in Runners, ListStep(r)
       PROVE  ItemsInv'
  <2>0. runPc[r] # "idle" => partitions # <<>> /\ callerPc # "serial"
    BY <1>1, <1>2, InJob
  <2>1. CASE OnTaskStarted(r)
    BY <1>1, <2>0, <2>1, QuietStep DEF OnTaskStarted, RunnerGoes
  <2>2. CASE OnTaskDone(r)
    <3>1. /\ callerPc' # "serial"
          /\ callerPc' \in {"push", "own"} \/ callerPc \notin {"push", "own"}
      BY <2>0, <2>2 DEF OnTaskDone, RunnerGoes, NotifyCaller
    <3>2. partitions # <<>> /\ UNCHANGED <<loop, iter, jobVars, visit, runs>>
      BY <2>0, <2>2 DEF OnTaskDone, RunnerGoes
    <3>3. runPc[r] = "ran" /\ runPc' = [runPc EXCEPT ![r] = "unlock"]
      BY <2>2 DEF OnTaskDone, RunnerGoes
    <3> QED
      BY <1>1, <3>1, <3>2, <3>3, QuietStep
  <2>3. CASE Unlock(r)
    BY <1>1, <2>0, <2>3, QuietStep DEF Unlock, RunnerGoes
  <2>4. CASE ChooseFirstPartition(r) \/ FindTasks(r) \/ FindNone(r) \/ ProcessBatch(r)
    BY <1>1, <2>4, ChooseStep, FindTasksStep, FindNoneStep, ProcessBatchStep
  <2> QED
    BY <1>15, <2>1, <2>2, <2>3, <2>4 DEF ListStep
<1>16. CASE UNCHANGED vars
  <2>1. UNCHANGED <<loop, iter, partitions, mRunningIndex, queued, callerPc, runPc, visit, runs>>
    BY <1>16 DEF vars
  <2>2. PartitionsOK' /\ NoJobYet'
    BY <2>1 DEF ItemsInv, PartitionsOK, NoJobYet
  <2>3. JobCoversItems'
    BY <2>1 DEF ItemsInv, JobCoversItems, NumItems
  <2>4. /\ \A q : Exhausted(q)' <=> Exhausted(q)
        /\ AllExhausted' <=> AllExhausted
        /\ \A i : Claimed(i)' <=> Claimed(i)
        /\ \A r : Visited(r)' = Visited(r)
    BY <2>1 DEF Exhausted, AllExhausted, ClaimStart, ClaimSize, Claimed, Visited
  <2>5. VisitOK' /\ CallerIsThrough' /\ ItemsOnce'
    BY <2>1, <2>4 DEF ItemsInv, VisitOK, CallerIsThrough, ItemsOnce
  <2> QED
    BY <2>2, <2>3, <2>5 DEF ItemsInv
<1> QED
  BY <1>3, <1>4, <1>5, <1>6, <1>7, <1>9, <1>10, <1>12, <1>13, <1>14, <1>15, <1>16 DEF Next, CallerStep

LEMMA ItemsInvariant == Spec => []ItemsInv
  BY ControlInvariant, ItemsInit, ItemsStep, PTL DEF Spec

(* When all partitions are exhausted every item was claimed, and when no   *)
(* thread is in a list those that were claimed have been run.              *)
LEMMA ItemsGiveAllRun == ControlInv /\ ItemsInv => AllItemsRun
<1> SUFFICES ASSUME ControlInv, ItemsInv, callerPc = "returned", NEW i \in DOMAIN runs
             PROVE  runs[i] = 1
  BY DEF AllItemsRun
<1>1. PlacesOK /\ i \in 0..(loop.items - 1) /\ i \in Int
  BY DEF ControlInv, ItemsInv, PartitionsOK
<1>2. \A r \in Runners : runPc[r] = "idle"
  BY ControlGivesUnused DEF ReturnedUnused
<1>3. \A r \in Runners : i \notin visit[r].batch
  BY <1>2 DEF ItemsInv, VisitOK
<1>4. Claimed(i)
  <2>1. CASE partitions = <<>>
    <3>1. iter = loop.items /\ loop.items \in Nat
      BY <1>1, <2>1, LoopNumbers DEF ItemsInv, NoJobYet
    <3> QED
      BY <1>1, <3>1 DEF Claimed
  <2>2. CASE partitions # <<>> /\ ~(i < iter)
    <3>1. i - iter \in 0..(NumItems - 1)
      BY <1>1, <2>2, LoopNumbers
    <3>2. PICK p \in 1..Len(partitions) : partitions[p].start <= i - iter /\ i - iter < partitions[p].end
      BY <2>2, <3>1 DEF ItemsInv, JobCoversItems
    <3>3. ClaimStart(p) >= partitions[p].end
      BY <2>2 DEF ItemsInv, CallerIsThrough, AllExhausted, Exhausted
    <3>4. partitions[p].start \in Nat /\ partitions[p].end \in Nat /\ partitions[p].next \in Nat
      BY PartitionFields DEF ItemsInv, PartitionsOK
    <3>5. ClaimStart(p) \in Nat
      <4>1. ClaimSize \in Nat
        BY <1>1, LoopNumbers
      <4>2. \A x, y, z \in Nat : x * y + z \in Nat
        OBVIOUS
      <4> QED
        BY <3>4, <4>1, <4>2 DEF ClaimStart
    <3>6. i - iter < ClaimStart(p)
      BY <3>1, <3>2, <3>3, <3>4, <3>5
    <3> QED
      BY <3>2, <3>6 DEF Claimed
  <2> QED
    BY <2>1, <2>2 DEF Claimed
<1> QED
  BY <1>1, <1>3, <1>4 DEF ItemsInv, ItemsOnce

(* When ParallelFor returns each item has run exactly once, for every way  *)
(* the items are divided into partitions and batches and every order in    *)
(* which the threads claim them (MultiPartition and TaskListPartitioned in *)
(* jobs/ParallelForJob.h).                                                 *)
THEOREM LoopRunsAllItems == Spec => []AllItemsRun
  BY ControlInvariant, ItemsInvariant, ItemsGiveAllRun, PTL

(* No more JobWork than twice the workers.                                 *)
(* A job is handed out to no more lists than twice the workers.            *)
ListsAreFew == mNumTasksInProgress <= 2 * Cardinality(Workers)

LEMMA FewStep == ControlInv /\ ListsAreFew /\ [Next]_vars => ListsAreFew'
<1> SUFFICES ASSUME ControlInv, ListsAreFew, [Next]_vars PROVE ListsAreFew'
  OBVIOUS
<1>1. Cardinality(Workers) \in Nat /\ mNumTasksInProgress \in Nat
  BY WorkersAssumption, FS_CardinalityType DEF ControlInv, PlacesOK
<1>2. CASE HandOver
  <2>1. mNumTasksInProgress' = NumTaskLists /\ NumBatches \in Nat
    BY <1>2, HandOverCounts DEF HandOver, ControlInv, PlacesOK
  <2> DEFINE k == Smaller(NumBatches - 1, Cardinality(Workers))
  <2>2. k \in Int /\ k <= Cardinality(Workers)
    BY <1>1, <2>1 DEF Smaller
  <2>3. NumTaskLists = k \/ NumTaskLists = 2 * k
    BY DEF NumTaskLists
  <2> HIDE DEF k
  <2>4. NumTaskLists <= 2 * Cardinality(Workers)
    BY <1>1, <2>2, <2>3
  <2> QED
    BY <2>1, <2>4 DEF ListsAreFew
<1>3. CASE mNumTasksInProgress' = mNumTasksInProgress \/ mNumTasksInProgress' = mNumTasksInProgress - 1
  BY <1>1, <1>3 DEF ListsAreFew
<1>4. CASE CallerStep /\ ~HandOver
  <2>1. mNumTasksInProgress' = mNumTasksInProgress
    BY <1>4 DEF CallerStep, RunSerially, EndSerially, PushOne, StartOwnList, EndOwnList, WaitCheck,
       FindJobTask, TakeWork, Helped, FindNothing, BlockTasksAvailable, Napped, BlockDone, BlockSleep,
       Woken, CallerGoes, counters
  <2> QED
    BY <1>3, <2>1
<1>5. ASSUME NEW r \in Runners, ListStep(r)
      PROVE  ListsAreFew'
  BY <1>3, <1>5 DEF ListStep, OnTaskStarted, ChooseFirstPartition, FindTasks, FindNone, ProcessBatch,
     OnTaskDone, Unlock, counters
<1>6. CASE (\E w \in Workers : StartWork(w)) \/ SpuriousWake \/ UNCHANGED vars
  BY <1>3, <1>6 DEF StartWork, TakeWork, SpuriousWake, CallerGoes, vars, counters
<1> QED
  BY <1>2, <1>4, <1>5, <1>6 DEF Next

LEMMA LoopInvariantsGiveTypes == ControlInv /\ ItemsInv /\ ListsAreFew => TypeOK
<1> SUFFICES ASSUME ControlInv, ItemsInv, ListsAreFew PROVE TypeOK
  OBVIOUS
<1>1. /\ PlacesOK /\ PartitionsOK
      /\ visit \in [Runners -> [from : Nat, j : Nat, batch : SUBSET (0..(loop.items - 1))]]
  BY DEF ControlInv, ItemsInv, VisitOK
<1>2. /\ mNumTasksAvailable \in 0..(2 * Cardinality(Workers))
      /\ mNumTasksInProgress \in 0..(2 * Cardinality(Workers))
      /\ unpushed \in 0..(2 * Cardinality(Workers))
      /\ queued \in 0..(2 * Cardinality(Workers))
  <2>1. Cardinality(Workers) \in Nat
    BY WorkersAssumption, FS_CardinalityType
  <2>2. /\ mNumTasksAvailable \in Nat /\ mNumTasksInProgress \in Nat /\ unpushed \in Nat /\ queued \in Nat
        /\ Cardinality(Starting) \in Nat /\ Cardinality(Counted) \in Nat
    BY <1>1, SetsAreCounted DEF PlacesOK
  <2>3. /\ mNumTasksAvailable = unpushed + queued + Cardinality(Starting)
        /\ mNumTasksInProgress = mNumTasksAvailable + Cardinality(Counted)
        /\ mNumTasksInProgress <= 2 * Cardinality(Workers)
    BY DEF ControlInv, AvailableIsCounted, ProgressIsCounted, ListsAreFew
  <2> QED
    BY <2>1, <2>2, <2>3
<1>3. runs \in [0..(loop.items - 1) -> Nat]
  BY <1>1 DEF PartitionsOK
<1> QED
  BY <1>1, <1>2, <1>3 DEF TypeOK, PlacesOK, PartitionsOK

(* Type correctness of a parallel loop.                                    *)
THEOREM LoopTypeCorrect == Spec => []TypeOK
<1>1. Init => ListsAreFew
  <2>1. Cardinality(Workers) \in Nat
    BY WorkersAssumption, FS_CardinalityType
  <2> QED
    BY <2>1 DEF Init, ListsAreFew
<1> QED
  BY <1>1, ControlInvariant, ItemsInvariant, FewStep, LoopInvariantsGiveTypes, PTL DEF Spec

================================================================================
