-------------------------------- MODULE Allocators_proofs --------------------------------
(***************************************************************************)
(* Proofs about the allocators: module TemporaryPages, for every set of    *)
(* releasing threads, every number and size of the pages and every number  *)
(* of allocations, and module IdRangePool, for every set of lengths and    *)
(* every length of the short ranges.                                       *)
(***************************************************************************)
EXTENDS TemporaryPages, IdRangePool, FiniteSetTheorems, TLAPS

--------------------------------------------------------------------------------
(* The inductive invariant                                                 *)

BlocksOf(i) == {b \in blocks : b[1] = i}

(* A page counts its blocks, and they lie before its position.             *)
Counted == \A i \in Pages : mTotalProduced[i] = mTotalConsumed[i] + Cardinality(BlocksOf(i))

BlocksLieBefore == \A b \in blocks : b[1] <= numPages /\ b[2] < mBufferPos[b[1]]

(* What the pool's thread knows in the middle of an allocation.            *)
OwnerIsAt ==
  /\ mCurrentPage <= numPages
  /\ scanned # None => scanned <= numPages /\ peeked = None /\ ownerPc = "using" /\ allocated < MaxBlocks
  /\ peeked # None =>
       /\ peeked = <<mCurrentPage, mBufferPos[mCurrentPage]>>
       /\ mBufferPos[mCurrentPage] < TSize
       /\ ownerPc = "using"

PagesAreNew == \A i \in Pages : i > numPages => IsEmpty(i)

(* A block that is not counted yet is one thread's to release.             *)
ReleasersHold ==
  \A t \in Releasers :
    /\ releasePc[t] # "idle" => releasing[t] \in Blocks /\ releasing[t][1] <= numPages
    /\ releasePc[t] = "add" => releasing[t] \in blocks
    /\ \A u \in Releasers : releasePc[t] = "add" /\ releasePc[u] = "add" /\ releasing[t] = releasing[u] => t = u
    /\ releasePc[t] \in {"compare", "defer"} => ownerPc # "using"

MarkedWhenEnding ==
  \A i \in Pages : mIsRemoving[i] <=> ownerPc # "using" /\ i <= numPages

(* Somebody is left to purge a pool that can be purged.                    *)
PurgeIsToCome ==
  ownerPc = "ended" /\ registered /\ CanPurge =>
    \E t \in Releasers : releasePc[t] \in {"added", "compare", "defer"}

PageParts == Counted /\ BlocksLieBefore /\ PagesAreNew

ThreadParts == OwnerIsAt /\ ReleasersHold /\ MarkedWhenEnding /\ PurgeIsToCome /\ PurgedUnused

PagesInv == PagesTypeOK /\ PageParts /\ ThreadParts

--------------------------------------------------------------------------------
(* Counting                                                                *)

LEMMA BlocksOfFinite ==
  ASSUME NEW S \in SUBSET Blocks
  PROVE  IsFiniteSet(S)
<1>1. IsFiniteSet(Pages) /\ IsFiniteSet(0..TSize - 1)
  BY FS_Interval, PagesAssumption DEF Pages
<1>2. IsFiniteSet(Blocks)
  BY <1>1, FS_Product DEF Blocks
<1> QED
  BY <1>2, FS_Subset

(* A page whose counters agree has no block in use, and the other way.     *)
LEMMA EmptyHasNoBlock ==
  ASSUME PagesTypeOK, Counted, NEW i \in Pages
  PROVE  IsEmpty(i) <=> BlocksOf(i) = {}
<1>1. IsFiniteSet(BlocksOf(i))
  BY BlocksOfFinite DEF PagesTypeOK, BlocksOf
<1>2. Cardinality(BlocksOf(i)) \in Nat /\ (Cardinality(BlocksOf(i)) = 0 <=> BlocksOf(i) = {})
  BY <1>1, FS_EmptySet, FS_CardinalityType
<1>3. mTotalProduced[i] \in Nat /\ mTotalConsumed[i] \in Nat
  BY DEF PagesTypeOK
<1> QED
  BY <1>2, <1>3 DEF IsEmpty, Counted

LEMMA PurgeableHasNoBlock ==
  ASSUME PagesTypeOK, Counted, BlocksLieBefore
  PROVE  CanPurge <=> blocks = {}
<1>1. ASSUME CanPurge, NEW b \in blocks
      PROVE  FALSE
  <2>1. b[1] \in Pages /\ b[1] \in 1..numPages
    BY <1>1 DEF PagesTypeOK, Blocks, BlocksLieBefore, Pages
  <2>2. b \in BlocksOf(b[1])
    BY DEF BlocksOf
  <2> QED
    BY <1>1, <2>1, <2>2, EmptyHasNoBlock DEF CanPurge
<1>2. ASSUME blocks = {}, NEW i \in 1..numPages
      PROVE  IsEmpty(i)
  <2>1. i \in Pages
    BY PagesAssumption DEF PagesTypeOK, Pages
  <2>2. BlocksOf(i) = {}
    BY <1>2 DEF BlocksOf
  <2> QED
    BY <2>1, <2>2, EmptyHasNoBlock
<1> QED
  BY <1>1, <1>2 DEF CanPurge

(* One more block in a page, and one less.                                 *)
LEMMA BlockAdded ==
  ASSUME PagesTypeOK, NEW b \in Blocks, b \notin blocks, blocks' = blocks \cup {b},
         NEW i \in Pages
  PROVE  Cardinality(BlocksOf(i)') =
           IF b[1] = i THEN Cardinality(BlocksOf(i)) + 1 ELSE Cardinality(BlocksOf(i))
<1>1. IsFiniteSet(BlocksOf(i)) /\ b \notin BlocksOf(i)
  BY BlocksOfFinite DEF PagesTypeOK, BlocksOf
<1>2. CASE b[1] = i
  <2>1. BlocksOf(i)' = BlocksOf(i) \cup {b}
    BY <1>2 DEF BlocksOf
  <2> QED
    BY <1>1, <1>2, <2>1, FS_AddElement
<1>3. CASE b[1] # i
  BY <1>3 DEF BlocksOf
<1> QED
  BY <1>2, <1>3

LEMMA BlockRemoved ==
  ASSUME PagesTypeOK, NEW b \in blocks, blocks' = blocks \ {b}, NEW i \in Pages
  PROVE  /\ Cardinality(BlocksOf(i)) \in Nat /\ Cardinality(BlocksOf(i)') \in Nat
         /\ Cardinality(BlocksOf(i)) =
              IF b[1] = i THEN Cardinality(BlocksOf(i)') + 1 ELSE Cardinality(BlocksOf(i)')
<1>1. IsFiniteSet(BlocksOf(i)) /\ IsFiniteSet(BlocksOf(i)')
  BY BlocksOfFinite DEF PagesTypeOK, BlocksOf
<1>2. CASE b[1] = i
  <2>1. BlocksOf(i) = BlocksOf(i)' \cup {b} /\ b \notin BlocksOf(i)'
    BY <1>2 DEF BlocksOf
  <2> QED
    BY <1>1, <1>2, <2>1, FS_AddElement, FS_CardinalityType
<1>3. CASE b[1] # i
  <2>1. BlocksOf(i)' = BlocksOf(i)
    BY <1>3 DEF BlocksOf
  <2> QED
    BY <1>1, <1>3, <2>1, FS_CardinalityType
<1> QED
  BY <1>2, <1>3

--------------------------------------------------------------------------------
LEMMA PagesInvInit ==
  ASSUME PagesInit
  PROVE  PagesInv
<1> USE DEF PagesInit
<1>1. PagesTypeOK
  <2>1. numPages \in Pages /\ mCurrentPage \in Pages
    BY PagesAssumption DEF Pages
  <2>2. mBufferPos \in [Pages -> 0..TSize] /\ allocated \in 0..MaxBlocks
    BY PagesAssumption
  <2>3. /\ mTotalProduced \in [Pages -> Nat] /\ mTotalConsumed \in [Pages -> Nat]
        /\ mIsRemoving \in [Pages -> BOOLEAN]
    OBVIOUS
  <2> QED
    BY <2>1, <2>2, <2>3 DEF PagesTypeOK, ReleaserPcs
<1>2. Counted
  <2>1. \A i \in Pages : BlocksOf(i) = {}
    BY DEF BlocksOf
  <2> QED
    BY <2>1, FS_EmptySet DEF Counted
<1>3. BlocksLieBefore /\ PagesAreNew /\ OwnerIsAt
  BY DEF BlocksLieBefore, PagesAreNew, IsEmpty, OwnerIsAt
<1>4. ReleasersHold /\ PurgeIsToCome /\ PurgedUnused
  BY DEF ReleasersHold, PurgeIsToCome, PurgedUnused
<1>5. MarkedWhenEnding
  BY DEF MarkedWhenEnding
<1> QED
  BY <1>1, <1>2, <1>3, <1>4, <1>5 DEF PagesInv, PageParts, ThreadParts

--------------------------------------------------------------------------------
(* Allocation: a page that is peeked has room, or is emptied.              *)

LEMMA PeekStep ==
  ASSUME PagesInv, NEW i \in Pages, Peek(i), allocated < MaxBlocks,
         ownerPc = "using", scanned' = None, numPages' \in Pages, numPages <= numPages',
         i <= numPages', IsEmpty(i) \/ mBufferPos[i] < TSize
  PROVE  PagesInv'
<1>t. PagesTypeOK /\ PageParts /\ ThreadParts
  BY DEF PagesInv
<1>0. IsEmpty(i) => BlocksOf(i) = {}
  BY <1>t, EmptyHasNoBlock DEF PageParts
<1> USE <1>t DEF PagesTypeOK, Peek, IsEmpty
<1>1. mBufferPos'[i] < TSize /\ mBufferPos' \in [Pages -> 0..TSize]
  BY PagesAssumption
<1>2. PagesTypeOK'
  <2>1. mTotalProduced' \in [Pages -> Nat] /\ mTotalConsumed' \in [Pages -> Nat]
    OBVIOUS
  <2>2. peeked' \in Blocks
    <3>1. mBufferPos'[i] \in 0..TSize - 1
      BY <1>1, PagesAssumption
    <3> QED
      BY <3>1 DEF Blocks
  <2>3. allocated' \in 0..MaxBlocks
    BY PagesAssumption
  <2> QED
    BY <1>1, <2>1, <2>2, <2>3
<1>3. Counted'
  <2> SUFFICES ASSUME NEW k \in Pages
               PROVE  mTotalProduced'[k] = mTotalConsumed'[k] + Cardinality(BlocksOf(k)')
    BY DEF Counted
  <2>1. BlocksOf(k)' = BlocksOf(k)
    BY DEF BlocksOf
  <2>2. mTotalProduced[k] = mTotalConsumed[k] + Cardinality(BlocksOf(k))
    BY DEF PageParts, Counted
  <2>3. CASE IsEmpty(i) /\ k = i
    <3>1. Cardinality(BlocksOf(k)') = 0
      BY <1>0, <2>1, <2>3, FS_EmptySet
    <3>2. mTotalProduced'[k] = 0 /\ mTotalConsumed'[k] = 0
      BY <2>3
    <3> QED
      BY <3>1, <3>2
  <2>4. CASE ~IsEmpty(i) \/ k # i
    BY <2>1, <2>2, <2>4
  <2> QED
    BY <2>3, <2>4
<1>4. BlocksLieBefore'
  <2> SUFFICES ASSUME NEW b \in blocks
               PROVE  b[1] <= numPages' /\ b[2] < mBufferPos'[b[1]]
    BY DEF BlocksLieBefore
  <2>1. b[1] \in Pages /\ b[1] <= numPages /\ b[2] < mBufferPos[b[1]]
    BY DEF PageParts, BlocksLieBefore, Blocks
  <2>2. IsEmpty(i) => b[1] # i
    BY <1>0 DEF BlocksOf
  <2> QED
    BY <2>1, <2>2 DEF Pages
<1>5. PagesAreNew'
  BY DEF PageParts, PagesAreNew, Pages
<1>6. OwnerIsAt'
  BY <1>1, <1>2, PagesAssumption DEF OwnerIsAt
<1>7. ReleasersHold'
  BY DEF ThreadParts, ReleasersHold, Blocks, Pages
<1>8. MarkedWhenEnding'
  BY DEF ThreadParts, MarkedWhenEnding, Pages
<1>9. PurgeIsToCome' /\ PurgedUnused'
  BY DEF ThreadParts, PurgeIsToCome, PurgedUnused
<1> QED
  BY <1>2, <1>3, <1>4, <1>5, <1>6, <1>7, <1>8, <1>9 DEF PagesInv, PageParts, ThreadParts

LEMMA ScanStep ==
  ASSUME PagesInv, scanned' \in Pages \cup {None},
         scanned' # None =>
           scanned' <= numPages /\ peeked = None /\ ownerPc = "using" /\ allocated < MaxBlocks,
         UNCHANGED <<pageVars, numPages, mCurrentPage, peeked, blocks, ownerPc, registered, releasePc,
                     releasing, allocated>>
  PROVE  PagesInv'
<1>t. PagesTypeOK /\ PageParts /\ ThreadParts
  BY DEF PagesInv
<1> USE <1>t DEF pageVars
<1>1. PagesTypeOK'
  BY DEF PagesTypeOK
<1>2. PageParts'
  BY DEF PageParts, Counted, BlocksOf, BlocksLieBefore, PagesAreNew, IsEmpty
<1>3. OwnerIsAt'
  BY DEF ThreadParts, OwnerIsAt
<1>4. ReleasersHold' /\ MarkedWhenEnding' /\ PurgedUnused'
  BY DEF ThreadParts, ReleasersHold, MarkedWhenEnding, PurgedUnused
<1>5. PurgeIsToCome'
  BY DEF ThreadParts, PurgeIsToCome, CanPurge, IsEmpty
<1> QED
  BY <1>1, <1>2, <1>3, <1>4, <1>5 DEF PagesInv, ThreadParts

LEMMA GetPageStep ==
  ASSUME PagesInv, GetPage
  PROVE  PagesInv'
<1>t. PagesTypeOK /\ ThreadParts
  BY DEF PagesInv
<1>1. CASE mBufferPos[mCurrentPage] < TSize /\ Peek(mCurrentPage) /\ UNCHANGED <<numPages, scanned>>
  BY <1>t, <1>1, PeekStep DEF GetPage, MayAllocate, ThreadParts, OwnerIsAt, PagesTypeOK, Pages
<1>2. CASE scanned' = 1 /\ UNCHANGED <<pageVars, numPages, mCurrentPage, peeked, blocks, ownerPc,
                                       registered, releasePc, releasing, allocated>>
  <2>1. scanned' \in Pages /\ scanned' <= numPages
    BY <1>t, <1>2, PagesAssumption DEF PagesTypeOK, Pages
  <2> QED
    BY <1>2, <2>1, ScanStep DEF GetPage, MayAllocate
<1> QED
  BY <1>1, <1>2 DEF GetPage

LEMMA GetNextPageStep ==
  ASSUME PagesInv, GetNextPage
  PROVE  PagesInv'
<1>t. PagesTypeOK /\ PageParts /\ ThreadParts
  BY DEF PagesInv
<1>s. /\ scanned \in Pages /\ scanned <= numPages
      /\ peeked = None /\ ownerPc = "using" /\ allocated < MaxBlocks
  BY <1>t DEF GetNextPage, PagesTypeOK, ThreadParts, OwnerIsAt
<1> DEFINE Stays == UNCHANGED <<pageVars, numPages, mCurrentPage, peeked, blocks, ownerPc,
                                registered, releasePc, releasing, allocated>>
<1>1. CASE IsEmpty(scanned) /\ Peek(scanned) /\ scanned' = None /\ UNCHANGED numPages
  BY <1>t, <1>s, <1>1, PeekStep DEF PagesTypeOK, Pages
<1>2. CASE ~IsLast(scanned) /\ scanned' = NextPage(scanned) /\ Stays
  <2>1. scanned' \in Pages /\ scanned' <= numPages
    <3>1. CASE scanned = 1
      BY <1>t, <1>s, <1>2, <3>1, PagesAssumption DEF NextPage, PagesTypeOK, Pages
    <3>2. CASE scanned # 1
      BY <1>t, <1>s, <1>2, <3>2, PagesAssumption DEF NextPage, PagesTypeOK, Pages
    <3> QED
      BY <3>1, <3>2
  <2> QED
    BY <1>s, <1>2, <2>1, ScanStep
<1>3. CASE scanned' = None /\ Stays
  BY <1>3, ScanStep
<1>4. CASE scanned' = None /\ numPages # MaxPages /\ numPages' = numPages + 1 /\ Peek(numPages + 1)
  <2>1. PICK i \in Pages : i = numPages + 1
    BY <1>t, <1>4, PagesAssumption DEF PagesTypeOK, Pages
  <2>2. numPages < i /\ numPages <= numPages' /\ i <= numPages' /\ numPages' \in Pages
    BY <1>t, <1>4, <2>1 DEF PagesTypeOK, Pages
  <2>3. IsEmpty(i)
    BY <1>t, <2>1, <2>2 DEF PageParts, PagesAreNew
  <2>4. Peek(i) /\ scanned' = None
    BY <1>4, <2>1
  <2> QED
    BY <1>s, <2>2, <2>3, <2>4, PeekStep
<1> QED
  BY <1>1, <1>2, <1>3, <1>4 DEF GetNextPage

LEMMA AcquireStep ==
  ASSUME PagesInv, Acquire
  PROVE  PagesInv'
<1>t. PagesTypeOK /\ PageParts /\ ThreadParts
  BY DEF PagesInv
<1>s. /\ peeked \in Blocks /\ peeked = <<mCurrentPage, mBufferPos[mCurrentPage]>>
      /\ mBufferPos[mCurrentPage] < TSize /\ scanned = None /\ ownerPc = "using"
      /\ mCurrentPage \in Pages /\ mCurrentPage <= numPages
  BY <1>t DEF Acquire, PagesTypeOK, ThreadParts, OwnerIsAt
<1>n. peeked \notin blocks
  BY <1>t, <1>s DEF PageParts, BlocksLieBefore, PagesTypeOK, Pages
<1> USE <1>t, <1>s DEF Acquire
<1>1. PagesTypeOK'
  <2>1. mBufferPos' \in [Pages -> 0..TSize]
    BY PagesAssumption DEF PagesTypeOK
  <2>2. mTotalProduced' \in [Pages -> Nat]
    BY DEF PagesTypeOK
  <2> QED
    BY <2>1, <2>2 DEF PagesTypeOK
<1>2. Counted'
  <2> SUFFICES ASSUME NEW i \in Pages
               PROVE  mTotalProduced'[i] = mTotalConsumed'[i] + Cardinality(BlocksOf(i)')
    BY DEF Counted
  <2>1. Cardinality(BlocksOf(i)') =
          IF mCurrentPage = i THEN Cardinality(BlocksOf(i)) + 1 ELSE Cardinality(BlocksOf(i))
    BY <1>n, BlockAdded
  <2>2. mTotalProduced[i] = mTotalConsumed[i] + Cardinality(BlocksOf(i))
    BY DEF PageParts, Counted
  <2>3. Cardinality(BlocksOf(i)) \in Nat
    BY BlocksOfFinite, FS_CardinalityType DEF PagesTypeOK, BlocksOf
  <2> QED
    BY <2>1, <2>2, <2>3 DEF PagesTypeOK
<1>3. BlocksLieBefore' /\ PagesAreNew'
  BY DEF PageParts, BlocksLieBefore, PagesAreNew, IsEmpty, PagesTypeOK, Pages, Blocks
<1>4. OwnerIsAt' /\ MarkedWhenEnding' /\ PurgedUnused' /\ PurgeIsToCome'
  BY DEF ThreadParts, OwnerIsAt, MarkedWhenEnding, PurgedUnused, PurgeIsToCome
<1>5. ReleasersHold'
  BY DEF ThreadParts, ReleasersHold
<1> QED
  BY <1>1, <1>2, <1>3, <1>4, <1>5 DEF PagesInv, PageParts, ThreadParts

--------------------------------------------------------------------------------
(* The end of the pool's thread                                            *)

LEMMA MarkRemovingStep ==
  ASSUME PagesInv, MarkRemoving
  PROVE  PagesInv'
<1>t. PagesTypeOK /\ PageParts /\ ThreadParts
  BY DEF PagesInv
<1> USE <1>t DEF MarkRemoving
<1>1. PagesTypeOK'
  BY DEF PagesTypeOK
<1>2. PageParts'
  BY DEF PageParts, Counted, BlocksOf, BlocksLieBefore, PagesAreNew, IsEmpty
<1>3. OwnerIsAt' /\ PurgedUnused' /\ PurgeIsToCome'
  BY DEF ThreadParts, OwnerIsAt, PurgedUnused, PurgeIsToCome
<1>4. ReleasersHold'
  BY DEF ThreadParts, ReleasersHold
<1>5. MarkedWhenEnding'
  BY DEF MarkedWhenEnding
<1> QED
  BY <1>1, <1>2, <1>3, <1>4, <1>5 DEF PagesInv, ThreadParts

LEMMA ThreadDeinitStep ==
  ASSUME PagesInv, ThreadDeinit
  PROVE  PagesInv'
<1>t. PagesTypeOK /\ PageParts /\ ThreadParts
  BY DEF PagesInv
<1> USE <1>t DEF ThreadDeinit, pageVars
<1>1. PagesTypeOK'
  BY DEF PagesTypeOK
<1>2. PageParts'
  BY DEF PageParts, Counted, BlocksOf, BlocksLieBefore, PagesAreNew, IsEmpty
<1>3. PurgedUnused'
  BY PurgeableHasNoBlock DEF PageParts, PurgedUnused
<1>4. PurgeIsToCome'
  BY DEF PurgeIsToCome, CanPurge, IsEmpty
<1>5. OwnerIsAt' /\ ReleasersHold' /\ MarkedWhenEnding'
  BY DEF ThreadParts, OwnerIsAt, ReleasersHold, MarkedWhenEnding
<1> QED
  BY <1>1, <1>2, <1>3, <1>4, <1>5 DEF PagesInv, ThreadParts

--------------------------------------------------------------------------------
(* Release                                                                 *)

LEMMA DeallocateStep ==
  ASSUME PagesInv, NEW t \in Releasers, DeallocateRaw(t)
  PROVE  PagesInv'
<1>t. PagesTypeOK /\ PageParts /\ ThreadParts
  BY DEF PagesInv
<1> USE <1>t DEF DeallocateRaw, ReleaserGoes, pageVars, ownerVars
<1>1. PagesTypeOK'
  BY DEF PagesTypeOK, ReleaserPcs
<1>2. PageParts'
  BY DEF PageParts, Counted, BlocksOf, BlocksLieBefore, PagesAreNew, IsEmpty
<1>3. OwnerIsAt' /\ MarkedWhenEnding' /\ PurgedUnused'
  BY DEF ThreadParts, OwnerIsAt, MarkedWhenEnding, PurgedUnused
<1>4. ReleasersHold'
  BY DEF ThreadParts, PageParts, ReleasersHold, BlocksLieBefore, PagesTypeOK
<1>5. PurgeIsToCome'
  BY DEF ThreadParts, PurgeIsToCome, CanPurge, IsEmpty, PagesTypeOK
<1> QED
  BY <1>1, <1>2, <1>3, <1>4, <1>5 DEF PagesInv, ThreadParts

LEMMA ReleaseStep ==
  ASSUME PagesInv, NEW t \in Releasers, Release(t)
  PROVE  PagesInv'
<1>t. PagesTypeOK /\ PageParts /\ ThreadParts
  BY DEF PagesInv
<1> DEFINE b == releasing[t]
<1>s. /\ b \in blocks /\ b \in Blocks /\ b[1] \in Pages
      /\ mTotalConsumed' = [mTotalConsumed EXCEPT ![b[1]] = @ + 1]
      /\ blocks' = blocks \ {b} /\ releasePc' = [releasePc EXCEPT ![t] = "added"]
      /\ releasePc[t] = "add" /\ releasing' = releasing
  BY <1>t DEF Release, ReleaserGoes, ThreadParts, ReleasersHold, PagesTypeOK, Blocks
<1> HIDE DEF b
<1> USE <1>t, <1>s DEF Release, ownerVars
<1>1. PagesTypeOK'
  <2>1. releasePc' \in [Releasers -> ReleaserPcs] /\ mTotalConsumed' \in [Pages -> Nat]
    BY DEF PagesTypeOK, ReleaserPcs
  <2> QED
    BY <2>1 DEF PagesTypeOK
<1>2. Counted'
  <2> SUFFICES ASSUME NEW i \in Pages
               PROVE  mTotalProduced'[i] = mTotalConsumed'[i] + Cardinality(BlocksOf(i)')
    BY DEF Counted
  <2>1. mTotalProduced[i] = mTotalConsumed[i] + Cardinality(BlocksOf(i))
    BY DEF PageParts, Counted
  <2> QED
    BY <2>1, BlockRemoved DEF PagesTypeOK
<1>3. BlocksLieBefore'
  BY DEF PageParts, BlocksLieBefore
<1>4. PagesAreNew'
  BY DEF PageParts, PagesAreNew, IsEmpty, BlocksLieBefore, PagesTypeOK, Pages
<1>5. OwnerIsAt' /\ MarkedWhenEnding' /\ PurgedUnused'
  BY DEF ThreadParts, OwnerIsAt, MarkedWhenEnding, PurgedUnused
<1>6. ReleasersHold'
  <2>1. \A u \in Releasers : u # t => releasePc'[u] = releasePc[u]
    OBVIOUS
  <2>2. releasePc'[t] = "added"
    BY DEF PagesTypeOK
  <2>3. \A u \in Releasers : u # t /\ releasePc[u] = "add" => releasing[u] # b
    BY DEF ThreadParts, ReleasersHold, b
  <2> QED
    BY <2>1, <2>2, <2>3 DEF ThreadParts, ReleasersHold, b
<1>7. PurgeIsToCome'
  BY DEF PurgeIsToCome, PagesTypeOK
<1> QED
  BY <1>1, <1>2, <1>3, <1>4, <1>5, <1>6, <1>7 DEF PagesInv, PageParts, ThreadParts

(* A thread that reads the page once more: of a pool that is there it      *)
(* finds that it is to be removed if its thread is ending.                 *)
LEMMA ReadStep ==
  ASSUME PagesInv, NEW t \in Releasers, ReadIsRemoving(t) \/ Compare(t)
  PROVE  PagesInv'
<1>t. PagesTypeOK /\ PageParts /\ ThreadParts
  BY DEF PagesInv
<1>s. /\ releasePc[t] \in {"added", "compare"} /\ releasing[t] \in Blocks /\ releasing[t][1] \in Pages
      /\ releasing[t][1] <= numPages
  BY <1>t DEF ReadIsRemoving, Compare, ThreadParts, ReleasersHold, Blocks
<1>1. PICK goesOn \in BOOLEAN :
        /\ releasePc' = [releasePc EXCEPT ![t] = IF goesOn THEN IF releasePc[t] = "added" THEN "compare" ELSE "defer"
                                   ELSE "idle"]
        /\ releasing' = IF goesOn THEN releasing ELSE [releasing EXCEPT ![t] = None]
        /\ goesOn => ownerPc # "using"
        /\ registered /\ ownerPc = "ended" /\ CanPurge => goesOn
        /\ UNCHANGED <<pageVars, blocks, registered, ownerVars>>
  <2>1. ASSUME ReadIsRemoving(t)
        PROVE  \E isRemoving \in BOOLEAN :
                 /\ isRemoving => ownerPc # "using"
                 /\ registered /\ ownerPc = "ended" => isRemoving
                 /\ releasePc' = [releasePc EXCEPT ![t] = IF isRemoving THEN "compare" ELSE "idle"]
                 /\ releasing' = IF isRemoving THEN releasing ELSE [releasing EXCEPT ![t] = None]
    BY <1>t, <1>s, <2>1 DEF ReadIsRemoving, ThreadParts, MarkedWhenEnding, PurgedUnused, PagesTypeOK
  <2>2. ASSUME Compare(t)
        PROVE  \E isEmpty \in BOOLEAN :
                 /\ registered /\ CanPurge => isEmpty
                 /\ releasePc' = [releasePc EXCEPT ![t] = IF isEmpty THEN "defer" ELSE "idle"]
                 /\ releasing' = IF isEmpty THEN releasing ELSE [releasing EXCEPT ![t] = None]
    <3>1. CanPurge => IsEmpty(releasing[t][1])
      BY <1>t, <1>s DEF CanPurge, PagesTypeOK, Pages
    <3>2. IsEmpty(releasing[t][1]) \in BOOLEAN
      BY DEF IsEmpty
    <3> QED
      BY <2>2, <3>1, <3>2 DEF Compare
  <2>3. ReadIsRemoving(t) => releasePc[t] = "added"
    BY DEF ReadIsRemoving
  <2>4. Compare(t) => releasePc[t] = "compare" /\ ownerPc # "using"
    BY <1>t DEF Compare, ThreadParts, ReleasersHold
  <2>5. UNCHANGED <<pageVars, blocks, registered, ownerVars>>
    BY DEF ReadIsRemoving, Compare
  <2>6. CASE ReadIsRemoving(t)
    BY <2>1, <2>3, <2>5, <2>6
  <2>7. CASE Compare(t)
    BY <2>2, <2>4, <2>5, <2>7
  <2> QED
    BY <2>6, <2>7
<1> USE <1>t, <1>s, <1>1 DEF pageVars, ownerVars
<1>2. PagesTypeOK'
  <2>1. releasePc' \in [Releasers -> ReleaserPcs] /\ releasing' \in [Releasers -> Blocks \cup {None}]
    BY DEF PagesTypeOK, ReleaserPcs
  <2> QED
    BY <2>1 DEF PagesTypeOK
<1>3. PageParts'
  BY DEF PageParts, Counted, BlocksOf, BlocksLieBefore, PagesAreNew, IsEmpty
<1>4. OwnerIsAt' /\ MarkedWhenEnding' /\ PurgedUnused'
  BY DEF ThreadParts, OwnerIsAt, MarkedWhenEnding, PurgedUnused
<1>5. ReleasersHold'
  <2>1. releasePc'[t] # "add" /\ releasePc[t] # "add"
    BY DEF PagesTypeOK
  <2>2. \A u \in Releasers : u # t => releasePc'[u] = releasePc[u] /\ releasing'[u] = releasing[u]
    OBVIOUS
  <2>3. /\ releasePc'[t] # "idle" => releasing'[t] = releasing[t]
        /\ releasePc'[t] \in {"compare", "defer"} => ownerPc # "using"
    BY DEF PagesTypeOK
  <2> QED
    BY <2>1, <2>2, <2>3 DEF ThreadParts, ReleasersHold
<1>6. PurgeIsToCome'
  <2>1. CanPurge' <=> CanPurge
    BY DEF CanPurge, IsEmpty
  <2>2. ASSUME ownerPc = "ended", registered, CanPurge
        PROVE  releasePc'[t] \in {"compare", "defer"}
    BY <2>2 DEF PagesTypeOK
  <2> QED
    BY <2>1, <2>2 DEF PurgeIsToCome
<1> QED
  BY <1>2, <1>3, <1>4, <1>5, <1>6 DEF PagesInv, ThreadParts

LEMMA DeferStep ==
  ASSUME PagesInv, NEW t \in Releasers, ThreadDeferDeinit(t)
  PROVE  PagesInv'
<1>t. PagesTypeOK /\ PageParts /\ ThreadParts
  BY DEF PagesInv
<1>s. releasePc[t] = "defer" /\ ownerPc = "ended"
  BY <1>t DEF ThreadDeferDeinit, ReleaserGoes, ThreadParts, ReleasersHold, PagesTypeOK
<1> USE <1>t, <1>s DEF ThreadDeferDeinit, ReleaserGoes, pageVars, ownerVars
<1>1. PagesTypeOK'
  BY DEF PagesTypeOK, ReleaserPcs
<1>2. PageParts'
  BY DEF PageParts, Counted, BlocksOf, BlocksLieBefore, PagesAreNew, IsEmpty
<1>3. OwnerIsAt' /\ MarkedWhenEnding'
  BY DEF ThreadParts, OwnerIsAt, MarkedWhenEnding
<1>4. PurgedUnused'
  BY PurgeableHasNoBlock DEF ThreadParts, PageParts, PurgedUnused
<1>5. ReleasersHold'
  <2>1. releasePc'[t] = "idle"
    BY DEF PagesTypeOK
  <2>2. \A u \in Releasers : u # t => releasePc'[u] = releasePc[u] /\ releasing'[u] = releasing[u]
    OBVIOUS
  <2>3. UNCHANGED <<blocks, numPages, ownerPc>>
    OBVIOUS
  <2> HIDE DEF ThreadDeferDeinit, ReleaserGoes
  <2> QED
    BY <2>1, <2>2, <2>3 DEF ThreadParts, ReleasersHold
<1>6. PurgeIsToCome'
  BY DEF PurgeIsToCome, CanPurge, IsEmpty
<1> QED
  BY <1>1, <1>2, <1>3, <1>4, <1>5, <1>6 DEF PagesInv, ThreadParts

--------------------------------------------------------------------------------
LEMMA PagesInvStep ==
  ASSUME PagesInv, [PagesNext]_temporaryVars
  PROVE  PagesInv'
<1>1. CASE UNCHANGED temporaryVars
  <2>t. PagesTypeOK /\ PageParts /\ ThreadParts
    BY DEF PagesInv
  <2> USE <2>t, <1>1 DEF temporaryVars
  <2>1. PagesTypeOK' /\ PageParts'
    BY DEF PagesTypeOK, PageParts, Counted, BlocksOf, BlocksLieBefore, PagesAreNew, IsEmpty
  <2>2. ThreadParts'
    BY DEF ThreadParts, OwnerIsAt, ReleasersHold, MarkedWhenEnding, PurgedUnused, PurgeIsToCome,
           CanPurge, IsEmpty
  <2> QED
    BY <2>1, <2>2 DEF PagesInv
<1> QED
  BY <1>1, GetPageStep, GetNextPageStep, AcquireStep, MarkRemovingStep, ThreadDeinitStep,
     DeallocateStep, ReleaseStep, ReadStep, DeferStep
     DEF PagesNext, ReleaserStep

(* What the invariant says of the properties.                              *)
LEMMA PagesInvGives ==
  ASSUME PagesInv
  PROVE  PagesTypeOK /\ BlocksAreDistinct /\ PagesAreCounted /\ PurgedUnused /\ EndedPoolIsPurged
<1>t. PagesTypeOK /\ PageParts /\ ThreadParts
  BY DEF PagesInv
<1>1. BlocksAreDistinct
  <2>1. CASE peeked = None
    BY <1>t, <2>1, PagesAssumption DEF BlocksAreDistinct, PagesTypeOK
  <2>2. CASE peeked # None
    BY <1>t, <2>2 DEF BlocksAreDistinct, PagesTypeOK, PageParts, ThreadParts, OwnerIsAt, BlocksLieBefore, Pages
  <2> QED
    BY <2>1, <2>2
<1>2. PagesAreCounted
  <2> SUFFICES ASSUME NEW i \in Pages
               PROVE  /\ mTotalConsumed[i] <= mTotalProduced[i]
                      /\ IsEmpty(i) => \A b \in blocks : b[1] # i
    BY DEF PagesAreCounted
  <2>1. Cardinality(BlocksOf(i)) \in Nat
    BY <1>t, BlocksOfFinite, FS_CardinalityType DEF PagesTypeOK, BlocksOf
  <2>2. mTotalConsumed[i] <= mTotalProduced[i]
    BY <1>t, <2>1 DEF PageParts, Counted, PagesTypeOK
  <2> QED
    BY <1>t, <2>2, EmptyHasNoBlock DEF PageParts, BlocksOf
<1>3. EndedPoolIsPurged
  BY <1>t, PurgeableHasNoBlock DEF EndedPoolIsPurged, PageParts, ThreadParts, PurgeIsToCome
<1> QED
  BY <1>t, <1>1, <1>2, <1>3 DEF ThreadParts

LEMMA PagesInvariant == PagesSpec => []PagesInv
<1>1. PagesInit => PagesInv
  BY PagesInvInit
<1>2. PagesInv /\ [PagesNext]_temporaryVars => PagesInv'
  BY PagesInvStep
<1> QED
  BY <1>1, <1>2, PTL DEF PagesSpec

--------------------------------------------------------------------------------
(* No temporary memory is handed out while another block lies there, for   *)
(* any number of pages, blocks and threads that release them.              *)
THEOREM PagesHandOutOnce == PagesSpec => []BlocksAreDistinct
<1>1. PagesInv => BlocksAreDistinct
  BY PagesInvGives
<1> QED
  BY <1>1, PagesInvariant, PTL

(* Every reachable state of the pool is well typed.                        *)
THEOREM PagesTypeCorrect == PagesSpec => []PagesTypeOK
<1>1. PagesInv => PagesTypeOK
  BY PagesInvGives
<1> QED
  BY <1>1, PagesInvariant, PTL

(* Release's assertion "Invalid number of bytes consumed" never fails, and *)
(* a page that counts as empty has no block in use.                        *)
THEOREM PagesCountTheirBlocks == PagesSpec => []PagesAreCounted
<1>1. PagesInv => PagesAreCounted
  BY PagesInvGives
<1> QED
  BY <1>1, PagesInvariant, PTL

(* A pool is purged only after its thread has ended, without a block in    *)
(* use.                                                                    *)
THEOREM PagesPurgedUnused == PagesSpec => []PurgedUnused
<1>1. PagesInv => PurgedUnused
  BY PagesInvGives
<1> QED
  BY <1>1, PagesInvariant, PTL

(* The pool of a thread that has ended is purged when its last block has   *)
(* been released: no two threads leave it to each other.                   *)
THEOREM PagesOfEndedThreadPurged == PagesSpec => []EndedPoolIsPurged
<1>1. PagesInv => EndedPoolIsPurged
  BY PagesInvGives
<1> QED
  BY <1>1, PagesInvariant, PTL

(* Both together: a pool is purged neither too early nor never.            *)
THEOREM PagesPurgedWhenUnused == PagesSpec => []PurgedWhenUnused
<1>1. PagesInv => PurgedWhenUnused
  BY PagesInvGives DEF PurgedWhenUnused
<1> QED
  BY <1>1, PagesInvariant, PTL

--------------------------------------------------------------------------------
(* The id ranges.  The inductive invariant adds to the property the types, *)
(* the range in hand and that a range is in one place.  The lemmas below   *)
(* say that joining, splitting, dropping and adding a range keep the ids   *)
(* divided up.                                                             *)

USE RangeAssumption

(* A range is a first id and a length.                                     *)
Ranges == Nat \X (Nat \ {0})

(* The ranges of a set split the ids below n.                              *)
Partitioned(R, n) ==
  /\ n \in Nat
  /\ R \subseteq Ranges
  /\ \A r \in R : End(r) <= n
  /\ \A r, s \in R : r # s => End(r) <= s[1] \/ End(s) <= r[1]
  /\ \A i \in 0..(n - 1) : \E r \in R : r[1] <= i /\ i < End(r)

LEMMA RangeIs ==
  ASSUME NEW r \in Ranges
  PROVE  /\ r[1] \in Nat /\ r[2] \in Nat \ {0} /\ r = <<r[1], r[2]>>
         /\ End(r) \in Nat /\ End(r) = r[1] + r[2] /\ r[1] < End(r)
  BY DEF Ranges, End

LEMMA NewRangeIs ==
  ASSUME NEW x \in Nat, NEW y \in Nat \ {0}
  PROVE  /\ <<x, y>> \in Ranges /\ <<x, y>>[1] = x /\ <<x, y>>[2] = y
         /\ End(<<x, y>>) = x + y
  BY DEF Ranges, End

(* Two ranges that begin at the same id are one.                           *)
LEMMA SameStart ==
  ASSUME NEW R, NEW n, Partitioned(R, n), NEW r \in R, NEW s \in R, r[1] = s[1]
  PROVE  r = s
<1>1. r \in Ranges /\ s \in Ranges
  BY DEF Partitioned
<1>2. /\ r[1] < End(r) /\ s[1] < End(s)
      /\ r[1] \in Nat /\ s[1] \in Nat /\ End(r) \in Nat /\ End(s) \in Nat
  BY <1>1, RangeIs
<1> QED
  BY <1>2 DEF Partitioned

(* The top is one of the ranges, and the highest.                          *)
LEMMA TopIs ==
  ASSUME NEW R, NEW n \in Nat, R \subseteq Ranges, R # {}, \A r \in R : End(r) <= n
  PROVE  Top(R) \in R /\ \A s \in R : s[1] <= Top(R)[1]
<1> DEFINE below == {n - r[1] : r \in R}
<1>1. \A r \in R : r[1] \in Nat /\ r[1] < End(r) /\ End(r) \in Nat
  BY RangeIs
<1>2. below \subseteq Nat /\ below # {}
  BY <1>1
<1>3. PICK m \in below : \A k \in below : ~(<<k, m>> \in OpToRel(<, Nat))
  BY <1>2, WFMin, NatLessThanWellFounded
<1>4. m \in Nat /\ \A k \in below : k \in Nat /\ ~(k < m)
  BY <1>2, <1>3 DEF OpToRel
<1>5. PICK r \in R : m = n - r[1]
  BY <1>3
<1>6. ASSUME NEW s \in R
      PROVE  s[1] <= r[1]
  <2>1. n - s[1] \in below
    OBVIOUS
  <2>2. ~(n - s[1] < n - r[1])
    BY <1>4, <1>5, <2>1
  <2> QED
    BY <1>1, <2>2
<1>7. \E t \in R : \A s \in R : s[1] <= t[1]
  BY <1>6
<1> QED
  BY <1>7 DEF Top

(* Two ranges that touch become one that has their ids.                    *)
LEMMA JoinedIs ==
  ASSUME NEW a \in Ranges, NEW b \in Ranges, Touches(a, b)
  PROVE  /\ Joined(a, b) \in Ranges
         /\ \/ a[1] = End(b) /\ Joined(a, b)[1] = b[1] /\ End(Joined(a, b)) = End(a)
            \/ End(a) = b[1] /\ Joined(a, b)[1] = a[1] /\ End(Joined(a, b)) = End(b)
<1>1. /\ a[1] \in Nat /\ a[2] \in Nat \ {0} /\ End(a) = a[1] + a[2]
      /\ b[1] \in Nat /\ b[2] \in Nat \ {0} /\ End(b) = b[1] + b[2]
  BY RangeIs
<1>2. a[2] + b[2] \in Nat \ {0}
  BY <1>1
<1>3. CASE a[1] = End(b)
  <2>1. ~(a[1] < b[1]) /\ b[1] + (a[2] + b[2]) = End(a)
    BY <1>1, <1>3
  <2>2. Joined(a, b) = <<b[1], a[2] + b[2]>>
    BY <2>1 DEF Joined
  <2> QED
    BY <1>1, <1>2, <1>3, <2>1, <2>2, NewRangeIs
<1>4. CASE End(a) = b[1]
  <2>1. a[1] < b[1] /\ a[1] + (a[2] + b[2]) = End(b)
    BY <1>1, <1>4
  <2>2. Joined(a, b) = <<a[1], a[2] + b[2]>>
    BY <2>1 DEF Joined
  <2> QED
    BY <1>1, <1>2, <1>4, <2>1, <2>2, NewRangeIs
<1> QED
  BY <1>3, <1>4 DEF Touches

LEMMA JoinKeeps ==
  ASSUME NEW R, NEW n, Partitioned(R, n), NEW a \in R, NEW b \in R, a # b, Touches(a, b)
  PROVE  /\ Partitioned((R \ {a, b}) \cup {Joined(a, b)}, n)
         /\ Joined(a, b) \notin R \ {a, b}
<1> DEFINE c == Joined(a, b)
<1>1. /\ n \in Nat
      /\ \A r \in R : r \in Ranges /\ r[1] \in Nat /\ End(r) \in Nat /\ r[1] < End(r) /\ End(r) <= n
  BY RangeIs DEF Partitioned
<1>2. /\ c \in Ranges
      /\ \/ a[1] = End(b) /\ c[1] = b[1] /\ End(c) = End(a)
         \/ End(a) = b[1] /\ c[1] = a[1] /\ End(c) = End(b)
  BY <1>1, JoinedIs
<1>3. c[1] \in Nat /\ End(c) \in Nat /\ c[1] < End(c) /\ End(c) <= n
  BY <1>1, <1>2, RangeIs
<1> HIDE DEF c
<1>4. ASSUME NEW r \in R \ {a, b}
      PROVE  End(r) <= c[1] \/ End(c) <= r[1]
  <2>1. /\ End(r) <= a[1] \/ End(a) <= r[1]
        /\ End(r) <= b[1] \/ End(b) <= r[1]
    BY DEF Partitioned
  <2> QED
    BY <1>1, <1>2, <1>3, <2>1
<1>5. c \notin R \ {a, b}
  BY <1>1, <1>3, <1>4
<1>6. ASSUME NEW i \in 0..(n - 1)
      PROVE  \E r \in (R \ {a, b}) \cup {c} : r[1] <= i /\ i < End(r)
  <2>1. PICK r \in R : r[1] <= i /\ i < End(r)
    BY DEF Partitioned
  <2>2. CASE r \in {a, b}
    <3>1. c[1] <= i /\ i < End(c)
      BY <1>1, <1>2, <1>3, <2>1, <2>2
    <3> QED
      BY <3>1
  <2>3. CASE r \notin {a, b}
    BY <2>1, <2>3
  <2> QED
    BY <2>2, <2>3
<1>7. \A r, s \in (R \ {a, b}) \cup {c} : r # s => End(r) <= s[1] \/ End(s) <= r[1]
  BY <1>4 DEF Partitioned
<1>8. (R \ {a, b}) \cup {c} \subseteq Ranges /\ \A r \in (R \ {a, b}) \cup {c} : End(r) <= n
  BY <1>1, <1>2, <1>3
<1> QED
  BY <1>1, <1>5, <1>6, <1>7, <1>8 DEF Partitioned, c

(* A range is split in two.                                                *)
LEMMA SplitKeeps ==
  ASSUME NEW R, NEW n, Partitioned(R, n), NEW a \in R, NEW x \in Nat \ {0}, x < a[2]
  PROVE  LET low == <<a[1], a[2] - x>>
             high == <<End(a) - x, x>>
         IN  /\ low \notin R \ {a} /\ high \notin R \ {a} /\ low # high
             /\ Partitioned((R \ {a}) \cup {low, high}, n)
<1> DEFINE low == <<a[1], a[2] - x>>
           high == <<End(a) - x, x>>
<1>1. /\ n \in Nat
      /\ \A r \in R : r \in Ranges /\ r[1] \in Nat /\ End(r) \in Nat /\ r[1] < End(r) /\ End(r) <= n
  BY RangeIs DEF Partitioned
<1>2. a[2] \in Nat \ {0} /\ End(a) = a[1] + a[2] /\ a[1] \in Nat
  BY <1>1, RangeIs
<1>3. a[2] - x \in Nat \ {0} /\ End(a) - x \in Nat /\ a[1] + (a[2] - x) = End(a) - x
  BY <1>2
<1>4. /\ low \in Ranges /\ low[1] = a[1] /\ End(low) = End(a) - x
      /\ high \in Ranges /\ high[1] = End(a) - x /\ End(high) = End(a)
  BY <1>2, <1>3, NewRangeIs
<1> HIDE DEF low, high
<1>5. a[1] < End(a) - x /\ End(a) - x < End(a) /\ low # high /\ End(a) <= n /\ End(a) \in Nat
  BY <1>1, <1>2, <1>3, <1>4
<1>6. ASSUME NEW r \in R \ {a}
      PROVE  /\ End(r) <= low[1] \/ End(low) <= r[1]
             /\ End(r) <= high[1] \/ End(high) <= r[1]
             /\ r # low /\ r # high
  <2>1. End(r) <= a[1] \/ End(a) <= r[1]
    BY DEF Partitioned
  <2> QED
    BY <1>1, <1>2, <1>3, <1>4, <1>5, <2>1
<1>7. ASSUME NEW i \in 0..(n - 1)
      PROVE  \E r \in (R \ {a}) \cup {low, high} : r[1] <= i /\ i < End(r)
  <2>1. PICK r \in R : r[1] <= i /\ i < End(r)
    BY DEF Partitioned
  <2>2. CASE r = a
    <3>1. (low[1] <= i /\ i < End(low)) \/ (high[1] <= i /\ i < End(high))
      BY <1>1, <1>2, <1>3, <1>4, <2>1, <2>2
    <3> QED
      BY <3>1
  <2>3. CASE r # a
    BY <2>1, <2>3
  <2> QED
    BY <2>2, <2>3
<1>8. \A r, s \in (R \ {a}) \cup {low, high} : r # s => End(r) <= s[1] \/ End(s) <= r[1]
  <2>1. End(low) <= high[1]
    BY <1>3, <1>4
  <2> QED
    BY <1>6, <2>1 DEF Partitioned
<1>9. /\ (R \ {a}) \cup {low, high} \subseteq Ranges
      /\ \A r \in (R \ {a}) \cup {low, high} : End(r) <= n
  BY <1>1, <1>3, <1>4, <1>5
<1>10. Partitioned((R \ {a}) \cup {low, high}, n)
  BY <1>1, <1>7, <1>8, <1>9 DEF Partitioned
<1> QED
  BY <1>5, <1>6, <1>10 DEF low, high

(* The last range is given back, and new ids become a range.               *)
LEMMA DropKeeps ==
  ASSUME NEW R, NEW n, Partitioned(R, n), NEW a \in R, End(a) = n
  PROVE  Partitioned(R \ {a}, n - a[2])
<1>1. /\ n \in Nat
      /\ \A r \in R : r \in Ranges /\ r[1] \in Nat /\ End(r) \in Nat /\ r[1] < End(r) /\ End(r) <= n
  BY RangeIs DEF Partitioned
<1>2. n - a[2] = a[1] /\ a[1] \in Nat /\ a[1] < n
  BY <1>1, RangeIs
<1>3. ASSUME NEW r \in R \ {a}
      PROVE  End(r) <= a[1]
  <2>1. End(r) <= a[1] \/ End(a) <= r[1]
    BY DEF Partitioned
  <2> QED
    BY <1>1, <2>1
<1>4. ASSUME NEW i \in 0..(a[1] - 1)
      PROVE  \E r \in R \ {a} : r[1] <= i /\ i < End(r)
  <2>1. i \in 0..(n - 1)
    BY <1>1, <1>2
  <2>2. PICK r \in R : r[1] <= i /\ i < End(r)
    BY <2>1 DEF Partitioned
  <2>3. r # a
    BY <1>2, <2>2
  <2> QED
    BY <2>2, <2>3
<1>5. \A r, s \in R \ {a} : r # s => End(r) <= s[1] \/ End(s) <= r[1]
  BY DEF Partitioned
<1>6. Partitioned(R \ {a}, a[1])
  BY <1>1, <1>2, <1>3, <1>4, <1>5 DEF Partitioned
<1> QED
  BY <1>2, <1>6

LEMMA AddKeeps ==
  ASSUME NEW R, NEW n, Partitioned(R, n), NEW x \in Nat \ {0}
  PROVE  /\ <<n, x>> \notin R
         /\ Partitioned(R \cup {<<n, x>>}, n + x)
<1> DEFINE a == <<n, x>>
<1>1. /\ n \in Nat
      /\ \A r \in R : r \in Ranges /\ r[1] \in Nat /\ End(r) \in Nat /\ r[1] < End(r) /\ End(r) <= n
  BY RangeIs DEF Partitioned
<1>2. a \in Ranges /\ a[1] = n /\ End(a) = n + x
  BY <1>1, NewRangeIs
<1> HIDE DEF a
<1>3. a \notin R
  BY <1>1, <1>2
<1>4. ASSUME NEW i \in 0..(n + x - 1)
      PROVE  \E r \in R \cup {a} : r[1] <= i /\ i < End(r)
  <2>1. CASE i < n
    <3>1. i \in 0..(n - 1)
      BY <1>1, <2>1
    <3>2. PICK r \in R : r[1] <= i /\ i < End(r)
      BY <3>1 DEF Partitioned
    <3> QED
      BY <3>2
  <2>2. CASE ~(i < n)
    <3>1. a[1] <= i /\ i < End(a)
      BY <1>1, <1>2, <2>2
    <3> QED
      BY <3>1
  <2> QED
    BY <2>1, <2>2
<1>5. \A r, s \in R \cup {a} : r # s => End(r) <= s[1] \/ End(s) <= r[1]
  BY <1>1, <1>2 DEF Partitioned
<1>6. n + x \in Nat /\ R \cup {a} \subseteq Ranges /\ \A r \in R \cup {a} : End(r) <= n + x
  BY <1>1, <1>2
<1>7. Partitioned(R \cup {a}, n + x)
  BY <1>4, <1>5, <1>6 DEF Partitioned
<1> QED
  BY <1>3, <1>7 DEF a

--------------------------------------------------------------------------------
(* Type invariant of the id ranges.                                        *)
RangeTypeOK ==
  /\ mFreeItems \subseteq Ranges
  /\ mGroups \subseteq Ranges
  /\ mTotalItems \in Nat
  /\ reserved \subseteq Ranges
  /\ inHand \subseteq Ranges
  /\ trimming \in BOOLEAN

(* No range is in two places, and Free is about one range at most, which   *)
(* it has put back when it trims.                                          *)
OnePlaceEach ==
  /\ reserved \cap inHand = {}
  /\ (reserved \cup inHand) \cap FreeRanges = {}
  /\ mFreeItems \cap mGroups = {}

OneInHand == \A r, s \in inHand : r = s /\ ~trimming

RangeInv ==
  RangeTypeOK /\ Partitioned(AllRanges, mTotalItems) /\ OnePlaceEach /\ OneInHand

LEMMA RangeInitInv == RangeInit => RangeInv
<1> SUFFICES ASSUME RangeInit PROVE RangeInv
  OBVIOUS
<1>1. AllRanges = {} /\ mTotalItems = 0
  BY DEF RangeInit, AllRanges, FreeRanges
<1>2. Partitioned(AllRanges, mTotalItems)
  BY <1>1 DEF Partitioned
<1>3. RangeTypeOK /\ OnePlaceEach /\ OneInHand
  BY DEF RangeInit, RangeTypeOK, OnePlaceEach, OneInHand, FreeRanges
<1> QED
  BY <1>2, <1>3 DEF RangeInv

(* The top is one of the long ranges.                                      *)
LEMMA TopInQueue ==
  ASSUME RangeInv, mFreeItems # {}
  PROVE  /\ Top(mFreeItems) \in mFreeItems
         /\ \A s \in mFreeItems : s[1] <= Top(mFreeItems)[1]
<1>1. mTotalItems \in Nat /\ mFreeItems \subseteq Ranges /\ \A r \in mFreeItems : End(r) <= mTotalItems
  BY DEF RangeInv, RangeTypeOK, Partitioned, AllRanges, FreeRanges
<1> QED
  BY <1>1, TopIs

LEMMA ReserveKeepsRanges ==
  ASSUME RangeInv, NEW count \in Counts, ReserveTop(count) \/ ReserveNew(count)
  PROVE  RangeInv'
<1>1. count \in Nat \ {0}
  OBVIOUS
<1>2. CASE ReserveTop(count)
  <2> DEFINE top == Top(mFreeItems)
             low == <<top[1], top[2] - count>>
             high == <<End(top) - count, count>>
  <2>1. top \in mFreeItems /\ top \in AllRanges /\ top \in Ranges /\ top[2] >= count
    BY <1>2, TopInQueue DEF ReserveTop, RangeInv, RangeTypeOK, AllRanges, FreeRanges
  <2>2. /\ inHand = {} /\ ~trimming
        /\ mFreeItems' = mFreeItems \ {top}
        /\ reserved' = reserved \cup {high}
        /\ inHand' = IF top[2] = count THEN {} ELSE {low}
        /\ UNCHANGED <<mGroups, mTotalItems, trimming>>
    BY <1>2 DEF ReserveTop, NoCall
  <2>3. top[1] \in Nat /\ top[2] \in Nat /\ End(top) = top[1] + top[2] /\ top = <<top[1], top[2]>>
    BY <2>1, RangeIs
  <2> HIDE DEF top
  <2>4. CASE top[2] = count
    <3>1. high = top
      <4>1. End(top) - count = top[1]
        BY <1>1, <2>3, <2>4
      <4> QED
        BY <2>3, <2>4, <4>1
    <3>2. AllRanges' = AllRanges /\ mTotalItems' = mTotalItems
      BY <2>1, <2>2, <2>4, <3>1 DEF AllRanges, FreeRanges
    <3>3. Partitioned(AllRanges, mTotalItems)'
      BY <3>2 DEF RangeInv, Partitioned
    <3>4. (RangeTypeOK /\ OnePlaceEach /\ OneInHand)'
      BY <2>1, <2>2, <2>4, <3>1 DEF RangeInv, RangeTypeOK, OnePlaceEach, OneInHand, FreeRanges
    <3> QED
      BY <3>3, <3>4 DEF RangeInv
  <2>5. CASE top[2] # count
    <3>1. count < top[2]
      BY <1>1, <2>1, <2>3, <2>5
    <3>2. /\ low \notin AllRanges \ {top} /\ high \notin AllRanges \ {top} /\ low # high
          /\ Partitioned((AllRanges \ {top}) \cup {low, high}, mTotalItems)
      BY <1>1, <2>1, <3>1, SplitKeeps DEF RangeInv
    <3>3. low \in Ranges /\ high \in Ranges
      BY <3>2 DEF Partitioned
    <3> HIDE DEF low, high
    <3>4. top \notin reserved /\ top \notin mGroups
      BY <2>1 DEF RangeInv, OnePlaceEach, FreeRanges
    <3>5. AllRanges' = (AllRanges \ {top}) \cup {low, high} /\ mTotalItems' = mTotalItems
      BY <2>2, <2>5, <3>4 DEF AllRanges, FreeRanges
    <3>6. Partitioned(AllRanges', mTotalItems')
      BY <3>2, <3>5
    <3>7. (RangeTypeOK /\ OneInHand)'
      BY <2>2, <2>5, <3>3 DEF RangeInv, RangeTypeOK, OneInHand
    <3>8. OnePlaceEach'
      BY <2>2, <2>5, <3>2, <3>4 DEF RangeInv, OnePlaceEach, AllRanges, FreeRanges
    <3> QED
      BY <3>6, <3>7, <3>8 DEF RangeInv
  <2> QED
    BY <2>4, <2>5
<1>3. CASE ReserveNew(count)
  <2> DEFINE new == <<mTotalItems, count>>
  <2>1. /\ new \notin AllRanges
        /\ Partitioned(AllRanges \cup {new}, mTotalItems + count)
    BY <1>1, AddKeeps DEF RangeInv
  <2>2. new \in Ranges /\ mTotalItems + count \in Nat
    BY <2>1 DEF Partitioned
  <2> HIDE DEF new
  <2>3. /\ inHand = {} /\ ~trimming
        /\ reserved' = reserved \cup {new}
        /\ mTotalItems' = mTotalItems + count
        /\ UNCHANGED <<mFreeItems, mGroups, inHand, trimming>>
    BY <1>3 DEF ReserveNew, NoCall, new
  <2>4. AllRanges' = AllRanges \cup {new}
    BY <2>3 DEF AllRanges, FreeRanges
  <2>5. Partitioned(AllRanges', mTotalItems')
    BY <2>1, <2>3, <2>4
  <2>6. (RangeTypeOK /\ OneInHand)'
    BY <2>2, <2>3 DEF RangeInv, RangeTypeOK, OneInHand
  <2>7. OnePlaceEach'
    BY <2>1, <2>3 DEF RangeInv, OnePlaceEach, AllRanges, FreeRanges
  <2> QED
    BY <2>5, <2>6, <2>7 DEF RangeInv
<1> QED
  BY <1>2, <1>3

LEMMA FreeKeepsRanges ==
  ASSUME RangeInv, NEW range \in reserved, Free(range)
  PROVE  RangeInv'
<1>1. /\ inHand = {} /\ ~trimming
      /\ reserved' = reserved \ {range} /\ inHand' = {range}
      /\ UNCHANGED <<mFreeItems, mGroups, mTotalItems, trimming>>
  BY DEF Free, NoCall
<1>2. AllRanges' = AllRanges
  BY <1>1 DEF AllRanges, FreeRanges
<1>3. Partitioned(AllRanges', mTotalItems')
  BY <1>1, <1>2 DEF RangeInv
<1>4. (RangeTypeOK /\ OnePlaceEach /\ OneInHand)'
  BY <1>1 DEF RangeInv, RangeTypeOK, OnePlaceEach, OneInHand, FreeRanges
<1> QED
  BY <1>3, <1>4 DEF RangeInv

LEMMA MergeKeepsRanges ==
  ASSUME RangeInv, NEW range \in inHand,
         MergeWithTop(range) \/ \E group \in mGroups : MergeWithGroup(range, group)
  PROVE  RangeInv'
<1>1. inHand = {range} /\ ~trimming /\ range \in AllRanges /\ range \notin FreeRanges /\ range \notin reserved
  BY DEF RangeInv, OneInHand, OnePlaceEach, AllRanges
<1>2. CASE MergeWithTop(range)
  <2> DEFINE top == Top(mFreeItems)
             long == Joined(top, range)
  <2>1. top \in mFreeItems /\ Touches(top, range)
    BY <1>2, TopInQueue DEF MergeWithTop, TopTouches
  <2>2. /\ mFreeItems' = (mFreeItems \ {top}) \cup {long}
        /\ inHand' = {} /\ trimming' = TRUE
        /\ UNCHANGED <<mGroups, mTotalItems, reserved>>
    BY <1>2 DEF MergeWithTop
  <2> HIDE DEF top
  <2>3. top \in AllRanges /\ top # range /\ top \notin mGroups /\ top \notin reserved
    BY <1>1, <2>1 DEF RangeInv, OnePlaceEach, AllRanges, FreeRanges
  <2>4. /\ long \notin AllRanges \ {top, range}
        /\ Partitioned((AllRanges \ {top, range}) \cup {long}, mTotalItems)
    BY <1>1, <2>1, <2>3, JoinKeeps DEF RangeInv
  <2>5. long \in Ranges
    BY <2>4 DEF Partitioned
  <2> HIDE DEF long
  <2>6. AllRanges' = (AllRanges \ {top, range}) \cup {long}
    BY <1>1, <2>2, <2>3 DEF AllRanges, FreeRanges
  <2>7. Partitioned(AllRanges', mTotalItems')
    BY <2>2, <2>4, <2>6
  <2>8. (RangeTypeOK /\ OneInHand)'
    BY <2>2, <2>5 DEF RangeInv, RangeTypeOK, OneInHand
  <2>9. OnePlaceEach'
    BY <1>1, <2>2, <2>3, <2>4 DEF RangeInv, OnePlaceEach, AllRanges, FreeRanges
  <2> QED
    BY <2>7, <2>8, <2>9 DEF RangeInv
<1>3. ASSUME NEW group \in mGroups, MergeWithGroup(range, group)
      PROVE  RangeInv'
  <2> DEFINE long == Joined(group, range)
  <2>1. Touches(group, range)
    BY <1>3 DEF MergeWithGroup, Touches
  <2>2. /\ group \in AllRanges /\ group # range
        /\ group \notin mFreeItems /\ group \notin reserved
        /\ group \in Ranges /\ range \in Ranges
    BY <1>1 DEF RangeInv, RangeTypeOK, OnePlaceEach, AllRanges, FreeRanges
  <2>3. /\ group[1] \in Nat /\ group[2] \in Nat /\ range[1] \in Nat /\ range[2] \in Nat
    BY <2>2, RangeIs
  <2>4. group[1] # range[1]
    BY <1>1, <2>2, SameStart DEF RangeInv
  <2>5. Joined(range, group) = long
    <3>1. group[2] + range[2] = range[2] + group[2]
      BY <2>3
    <3>2. (IF range[1] < group[1] THEN range[1] ELSE group[1])
            = (IF group[1] < range[1] THEN group[1] ELSE range[1])
      BY <2>3, <2>4
    <3> QED
      BY <3>1, <3>2 DEF Joined
  <2>6. /\ mGroups' = mGroups \ {group} /\ inHand' = {long}
        /\ UNCHANGED <<mFreeItems, mTotalItems, reserved, trimming>>
    BY <1>3, <2>5 DEF MergeWithGroup
  <2>7. /\ long \notin AllRanges \ {group, range}
        /\ Partitioned((AllRanges \ {group, range}) \cup {long}, mTotalItems)
    BY <1>1, <2>1, <2>2, JoinKeeps DEF RangeInv
  <2>8. long \in Ranges
    BY <2>7 DEF Partitioned
  <2> HIDE DEF long
  <2>9. AllRanges' = (AllRanges \ {group, range}) \cup {long}
    BY <1>1, <2>2, <2>6 DEF AllRanges, FreeRanges
  <2>10. Partitioned(AllRanges', mTotalItems')
    BY <2>6, <2>7, <2>9
  <2>11. (RangeTypeOK /\ OneInHand)'
    BY <1>1, <2>6, <2>8 DEF RangeInv, RangeTypeOK, OneInHand
  <2>12. OnePlaceEach'
    BY <1>1, <2>2, <2>6, <2>7 DEF RangeInv, OnePlaceEach, AllRanges, FreeRanges
  <2> QED
    BY <2>10, <2>11, <2>12 DEF RangeInv
<1> QED
  BY <1>2, <1>3

LEMMA KeepFreeKeepsRanges ==
  ASSUME RangeInv, NEW range \in inHand, KeepFree(range)
  PROVE  RangeInv'
<1>1. /\ inHand = {range} /\ ~trimming /\ range \in AllRanges /\ range \in Ranges
      /\ range \notin FreeRanges /\ range \notin reserved
  BY DEF RangeInv, RangeTypeOK, OneInHand, OnePlaceEach, AllRanges
<1>2. inHand' = {} /\ UNCHANGED <<reserved, trimming>>
  BY DEF KeepFree
<1>3. CASE End(range) = mTotalItems
  <2>1. mTotalItems' = mTotalItems - range[2] /\ UNCHANGED <<mFreeItems, mGroups>>
    BY <1>3 DEF KeepFree
  <2>2. AllRanges' = AllRanges \ {range}
    BY <1>1, <1>2, <2>1 DEF AllRanges, FreeRanges
  <2>3. Partitioned(AllRanges \ {range}, mTotalItems - range[2])
    BY <1>1, <1>3, DropKeeps DEF RangeInv
  <2>4. Partitioned(AllRanges', mTotalItems') /\ mTotalItems' \in Nat
    BY <2>1, <2>2, <2>3 DEF Partitioned
  <2>5. (RangeTypeOK /\ OnePlaceEach /\ OneInHand)'
    BY <1>2, <2>1, <2>4 DEF RangeInv, RangeTypeOK, OnePlaceEach, OneInHand, FreeRanges
  <2> QED
    BY <2>4, <2>5 DEF RangeInv
<1>4. CASE End(range) # mTotalItems
  <2>1. /\ mTotalItems' = mTotalItems
        /\ \/ mFreeItems' = mFreeItems \cup {range} /\ mGroups' = mGroups
           \/ mFreeItems' = mFreeItems /\ mGroups' = mGroups \cup {range}
    BY <1>4 DEF KeepFree, AddFreeRange
  <2>2. AllRanges' = AllRanges
    BY <1>1, <1>2, <2>1 DEF AllRanges, FreeRanges
  <2>3. Partitioned(AllRanges', mTotalItems')
    BY <2>1, <2>2 DEF RangeInv
  <2>4. (RangeTypeOK /\ OneInHand)'
    BY <1>1, <1>2, <2>1 DEF RangeInv, RangeTypeOK, OneInHand
  <2>5. OnePlaceEach'
    BY <1>1, <1>2, <2>1 DEF RangeInv, OnePlaceEach, FreeRanges
  <2> QED
    BY <2>3, <2>4, <2>5 DEF RangeInv
<1> QED
  BY <1>3, <1>4

LEMMA TrimKeepsRanges ==
  ASSUME RangeInv, TrimTop
  PROVE  RangeInv'
<1>1. CASE mFreeItems # {} /\ End(Top(mFreeItems)) = mTotalItems
  <2> DEFINE top == Top(mFreeItems)
  <2>1. top \in mFreeItems /\ top \in AllRanges
    BY <1>1, TopInQueue DEF AllRanges, FreeRanges
  <2>2. End(top) = mTotalItems /\ mTotalItems' = mTotalItems - top[2] /\ mFreeItems' = mFreeItems \ {top}
        /\ UNCHANGED <<mGroups, reserved, inHand, trimming>>
    BY <1>1 DEF TrimTop
  <2> HIDE DEF top
  <2>3. Partitioned(AllRanges \ {top}, mTotalItems - top[2])
    BY <2>1, <2>2, DropKeeps DEF RangeInv
  <2>4. AllRanges' = AllRanges \ {top}
    BY <2>1, <2>2 DEF RangeInv, OnePlaceEach, AllRanges, FreeRanges
  <2>5. Partitioned(AllRanges', mTotalItems') /\ mTotalItems' \in Nat
    BY <2>2, <2>3, <2>4 DEF Partitioned
  <2>6. (RangeTypeOK /\ OnePlaceEach /\ OneInHand)'
    BY <2>2, <2>5 DEF RangeInv, RangeTypeOK, OnePlaceEach, OneInHand, FreeRanges
  <2> QED
    BY <2>5, <2>6 DEF RangeInv
<1>2. CASE ~(mFreeItems # {} /\ End(Top(mFreeItems)) = mTotalItems)
  <2>1. trimming' = FALSE /\ UNCHANGED <<mTotalItems, mFreeItems, mGroups, reserved, inHand>>
    BY <1>2 DEF TrimTop
  <2>2. AllRanges' = AllRanges
    BY <2>1 DEF AllRanges, FreeRanges
  <2>3. Partitioned(AllRanges', mTotalItems')
    BY <2>1, <2>2 DEF RangeInv
  <2>4. (RangeTypeOK /\ OnePlaceEach /\ OneInHand)'
    BY <2>1 DEF RangeInv, RangeTypeOK, OnePlaceEach, OneInHand, FreeRanges
  <2> QED
    BY <2>3, <2>4 DEF RangeInv
<1> QED
  BY <1>1, <1>2

LEMMA RangeStepInv == RangeInv /\ [RangeNext]_rangeVars => RangeInv'
<1> SUFFICES ASSUME RangeInv, [RangeNext]_rangeVars PROVE RangeInv'
  OBVIOUS
<1>1. ASSUME NEW count \in Counts, ReserveTop(count) \/ ReserveNew(count)
      PROVE  RangeInv'
  BY <1>1, ReserveKeepsRanges
<1>2. ASSUME NEW range \in reserved, Free(range)
      PROVE  RangeInv'
  BY <1>2, FreeKeepsRanges
<1>3. ASSUME NEW range \in inHand,
             MergeWithTop(range) \/ \E group \in mGroups : MergeWithGroup(range, group)
      PROVE  RangeInv'
  BY <1>3, MergeKeepsRanges
<1>4. ASSUME NEW range \in inHand, KeepFree(range)
      PROVE  RangeInv'
  BY <1>4, KeepFreeKeepsRanges
<1>5. CASE TrimTop
  BY <1>5, TrimKeepsRanges
<1>6. CASE UNCHANGED rangeVars
  <2>1. AllRanges' = AllRanges
    BY <1>6 DEF rangeVars, AllRanges, FreeRanges
  <2>2. Partitioned(AllRanges', mTotalItems')
    BY <1>6, <2>1 DEF rangeVars, RangeInv
  <2> QED
    BY <1>6, <2>2 DEF rangeVars, RangeInv, RangeTypeOK, OnePlaceEach, OneInHand, FreeRanges
<1> QED
  BY <1>1, <1>2, <1>3, <1>4, <1>5, <1>6 DEF RangeNext

LEMMA RangeInvariant == RangeSpec => []RangeInv
  BY RangeInitInv, RangeStepInv, PTL DEF RangeSpec

(* In terms of the ids this is the property.                               *)
LEMMA RangeInvGivesPartition == RangeInv => IdsArePartitioned
<1> SUFFICES ASSUME RangeInv PROVE IdsArePartitioned
  OBVIOUS
<1>1. /\ mTotalItems \in Nat
      /\ \A r \in AllRanges : r \in Ranges /\ r[1] \in Nat /\ End(r) \in Nat /\ End(r) <= mTotalItems
  BY RangeIs DEF RangeInv, Partitioned
<1>2. ASSUME NEW r \in AllRanges, NEW s \in AllRanges, r # s
      PROVE  Ids(r) \cap Ids(s) = {}
  <2>1. End(r) <= s[1] \/ End(s) <= r[1]
    BY <1>2 DEF RangeInv, Partitioned
  <2>2. ASSUME NEW i \in Ids(r), i \in Ids(s)
        PROVE  FALSE
    <3>1. i \in r[1]..(End(r) - 1) /\ i \in s[1]..(End(s) - 1)
      BY <2>2 DEF Ids
    <3> QED
      BY <1>1, <2>1, <3>1
  <2> QED
    BY <2>2
<1>3. ASSUME NEW r \in AllRanges, NEW i \in Ids(r)
      PROVE  i \in 0..(mTotalItems - 1)
  <2>1. i \in r[1]..(End(r) - 1)
    BY DEF Ids
  <2> QED
    BY <1>1, <2>1
<1>4. ASSUME NEW i \in 0..(mTotalItems - 1)
      PROVE  \E r \in AllRanges : i \in Ids(r)
  <2>1. PICK r \in AllRanges : r[1] <= i /\ i < End(r)
    BY DEF RangeInv, Partitioned
  <2>2. i \in r[1]..(End(r) - 1)
    BY <1>1, <2>1
  <2> QED
    BY <2>2 DEF Ids
<1>5. UNION {Ids(r) : r \in AllRanges} = 0..(mTotalItems - 1)
  BY <1>3, <1>4
<1> QED
  BY <1>2, <1>5 DEF RangeInv, OnePlaceEach, IdsArePartitioned

(* IdRangePool::Reserve never hands out an id that is in use, and Free and *)
(* Reserve lose none: at each step of any sequence of calls the reserved,  *)
(* the free and the range in between split the ids below mTotalItems.      *)
THEOREM IdsStayPartitioned == RangeSpec => []IdsArePartitioned
  BY RangeInvariant, RangeInvGivesPartition, PTL

(* The ranges of IdRangePool are never empty and begin at a number.        *)
THEOREM RangeTypeCorrect == RangeSpec => []RangeTypeOK
  BY RangeInvariant, PTL DEF RangeInv

(* ION_ASSERT in IdRangePool::Free: a range in hand ends where the ids end *)
(* or before, and the top does not begin where it does; and in             *)
(* AddFreeRange: neither does a range of the maps, or end where it ends.   *)
RangeAssertionsHold ==
  \A range \in inHand :
    /\ range[2] > 0 /\ End(range) <= mTotalItems
    /\ mFreeItems # {} => Top(mFreeItems)[1] # range[1]
    /\ \A g \in mGroups : g[1] # range[1] /\ End(g) # End(range)

(* Free changes the first id of the top where it is in the priority queue, *)
(* without a Pop and a Push; it is still the highest of the queue.         *)
TopStaysHighest(range) ==
  MergeWithTop(range) => Top(mFreeItems') = Joined(Top(mFreeItems), range)

LEMMA RangeInvGivesAssertions == RangeInv => RangeAssertionsHold
<1> SUFFICES ASSUME RangeInv, NEW range \in inHand
             PROVE  /\ range[2] > 0 /\ End(range) <= mTotalItems
                    /\ mFreeItems # {} => Top(mFreeItems)[1] # range[1]
                    /\ \A g \in mGroups : g[1] # range[1] /\ End(g) # End(range)
  BY DEF RangeAssertionsHold
<1>1. /\ range \in AllRanges /\ mGroups \subseteq AllRanges /\ mFreeItems \subseteq AllRanges
      /\ range \notin mGroups /\ range \notin mFreeItems
  BY DEF RangeInv, OnePlaceEach, AllRanges, FreeRanges
<1>2. \A r \in AllRanges : /\ r[1] \in Nat /\ r[2] \in Nat \ {0} /\ End(r) \in Nat
                           /\ r[1] < End(r) /\ End(r) <= mTotalItems
  BY RangeIs DEF RangeInv, Partitioned
<1>3. mFreeItems # {} => Top(mFreeItems)[1] # range[1]
  BY <1>1, TopInQueue, SameStart DEF RangeInv
<1>4. ASSUME NEW g \in mGroups
      PROVE  g[1] # range[1] /\ End(g) # End(range)
  <2>1. End(g) <= range[1] \/ End(range) <= g[1]
    BY <1>1 DEF RangeInv, Partitioned
  <2> QED
    BY <1>1, <1>2, <2>1
<1> QED
  BY <1>1, <1>2, <1>3, <1>4

LEMMA MergeKeepsTop ==
  ASSUME RangeInv, RangeInv', NEW range \in inHand
  PROVE  TopStaysHighest(range)
<1> SUFFICES ASSUME MergeWithTop(range)
             PROVE  Top(mFreeItems') = Joined(Top(mFreeItems), range)
  BY DEF TopStaysHighest
<1> DEFINE top == Top(mFreeItems)
           long == Joined(top, range)
           next == Top(mFreeItems')
<1>1. /\ top \in mFreeItems /\ \A s \in mFreeItems : s[1] <= top[1]
      /\ Touches(top, range)
  BY TopInQueue DEF MergeWithTop, TopTouches
<1>2. /\ mFreeItems' = (mFreeItems \ {top}) \cup {long}
      /\ mTotalItems' = mTotalItems
  BY DEF MergeWithTop
<1>3. /\ mTotalItems \in Nat
      /\ \A r \in mFreeItems' : r \in Ranges /\ End(r) <= mTotalItems
      /\ \A r \in mFreeItems' : r \in AllRanges'
  BY <1>2 DEF RangeInv, RangeTypeOK, Partitioned, AllRanges, FreeRanges
<1>4. next \in mFreeItems' /\ \A s \in mFreeItems' : s[1] <= next[1]
  <2>1. mFreeItems' \subseteq Ranges /\ mFreeItems' # {}
    BY <1>2, <1>3
  <2> QED
    BY <1>3, <2>1, TopIs
<1> HIDE DEF next
<1>5. /\ top \in AllRanges /\ range \in AllRanges /\ top # range /\ range \notin mFreeItems
      /\ top \in Ranges /\ range \in Ranges
  BY <1>1 DEF RangeInv, RangeTypeOK, OnePlaceEach, AllRanges, FreeRanges
<1> HIDE DEF top
<1>6. /\ top[1] \in Nat /\ End(top) \in Nat /\ top[1] < End(top)
      /\ range[1] \in Nat /\ End(range) \in Nat /\ range[1] < End(range)
      /\ \/ top[1] = End(range) /\ long[1] = range[1]
         \/ End(top) = range[1] /\ long[1] = top[1]
  BY <1>1, <1>5, JoinedIs, RangeIs
<1> HIDE DEF long
<1>7. ASSUME NEW s \in mFreeItems, s # top
      PROVE  s[1] < long[1]
  <2>1. /\ s \in AllRanges /\ s \in Ranges /\ s # range
    BY <1>5 DEF RangeInv, RangeTypeOK, AllRanges, FreeRanges
  <2>2. s[1] \in Nat /\ End(s) \in Nat /\ s[1] < End(s)
    BY <2>1, RangeIs
  <2>3. /\ End(s) <= top[1] \/ End(top) <= s[1]
        /\ End(s) <= range[1] \/ End(range) <= s[1]
    BY <1>5, <1>7, <2>1 DEF RangeInv, Partitioned
  <2>4. s[1] <= top[1]
    BY <1>1
  <2> QED
    BY <1>6, <2>2, <2>3, <2>4
<1>8. long[1] \in Nat /\ \A s \in mFreeItems : s[1] \in Nat
  <2>1. \A s \in mFreeItems : s \in Ranges
    BY DEF RangeInv, RangeTypeOK
  <2> QED
    BY <1>6, <2>1, RangeIs
<1>9. long \in mFreeItems' /\ long[1] <= next[1]
  BY <1>2, <1>4
<1>10. next = long
  BY <1>2, <1>4, <1>7, <1>8, <1>9
<1> QED
  BY <1>10 DEF next, long, top

(* No ION_ASSERT of IdRangePool fails, whatever ranges are reserved and    *)
(* freed and in whatever order.                                            *)
THEOREM RangePoolAssertionsHold == RangeSpec => []RangeAssertionsHold
  BY RangeInvariant, RangeInvGivesAssertions, PTL

(* A top that Free merges with the range in hand is the highest range of   *)
(* the priority queue afterwards, so changing it in place keeps the queue  *)
(* in order.                                                               *)
THEOREM MergedTopStaysHighest ==
  RangeSpec => [][\A range \in inHand : TopStaysHighest(range)]_rangeVars
<1>1. RangeInv /\ RangeInv' => \A range \in inHand : TopStaysHighest(range)
  BY MergeKeepsTop
<1> QED
  BY <1>1, RangeInvariant, RangeStepInv, PTL DEF RangeSpec

================================================================================
