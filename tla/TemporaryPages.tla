----------------------------- MODULE TemporaryPages -----------------------------
(***************************************************************************)
(* The pages of the temporary allocator (temporary/TemporaryAllocator.h,   *)
(* .cpp).  A thread allocates from the pages of its own pool by moving     *)
(* mBufferPos; any thread releases, which only counts: a page is empty     *)
(* when mTotalConsumed has caught up with mTotalProduced, and is then used *)
(* from its start again.  A pool is purged by its thread when that ends,   *)
(* or else by a thread that releases one of its blocks.                    *)
(*                                                                         *)
(* There is one pool, of a thread that ends; the pool of another thread    *)
(* shares nothing with it.  A block has the size 1.  The first page is     *)
(* mDefaultPage.  The address of a purged pool is not used again here.     *)
(***************************************************************************)
EXTENDS Integers

CONSTANTS
  Releasers,  \* threads that release blocks, the pool's own may be one
  MaxPages,   \* MaxPagesPerThread
  TSize,      \* blocks in a page
  MaxBlocks,  \* bound: allocations
  None        \* no block, no page

VARIABLES
  mTotalProduced,  \* mTotalProduced[i]: of page i
  mTotalConsumed,  \* mTotalConsumed[i]
  mBufferPos,      \* mBufferPos[i]
  mIsRemoving,     \* mIsRemoving[i]
  numPages,        \* how many pages there are
  mCurrentPage,    \* the page that allocations are from
  scanned,         \* the page that GetNextPage is to look at, or None
  peeked,          \* the block that Peek returned and Acquire has not, or None
  blocks,          \* the blocks that are in use, or being released
  ownerPc,         \* the pool's thread: "using", "marked": in ThreadDeinit, or
                   \* "ended"
  registered,      \* FALSE: purged and deleted
  releasePc,       \* releasePc[t]: where t is in Release, see ReleaserPcs
  releasing,       \* releasing[t]: the block that t releases, or None
  allocated        \* allocations

temporaryVars ==
  <<mTotalProduced, mTotalConsumed, mBufferPos, mIsRemoving, numPages, mCurrentPage,
    scanned, peeked, blocks, ownerPc, registered, releasePc, releasing, allocated>>

pageVars == <<mTotalProduced, mTotalConsumed, mBufferPos, mIsRemoving>>
ownerVars == <<numPages, mCurrentPage, scanned, peeked, ownerPc, allocated>>

Pages == 1..MaxPages
Blocks == Pages \X (0..TSize - 1)

ASSUME PagesAssumption ==
  /\ MaxPages \in Nat \ {0} /\ TSize \in Nat \ {0} /\ MaxBlocks \in Nat
  /\ None \notin Pages /\ None \notin Blocks

(* "added": counted the block; "compare": read mIsRemoving, TRUE; "defer": *)
(* about to call ThreadDeferDeinit.                                        *)
ReleaserPcs == {"idle", "add", "added", "compare", "defer"}

PagesTypeOK ==
  /\ mTotalProduced \in [Pages -> Nat]
  /\ mTotalConsumed \in [Pages -> Nat]
  /\ mBufferPos \in [Pages -> 0..TSize]
  /\ mIsRemoving \in [Pages -> BOOLEAN]
  /\ numPages \in Pages
  /\ mCurrentPage \in Pages
  /\ scanned \in Pages \cup {None}
  /\ peeked \in Blocks \cup {None}
  /\ blocks \subseteq Blocks
  /\ ownerPc \in {"using", "marked", "ended"}
  /\ registered \in BOOLEAN
  /\ releasePc \in [Releasers -> ReleaserPcs]
  /\ releasing \in [Releasers -> Blocks \cup {None}]
  /\ allocated \in 0..MaxBlocks

PagesInit ==
  /\ mTotalProduced = [i \in Pages |-> 0]
  /\ mTotalConsumed = [i \in Pages |-> 0]
  /\ mBufferPos = [i \in Pages |-> 0]
  /\ mIsRemoving = [i \in Pages |-> FALSE]
  /\ numPages = 1
  /\ mCurrentPage = 1
  /\ scanned = None
  /\ peeked = None
  /\ blocks = {}
  /\ ownerPc = "using"
  /\ registered = TRUE
  /\ releasePc = [t \in Releasers |-> "idle"]
  /\ releasing = [t \in Releasers |-> None]
  /\ allocated = 0

IsEmpty(i) == mTotalProduced[i] = mTotalConsumed[i]

--------------------------------------------------------------------------------
(* The pool's thread.  Only it makes an empty page non-empty, so what it   *)
(* does after it found a page empty is one action with the test.           *)

(* Peek, with the page emptied if everything in it was released.           *)
Peek(i) ==
  /\ mTotalProduced' = [mTotalProduced EXCEPT ![i] = IF IsEmpty(i) THEN 0 ELSE @]
  /\ mTotalConsumed' = [mTotalConsumed EXCEPT ![i] = IF IsEmpty(i) THEN 0 ELSE @]
  /\ mBufferPos' = [mBufferPos EXCEPT ![i] = IF IsEmpty(i) THEN 0 ELSE @]
  /\ peeked' = <<i, mBufferPos'[i]>>
  /\ mCurrentPage' = i
  /\ allocated' = allocated + 1
  /\ UNCHANGED <<mIsRemoving, blocks, ownerPc, registered, releasePc, releasing>>

MayAllocate == ownerPc = "using" /\ peeked = None /\ allocated < MaxBlocks

(* AllocateTwoPhasePre and the first half of AllocateRaw.  The backup      *)
(* allocator that is used without a page, or during another allocation, is *)
(* left out.                                                               *)
GetPage ==
  /\ MayAllocate
  /\ scanned = None
  /\ \/ /\ mBufferPos[mCurrentPage] < TSize
        /\ Peek(mCurrentPage)
        /\ UNCHANGED <<numPages, scanned>>
     \/ /\ mBufferPos[mCurrentPage] = TSize
        /\ scanned' = 1
        /\ UNCHANGED <<pageVars, numPages, mCurrentPage, peeked, blocks, ownerPc, registered,
                       releasePc, releasing, allocated>>

(* New pages are linked behind mDefaultPage: 1, then the newest first.     *)
NextPage(i) == IF i = 1 THEN numPages ELSE i - 1

IsLast(i) == NextPage(i) = 1

(* Mutant: the page behind the last that was used is taken as it is.       *)
GetNextPageBlindly ==
  /\ scanned # None
  /\ scanned' = None
  /\ mTotalProduced' = [mTotalProduced EXCEPT ![scanned] = 0]
  /\ mTotalConsumed' = [mTotalConsumed EXCEPT ![scanned] = 0]
  /\ mBufferPos' = [mBufferPos EXCEPT ![scanned] = 0]
  /\ peeked' = <<scanned, 0>>
  /\ mCurrentPage' = scanned
  /\ allocated' = allocated + 1
  /\ UNCHANGED <<numPages, mIsRemoving, blocks, ownerPc, registered, releasePc, releasing>>

(* GetNextPage looks at one page after the other and takes the first that  *)
(* is empty, or a new one.                                                 *)
GetNextPage ==
  /\ scanned # None
  /\ \/ /\ IsEmpty(scanned)
        /\ Peek(scanned)
        /\ scanned' = None
        /\ UNCHANGED numPages
     \/ /\ ~IsEmpty(scanned) /\ ~IsLast(scanned)
        /\ scanned' = NextPage(scanned)
        /\ UNCHANGED <<pageVars, numPages, mCurrentPage, peeked, blocks, ownerPc, registered,
                       releasePc, releasing, allocated>>
     \/ /\ ~IsEmpty(scanned) /\ IsLast(scanned)
        /\ scanned' = None
        /\ IF numPages = MaxPages
             THEN UNCHANGED <<pageVars, numPages, mCurrentPage, peeked, blocks, ownerPc, registered,
                              releasePc, releasing, allocated>>
             ELSE numPages' = numPages + 1 /\ Peek(numPages + 1)

Acquire ==
  /\ peeked # None
  /\ LET i == peeked[1] IN
     /\ mTotalProduced' = [mTotalProduced EXCEPT ![i] = @ + 1]
     /\ mBufferPos' = [mBufferPos EXCEPT ![i] = @ + 1]
  /\ blocks' = blocks \cup {peeked}
  /\ peeked' = None
  /\ UNCHANGED <<mTotalConsumed, mIsRemoving, numPages, mCurrentPage, scanned, ownerPc, registered,
                 releasePc, releasing, allocated>>

(* ThreadDeinit, with the registry locked: MarkRemoving ...                *)
MarkRemoving ==
  /\ ownerPc = "using"
  /\ peeked = None
  /\ scanned = None
  /\ ownerPc' = "marked"
  /\ mIsRemoving' = [i \in Pages |-> i <= numPages]
  /\ UNCHANGED <<mTotalProduced, mTotalConsumed, mBufferPos, numPages, mCurrentPage, scanned,
                 peeked, blocks, registered, releasePc, releasing, allocated>>

(* Mutant: only the first page is looked at.                               *)
CanPurgeFirst == IsEmpty(1)

CanPurge == \A i \in 1..numPages : IsEmpty(i)

(* ... and TryPurgePool.                                                   *)
ThreadDeinit ==
  /\ ownerPc = "marked"
  /\ ownerPc' = "ended"
  /\ registered' = ~CanPurge
  /\ UNCHANGED <<pageVars, numPages, mCurrentPage, scanned, peeked, blocks, releasePc, releasing,
                 allocated>>

--------------------------------------------------------------------------------
(* Release                                                                 *)

ReleaserGoes(t, from, to) == releasePc[t] = from /\ releasePc' = [releasePc EXCEPT ![t] = to]

DeallocateRaw(t) ==
  /\ ReleaserGoes(t, "idle", "add")
  /\ \E b \in blocks :
       /\ \A u \in Releasers : ~(releasePc[u] = "add" /\ releasing[u] = b)
       /\ releasing' = [releasing EXCEPT ![t] = b]
  /\ UNCHANGED <<pageVars, blocks, registered, ownerVars>>

(* The block is free for its page once it is counted.                      *)
Release(t) ==
  /\ ReleaserGoes(t, "add", "added")
  /\ mTotalConsumed' = [mTotalConsumed EXCEPT ![releasing[t][1]] = @ + 1]
  /\ blocks' = blocks \ {releasing[t]}
  /\ UNCHANGED <<mTotalProduced, mBufferPos, mIsRemoving, registered, releasing, ownerVars>>

(* The page may be purged by now: then the memory says anything.           *)
ReadIsRemoving(t) ==
  /\ releasePc[t] = "added"
  /\ \E isRemoving \in IF registered THEN {mIsRemoving[releasing[t][1]]} ELSE BOOLEAN :
       /\ releasePc' = [releasePc EXCEPT ![t] = IF isRemoving THEN "compare" ELSE "idle"]
       /\ releasing' = IF isRemoving THEN releasing ELSE [releasing EXCEPT ![t] = None]
  /\ UNCHANGED <<pageVars, blocks, registered, ownerVars>>

Compare(t) ==
  /\ releasePc[t] = "compare"
  /\ \E isEmpty \in IF registered THEN {IsEmpty(releasing[t][1])} ELSE BOOLEAN :
       /\ releasePc' = [releasePc EXCEPT ![t] = IF isEmpty THEN "defer" ELSE "idle"]
       /\ releasing' = IF isEmpty THEN releasing ELSE [releasing EXCEPT ![t] = None]
  /\ UNCHANGED <<pageVars, blocks, registered, ownerVars>>

(* With the registry locked; a pool that is gone is not found.             *)
ThreadDeferDeinit(t) ==
  /\ ReleaserGoes(t, "defer", "idle")
  /\ ownerPc # "marked"
  /\ registered' = (registered /\ ~CanPurge)
  /\ releasing' = [releasing EXCEPT ![t] = None]
  /\ UNCHANGED <<pageVars, blocks, ownerVars>>

--------------------------------------------------------------------------------
ReleaserStep(t) == Release(t) \/ ReadIsRemoving(t) \/ Compare(t) \/ ThreadDeferDeinit(t)

PagesNext ==
  \/ GetPage
  \/ GetNextPage
  \/ Acquire
  \/ MarkRemoving
  \/ ThreadDeinit
  \/ \E t \in Releasers : DeallocateRaw(t) \/ ReleaserStep(t)

PagesSpec == PagesInit /\ [][PagesNext]_temporaryVars

--------------------------------------------------------------------------------
(* Properties                                                              *)

(* No memory is handed out twice: the block that an allocation is about to *)
(* return, or to write its message into, is not in use.                    *)
BlocksAreDistinct == peeked \notin blocks

(* Release's assertion "Invalid number of bytes consumed": a page counts   *)
(* as many blocks produced and not consumed as are in use, so it is never  *)
(* reset while a block of it is in use.                                    *)
PagesAreCounted ==
  registered => \A i \in Pages :
    /\ mTotalConsumed[i] <= mTotalProduced[i]
    /\ IsEmpty(i) => \A b \in blocks : b[1] # i

(* A pool is purged after its thread has ended, when no block of it is in  *)
(* use.                                                                    *)
PurgedUnused == ~registered => ownerPc = "ended" /\ blocks = {}

(* The pool of a thread that has ended is purged when its last block has   *)
(* been released: of the threads that release and the one that ends, each  *)
(* may leave it to another, and one does it.                               *)
EndedPoolIsPurged ==
  ownerPc = "ended" /\ blocks = {} /\ (\A t \in Releasers : releasePc[t] = "idle") => ~registered

(* Both: a pool is purged neither too early nor never.                     *)
PurgedWhenUnused == PurgedUnused /\ EndedPoolIsPurged
================================================================================
