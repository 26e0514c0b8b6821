------------------------------- MODULE RingBuffer -------------------------------
(***************************************************************************)
(* DynamicRingBuffer (container/RingBuffer.h), the list that a job queue   *)
(* keeps its tasks in: a RingBuffer of fixed size and, when that is full,  *)
(* a Deque behind it.  The owner of a queue takes from the front, thieves  *)
(* from the back, and a thread that waits for a job from the middle, so    *)
(* the ring may have room again while there are elements behind it.        *)
(***************************************************************************)
EXTENDS Integers, Sequences, SequencesExt

CONSTANTS
  Values,    \* elements
  RingSize,  \* the size of the ring
  MaxItems   \* bound: elements at a time

ASSUME RingAssumption == RingSize \in Nat \ {0} /\ MaxItems \in Nat

VARIABLES
  ring,           \* mRingBuffer: its mBuffer, mReadPos and mNumElems
  mBackOverflow,  \* the elements behind the ring
  items           \* the list that this is to be

ringVars == <<ring, mBackOverflow, items>>

Mod(val) == val % RingSize

(* The element at pos, counted from mReadPos.                              *)
At(r, pos) == r.mBuffer[Mod(r.mReadPos + pos)]

Elements(r) == [k \in 1..r.mNumElems |-> At(r, k - 1)]

IsFull(r) == r.mNumElems = RingSize

RingPushFront(r, val) ==
  LET readPos == IF r.mReadPos # 0 THEN r.mReadPos - 1 ELSE RingSize - 1 IN
  [mBuffer |-> [r.mBuffer EXCEPT ![readPos] = val], mReadPos |-> readPos,
   mNumElems |-> r.mNumElems + 1]

RingPushBack(r, val) ==
  [r EXCEPT !.mBuffer[Mod(r.mReadPos + r.mNumElems)] = val, !.mNumElems = @ + 1]

RingPopFront(r) ==
  [r EXCEPT !.mReadPos = IF @ + 1 = RingSize THEN 0 ELSE @ + 1, !.mNumElems = @ - 1]

RingPopBack(r) == [r EXCEPT !.mNumElems = @ - 1]

(* The elements before pos are moved forward by one place; if these are    *)
(* cut in two by the end of the buffer, those behind pos are moved back.   *)
RingErase(r, pos) ==
  LET mpos == Mod(r.mReadPos + pos)
      lastPos == Mod(r.mReadPos + r.mNumElems - 1)
  IN IF r.mReadPos <= mpos
       THEN RingPopFront([r EXCEPT !.mBuffer = [k \in 0..RingSize - 1 |->
              IF r.mReadPos < k /\ k <= mpos THEN r.mBuffer[k - 1] ELSE r.mBuffer[k]]])
       ELSE RingPopBack([r EXCEPT !.mBuffer = [k \in 0..RingSize - 1 |->
              IF mpos <= k /\ k < lastPos THEN r.mBuffer[k + 1] ELSE r.mBuffer[k]]])

--------------------------------------------------------------------------------
RingInit ==
  /\ ring \in [mBuffer : {[k \in 0..RingSize - 1 |-> v] : v \in Values}, mReadPos : {0},
               mNumElems : {0}]
  /\ mBackOverflow = <<>>
  /\ items = <<>>

PushFront(val) ==
  /\ Len(items) < MaxItems
  /\ items' = <<val>> \o items
  /\ IF IsFull(ring)
       THEN /\ mBackOverflow' = <<At(ring, RingSize - 1)>> \o mBackOverflow
            /\ ring' = RingPushFront(RingPopBack(ring), val)
       ELSE ring' = RingPushFront(ring, val) /\ UNCHANGED mBackOverflow

(* Mutant: the ring is used again as soon as it has room.                  *)
PushBackIntoRing(val) ==
  /\ Len(items) < MaxItems
  /\ items' = Append(items, val)
  /\ IF ~IsFull(ring)
       THEN ring' = RingPushBack(ring, val) /\ UNCHANGED mBackOverflow
       ELSE mBackOverflow' = Append(mBackOverflow, val) /\ UNCHANGED ring

PushBack(val) ==
  /\ Len(items) < MaxItems
  /\ items' = Append(items, val)
  /\ IF ~IsFull(ring) /\ mBackOverflow = <<>>
       THEN ring' = RingPushBack(ring, val) /\ UNCHANGED mBackOverflow
       ELSE mBackOverflow' = Append(mBackOverflow, val) /\ UNCHANGED ring

PopFront ==
  /\ items # <<>>
  /\ items' = Tail(items)
  /\ IF ring.mNumElems > 0
       THEN ring' = RingPopFront(ring) /\ UNCHANGED mBackOverflow
       ELSE mBackOverflow' = Tail(mBackOverflow) /\ UNCHANGED ring

PopBack ==
  /\ items # <<>>
  /\ items' = Front(items)
  /\ IF mBackOverflow = <<>>
       THEN ring' = RingPopBack(ring) /\ UNCHANGED mBackOverflow
       ELSE mBackOverflow' = Front(mBackOverflow) /\ UNCHANGED ring

Erase(pos) ==
  /\ pos < Len(items)
  /\ items' = RemoveAt(items, pos + 1)
  /\ IF pos < ring.mNumElems
       THEN ring' = RingErase(ring, pos) /\ UNCHANGED mBackOverflow
       ELSE mBackOverflow' = RemoveAt(mBackOverflow, pos - ring.mNumElems + 1) /\ UNCHANGED ring

RingNext ==
  \/ \E val \in Values : PushFront(val) \/ PushBack(val)
  \/ PopFront
  \/ PopBack
  \/ \E pos \in 0..MaxItems - 1 : Erase(pos)

RingSpec == RingInit /\ [][RingNext]_ringVars

--------------------------------------------------------------------------------
(* Whatever the sequence of calls, ring and overflow hold the list in its  *)
(* order: tasks that went over the end do not overtake each other, and     *)
(* erasing one from the middle takes no other.                             *)
HoldsTheList == Elements(ring) \o mBackOverflow = items
================================================================================
