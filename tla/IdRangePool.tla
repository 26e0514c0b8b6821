------------------------------- MODULE IdRangePool -------------------------------
(***************************************************************************)
(* IdRangePool (util/IdRangePool.h): ranges of ids that are reserved and   *)
(* freed, the places of a ComponentDataVector.  Free ranges are kept in    *)
(* two ways: long ones in a priority queue with the highest on top, short  *)
(* ones in two maps by their first id and by the id behind their last one. *)
(* A range that is freed is merged with the top or with its neighbours in  *)
(* the maps.  The maps always hold the same ranges and are one set here.   *)
(* One step is one round of the loops in Free; a call begins when the      *)
(* call before it has returned.                                            *)
(***************************************************************************)
EXTENDS Integers, FiniteSets

CONSTANTS
  SmallRangeSize,  \* the longest range that goes into the maps
  Counts,          \* lengths that are asked for
  MaxTotal         \* bound: the highest mTotalItems

ASSUME RangeAssumption ==
  SmallRangeSize \in Nat /\ Counts \subseteq Nat \ {0} /\ MaxTotal \in Nat

VARIABLES
  mFreeItems,   \* the long ranges
  mGroups,      \* mGroupStartIndices and mGroupEndIndices: the short ranges
  mTotalItems,
  reserved,     \* the ranges that were reserved and not freed
  inHand,       \* the range that Free is about, none or one
  trimming      \* Free is in its inner loop, where the top ends the ids

rangeVars == <<mFreeItems, mGroups, mTotalItems, reserved, inHand, trimming>>

(* A range is its first id and its length.                                 *)
End(range) == range[1] + range[2]

Ids(range) == range[1]..(End(range) - 1)

Top(items) == CHOOSE r \in items : \A s \in items : s[1] <= r[1]

(* Mutant: a range behind the other makes it longer, and so does one       *)
(* before it.                                                              *)
JoinedBehind(a, b) == <<a[1], a[2] + b[2]>>

Joined(a, b) == <<IF a[1] < b[1] THEN a[1] ELSE b[1], a[2] + b[2]>>

Touches(top, range) == top[1] = End(range) \/ End(top) = range[1]

TopTouches(range) == mFreeItems # {} /\ Touches(Top(mFreeItems), range)

RangeInit ==
  /\ mFreeItems = {} /\ mGroups = {} /\ mTotalItems = 0
  /\ reserved = {}
  /\ inHand = {} /\ trimming = FALSE

NoCall == inHand = {} /\ ~trimming

(* The end of the top if that is long enough; what is left of it is freed. *)
ReserveTop(count) ==
  /\ NoCall
  /\ mFreeItems # {} /\ Top(mFreeItems)[2] >= count
  /\ LET top == Top(mFreeItems) IN
     /\ mFreeItems' = mFreeItems \ {top}
     /\ reserved' = reserved \cup {<<End(top) - count, count>>}
     /\ inHand' = IF top[2] = count THEN {} ELSE {<<top[1], top[2] - count>>}
  /\ UNCHANGED <<mGroups, mTotalItems, trimming>>

(* Else new ids.                                                           *)
ReserveNew(count) ==
  /\ NoCall
  /\ mFreeItems # {} => Top(mFreeItems)[2] < count
  /\ mTotalItems + count <= MaxTotal
  /\ reserved' = reserved \cup {<<mTotalItems, count>>}
  /\ mTotalItems' = mTotalItems + count
  /\ UNCHANGED <<mFreeItems, mGroups, inHand, trimming>>

Free(range) ==
  /\ NoCall
  /\ range \in reserved
  /\ reserved' = reserved \ {range}
  /\ inHand' = {range}
  /\ UNCHANGED <<mFreeItems, mGroups, mTotalItems, trimming>>

(* TryMatch makes the top longer where it is in the queue; trimming may    *)
(* remove it.                                                              *)
MergeWithTop(range) ==
  /\ range \in inHand /\ TopTouches(range)
  /\ LET top == Top(mFreeItems) IN
     mFreeItems' = (mFreeItems \ {top}) \cup {Joined(top, range)}
  /\ inHand' = {}
  /\ trimming' = TRUE
  /\ UNCHANGED <<mGroups, mTotalItems, reserved>>

(* A top that ends where the ids end is removed, and so on.                *)
TrimTop ==
  /\ trimming
  /\ IF mFreeItems # {} /\ End(Top(mFreeItems)) = mTotalItems
     THEN /\ mTotalItems' = mTotalItems - Top(mFreeItems)[2]
          /\ mFreeItems' = mFreeItems \ {Top(mFreeItems)}
          /\ UNCHANGED trimming
     ELSE /\ trimming' = FALSE
          /\ UNCHANGED <<mTotalItems, mFreeItems>>
  /\ UNCHANGED <<mGroups, reserved, inHand>>

(* The next range of the maps comes before the previous one; Free goes on  *)
(* with the longer range.                                                  *)
MergeWithGroup(range, group) ==
  /\ range \in inHand /\ ~TopTouches(range)
  /\ group \in mGroups
  /\ \/ group[1] = End(range)
     \/ End(group) = range[1] /\ \A g \in mGroups : g[1] # End(range)
  /\ mGroups' = mGroups \ {group}
  /\ inHand' = {Joined(range, group)}
  /\ UNCHANGED <<mFreeItems, mTotalItems, reserved, trimming>>

AddFreeRange(range) ==
  IF range[2] > SmallRangeSize
  THEN mFreeItems' = mFreeItems \cup {range} /\ UNCHANGED mGroups
  ELSE mGroups' = mGroups \cup {range} /\ UNCHANGED mFreeItems

(* Nothing to merge with is left.                                          *)
KeepFree(range) ==
  /\ range \in inHand /\ ~TopTouches(range)
  /\ \A g \in mGroups : ~Touches(g, range)
  /\ inHand' = {}
  /\ IF End(range) = mTotalItems
     THEN mTotalItems' = mTotalItems - range[2] /\ UNCHANGED <<mFreeItems, mGroups>>
     ELSE AddFreeRange(range) /\ UNCHANGED mTotalItems
  /\ UNCHANGED <<reserved, trimming>>

RangeNext ==
  \/ \E count \in Counts : ReserveTop(count) \/ ReserveNew(count)
  \/ \E range \in reserved : Free(range)
  \/ \E range \in inHand :
       \/ MergeWithTop(range)
       \/ \E group \in mGroups : MergeWithGroup(range, group)
       \/ KeepFree(range)
  \/ TrimTop

RangeSpec == RangeInit /\ [][RangeNext]_rangeVars

--------------------------------------------------------------------------------
FreeRanges == mFreeItems \cup mGroups
AllRanges == reserved \cup inHand \cup FreeRanges

(* Every id below mTotalItems is in one range, reserved, free or about to  *)
(* be, and no range goes beyond: no id is handed out twice, and none is    *)
(* lost, whatever the order in which ranges were merged and split.         *)
IdsArePartitioned ==
  /\ \A r, s \in AllRanges : r # s => Ids(r) \cap Ids(s) = {}
  /\ UNION {Ids(r) : r \in AllRanges} = 0..(mTotalItems - 1)
  /\ reserved \cap inHand = {}
  /\ (reserved \cup inHand) \cap FreeRanges = {}
  /\ mFreeItems \cap mGroups = {}
================================================================================
