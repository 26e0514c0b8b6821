-------------------------------- MODULE JobQueue_proofs --------------------------------
(***************************************************************************)
(* Proofs about module JobQueue, for every set of tasks, producers and     *)
(* thieves and every batch size, and about module RingBuffer, the list     *)
(* behind the task queue, for every size of the ring and set of values.    *)
(***************************************************************************)
EXTENDS JobQueue, RingBuffer, SequenceTheorems, TLAPS

--------------------------------------------------------------------------------
(* What PopFront, PopBack, Erase and PushBack (container/RingBuffer.h)     *)
(* leave in a task list, and that none of them makes two positions hold    *)
(* the same item.                                                          *)

(* The items of a list are what its positions hold.                        *)
LEMMA ToSetFacts ==
  ASSUME NEW S, NEW s \in Seq(S)
  PROVE  /\ ToSet(s) = {s[i] : i \in 1..Len(s)}
         /\ \A i \in 1..Len(s) : s[i] \in ToSet(s)
  BY DEF ToSet

(* PopFront takes the first item and leaves the others.                    *)
LEMMA PopFrontFacts ==
  ASSUME NEW S, NEW s \in Seq(S), s # <<>>
  PROVE  /\ Head(s) \in ToSet(s) /\ Head(s) \in S
         /\ Tail(s) \in Seq(S)
         /\ ToSet(Tail(s)) \subseteq ToSet(s)
         /\ IsInjective(s) => /\ IsInjective(Tail(s))
                              /\ ToSet(Tail(s)) = ToSet(s) \ {Head(s)}
<1>1. /\ Len(s) \in Nat \ {0}
      /\ Head(s) = s[1] /\ s[1] \in S
      /\ Tail(s) \in Seq(S)
      /\ Len(Tail(s)) = Len(s) - 1
      /\ \A j \in 1..Len(s) - 1 : Tail(s)[j] = s[j + 1]
  BY EmptySeq
<1>2. ToSet(Tail(s)) \subseteq ToSet(s) /\ Head(s) \in ToSet(s)
  BY <1>1 DEF ToSet
<1>3. ASSUME IsInjective(s)
      PROVE  /\ IsInjective(Tail(s))
             /\ ToSet(Tail(s)) = ToSet(s) \ {Head(s)}
  <2>1. IsInjective(Tail(s))
    BY <1>1, <1>3 DEF IsInjective
  <2>2. Head(s) \notin ToSet(Tail(s))
    BY <1>1, <1>3 DEF IsInjective, ToSet
  <2>3. ASSUME NEW x \in ToSet(s), x # Head(s)
        PROVE  x \in ToSet(Tail(s))
    <3>1. PICK k \in 1..Len(s) : x = s[k]
      BY DEF ToSet
    <3>2. k - 1 \in 1..Len(s) - 1 /\ Tail(s)[k - 1] = x
      BY <3>1, <2>3, <1>1
    <3> QED
      BY <3>2, <1>1, ToSetFacts
  <2> QED
    BY <1>2, <2>1, <2>2, <2>3
<1> QED
  BY <1>1, <1>2, <1>3

(* Where the items of a concatenation and of a prefix come from.           *)
LEMMA ConcatShape ==
  ASSUME NEW S, NEW s \in Seq(S), NEW r \in Seq(S)
  PROVE  /\ Len(s) \in Nat /\ Len(r) \in Nat
         /\ s \o r \in Seq(S)
         /\ Len(s \o r) = Len(s) + Len(r)
         /\ \A j \in 1..Len(s) + Len(r) :
              (s \o r)[j] = IF j <= Len(s) THEN s[j] ELSE r[j - Len(s)]
  OBVIOUS

LEMMA PrefixShape ==
  ASSUME NEW S, NEW s \in Seq(S), NEW i \in 1..Len(s)
  PROVE  /\ SubSeq(s, 1, i - 1) \in Seq(S)
         /\ Len(SubSeq(s, 1, i - 1)) = i - 1
         /\ \A j \in 1..i - 1 : SubSeq(s, 1, i - 1)[j] = s[j]
<1>1. /\ Len(s) \in Nat /\ i \in Nat
      /\ \A k \in 1..Len(s) : s[k] \in S
  OBVIOUS
<1> QED
  BY <1>1

(* Erase of position i, and PopBack as the erase of the last position.     *)
LEMMA RemoveAtShape ==
  ASSUME NEW S, NEW s \in Seq(S), NEW i \in 1..Len(s)
  PROVE  /\ RemoveAt(s, i) \in Seq(S)
         /\ Len(RemoveAt(s, i)) = Len(s) - 1
         /\ \A j \in 1..Len(s) - 1 :
              RemoveAt(s, i)[j] = IF j < i THEN s[j] ELSE s[j + 1]
<1> DEFINE a == SubSeq(s, 1, i - 1)
           b == SubSeq(s, i + 1, Len(s))
<1>1. /\ Len(s) \in Nat /\ i \in Nat
      /\ \A k \in 1..Len(s) : s[k] \in S
  OBVIOUS
<1>2. /\ a \in Seq(S) /\ Len(a) = i - 1
      /\ \A j \in 1..i - 1 : a[j] = s[j]
  BY PrefixShape
<1>3. /\ b \in Seq(S) /\ Len(b) = Len(s) - i
      /\ \A j \in 1..Len(s) - i : b[j] = s[j + i]
  BY <1>1
<1> HIDE DEF a, b
<1>4. /\ a \o b \in Seq(S)
      /\ Len(a \o b) = Len(s) - 1
      /\ \A j \in 1..Len(s) - 1 :
           (a \o b)[j] = IF j <= Len(a) THEN a[j] ELSE b[j - Len(a)]
  <2>1. /\ a \o b \in Seq(S)
        /\ Len(a \o b) = Len(a) + Len(b)
        /\ \A j \in 1..Len(a) + Len(b) :
             (a \o b)[j] = IF j <= Len(a) THEN a[j] ELSE b[j - Len(a)]
    BY <1>2, <1>3, ConcatShape
  <2>2. Len(a) + Len(b) = Len(s) - 1
    BY <1>1, <1>2, <1>3
  <2> QED
    BY <2>1, <2>2
<1>5. ASSUME NEW j \in 1..Len(s) - 1
      PROVE  (a \o b)[j] = IF j < i THEN s[j] ELSE s[j + 1]
  <2>1. CASE j < i
    BY <2>1, <1>1, <1>2, <1>4
  <2>2. CASE ~(j < i)
    <3>1. j - (i - 1) \in 1..Len(s) - i /\ (j - (i - 1)) + i = j + 1
      BY <2>2, <1>1
    <3> QED
      BY <2>2, <3>1, <1>1, <1>2, <1>3, <1>4
  <2> QED
    BY <2>1, <2>2
<1> QED
  BY <1>4, <1>5 DEF RemoveAt, a, b

LEMMA RemoveAtFacts ==
  ASSUME NEW S, NEW s \in Seq(S), NEW i \in 1..Len(s)
  PROVE  /\ s[i] \in ToSet(s) /\ s[i] \in S
         /\ RemoveAt(s, i) \in Seq(S)
         /\ ToSet(RemoveAt(s, i)) \subseteq ToSet(s)
         /\ IsInjective(s) => /\ IsInjective(RemoveAt(s, i))
                              /\ ToSet(RemoveAt(s, i)) = ToSet(s) \ {s[i]}
<1> DEFINE r == RemoveAt(s, i)
<1>1. /\ r \in Seq(S)
      /\ Len(r) = Len(s) - 1
      /\ \A j \in 1..Len(s) - 1 : r[j] = IF j < i THEN s[j] ELSE s[j + 1]
  BY RemoveAtShape
<1>2. Len(s) \in Nat /\ s[i] \in ToSet(s) /\ s[i] \in S
  BY DEF ToSet
<1> HIDE DEF r
<1>3. ToSet(r) \subseteq ToSet(s)
  BY <1>1, <1>2 DEF ToSet
<1>4. ASSUME IsInjective(s)
      PROVE  IsInjective(r) /\ ToSet(r) = ToSet(s) \ {s[i]}
  <2>1. IsInjective(r)
    BY <1>1, <1>2, <1>4, SMTT(30) DEF IsInjective
  <2>2. s[i] \notin ToSet(r)
    <3>1. ASSUME NEW j \in 1..Len(s) - 1
          PROVE  r[j] # s[i]
      <4>1. j \in 1..Len(s) /\ j + 1 \in 1..Len(s)
        BY <1>2
      <4> QED
        BY <1>1, <1>4, <4>1, SMTT(30) DEF IsInjective
    <3> QED
      BY <1>1, <3>1 DEF ToSet
  <2>3. ASSUME NEW x \in ToSet(s), x # s[i]
        PROVE  x \in ToSet(r)
    <3>1. PICK k \in 1..Len(s) : x = s[k]
      BY DEF ToSet
    <3>2. CASE k < i
      BY <3>1, <3>2, <1>1, <1>2 DEF ToSet
    <3>3. CASE ~(k < i)
      <4>1. k - 1 \in 1..Len(s) - 1 /\ ~(k - 1 < i)
        BY <3>1, <3>3, <2>3, <1>2
      <4> QED
        <5>1. r[k - 1] = x
          BY <4>1, <3>1, <1>1, <1>2
        <5> QED
          BY <4>1, <5>1, <1>1, ToSetFacts
    <3> QED
      BY <3>2, <3>3
  <2> QED
    BY <1>3, <2>1, <2>2, <2>3
<1> QED
  BY <1>1, <1>2, <1>3, <1>4 DEF r

LEMMA PopBackFacts ==
  ASSUME NEW S, NEW s \in Seq(S), s # <<>>
  PROVE  /\ Last(s) \in ToSet(s) /\ Last(s) \in S
         /\ Front(s) \in Seq(S)
         /\ ToSet(Front(s)) \subseteq ToSet(s)
         /\ IsInjective(s) => /\ IsInjective(Front(s))
                              /\ ToSet(Front(s)) = ToSet(s) \ {Last(s)}
<1>1. Len(s) \in 1..Len(s)
  BY EmptySeq
<1>2. RemoveAt(s, Len(s)) = Front(s)
  <2>1. /\ Front(s) \in Seq(S) /\ Len(Front(s)) = Len(s) - 1
        /\ \A j \in 1..Len(s) - 1 : Front(s)[j] = s[j]
    BY <1>1, PrefixShape DEF Front
  <2>2. /\ RemoveAt(s, Len(s)) \in Seq(S)
        /\ Len(RemoveAt(s, Len(s))) = Len(s) - 1
        /\ \A j \in 1..Len(s) - 1 : RemoveAt(s, Len(s))[j] = s[j]
    BY <1>1, RemoveAtShape
  <2> QED
    BY <2>1, <2>2, SeqEqual
<1> QED
  BY <1>1, <1>2, RemoveAtFacts DEF Last

(* PushBack of a batch of items that are not in the list.                  *)
LEMMA PushBackFacts ==
  ASSUME NEW S, NEW s \in Seq(S), NEW r \in Seq(S)
  PROVE  /\ s \o r \in Seq(S)
         /\ ToSet(s \o r) = ToSet(s) \cup ToSet(r)
         /\ IsInjective(s) /\ IsInjective(r) /\ ToSet(s) \cap ToSet(r) = {}
              => IsInjective(s \o r)
<1>1. /\ Len(s) \in Nat /\ Len(r) \in Nat
      /\ s \o r \in Seq(S)
      /\ Len(s \o r) = Len(s) + Len(r)
      /\ \A j \in 1..Len(s) + Len(r) :
           (s \o r)[j] = IF j <= Len(s) THEN s[j] ELSE r[j - Len(s)]
  BY ConcatShape
<1> DEFINE q == s \o r
<1>2. \A j \in 1..Len(q) :
        \/ j \in 1..Len(s) /\ q[j] = s[j]
        \/ j - Len(s) \in 1..Len(r) /\ q[j] = r[j - Len(s)]
  BY <1>1
<1>3. ToSet(q) \subseteq ToSet(s) \cup ToSet(r)
  BY <1>1, <1>2 DEF ToSet
<1>4. ToSet(s) \subseteq ToSet(q)
  BY <1>1 DEF ToSet
<1>5. ASSUME NEW x \in ToSet(r)
      PROVE  x \in ToSet(q)
  <2>1. PICK k \in 1..Len(r) : x = r[k]
    BY DEF ToSet
  <2>2. k + Len(s) \in 1..Len(q) /\ q[k + Len(s)] = x
    BY <2>1, <1>1
  <2> QED
    BY <2>2, <1>1 DEF ToSet
<1>6. ASSUME IsInjective(s), IsInjective(r), ToSet(s) \cap ToSet(r) = {}
      PROVE  IsInjective(q)
  <2>1. \A j \in 1..Len(s), k \in 1..Len(r) : s[j] # r[k]
    BY <1>6 DEF ToSet
  <2> SUFFICES ASSUME NEW a \in 1..Len(q), NEW b \in 1..Len(q), q[a] = q[b]
               PROVE  a = b
    BY <1>1 DEF IsInjective
  <2> HIDE DEF q
  <2>2. CASE a \in 1..Len(s) /\ b \in 1..Len(s)
    BY <2>2, <1>2, <1>6, <1>1, <2>1 DEF IsInjective
  <2>3. CASE a - Len(s) \in 1..Len(r) /\ b - Len(s) \in 1..Len(r)
    <3>1. a - Len(s) = b - Len(s)
      <4>1. a \notin 1..Len(s) /\ b \notin 1..Len(s)
        BY <2>3, <1>1
      <4>2. r[a - Len(s)] = r[b - Len(s)]
        BY <4>1, <1>2
      <4> QED
        BY <4>2, <2>3, <1>6, <1>1 DEF IsInjective
    <3> QED
      BY <3>1, <1>1
  <2> QED
    BY <2>1, <2>2, <2>3, <1>2, <1>1
<1> QED
  BY <1>1, <1>3, <1>4, <1>5, <1>6

(* Front leaves all items but the last.                                    *)
LEMMA FrontShape ==
  ASSUME NEW S, NEW s \in Seq(S), Len(s) > 0
  PROVE  /\ Front(s) \in Seq(S)
         /\ Len(Front(s)) = Len(s) - 1
         /\ \A j \in 1..Len(s) - 1 : Front(s)[j] = s[j]
<1>1. Len(s) \in Nat /\ Len(s) \in 1..Len(s)
  OBVIOUS
<1> QED
  BY <1>1, PrefixShape DEF Front

(* Two lists of the same length with the same items are the same.          *)
LEMMA SameList ==
  ASSUME NEW S, NEW s \in Seq(S), NEW q \in Seq(S), Len(s) = Len(q),
         \A k \in 1..Len(s) : s[k] = q[k]
  PROVE  s = q
  BY SeqEqual

(* How a call at one end of the list, or in the middle, goes through to    *)
(* the part that is called.                                                *)
LEMMA FrontOfConcat ==
  ASSUME NEW S, NEW s \in Seq(S), NEW q \in Seq(S)
  PROVE  /\ \A v \in S : (<<v>> \o s) \o q = <<v>> \o (s \o q)
         /\ s # <<>> => Tail(s) \o q = Tail(s \o q)
         /\ s = <<>> => s \o q = q
  OBVIOUS

LEMMA BackOfConcat ==
  ASSUME NEW S, NEW s \in Seq(S), NEW q \in Seq(S)
  PROVE  /\ \A v \in S : s \o Append(q, v) = Append(s \o q, v)
         /\ q # <<>> => s \o Front(q) = Front(s \o q)
         /\ q = <<>> => s \o q = s
<1>1. \A v \in S : s \o Append(q, v) = Append(s \o q, v)
  OBVIOUS
<1>2. ASSUME q # <<>>
      PROVE  s \o Front(q) = Front(s \o q)
  <2> DEFINE f == Front(q)
             c == s \o q
             g == Front(c)
  <2>1. Len(q) > 0 /\ Len(s) \in Nat /\ Len(q) \in Nat
    BY <1>2
  <2>2. /\ f \in Seq(S) /\ Len(f) = Len(q) - 1
        /\ \A j \in 1..Len(q) - 1 : f[j] = q[j]
    BY <2>1, FrontShape
  <2>3. /\ c \in Seq(S) /\ Len(c) = Len(s) + Len(q)
        /\ \A j \in 1..Len(s) + Len(q) : c[j] = IF j <= Len(s) THEN s[j] ELSE q[j - Len(s)]
    BY ConcatShape
  <2> HIDE DEF c
  <2>4. /\ g \in Seq(S) /\ Len(g) = Len(s) + Len(q) - 1
        /\ \A j \in 1..Len(s) + Len(q) - 1 : g[j] = c[j]
    <3>1. Len(c) > 0
      BY <2>1, <2>3
    <3>2. /\ g \in Seq(S) /\ Len(g) = Len(c) - 1
          /\ \A j \in 1..Len(c) - 1 : g[j] = c[j]
      BY <2>3, <3>1, FrontShape
    <3> QED
      BY <2>3, <3>2
  <2> HIDE DEF f, g
  <2>5. /\ s \o f \in Seq(S) /\ Len(s \o f) = Len(s) + Len(f)
        /\ \A j \in 1..Len(s) + Len(f) : (s \o f)[j] = IF j <= Len(s) THEN s[j] ELSE f[j - Len(s)]
    BY <2>2, ConcatShape
  <2>6. Len(s \o f) = Len(g) /\ Len(s) + Len(f) = Len(s) + Len(q) - 1
    BY <2>1, <2>2, <2>4, <2>5
  <2>7. ASSUME NEW j \in 1..Len(s) + Len(q) - 1
        PROVE  (s \o f)[j] = g[j]
    <3>1. (s \o f)[j] = IF j <= Len(s) THEN s[j] ELSE f[j - Len(s)]
      BY <2>5, <2>6
    <3>2. g[j] = IF j <= Len(s) THEN s[j] ELSE q[j - Len(s)]
      BY <2>1, <2>3, <2>4
    <3>3. ~(j <= Len(s)) => j - Len(s) \in 1..Len(q) - 1
      BY <2>1
    <3>4. ~(j <= Len(s)) => f[j - Len(s)] = q[j - Len(s)]
      BY <2>2, <3>3
    <3> QED
      BY <3>1, <3>2, <3>4
  <2> QED
    BY <2>4, <2>5, <2>6, <2>7, SameList DEF f, g, c
<1>3. q = <<>> => s \o q = s
  OBVIOUS
<1> QED
  BY <1>1, <1>2, <1>3

(* Erase of a position before and behind the end of the ring.              *)
LEMMA EraseOfConcat ==
  ASSUME NEW S, NEW s \in Seq(S), NEW q \in Seq(S), NEW i \in 1..Len(s) + Len(q)
  PROVE  /\ i <= Len(s) => RemoveAt(s, i) \o q = RemoveAt(s \o q, i)
         /\ ~(i <= Len(s)) => s \o RemoveAt(q, i - Len(s)) = RemoveAt(s \o q, i)
<1> DEFINE c == s \o q
           g == RemoveAt(c, i)
<1>1. Len(s) \in Nat /\ Len(q) \in Nat /\ i \in Nat
  OBVIOUS
<1>2. /\ c \in Seq(S) /\ Len(c) = Len(s) + Len(q)
      /\ \A j \in 1..Len(s) + Len(q) : c[j] = IF j <= Len(s) THEN s[j] ELSE q[j - Len(s)]
  BY ConcatShape
<1> HIDE DEF c
<1>3. /\ g \in Seq(S) /\ Len(g) = Len(s) + Len(q) - 1
      /\ \A j \in 1..Len(s) + Len(q) - 1 :
           g[j] = IF j < i THEN c[j] ELSE c[j + 1]
  BY <1>2, RemoveAtShape, SMTT(30)
<1> HIDE DEF g
<1>4. ASSUME NEW j \in 1..Len(s) + Len(q) - 1
      PROVE  /\ j < i => g[j] = IF j <= Len(s) THEN s[j] ELSE q[j - Len(s)]
             /\ ~(j < i) => g[j] = IF j + 1 <= Len(s) THEN s[j + 1] ELSE q[j + 1 - Len(s)]
  <2>1. j \in 1..Len(s) + Len(q) /\ j + 1 \in 1..Len(s) + Len(q)
    BY <1>1
  <2> QED
    BY <1>2, <1>3, <2>1
<1>5. ASSUME i <= Len(s)
      PROVE  RemoveAt(s, i) \o q = g
  <2> DEFINE f == RemoveAt(s, i)
  <2>1. /\ f \in Seq(S) /\ Len(f) = Len(s) - 1
        /\ \A j \in 1..Len(s) - 1 : f[j] = IF j < i THEN s[j] ELSE s[j + 1]
    <3>1. i \in 1..Len(s)
      BY <1>1, <1>5
    <3> QED
      BY <3>1, RemoveAtShape
  <2> HIDE DEF f
  <2> DEFINE h == f \o q
  <2>2. /\ h \in Seq(S) /\ Len(h) = Len(f) + Len(q)
        /\ \A j \in 1..Len(f) + Len(q) : h[j] = IF j <= Len(f) THEN f[j] ELSE q[j - Len(f)]
    BY <2>1, ConcatShape
  <2> HIDE DEF h
  <2>3. Len(f) + Len(q) = Len(s) + Len(q) - 1 /\ Len(h) = Len(g)
    BY <1>1, <1>3, <2>1, <2>2
  <2>4. ASSUME NEW j \in 1..Len(s) + Len(q) - 1
        PROVE  h[j] = g[j]
    <3>1. h[j] = IF j <= Len(s) - 1 THEN f[j] ELSE q[j - (Len(s) - 1)]
      BY <2>1, <2>2, <2>3
    <3>2. CASE j <= Len(s) - 1
      <4>0. j \in 1..Len(s) - 1
        BY <1>1, <3>2
      <4>a. f[j] = IF j < i THEN s[j] ELSE s[j + 1]
        BY <2>1, <4>0
      <4>b. h[j] = f[j]
        BY <3>1, <3>2
      <4>1. h[j] = IF j < i THEN s[j] ELSE s[j + 1]
        BY <4>a, <4>b
      <4>2. j <= Len(s) /\ j + 1 <= Len(s)
        BY <1>1, <3>2
      <4> QED
        BY <1>4, <4>1, <4>2
    <3>3. CASE ~(j <= Len(s) - 1)
      <4>1. ~(j < i) /\ ~(j + 1 <= Len(s)) /\ j - (Len(s) - 1) = j + 1 - Len(s)
        BY <1>1, <1>5, <3>3
      <4> QED
        BY <1>4, <3>1, <3>3, <4>1
    <3> QED
      BY <3>2, <3>3
  <2>5. h = g
    BY <1>3, <2>2, <2>3, <2>4, SameList
  <2> QED
    BY <2>5 DEF f, h
<1>6. ASSUME ~(i <= Len(s))
      PROVE  s \o RemoveAt(q, i - Len(s)) = g
  <2> DEFINE m == i - Len(s)
             f == RemoveAt(q, m)
  <2>0. m \in 1..Len(q)
    BY <1>1, <1>6
  <2>1. /\ f \in Seq(S) /\ Len(f) = Len(q) - 1
        /\ \A j \in 1..Len(q) - 1 : f[j] = IF j < m THEN q[j] ELSE q[j + 1]
    BY <2>0, RemoveAtShape
  <2> HIDE DEF f
  <2>2. /\ s \o f \in Seq(S) /\ Len(s \o f) = Len(s) + Len(f)
        /\ \A j \in 1..Len(s) + Len(f) : (s \o f)[j] = IF j <= Len(s) THEN s[j] ELSE f[j - Len(s)]
    BY <2>1, ConcatShape
  <2>3. Len(s) + Len(f) = Len(s) + Len(q) - 1 /\ Len(s \o f) = Len(g)
    BY <1>1, <1>3, <2>1, <2>2
  <2>4. ASSUME NEW j \in 1..Len(s) + Len(q) - 1
        PROVE  (s \o f)[j] = g[j]
    <3>1. (s \o f)[j] = IF j <= Len(s) THEN s[j] ELSE f[j - Len(s)]
      BY <2>2, <2>3
    <3>2. CASE j <= Len(s)
      <4>1. j < i
        BY <1>1, <1>6, <3>2
      <4> QED
        BY <1>4, <3>1, <3>2, <4>1
    <3>3. CASE ~(j <= Len(s))
      <4>1. /\ j - Len(s) \in 1..Len(q) - 1 /\ (j - Len(s)) + 1 = j + 1 - Len(s)
            /\ j - Len(s) < m <=> j < i
            /\ ~(j + 1 <= Len(s))
        BY <1>1, <1>6, <3>3
      <4>2. f[j - Len(s)] = IF j < i THEN q[j - Len(s)] ELSE q[j + 1 - Len(s)]
        BY <2>1, <4>1
      <4> QED
        BY <1>4, <3>1, <3>3, <4>1, <4>2
    <3> QED
      BY <3>2, <3>3
  <2> QED
    BY <1>3, <2>2, <2>3, <2>4, SameList DEF f
<1> QED
  BY <1>5, <1>6 DEF g, c

--------------------------------------------------------------------------------
USE NoneAssumption, BatchAssumption, ThreadsAssumption

--------------------------------------------------------------------------------
(* Type correctness.  DoneOwn moves the owner's hand to done, so the type  *)
(* invariant needs to know that the owner has a task while it runs.        *)

OwnerHasTask == ownerPc = "run" => hand["owner"] # None

TypeInv == TypeOK /\ OwnerHasTask

(* A batch is a list of tasks, each in it once.                            *)
LEMMA BatchType ==
  ASSUME NEW works \in Batches
  PROVE  works \in Seq(Tasks) /\ IsInjective(works) /\ ToSet(works) \subseteq Tasks
<1>1. PICK n \in 1..MaxBatch : works \in [1..n -> Tasks] /\ IsInjective(works)
  BY DEF Batches
<1>2. works \in Seq(Tasks)
  BY <1>1
<1> QED
  BY <1>1, <1>2, ToSetFacts

LEMMA TypeInit == Init => TypeInv
<1> SUFFICES ASSUME Init
             PROVE  TypeInv
  OBVIOUS
<1>1. mTasks \in Seq(Tasks)
  BY EmptySeq DEF Init
<1>2. batch \in [Producers -> SUBSET Tasks]
  BY DEF Init
<1>3. hand \in [Takers -> Tasks \cup {None}]
  BY DEF Init
<1> QED
  BY <1>1, <1>2, <1>3 DEF Init, TypeInv, TypeOK, OwnerHasTask, OwnerPcs, ProducerPcs

LEMMA TypeStep == TypeInv /\ [Next]_vars => TypeInv'
<1> SUFFICES ASSUME TypeInv, [Next]_vars
             PROVE  TypeInv'
  OBVIOUS
<1> USE DEF TypeInv, TypeOK, OwnerHasTask, OwnerPcs, ProducerPcs, Takers
<1>1. ASSUME NEW p \in Producers, NEW works \in Batches, AddTasks(p, works)
      PROVE  TypeInv'
  BY <1>1, BatchType, PushBackFacts DEF AddTasks
<1>2. ASSUME NEW p \in Producers, SignalCheck(p)
      PROVE  TypeInv'
  BY <1>2 DEF SignalCheck
<1>3. ASSUME NEW p \in Producers, SignalLocked(p)
      PROVE  TypeInv'
  BY <1>3 DEF SignalLocked, Wake
<1>4. CASE PopOwn
  BY <1>4, PopFrontFacts DEF PopOwn
<1>5. CASE FindEmpty
  BY <1>5 DEF FindEmpty
<1>6. CASE TryWaitStarving
  BY <1>6 DEF TryWaitStarving
<1>7. CASE TryWaitSignalled
  BY <1>7 DEF TryWaitSignalled, LeaveTryWait
<1>8. CASE TryWaitWoken
  BY <1>8 DEF TryWaitWoken, LeaveTryWait
<1>9. CASE RunAgain
  BY <1>9 DEF RunAgain
<1>10. CASE DoneOwn
  BY <1>10 DEF DoneOwn
<1>11. CASE SpuriousWake
  BY <1>11 DEF SpuriousWake
<1>12. ASSUME NEW h \in Thieves, Steal(h)
       PROVE  TypeInv'
  BY <1>12, PopBackFacts DEF Steal
<1>13. ASSUME NEW h \in Thieves, NEW i \in 1..Len(mTasks), FindJobTask(h, i)
       PROVE  TypeInv'
  BY <1>13, RemoveAtFacts DEF FindJobTask
<1>14. ASSUME NEW h \in Thieves, DoneTaken(h)
       PROVE  TypeInv'
  BY <1>14 DEF DoneTaken
<1>15. CASE Stop
  BY <1>15 DEF Stop, Wake
<1>16. CASE UNCHANGED vars
  BY <1>16 DEF vars
<1> QED
  BY <1>1, <1>2, <1>3, <1>4, <1>5, <1>6, <1>7, <1>8, <1>9, <1>10, <1>11, <1>12,
     <1>13, <1>14, <1>15, <1>16 DEF Next, OwnerStep

(* Every state of the queue is well typed, for all values of the constants. *)
THEOREM TypeCorrect == Spec => []TypeOK
<1>1. Spec => []TypeInv
  BY TypeInit, TypeStep, PTL DEF Spec
<1>2. TypeInv => TypeOK
  BY DEF TypeInv
<1> QED
  BY <1>1, <1>2, PTL

--------------------------------------------------------------------------------
(* No lost wake-up.  NoLostWakeup alone is not inductive for the owner     *)
(* that has ended: the argument is about every place the owner can be in   *)
(* after it last found its queue empty, the last one included.             *)

PastItsLook == {"wait", "parked", "inactive"}

QuietMeansUnannounced ==
  ownerPc \in PastItsLook /\ mIsStarving => ToSet(mTasks) \subseteq Unannounced

IdleHasNoBatch == \A p \in Producers : pc[p] = "idle" => batch[p] = {}

WakeupInv ==
  TypeInv /\ IdleHasNoBatch /\ QuietMeansUnannounced /\ SleeperIsReachable

LEMMA WakeupInit == Init => WakeupInv
<1> SUFFICES ASSUME Init
             PROVE  WakeupInv
  OBVIOUS
<1> QED
  BY TypeInit
     DEF Init, WakeupInv, IdleHasNoBatch, QuietMeansUnannounced,
         SleeperIsReachable, PastItsLook

(* What a list loses, an unannounced list keeps being unannounced.         *)
LEMMA WakeupStep == WakeupInv /\ [Next]_vars => WakeupInv'
<1> DEFINE Goal == IdleHasNoBatch /\ QuietMeansUnannounced /\ SleeperIsReachable
<1> SUFFICES ASSUME WakeupInv, [Next]_vars
             PROVE  Goal'
  BY TypeStep DEF WakeupInv
<1> USE DEF WakeupInv, IdleHasNoBatch, QuietMeansUnannounced, SleeperIsReachable,
            PastItsLook
<1>t. /\ mTasks \in Seq(Tasks)
      /\ pc \in [Producers -> ProducerPcs]
      /\ batch \in [Producers -> SUBSET Tasks]
      /\ mIsStarving \in BOOLEAN
      /\ ownerPc \in OwnerPcs
  BY DEF TypeInv, TypeOK
(* A push puts its tasks in the list and in its empty batch in one step.   *)
<1>1. ASSUME NEW p \in Producers, NEW works \in Batches, AddTasks(p, works)
      PROVE  Goal'
  <2>1. ToSet(mTasks') = ToSet(mTasks) \cup ToSet(works)
    BY <1>1, <1>t, BatchType, PushBackFacts DEF AddTasks
  <2>2. Unannounced' = Unannounced \cup ToSet(works)
    BY <1>1, <1>t DEF AddTasks, Unannounced
  <2> QED
    BY <1>1, <1>t, <2>1, <2>2 DEF AddTasks
(* A push that is over early read FALSE: the owner is not quiet.           *)
<1>2. ASSUME NEW p \in Producers, SignalCheck(p)
      PROVE  Goal'
  <2>1. CASE mIsStarving
    BY <1>2, <1>t, <2>1 DEF SignalCheck, Unannounced
  <2>2. CASE ~mIsStarving
    BY <1>2, <1>t, <2>2 DEF SignalCheck
  <2> QED
    BY <2>1, <2>2
(* A push that is over by signalling leaves the flag cleared.              *)
<1>3. ASSUME NEW p \in Producers, SignalLocked(p)
      PROVE  Goal'
  BY <1>3, <1>t DEF SignalLocked, Wake
<1>4. CASE PopOwn
  BY <1>4, <1>t DEF PopOwn
(* The owner goes quiet with an empty list.                                *)
<1>5. CASE FindEmpty
  <2>1. ToSet(mTasks') = {}
    BY <1>5, EmptySeq DEF FindEmpty, ToSet
  <2> QED
    BY <1>5, <1>t, <2>1 DEF FindEmpty, Unannounced
<1>6. CASE TryWaitStarving
  BY <1>6, <1>t DEF TryWaitStarving, Unannounced, TypeInv, TypeOK
<1>7. CASE TryWaitSignalled
  BY <1>7, <1>t DEF TryWaitSignalled, LeaveTryWait
<1>8. CASE TryWaitWoken
  BY <1>8, <1>t DEF TryWaitWoken, LeaveTryWait
<1>9. CASE RunAgain
  BY <1>9, <1>t DEF RunAgain
<1>10. CASE DoneOwn
  BY <1>10, <1>t DEF DoneOwn
<1>11. CASE SpuriousWake
  BY <1>11, <1>t DEF SpuriousWake
<1>12. ASSUME NEW h \in Thieves, Steal(h)
       PROVE  Goal'
  <2>1. ToSet(mTasks') \subseteq ToSet(mTasks)
    BY <1>12, <1>t, PopBackFacts DEF Steal
  <2> QED
    BY <1>12, <1>t, <2>1 DEF Steal, Unannounced
<1>13. ASSUME NEW h \in Thieves, NEW i \in 1..Len(mTasks), FindJobTask(h, i)
       PROVE  Goal'
  <2>1. ToSet(mTasks') \subseteq ToSet(mTasks)
    BY <1>13, <1>t, RemoveAtFacts DEF FindJobTask
  <2> QED
    BY <1>13, <1>t, <2>1 DEF FindJobTask, Unannounced
<1>14. ASSUME NEW h \in Thieves, DoneTaken(h)
       PROVE  Goal'
  BY <1>14, <1>t DEF DoneTaken, Unannounced
<1>15. CASE Stop
  BY <1>15, <1>t DEF Stop, Wake, Unannounced
<1>16. CASE UNCHANGED vars
  BY <1>16, <1>t DEF vars, Unannounced
<1> HIDE DEF Goal
<1> QED
  BY <1>1, <1>2, <1>3, <1>4, <1>5, <1>6, <1>7, <1>8, <1>9, <1>10, <1>11, <1>12,
     <1>13, <1>14, <1>15, <1>16 DEF Next, OwnerStep

LEMMA WakeupInvariant == Spec => []WakeupInv
  BY WakeupInit, WakeupStep, PTL DEF Spec

(* SCThreadSynchronizer never loses a wake-up: whatever the owner sleeps   *)
(* on is still going to be signalled.                                      *)
THEOREM NeverLosesWakeup == Spec => []NoLostWakeup
<1>1. WakeupInv => NoLostWakeup
  BY DEF WakeupInv, QuietMeansUnannounced, SleeperIsReachable, NoLostWakeup, PastItsLook
<1> QED
  BY <1>1, WakeupInvariant, PTL

(* A sleeping owner is always one that Signal notifies.                    *)
THEOREM SleeperAlwaysReachable == Spec => []SleeperIsReachable
<1>1. WakeupInv => SleeperIsReachable
  BY DEF WakeupInv
<1> QED
  BY <1>1, WakeupInvariant, PTL

(* Stopping the queue drops no task whose push has returned.               *)
THEOREM StopLeavesNoTaskBehind == Spec => NoTaskLeftBehind
<1> DEFINE Leaves ==
      ownerPc' = "inactive" /\ ownerPc # "inactive"
        => ToSet(mTasks) \subseteq Unannounced
<1>1. WakeupInv /\ [Next]_vars => [Leaves]_vars
  <2> SUFFICES ASSUME WakeupInv, Next, ownerPc' = "inactive", ownerPc # "inactive"
               PROVE  ToSet(mTasks) \subseteq Unannounced
    OBVIOUS
  <2>1. ownerPc = "wait" /\ mIsStarving
    BY DEF Next, OwnerStep, AddTasks, SignalCheck, SignalLocked, PopOwn, FindEmpty,
           TryWaitStarving, TryWaitSignalled, TryWaitWoken, LeaveTryWait, RunAgain,
           DoneOwn, SpuriousWake, Steal, FindJobTask, DoneTaken, Stop, Wake
  <2> QED
    BY <2>1 DEF WakeupInv, QuietMeansUnannounced, PastItsLook
<1> QED
  BY <1>1, WakeupInvariant, PTL DEF Spec, NoTaskLeftBehind

--------------------------------------------------------------------------------
(* No task is run twice.  The invariant is inductive with the types alone; *)
(* the two lemmas are the two ways a task changes place.                   *)

OnceInv == TypeInv /\ RunOnce

(* A taker's empty hand takes one item out of the list.                    *)
LEMMA TakeKeepsOnce ==
  ASSUME OnceInv, NEW h \in Takers, NEW t \in ToSet(mTasks),
         hand' = [hand EXCEPT ![h] = t],
         IsInjective(mTasks'), ToSet(mTasks') = ToSet(mTasks) \ {t},
         done' = done
  PROVE  RunOnce'
<1> USE DEF OnceInv, RunOnce, TypeInv, TypeOK
<1>1. InHand' \subseteq InHand \cup {t}
  BY DEF InHand
<1>2. t \notin InHand /\ t \notin done
  OBVIOUS
<1>3. \A g \in Takers : hand[g] # t
  <2> SUFFICES ASSUME NEW g \in Takers, hand[g] = t
               PROVE  FALSE
    OBVIOUS
  <2>1. t # None
    BY ToSetFacts
  <2> QED
    BY <1>2, <2>1 DEF InHand
<1> QED
  BY <1>1, <1>2, <1>3

(* A taker that returns from DoWork moves its task to done.                *)
LEMMA DoneKeepsOnce ==
  ASSUME OnceInv, NEW h \in Takers, hand[h] # None,
         hand' = [hand EXCEPT ![h] = None],
         done' = done \cup {hand[h]},
         mTasks' = mTasks
  PROVE  RunOnce'
<1> USE DEF OnceInv, RunOnce, TypeInv, TypeOK
<1>1. hand[h] \in InHand
  BY DEF InHand
<1>2. InHand' \subseteq InHand \ {hand[h]}
  <2> SUFFICES ASSUME NEW g \in Takers, hand'[g] # None
               PROVE  hand'[g] \in InHand \ {hand[h]}
    BY DEF InHand
  <2>1. g # h /\ hand'[g] = hand[g]
    OBVIOUS
  <2> QED
    BY <2>1 DEF InHand
<1> QED
  BY <1>1, <1>2

LEMMA OnceStep == OnceInv /\ [Next]_vars => OnceInv'
<1> SUFFICES ASSUME OnceInv, [Next]_vars
             PROVE  RunOnce'
  BY TypeStep DEF OnceInv
<1>t. /\ mTasks \in Seq(Tasks)
      /\ IsInjective(mTasks)
      /\ Thieves \subseteq Takers /\ "owner" \in Takers
      /\ ownerPc = "run" => hand["owner"] # None
  BY DEF OnceInv, TypeInv, TypeOK, RunOnce, Takers, OwnerHasTask
<1>s. ASSUME UNCHANGED <<mTasks, hand, done>>
      PROVE  RunOnce'
  BY <1>s DEF OnceInv, RunOnce, InHand
<1>1. ASSUME NEW p \in Producers, NEW works \in Batches, AddTasks(p, works)
      PROVE  RunOnce'
  <2>1. ToSet(works) \cap (ToSet(mTasks) \cup InHand \cup done) = {}
    BY <1>1 DEF AddTasks, Fresh
  <2>2. IsInjective(mTasks') /\ ToSet(mTasks') = ToSet(mTasks) \cup ToSet(works)
    BY <1>1, <1>t, <2>1, BatchType, PushBackFacts DEF AddTasks
  <2>3. InHand' = InHand
    BY <1>1 DEF AddTasks, InHand
  <2> QED
    BY <1>1, <2>1, <2>2, <2>3 DEF AddTasks, OnceInv, RunOnce
<1>2. CASE PopOwn
  BY <1>2, <1>t, PopFrontFacts, TakeKeepsOnce DEF PopOwn
<1>3. ASSUME NEW h \in Thieves, Steal(h)
      PROVE  RunOnce'
  BY <1>3, <1>t, PopBackFacts, TakeKeepsOnce DEF Steal
<1>4. ASSUME NEW h \in Thieves, NEW i \in 1..Len(mTasks), FindJobTask(h, i)
      PROVE  RunOnce'
  BY <1>4, <1>t, RemoveAtFacts, TakeKeepsOnce DEF FindJobTask
<1>5. CASE DoneOwn
  BY <1>5, <1>t, DoneKeepsOnce DEF DoneOwn
<1>6. ASSUME NEW h \in Thieves, DoneTaken(h)
      PROVE  RunOnce'
  BY <1>6, <1>t, DoneKeepsOnce DEF DoneTaken
<1>7. ASSUME NEW p \in Producers, SignalCheck(p) \/ SignalLocked(p)
      PROVE  RunOnce'
  BY <1>7, <1>s DEF SignalCheck, SignalLocked
<1>8. CASE FindEmpty \/ TryWaitStarving \/ TryWaitSignalled \/ TryWaitWoken \/ RunAgain
  BY <1>8, <1>s
     DEF FindEmpty, TryWaitStarving, TryWaitSignalled, TryWaitWoken, LeaveTryWait, RunAgain
<1>9. CASE SpuriousWake \/ Stop \/ UNCHANGED vars
  BY <1>9, <1>s DEF SpuriousWake, Stop, vars
<1> QED
  BY <1>1, <1>2, <1>3, <1>4, <1>5, <1>6, <1>7, <1>8, <1>9 DEF Next, OwnerStep

LEMMA OnceInit == Init => OnceInv
<1> SUFFICES ASSUME Init
             PROVE  RunOnce
  BY TypeInit DEF OnceInv
<1>1. ToSet(mTasks) = {} /\ IsInjective(mTasks)
  BY EmptySeq DEF Init, ToSet, IsInjective
<1>2. InHand = {} /\ done = {} /\ \A h \in Takers : hand[h] = None
  BY DEF Init, InHand
<1> QED
  BY <1>1, <1>2 DEF RunOnce

(* A task that was pushed once is run at most once, by one thread.         *)
THEOREM TasksRunOnce == Spec => []RunOnce
<1>1. Spec => []OnceInv
  BY OnceInit, OnceStep, PTL DEF Spec
<1>2. OnceInv => RunOnce
  BY DEF OnceInv
<1> QED
  BY <1>1, <1>2, PTL

--------------------------------------------------------------------------------
(* The queue implements the hand-over of tasks, fairness apart.  A task    *)
(* that is taken leaves the list for an empty hand, so the owner's has to  *)
(* be empty while it does not run.                                         *)

OwnerHandIsEmpty == ownerPc # "run" => hand["owner"] = None

HandoffInv == WakeupInv /\ RunOnce /\ OwnerHandIsEmpty

LEMMA HandoffInvInit == Init => HandoffInv
<1> SUFFICES ASSUME Init
             PROVE  HandoffInv
  OBVIOUS
<1>1. OwnerHandIsEmpty
  BY DEF Init, OwnerHandIsEmpty, Takers
<1> QED
  BY <1>1, WakeupInit, OnceInit DEF HandoffInv, OnceInv

LEMMA HandoffInvStep == HandoffInv /\ [Next]_vars => HandoffInv'
<1> SUFFICES ASSUME HandoffInv, [Next]_vars
             PROVE  OwnerHandIsEmpty'
  BY WakeupStep, OnceStep DEF HandoffInv, OnceInv, WakeupInv
<1>t. /\ hand \in [Takers -> Tasks \cup {None}]
      /\ "owner" \in Takers /\ "owner" \notin Thieves
      /\ ownerPc # "run" => hand["owner"] = None
  BY DEF HandoffInv, WakeupInv, TypeInv, TypeOK, Takers, OwnerHandIsEmpty
<1>1. CASE \E h \in Thieves :
             Steal(h) \/ DoneTaken(h) \/ \E i \in 1..Len(mTasks) : FindJobTask(h, i)
  BY <1>1, <1>t DEF Steal, DoneTaken, FindJobTask, OwnerHandIsEmpty
<1>2. CASE DoneOwn
  BY <1>2, <1>t DEF DoneOwn, OwnerHandIsEmpty
<1>3. CASE UNCHANGED hand /\ (ownerPc' = "run" <=> ownerPc = "run")
  BY <1>3, <1>t DEF OwnerHandIsEmpty
<1>4. CASE PopOwn
  BY <1>4 DEF PopOwn, OwnerHandIsEmpty
<1> QED
  BY <1>1, <1>2, <1>3, <1>4
     DEF Next, OwnerStep, AddTasks, SignalCheck, SignalLocked, FindEmpty, TryWaitStarving,
         TryWaitSignalled, TryWaitWoken, LeaveTryWait, RunAgain, SpuriousWake, Stop, Wake, vars

LEMMA HandoffInvariant == Spec => []HandoffInv
  BY HandoffInvInit, HandoffInvStep, PTL DEF Spec

(* The stage of a task says where it is, and no task is at two places.     *)
StagesAreRight ==
  \A t \in Tasks :
    /\ t \in done => stageBar[t] = "done"
    /\ t \in InHand => stageBar[t] = "running"
    /\ t \in ToSet(mTasks) =>
         stageBar[t] = IF t \in Unannounced THEN "offered" ELSE "announced"
    /\ t \notin done \cup InHand \cup ToSet(mTasks) => stageBar[t] = "new"

LEMMA StageFacts == (RunOnce => StagesAreRight) /\ (RunOnce' => StagesAreRight')
<1>1. RunOnce => StagesAreRight
  BY DEF RunOnce, StagesAreRight, stageBar
<1>2. RunOnce' => StagesAreRight'
  BY DEF RunOnce, StagesAreRight, stageBar
<1> QED
  BY <1>1, <1>2

(* A stage is where the sets of tasks say.                                 *)
LEMMA SameStages ==
  ASSUME done' = done, InHand' = InHand, ToSet(mTasks') = ToSet(mTasks),
         Unannounced' = Unannounced
  PROVE  stageBar' = stageBar
  BY DEF stageBar

LEMMA StagesMove ==
  ASSUME NEW B \in SUBSET Tasks, NEW s,
         \A t \in B : stageBar'[t] = s,
         \A t \in Tasks \ B : stageBar'[t] = stageBar[t]
  PROVE  Handoff!Move(B, s)
<1>1. stageBar' = [t \in Tasks |-> stageBar'[t]]
  BY DEF stageBar
<1> QED
  BY <1>1 DEF Handoff!Move

(* A task that goes from the list into an empty hand is taken.             *)
LEMMA TakeIsTake ==
  ASSUME HandoffInv, HandoffInv', NEW h \in Takers, NEW t \in ToSet(mTasks),
         hand[h] = None, hand' = [hand EXCEPT ![h] = t],
         ToSet(mTasks') = ToSet(mTasks) \ {t}, done' = done, batch' = batch,
         mIsRunning' = mIsRunning, ownerPc' = "inactive" <=> ownerPc = "inactive"
  PROVE  t \in Tasks /\ Handoff!Take(t)
<1>t. /\ hand \in [Takers -> Tasks \cup {None}] /\ t \in Tasks
      /\ StagesAreRight
  BY ToSetFacts, StageFacts DEF HandoffInv, WakeupInv, TypeInv, TypeOK
<1>r. StagesAreRight'
  BY StageFacts DEF HandoffInv
<1>1. InHand' = InHand \cup {t} /\ Unannounced' = Unannounced
  <2>1. hand'[h] = t /\ t # None /\ \A g \in Takers \ {h} : hand'[g] = hand[g]
    BY <1>t
  <2>2. InHand' \subseteq InHand \cup {t}
    BY <1>t, <2>1 DEF InHand
  <2>3. InHand \subseteq InHand'
    <3> SUFFICES ASSUME NEW g \in Takers, hand[g] # None
                 PROVE  hand[g] \in InHand'
      BY DEF InHand
    <3>1. g # h /\ hand'[g] = hand[g]
      BY <2>1
    <3> QED
      BY <3>1 DEF InHand
  <2>4. t \in InHand'
    BY <2>1 DEF InHand
  <2> QED
    BY <2>2, <2>3, <2>4 DEF Unannounced
<1>2. stageBar[t] \in {"offered", "announced"} /\ stageBar'[t] = "running"
  BY <1>t, <1>r, <1>1 DEF StagesAreRight
<1>3. \A u \in Tasks \ {t} : stageBar'[u] = stageBar[u]
  BY <1>1 DEF stageBar
<1>4. Handoff!Move({t}, "running")
  BY <1>t, <1>2, <1>3, StagesMove
<1> QED
  BY <1>t, <1>2, <1>4 DEF Handoff!Take

(* A task that has run goes from its hand to those that are done.          *)
LEMMA DoneIsFinish ==
  ASSUME HandoffInv, HandoffInv', NEW h \in Takers, hand[h] # None,
         hand' = [hand EXCEPT ![h] = None], done' = done \cup {hand[h]},
         mTasks' = mTasks, batch' = batch, mIsRunning' = mIsRunning,
         ownerPc' = "inactive" <=> ownerPc = "inactive"
  PROVE  hand[h] \in Tasks /\ Handoff!Finish(hand[h])
<1> DEFINE t == hand[h]
<1>t. /\ hand \in [Takers -> Tasks \cup {None}] /\ t \in Tasks
      /\ StagesAreRight /\ RunOnce
  BY StageFacts DEF HandoffInv, WakeupInv, TypeInv, TypeOK
<1>r. StagesAreRight'
  BY StageFacts DEF HandoffInv
<1>1. InHand' = InHand \ {t} /\ Unannounced' = Unannounced
  <2>1. hand'[h] = None /\ \A g \in Takers \ {h} : hand'[g] = hand[g] /\ hand[g] # t
    BY <1>t DEF RunOnce
  <2>2. InHand' \subseteq InHand \ {t}
    BY <1>t, <2>1 DEF InHand
  <2>3. ASSUME NEW g \in Takers, hand[g] # None, hand[g] # t
        PROVE  hand[g] \in InHand'
    <3>1. g # h /\ hand'[g] = hand[g]
      BY <2>1, <2>3
    <3> QED
      BY <2>3, <3>1 DEF InHand
  <2>4. InHand \ {t} \subseteq InHand'
    BY <2>3 DEF InHand
  <2> QED
    BY <2>2, <2>4 DEF Unannounced
<1>2. t \in InHand
  BY DEF InHand
<1>3. stageBar[t] = "running" /\ stageBar'[t] = "done"
  BY <1>t, <1>r, <1>2 DEF StagesAreRight
<1>4. \A u \in Tasks \ {t} : stageBar'[u] = stageBar[u]
  BY <1>1 DEF stageBar
<1> HIDE DEF t
<1>5. Handoff!Move({t}, "done")
  BY <1>t, <1>3, <1>4, StagesMove
<1>6. Handoff!Finish(t)
  BY <1>3, <1>5 DEF Handoff!Finish
<1> QED
  BY <1>t, <1>6 DEF t

(* A push that is over announces what is still in the list.                *)
LEMMA SignalIsAnnounce ==
  ASSUME HandoffInv, HandoffInv', NEW p \in Producers, batch' = [batch EXCEPT ![p] = {}],
         mTasks' = mTasks, hand' = hand, done' = done, mIsRunning' = mIsRunning,
         ownerPc' = "inactive" <=> ownerPc = "inactive"
  PROVE  \E B \in SUBSET Tasks : Handoff!Announce(B)
<1> DEFINE B == {t \in ToSet(mTasks) : t \in Unannounced /\ t \notin Unannounced'}
<1>t. B \subseteq Tasks /\ RunOnce /\ StagesAreRight /\ StagesAreRight'
  BY ToSetFacts, StageFacts DEF HandoffInv, WakeupInv, TypeInv, TypeOK
<1>1. Unannounced' \subseteq Unannounced
  BY DEF HandoffInv, WakeupInv, TypeInv, TypeOK, Unannounced
<1>2. InHand' = InHand
  BY DEF InHand
<1>3. \A t \in B : stageBar[t] = "offered" /\ stageBar'[t] = "announced"
  BY <1>t DEF StagesAreRight
<1>4. \A t \in Tasks \ B : stageBar'[t] = stageBar[t]
  BY <1>1, <1>2 DEF stageBar
<1> HIDE DEF B
<1>5. Handoff!Move(B, "announced")
  BY <1>t, <1>3, <1>4, StagesMove
<1>6. Handoff!Announce(B)
  BY <1>t, <1>3, <1>5 DEF Handoff!Announce, Handoff!At
<1> QED
  BY <1>t, <1>6

(* A batch that enters the queue is offered.                               *)
LEMMA PushIsOffer ==
  ASSUME HandoffInv, HandoffInv', NEW p \in Producers, NEW works \in Batches,
         AddTasks(p, works)
  PROVE  \E B \in SUBSET Tasks : Handoff!Offer(B)
<1> DEFINE B == ToSet(works)
<1>t. /\ B \subseteq Tasks /\ StagesAreRight /\ StagesAreRight'
      /\ mTasks \in Seq(Tasks) /\ batch \in [Producers -> SUBSET Tasks] /\ batch[p] = {}
  BY BatchType, StageFacts
     DEF HandoffInv, WakeupInv, TypeInv, TypeOK, AddTasks, IdleHasNoBatch
<1>1. ToSet(mTasks') = ToSet(mTasks) \cup B
  BY <1>t, BatchType, PushBackFacts DEF AddTasks
<1>2. Unannounced' = Unannounced \cup B
  BY <1>t DEF AddTasks, Unannounced
<1>3. InHand' = InHand /\ done' = done
  BY DEF AddTasks, InHand
<1>4. B \cap (ToSet(mTasks) \cup InHand \cup done) = {}
  BY DEF AddTasks, Fresh
<1>5. \A t \in B : stageBar[t] = "new" /\ stageBar'[t] = "offered"
  BY <1>t, <1>1, <1>2, <1>4 DEF StagesAreRight
<1>6. \A t \in Tasks \ B : stageBar'[t] = stageBar[t]
  BY <1>1, <1>2, <1>3 DEF stageBar
<1> HIDE DEF B
<1>7. Handoff!Move(B, "offered")
  BY <1>t, <1>5, <1>6, StagesMove
<1>8. mIsRunning' = mIsRunning /\ ownerPc' = ownerPc
  BY DEF AddTasks
<1>9. Handoff!Offer(B)
  BY <1>t, <1>5, <1>7, <1>8 DEF Handoff!Offer, Handoff!At
<1> QED
  BY <1>t, <1>9

(* A step that touches no task closes the queue, retires the owner or is   *)
(* none that the promise knows of.  The owner retires when it has seen the *)
(* flag of a stopped queue and its list has nothing announced.             *)
LEMMA OtherSteps ==
  ASSUME HandoffInv, HandoffInv', UNCHANGED <<mTasks, batch, hand, done>>,
         \/ Stop
         \/ TryWaitStarving
         \/ UNCHANGED mIsRunning /\ (ownerPc' = "inactive" <=> ownerPc = "inactive")
  PROVE  [Handoff!Next]_(Handoff!vars)
<1>1. stageBar' = stageBar
  BY SameStages DEF InHand, Unannounced
<1>2. CASE Stop
  BY <1>1, <1>2 DEF Stop, Wake, Handoff!Next, Handoff!Close
<1>3. CASE TryWaitStarving /\ ~mIsRunning
  <2>1. ToSet(mTasks) \subseteq Unannounced
    BY <1>3 DEF TryWaitStarving, HandoffInv, WakeupInv, QuietMeansUnannounced, PastItsLook
  <2>2. Handoff!At("announced") = {}
    BY <2>1 DEF Handoff!At, stageBar
  <2> QED
    BY <1>1, <1>3, <2>2 DEF TryWaitStarving, Handoff!Next, Handoff!Retire
<1>4. CASE UNCHANGED mIsRunning /\ (ownerPc' = "inactive" <=> ownerPc = "inactive")
  BY <1>1, <1>4 DEF Handoff!vars
<1>5. CASE TryWaitStarving /\ mIsRunning
  BY <1>4, <1>5 DEF TryWaitStarving
<1> QED
  BY <1>2, <1>3, <1>4, <1>5

LEMMA HandoffStep ==
  HandoffInv /\ HandoffInv' /\ [Next]_vars => [Handoff!Next]_(Handoff!vars)
<1> SUFFICES ASSUME HandoffInv, HandoffInv', [Next]_vars
             PROVE  [Handoff!Next]_(Handoff!vars)
  OBVIOUS
<1>t. /\ mTasks \in Seq(Tasks) /\ IsInjective(mTasks)
      /\ hand \in [Takers -> Tasks \cup {None}]
      /\ Thieves \subseteq Takers /\ "owner" \in Takers
      /\ ownerPc # "run" => hand["owner"] = None
      /\ ownerPc = "run" => hand["owner"] # None
  BY DEF HandoffInv, WakeupInv, TypeInv, TypeOK, Takers, OwnerHandIsEmpty, OwnerHasTask, RunOnce
<1>n. /\ (\E B \in SUBSET Tasks : Handoff!Offer(B) \/ Handoff!Announce(B)) => Handoff!Next
      /\ (\E t \in Tasks : Handoff!Take(t) \/ Handoff!Finish(t)) => Handoff!Next
  BY DEF Handoff!Next
<1>1. ASSUME NEW p \in Producers, NEW works \in Batches, AddTasks(p, works)
      PROVE  Handoff!Next
  BY <1>1, <1>n, PushIsOffer
<1>2. ASSUME NEW p \in Producers, SignalCheck(p) \/ SignalLocked(p), batch' # batch
      PROVE  Handoff!Next
  <2>1. /\ batch' = [batch EXCEPT ![p] = {}]
        /\ UNCHANGED <<mTasks, hand, done, mIsRunning>>
        /\ ownerPc' = "inactive" <=> ownerPc = "inactive"
    BY <1>2 DEF SignalCheck, SignalLocked, Wake
  <2> QED
    BY <1>n, <2>1, SignalIsAnnounce
<1>3. CASE PopOwn
  <2>1. /\ Head(mTasks) \in ToSet(mTasks)
        /\ ToSet(mTasks') = ToSet(mTasks) \ {Head(mTasks)}
    BY <1>3, <1>t, PopFrontFacts DEF PopOwn
  <2>2. Head(mTasks) \in Tasks /\ Handoff!Take(Head(mTasks))
    BY <1>3, <1>t, <2>1, TakeIsTake DEF PopOwn
  <2> QED
    BY <1>n, <2>2
<1>4. ASSUME NEW h \in Thieves, Steal(h)
      PROVE  Handoff!Next
  <2>1. /\ Last(mTasks) \in ToSet(mTasks)
        /\ ToSet(mTasks') = ToSet(mTasks) \ {Last(mTasks)}
    BY <1>4, <1>t, PopBackFacts DEF Steal
  <2>2. Last(mTasks) \in Tasks /\ Handoff!Take(Last(mTasks))
    BY <1>4, <1>t, <2>1, TakeIsTake DEF Steal
  <2> QED
    BY <1>n, <2>2
<1>5. ASSUME NEW h \in Thieves, NEW i \in 1..Len(mTasks), FindJobTask(h, i)
      PROVE  Handoff!Next
  <2>1. /\ mTasks[i] \in ToSet(mTasks)
        /\ ToSet(mTasks') = ToSet(mTasks) \ {mTasks[i]}
    BY <1>5, <1>t, RemoveAtFacts DEF FindJobTask
  <2>2. mTasks[i] \in Tasks /\ Handoff!Take(mTasks[i])
    BY <1>5, <1>t, <2>1, TakeIsTake DEF FindJobTask
  <2> QED
    BY <1>n, <2>2
<1>6. CASE DoneOwn
  <2>1. hand["owner"] \in Tasks /\ Handoff!Finish(hand["owner"])
    BY <1>6, <1>t, DoneIsFinish DEF DoneOwn
  <2> QED
    BY <1>n, <2>1
<1>7. ASSUME NEW h \in Thieves, DoneTaken(h)
      PROVE  Handoff!Next
  <2>1. hand[h] \in Tasks /\ Handoff!Finish(hand[h])
    BY <1>7, <1>t, DoneIsFinish DEF DoneTaken
  <2> QED
    BY <1>n, <2>1
<1>8. ASSUME NEW p \in Producers, SignalCheck(p) \/ SignalLocked(p), batch' = batch
      PROVE  [Handoff!Next]_(Handoff!vars)
  <2>1. /\ UNCHANGED <<mTasks, batch, hand, done, mIsRunning>>
        /\ ownerPc' = "inactive" <=> ownerPc = "inactive"
    BY <1>8 DEF SignalCheck, SignalLocked, Wake
  <2> QED
    BY <2>1, OtherSteps
<1>9. CASE \/ FindEmpty \/ TryWaitStarving \/ TryWaitSignalled \/ TryWaitWoken
           \/ RunAgain \/ SpuriousWake \/ Stop \/ UNCHANGED vars
  <2>1. UNCHANGED <<mTasks, batch, hand, done>>
    BY <1>9 DEF FindEmpty, TryWaitStarving, TryWaitSignalled, TryWaitWoken, LeaveTryWait,
                RunAgain, SpuriousWake, Stop, vars
  <2>2. \/ Stop
        \/ TryWaitStarving
        \/ UNCHANGED mIsRunning /\ (ownerPc' = "inactive" <=> ownerPc = "inactive")
    BY <1>9 DEF FindEmpty, TryWaitSignalled, TryWaitWoken, LeaveTryWait, RunAgain,
                SpuriousWake, vars
  <2> QED
    BY <2>1, <2>2, OtherSteps
<1> QED
  BY <1>1, <1>2, <1>3, <1>4, <1>5, <1>6, <1>7, <1>8, <1>9 DEF Next, OwnerStep

(* What the owner and the thieves do with locks, flags and lists is what   *)
(* TaskHandoff promises: no task is taken twice or before it is offered,   *)
(* and the owner retires only from a closed queue with nothing announced.  *)
THEOREM QueueKeepsHandoff == Spec => Handoff!Spec
<1>1. Init => Handoff!Init
  <2> SUFFICES ASSUME Init
               PROVE  Handoff!Init
    OBVIOUS
  <2>1. done = {} /\ InHand = {} /\ ToSet(mTasks) = {}
    BY EmptySeq DEF Init, InHand, ToSet
  <2>2. stageBar = [t \in Tasks |-> "new"]
    BY <2>1 DEF stageBar
  <2> QED
    BY <2>2 DEF Init, Handoff!Init
<1> QED
  BY <1>1, HandoffStep, HandoffInvariant, PTL DEF Spec, Handoff!Spec

--------------------------------------------------------------------------------
(* The ring behind a task list.  Each call is described by what it does to *)
(* the elements of the ring, in their order; the invariant is the property *)
(* itself.                                                                 *)

RingRecords ==
  [mBuffer : [0..RingSize - 1 -> Values], mReadPos : 0..RingSize - 1, mNumElems : 0..RingSize]

(* The ring is a record of the buffer, the position and the count.         *)
RingTypeOK ==
  /\ ring \in RingRecords
  /\ mBackOverflow \in Seq(Values)
  /\ items \in Seq(Values)

USE RingAssumption

Wrap(v) == IF v < RingSize THEN v ELSE v - RingSize

(* An index goes round the end of the buffer at most once.                 *)
LEMMA ModIs ==
  ASSUME NEW v \in 0..2 * RingSize - 1
  PROVE  /\ Mod(v) = Wrap(v)
         /\ Mod(v) \in 0..RingSize - 1
  BY DEF Mod, Wrap

(* Two elements of the ring have different places in the buffer.           *)
LEMMA WrapDiffers ==
  ASSUME NEW a \in 0..RingSize - 1, NEW k \in 0..RingSize - 1, NEW j \in 0..RingSize - 1, k # j
  PROVE  /\ Wrap(a + k) # Wrap(a + j)
         /\ Wrap(a + k) \in 0..RingSize - 1
  BY DEF Wrap

LEMMA RecordIs ==
  ASSUME NEW r \in RingRecords
  PROVE  /\ r.mReadPos \in 0..RingSize - 1
         /\ r.mNumElems \in 0..RingSize
         /\ r.mBuffer \in [0..RingSize - 1 -> Values]
         /\ \A p \in 0..RingSize - 1 : r.mReadPos + p \in 0..2 * RingSize - 1
  BY DEF RingRecords

LEMMA AtIs ==
  ASSUME NEW r \in RingRecords, NEW p \in 0..RingSize - 1
  PROVE  /\ At(r, p) \in Values
         /\ At(r, p) = r.mBuffer[Wrap(r.mReadPos + p)]
         /\ Wrap(r.mReadPos + p) \in 0..RingSize - 1
<1>1. r.mReadPos + p \in 0..2 * RingSize - 1
  BY RecordIs
<1>2. /\ Mod(r.mReadPos + p) = Wrap(r.mReadPos + p)
      /\ Mod(r.mReadPos + p) \in 0..RingSize - 1
  BY ONLY <1>1, ModIs
<1> QED
  BY <1>2, RecordIs DEF At

LEMMA ElementsIs ==
  ASSUME NEW r \in RingRecords
  PROVE  /\ Elements(r) \in Seq(Values)
         /\ Len(Elements(r)) = r.mNumElems
         /\ \A k \in 1..r.mNumElems : Elements(r)[k] = At(r, k - 1)
<1>1. r.mNumElems \in 0..RingSize
  BY RecordIs
<1>2. \A k \in 1..r.mNumElems : At(r, k - 1) \in Values
  BY <1>1, AtIs
<1>3. Elements(r) \in [1..r.mNumElems -> Values]
  BY <1>2 DEF Elements
<1>4. Elements(r) \in Seq(Values) /\ Len(Elements(r)) = r.mNumElems
  BY <1>1, <1>3
<1> QED
  BY <1>4 DEF Elements

(* What the calls do to the ring, place by place.                          *)
LEMMA RingPushFrontIs ==
  ASSUME NEW r \in RingRecords, NEW val \in Values, r.mNumElems < RingSize
  PROVE  /\ RingPushFront(r, val) \in RingRecords
         /\ RingPushFront(r, val).mNumElems = r.mNumElems + 1
         /\ At(RingPushFront(r, val), 0) = val
         /\ \A k \in 0..r.mNumElems - 1 : At(RingPushFront(r, val), k + 1) = At(r, k)
<1> DEFINE q == RingPushFront(r, val)
           p == IF r.mReadPos # 0 THEN r.mReadPos - 1 ELSE RingSize - 1
<1>0. /\ r.mReadPos \in 0..RingSize - 1 /\ r.mNumElems \in 0..RingSize
      /\ r.mBuffer \in [0..RingSize - 1 -> Values]
  BY RecordIs
<1>1. /\ q = [mBuffer |-> [r.mBuffer EXCEPT ![p] = val], mReadPos |-> p, mNumElems |-> r.mNumElems + 1]
      /\ p \in 0..RingSize - 1
  BY <1>0 DEF RingPushFront
<1> HIDE DEF p, q
<1>2. /\ q \in RingRecords /\ q.mReadPos = p /\ q.mNumElems = r.mNumElems + 1
      /\ q.mBuffer = [r.mBuffer EXCEPT ![p] = val]
  BY <1>0, <1>1 DEF RingRecords
<1>3. At(q, 0) = val
  <2>1. 0 \in 0..RingSize - 1
    OBVIOUS
  <2>2. At(q, 0) = q.mBuffer[Wrap(p + 0)]
    BY <1>2, <2>1, AtIs
  <2>3. Wrap(p + 0) = p
    BY <1>1 DEF Wrap
  <2> QED
    BY <2>2, <2>3, <1>0, <1>1, <1>2
<1>4. ASSUME NEW k \in 0..r.mNumElems - 1
      PROVE  At(q, k + 1) = At(r, k)
  <2>1. /\ k + 1 \in 0..RingSize - 1 /\ k \in 0..RingSize - 1
    BY <1>0
  <2>2. /\ At(q, k + 1) = q.mBuffer[Wrap(p + (k + 1))]
        /\ At(r, k) = r.mBuffer[Wrap(r.mReadPos + k)]
    BY <1>2, <2>1, AtIs
  <2> DEFINE i == Wrap(r.mReadPos + k)
  <2>3. /\ (Wrap(p + (k + 1))) = i
        /\ i # p /\ i \in 0..RingSize - 1
    BY <2>1, <1>0, SMTT(30) DEF p, Wrap
  <2> HIDE DEF i
  <2> QED
    BY <1>0, <1>1, <1>2, <2>2, <2>3 DEF i
<1> QED
  BY <1>2, <1>3, <1>4 DEF q

LEMMA RingPushBackIs ==
  ASSUME NEW r \in RingRecords, NEW val \in Values, r.mNumElems < RingSize
  PROVE  /\ RingPushBack(r, val) \in RingRecords
         /\ RingPushBack(r, val).mNumElems = r.mNumElems + 1
         /\ At(RingPushBack(r, val), r.mNumElems) = val
         /\ \A k \in 0..r.mNumElems - 1 : At(RingPushBack(r, val), k) = At(r, k)
<1> DEFINE q == RingPushBack(r, val)
           p == Mod(r.mReadPos + r.mNumElems)
<1>0. /\ r.mReadPos \in 0..RingSize - 1 /\ r.mNumElems \in 0..RingSize
      /\ r.mBuffer \in [0..RingSize - 1 -> Values]
      /\ r.mReadPos + r.mNumElems \in 0..2 * RingSize - 1
  BY DEF RingRecords
<1>1. /\ p = Wrap(r.mReadPos + r.mNumElems)
      /\ p \in 0..RingSize - 1
  BY <1>0, ModIs
<1>2. q = [r EXCEPT !.mBuffer[p] = val, !.mNumElems = @ + 1]
  BY DEF RingPushBack
<1> HIDE DEF p, q
<1>3. /\ q \in RingRecords /\ q.mReadPos = r.mReadPos /\ q.mNumElems = r.mNumElems + 1
      /\ q.mBuffer = [r.mBuffer EXCEPT ![p] = val]
  <2>1. q = [mBuffer |-> [r.mBuffer EXCEPT ![p] = val], mReadPos |-> r.mReadPos,
             mNumElems |-> r.mNumElems + 1]
    BY <1>2 DEF RingRecords
  <2>2. [r.mBuffer EXCEPT ![p] = val] \in [0..RingSize - 1 -> Values] /\ r.mNumElems + 1 \in 0..RingSize
    BY <1>0, <1>1
  <2> QED
    BY <1>0, <2>1, <2>2 DEF RingRecords
<1>4. At(q, r.mNumElems) = val
  <2>1. r.mNumElems \in 0..RingSize - 1
    BY <1>0
  <2>2. At(q, r.mNumElems) = q.mBuffer[p]
    BY <1>1, <1>3, <2>1, AtIs
  <2> QED
    BY <2>2, <1>0, <1>1, <1>3
<1>5. ASSUME NEW k \in 0..r.mNumElems - 1
      PROVE  At(q, k) = At(r, k)
  <2> DEFINE i == Wrap(r.mReadPos + k)
  <2>1. k \in 0..RingSize - 1 /\ r.mNumElems \in 0..RingSize - 1 /\ k # r.mNumElems
    BY <1>0
  <2>2. i # p /\ i \in 0..RingSize - 1
    BY <1>0, <1>1, <2>1, WrapDiffers
  <2>3. At(q, k) = q.mBuffer[i] /\ At(r, k) = r.mBuffer[i]
    BY <1>3, <2>1, AtIs
  <2> HIDE DEF i
  <2> QED
    BY <1>0, <1>1, <1>3, <2>2, <2>3
<1> QED
  BY <1>3, <1>4, <1>5 DEF q

LEMMA RingPopFrontIs ==
  ASSUME NEW r \in RingRecords, r.mNumElems > 0
  PROVE  /\ RingPopFront(r) \in RingRecords
         /\ RingPopFront(r).mNumElems = r.mNumElems - 1
         /\ \A k \in 0..r.mNumElems - 2 : At(RingPopFront(r), k) = At(r, k + 1)
<1> DEFINE q == RingPopFront(r)
<1>0. /\ r.mReadPos \in 0..RingSize - 1 /\ r.mNumElems \in 1..RingSize
      /\ r.mBuffer \in [0..RingSize - 1 -> Values]
  BY DEF RingRecords
<1>1. /\ q \in RingRecords /\ q.mNumElems = r.mNumElems - 1 /\ q.mBuffer = r.mBuffer
      /\ q.mReadPos = IF r.mReadPos + 1 = RingSize THEN 0 ELSE r.mReadPos + 1
  <2> DEFINE p == IF r.mReadPos + 1 = RingSize THEN 0 ELSE r.mReadPos + 1
  <2>1. p \in 0..RingSize - 1 /\ r.mNumElems - 1 \in 0..RingSize
    BY <1>0
  <2>2. q = [r EXCEPT !.mReadPos = p, !.mNumElems = r.mNumElems - 1]
    BY DEF RingPopFront, RingRecords
  <2> HIDE DEF p
  <2>3. q = [mBuffer |-> r.mBuffer, mReadPos |-> p, mNumElems |-> r.mNumElems - 1]
    BY <2>2 DEF RingRecords
  <2> HIDE DEF q
  <2>4. q \in RingRecords /\ q.mNumElems = r.mNumElems - 1 /\ q.mBuffer = r.mBuffer /\ q.mReadPos = p
    BY <1>0, <2>1, <2>3 DEF RingRecords
  <2> QED
    BY <2>4 DEF p
<1> HIDE DEF q
<1>2. ASSUME NEW k \in 0..r.mNumElems - 2
      PROVE  At(q, k) = At(r, k + 1)
  <2>1. k \in 0..RingSize - 1 /\ k + 1 \in 0..RingSize - 1
    BY <1>0
  <2>2. /\ At(q, k) = q.mBuffer[Wrap(q.mReadPos + k)]
        /\ At(r, k + 1) = r.mBuffer[Wrap(r.mReadPos + (k + 1))]
    BY <1>1, <2>1, AtIs
  <2>3. Wrap(q.mReadPos + k) = Wrap(r.mReadPos + (k + 1))
    BY <1>0, <1>1, <2>1, SMTT(30) DEF Wrap
  <2> QED
    BY <1>1, <2>2, <2>3
<1> QED
  BY <1>1, <1>2 DEF q

LEMMA RingPopBackIs ==
  ASSUME NEW r \in RingRecords, r.mNumElems > 0
  PROVE  /\ RingPopBack(r) \in RingRecords
         /\ RingPopBack(r).mNumElems = r.mNumElems - 1
         /\ \A k \in 0..r.mNumElems - 2 : At(RingPopBack(r), k) = At(r, k)
<1>0. /\ r.mReadPos \in 0..RingSize - 1 /\ r.mNumElems \in 1..RingSize
      /\ r.mBuffer \in [0..RingSize - 1 -> Values]
  BY DEF RingRecords
<1>1. /\ RingPopBack(r) \in RingRecords /\ RingPopBack(r).mNumElems = r.mNumElems - 1
      /\ RingPopBack(r).mBuffer = r.mBuffer /\ RingPopBack(r).mReadPos = r.mReadPos
  BY <1>0 DEF RingPopBack, RingRecords
<1> QED
  BY <1>1 DEF At

(* Erase leaves the elements before the position where they are and moves  *)
(* the others by one place, whichever part of the buffer it shifts.        *)
LEMMA RingEraseIs ==
  ASSUME NEW r \in RingRecords, NEW pos \in 0..r.mNumElems - 1
  PROVE  /\ RingErase(r, pos) \in RingRecords
         /\ RingErase(r, pos).mNumElems = r.mNumElems - 1
         /\ \A k \in 0..r.mNumElems - 2 :
              At(RingErase(r, pos), k) = IF k < pos THEN At(r, k) ELSE At(r, k + 1)
<1> DEFINE n == r.mNumElems
           a == r.mReadPos
           mpos == Mod(a + pos)
           lastPos == Mod(a + n - 1)
           fwd == [k \in 0..RingSize - 1 |->
                     IF a < k /\ k <= mpos THEN r.mBuffer[k - 1] ELSE r.mBuffer[k]]
           back == [k \in 0..RingSize - 1 |->
                     IF mpos <= k /\ k < lastPos THEN r.mBuffer[k + 1] ELSE r.mBuffer[k]]
<1>0. /\ a \in 0..RingSize - 1 /\ n \in 0..RingSize
      /\ r.mBuffer \in [0..RingSize - 1 -> Values]
      /\ pos \in 0..n - 1
  BY RecordIs
<1> HIDE DEF a, n
<1>1. /\ a \in 0..RingSize - 1 /\ n \in 1..RingSize
      /\ r.mBuffer \in [0..RingSize - 1 -> Values]
      /\ pos \in 0..n - 1
      /\ n - 1 \in 0..RingSize - 1 /\ a + n - 1 = a + (n - 1)
      /\ a + pos \in 0..2 * RingSize - 1 /\ a + (n - 1) \in 0..2 * RingSize - 1
  BY <1>0
<1>2. /\ mpos = Wrap(a + pos) /\ mpos \in 0..RingSize - 1
      /\ lastPos = Wrap(a + (n - 1)) /\ lastPos \in 0..RingSize - 1
  BY <1>1, ModIs
<1>3. RingErase(r, pos) = IF a <= mpos THEN RingPopFront([r EXCEPT !.mBuffer = fwd])
                                       ELSE RingPopBack([r EXCEPT !.mBuffer = back])
  BY DEF RingErase, a, n
<1> HIDE DEF mpos, lastPos
<1>4. CASE a <= mpos
  <2> DEFINE f == [r EXCEPT !.mBuffer = fwd]
  <2>1. fwd \in [0..RingSize - 1 -> Values]
    BY <1>1, <1>2
  <2>2. f \in RingRecords /\ f.mNumElems = n /\ f.mReadPos = a /\ f.mBuffer = fwd
    BY <2>1 DEF RingRecords, a, n
  <2>3. mpos = a + pos /\ a + pos < RingSize
    BY <1>1, <1>2, <1>4 DEF Wrap
  <2>4. \A i \in 0..RingSize - 1 : fwd[i] = IF a < i /\ i <= a + pos THEN r.mBuffer[i - 1] ELSE r.mBuffer[i]
    BY <2>3
  <2> HIDE DEF fwd, f
  <2>5. /\ RingPopFront(f) \in RingRecords
        /\ RingPopFront(f).mNumElems = n - 1
        /\ \A k \in 0..n - 2 : At(RingPopFront(f), k) = At(f, k + 1)
    BY <1>1, <2>2, RingPopFrontIs
  <2>6. ASSUME NEW k \in 0..n - 2
        PROVE  At(f, k + 1) = IF k < pos THEN At(r, k) ELSE At(r, k + 1)
    <3>1. k \in 0..RingSize - 1 /\ k + 1 \in 0..RingSize - 1
      BY <1>1
    <3>2. /\ At(f, k + 1) = fwd[Wrap(a + (k + 1))]
          /\ At(r, k + 1) = r.mBuffer[Wrap(a + (k + 1))]
          /\ At(r, k) = r.mBuffer[Wrap(a + k)]
          /\ Wrap(a + (k + 1)) \in 0..RingSize - 1
      BY <2>2, <3>1, AtIs DEF a
    <3>3. CASE k < pos
      <4> DEFINE i == a + k + 1
      <4>1. /\ Wrap(a + (k + 1)) = i /\ Wrap(a + k) = i - 1
            /\ a < i /\ i <= a + pos
        BY <1>1, <2>3, <3>1, <3>3 DEF Wrap
      <4> HIDE DEF i
      <4>2. fwd[i] = r.mBuffer[i - 1]
        BY <2>4, <3>2, <4>1
      <4> QED
        BY <3>2, <3>3, <4>1, <4>2
    <3>4. CASE ~(k < pos)
      <4>1. ~(a < Wrap(a + (k + 1)) /\ Wrap(a + (k + 1)) <= a + pos)
        BY <1>1, <2>3, <3>1, <3>4 DEF Wrap
      <4> QED
        BY <2>4, <3>2, <3>4, <4>1
    <3> QED
      BY <3>3, <3>4
  <2> QED
    BY <1>3, <1>4, <2>5, <2>6 DEF f, n
<1>5. CASE ~(a <= mpos)
  <2> DEFINE f == [r EXCEPT !.mBuffer = back]
  <2>1. mpos = a + pos - RingSize /\ lastPos = a + (n - 1) - RingSize /\ a + pos >= RingSize
    BY <1>1, <1>2, <1>5 DEF Wrap
  <2>2. back \in [0..RingSize - 1 -> Values]
    <3>1. ASSUME NEW k \in 0..RingSize - 1
          PROVE  (IF mpos <= k /\ k < lastPos THEN r.mBuffer[k + 1] ELSE r.mBuffer[k]) \in Values
      <4>1. mpos <= k /\ k < lastPos => k + 1 \in 0..RingSize - 1
        BY <1>2
      <4> QED
        BY <1>1, <4>1
    <3> QED
      BY <3>1
  <2>3. f \in RingRecords /\ f.mNumElems = n /\ f.mReadPos = a /\ f.mBuffer = back
    BY <2>2 DEF RingRecords, a, n
  <2>4. \A i \in 0..RingSize - 1 :
          back[i] = IF a + pos - RingSize <= i /\ i < a + (n - 1) - RingSize THEN r.mBuffer[i + 1] ELSE r.mBuffer[i]
    BY <2>1
  <2> HIDE DEF back, f
  <2>5. /\ RingPopBack(f) \in RingRecords
        /\ RingPopBack(f).mNumElems = n - 1
        /\ \A k \in 0..n - 2 : At(RingPopBack(f), k) = At(f, k)
    BY <1>1, <2>3, RingPopBackIs
  <2>6. ASSUME NEW k \in 0..n - 2
        PROVE  At(f, k) = IF k < pos THEN At(r, k) ELSE At(r, k + 1)
    <3>1. k \in 0..RingSize - 1 /\ k + 1 \in 0..RingSize - 1
      BY <1>1
    <3>2. /\ At(f, k) = back[Wrap(a + k)]
          /\ At(r, k + 1) = r.mBuffer[Wrap(a + (k + 1))]
          /\ At(r, k) = r.mBuffer[Wrap(a + k)]
          /\ Wrap(a + k) \in 0..RingSize - 1
      BY <2>3, <3>1, AtIs DEF a
    <3>3. CASE k < pos
      <4>1. ~(a + pos - RingSize <= Wrap(a + k) /\ Wrap(a + k) < a + (n - 1) - RingSize)
        BY <1>1, <2>1, <3>1, <3>3 DEF Wrap
      <4> QED
        BY <2>4, <3>2, <3>3, <4>1
    <3>4. CASE ~(k < pos)
      <4>1. /\ Wrap(a + k) = a + k - RingSize /\ Wrap(a + (k + 1)) = a + k - RingSize + 1
            /\ a + pos - RingSize <= a + k - RingSize
            /\ a + k - RingSize < a + (n - 1) - RingSize
        BY <1>1, <2>1, <3>1, <3>4 DEF Wrap
      <4> QED
        BY <2>4, <3>2, <3>4, <4>1
    <3> QED
      BY <3>3, <3>4
  <2> QED
    BY <1>3, <1>5, <2>5, <2>6 DEF f, n
<1> QED
  BY <1>4, <1>5

(* A list is its Front and its last item.                                  *)
LEMMA AppendOfList ==
  ASSUME NEW S, NEW s \in Seq(S), NEW f \in Seq(S), NEW e \in S, Len(s) = Len(f) + 1,
         e = s[Len(s)], \A j \in 1..Len(f) : f[j] = s[j]
  PROVE  f \o <<e>> = s
<1>1. f \o <<e>> = Append(f, e)
  OBVIOUS
<1>2. Append(f, e) = s
  BY SameList
<1> QED
  BY <1>1, <1>2

(* What the calls on the ring do to its list of elements.                  *)
LEMMA PushFrontList ==
  ASSUME NEW r \in RingRecords, NEW val \in Values, r.mNumElems < RingSize
  PROVE  Elements(RingPushFront(r, val)) = <<val>> \o Elements(r)
<1> DEFINE q == RingPushFront(r, val)
           s == Elements(r)
           u == <<val>> \o s
<1>1. /\ q \in RingRecords /\ q.mNumElems = r.mNumElems + 1
      /\ At(q, 0) = val
      /\ \A k \in 0..r.mNumElems - 1 : At(q, k + 1) = At(r, k)
  BY RingPushFrontIs
<1>2. /\ s \in Seq(Values) /\ Len(s) = r.mNumElems
      /\ \A k \in 1..r.mNumElems : s[k] = At(r, k - 1)
  BY ElementsIs
<1>3. r.mNumElems \in Nat
  BY RecordIs
<1> HIDE DEF q, s
<1>4. /\ Elements(q) \in Seq(Values) /\ Len(Elements(q)) = r.mNumElems + 1
      /\ \A k \in 1..r.mNumElems + 1 : Elements(q)[k] = At(q, k - 1)
  BY <1>1, ElementsIs
<1>5. /\ u \in Seq(Values) /\ Len(u) = 1 + r.mNumElems
      /\ \A k \in 1..1 + r.mNumElems : u[k] = IF k <= 1 THEN val ELSE s[k - 1]
  <2>1. <<val>> \in Seq(Values) /\ Len(<<val>>) = 1 /\ <<val>>[1] = val
    OBVIOUS
  <2> DEFINE v == <<val>>
  <2> HIDE DEF v
  <2>2. /\ v \o s \in Seq(Values) /\ Len(v \o s) = Len(v) + Len(s)
        /\ \A j \in 1..Len(v) + Len(s) : (v \o s)[j] = IF j <= Len(v) THEN v[j] ELSE s[j - Len(v)]
    BY <1>2, <2>1, ConcatShape DEF v
  <2> QED
    BY <1>2, <1>3, <2>1, <2>2 DEF v
<1> HIDE DEF u
<1>6. ASSUME NEW k \in 1..r.mNumElems + 1
      PROVE  Elements(q)[k] = u[k]
  <2>1. CASE k = 1
    BY <1>1, <1>3, <1>4, <1>5, <2>1
  <2>2. CASE k # 1
    <3>1. k - 2 \in 0..r.mNumElems - 1 /\ k - 1 \in 1..r.mNumElems /\ (k - 2) + 1 = k - 1 /\ (k - 1) - 1 = k - 2
      BY <1>3, <2>2
    <3>2. At(q, k - 1) = At(r, k - 2)
      BY <1>1, <3>1
    <3>3. s[k - 1] = At(r, k - 2)
      BY <1>2, <3>1
    <3> QED
      BY <1>3, <1>4, <1>5, <2>2, <3>2, <3>3
  <2> QED
    BY <2>1, <2>2
<1>7. Len(Elements(q)) = Len(u)
  BY <1>3, <1>4, <1>5
<1>8. Elements(q) = u
  BY <1>4, <1>5, <1>6, <1>7, SameList
<1> QED
  BY <1>8 DEF q, u, s

LEMMA PushBackList ==
  ASSUME NEW r \in RingRecords, NEW val \in Values, r.mNumElems < RingSize
  PROVE  Elements(RingPushBack(r, val)) = Append(Elements(r), val)
<1> DEFINE q == RingPushBack(r, val)
           s == Elements(r)
           u == Append(s, val)
<1>1. /\ q \in RingRecords /\ q.mNumElems = r.mNumElems + 1
      /\ At(q, r.mNumElems) = val
      /\ \A k \in 0..r.mNumElems - 1 : At(q, k) = At(r, k)
  BY RingPushBackIs
<1>2. /\ s \in Seq(Values) /\ Len(s) = r.mNumElems
      /\ \A k \in 1..r.mNumElems : s[k] = At(r, k - 1)
  BY ElementsIs
<1>3. r.mNumElems \in Nat
  BY RecordIs
<1> HIDE DEF q, s
<1>4. /\ Elements(q) \in Seq(Values) /\ Len(Elements(q)) = r.mNumElems + 1
      /\ \A k \in 1..r.mNumElems + 1 : Elements(q)[k] = At(q, k - 1)
  BY <1>1, ElementsIs
<1>5. /\ u \in Seq(Values) /\ Len(u) = r.mNumElems + 1
      /\ u[r.mNumElems + 1] = val
      /\ \A k \in 1..r.mNumElems : u[k] = s[k]
  BY <1>2, <1>3
<1> HIDE DEF u
<1>6. ASSUME NEW k \in 1..r.mNumElems + 1
      PROVE  Elements(q)[k] = u[k]
  <2>1. CASE k = r.mNumElems + 1
    <3>1. k - 1 = r.mNumElems
      BY <1>3, <2>1
    <3> QED
      BY <1>1, <1>4, <1>5, <2>1, <3>1
  <2>2. CASE k # r.mNumElems + 1
    <3>1. k - 1 \in 0..r.mNumElems - 1 /\ k \in 1..r.mNumElems
      BY <1>3, <2>2
    <3> QED
      BY <1>1, <1>2, <1>4, <1>5, <3>1
  <2> QED
    BY <2>1, <2>2
<1> QED
  BY <1>3, <1>4, <1>5, <1>6, SameList DEF q, u, s

LEMMA PopFrontList ==
  ASSUME NEW r \in RingRecords, r.mNumElems > 0
  PROVE  Elements(RingPopFront(r)) = Tail(Elements(r))
<1> DEFINE q == RingPopFront(r)
           s == Elements(r)
<1>1. /\ q \in RingRecords /\ q.mNumElems = r.mNumElems - 1
      /\ \A k \in 0..r.mNumElems - 2 : At(q, k) = At(r, k + 1)
  BY RingPopFrontIs
<1>2. /\ s \in Seq(Values) /\ Len(s) = r.mNumElems
      /\ \A k \in 1..r.mNumElems : s[k] = At(r, k - 1)
  BY ElementsIs
<1>3. r.mNumElems \in Nat
  BY RecordIs
<1> HIDE DEF q, s
<1>4. /\ Elements(q) \in Seq(Values) /\ Len(Elements(q)) = r.mNumElems - 1
      /\ \A k \in 1..r.mNumElems - 1 : Elements(q)[k] = At(q, k - 1)
  BY <1>1, ElementsIs
<1>5. /\ Tail(s) \in Seq(Values) /\ Len(Tail(s)) = r.mNumElems - 1
      /\ \A k \in 1..r.mNumElems - 1 : Tail(s)[k] = s[k + 1]
  BY <1>2, <1>3
<1>6. ASSUME NEW k \in 1..r.mNumElems - 1
      PROVE  Elements(q)[k] = Tail(s)[k]
  <2>1. k - 1 \in 0..r.mNumElems - 2 /\ k + 1 \in 1..r.mNumElems /\ (k - 1) + 1 = k /\ (k + 1) - 1 = k
    BY <1>3
  <2>2. At(q, k - 1) = At(r, k) /\ s[k + 1] = At(r, k)
    BY <1>1, <1>2, <2>1
  <2> QED
    BY <1>4, <1>5, <2>2
<1> QED
  BY <1>3, <1>4, <1>5, <1>6, SameList DEF q, s

LEMMA PopBackList ==
  ASSUME NEW r \in RingRecords, r.mNumElems > 0
  PROVE  Elements(RingPopBack(r)) = Front(Elements(r))
<1> DEFINE q == RingPopBack(r)
           s == Elements(r)
<1>1. /\ q \in RingRecords /\ q.mNumElems = r.mNumElems - 1
      /\ \A k \in 0..r.mNumElems - 2 : At(q, k) = At(r, k)
  BY RingPopBackIs
<1>2. /\ s \in Seq(Values) /\ Len(s) = r.mNumElems
      /\ \A k \in 1..r.mNumElems : s[k] = At(r, k - 1)
  BY ElementsIs
<1>3. r.mNumElems \in Nat
  BY RecordIs
<1> HIDE DEF q, s
<1>4. /\ Elements(q) \in Seq(Values) /\ Len(Elements(q)) = r.mNumElems - 1
      /\ \A k \in 1..r.mNumElems - 1 : Elements(q)[k] = At(q, k - 1)
  BY <1>1, ElementsIs
<1>5. /\ Front(s) \in Seq(Values) /\ Len(Front(s)) = r.mNumElems - 1
      /\ \A k \in 1..r.mNumElems - 1 : Front(s)[k] = s[k]
  BY <1>2, <1>3, FrontShape
<1>6. ASSUME NEW k \in 1..r.mNumElems - 1
      PROVE  Elements(q)[k] = Front(s)[k]
  <2>1. k - 1 \in 0..r.mNumElems - 2 /\ k \in 1..r.mNumElems
    BY <1>3
  <2> QED
    BY <1>1, <1>2, <1>4, <1>5, <2>1
<1> QED
  BY <1>3, <1>4, <1>5, <1>6, SameList DEF q, s

LEMMA EraseList ==
  ASSUME NEW r \in RingRecords, NEW pos \in 0..r.mNumElems - 1
  PROVE  Elements(RingErase(r, pos)) = RemoveAt(Elements(r), pos + 1)
<1> DEFINE q == RingErase(r, pos)
           s == Elements(r)
           u == RemoveAt(s, pos + 1)
<1>1. /\ q \in RingRecords /\ q.mNumElems = r.mNumElems - 1
      /\ \A k \in 0..r.mNumElems - 2 : At(q, k) = IF k < pos THEN At(r, k) ELSE At(r, k + 1)
  BY RingEraseIs
<1>2. /\ s \in Seq(Values) /\ Len(s) = r.mNumElems
      /\ \A k \in 1..r.mNumElems : s[k] = At(r, k - 1)
  BY ElementsIs
<1>3. r.mNumElems \in Nat /\ pos \in Nat /\ pos + 1 \in 1..r.mNumElems
  BY RecordIs
<1> HIDE DEF q, s
<1>4. /\ Elements(q) \in Seq(Values) /\ Len(Elements(q)) = r.mNumElems - 1
      /\ \A k \in 1..r.mNumElems - 1 : Elements(q)[k] = At(q, k - 1)
  BY <1>1, ElementsIs
<1>5. /\ u \in Seq(Values) /\ Len(u) = r.mNumElems - 1
      /\ \A k \in 1..r.mNumElems - 1 : u[k] = IF k < pos + 1 THEN s[k] ELSE s[k + 1]
  BY <1>2, <1>3, RemoveAtShape
<1> HIDE DEF u
<1>6. ASSUME NEW k \in 1..r.mNumElems - 1
      PROVE  Elements(q)[k] = u[k]
  <2>1. /\ k - 1 \in 0..r.mNumElems - 2 /\ k \in 1..r.mNumElems /\ k + 1 \in 1..r.mNumElems
        /\ (k - 1) + 1 = k /\ (k + 1) - 1 = k
        /\ k - 1 < pos <=> k < pos + 1
    BY <1>3
  <2>2. Elements(q)[k] = IF k < pos + 1 THEN At(r, k - 1) ELSE At(r, k)
    BY <1>1, <1>4, <2>1
  <2>3. s[k] = At(r, k - 1) /\ s[k + 1] = At(r, k)
    BY <1>2, <2>1
  <2> QED
    BY <1>5, <2>2, <2>3
<1> QED
  BY <1>3, <1>4, <1>5, <1>6, SameList DEF q, u, s

--------------------------------------------------------------------------------
(* The property of the ring is inductive with its types.                   *)
RingInv == RingTypeOK /\ HoldsTheList

LEMMA RingInitInv == RingInit => RingInv
<1> SUFFICES ASSUME RingInit PROVE RingInv
  OBVIOUS
<1>1. RingTypeOK
  <2>1. PICK v \in Values : ring \in [mBuffer : {[k \in 0..RingSize - 1 |-> v]}, mReadPos : {0}, mNumElems : {0}]
    BY DEF RingInit
  <2>2. [k \in 0..RingSize - 1 |-> v] \in [0..RingSize - 1 -> Values]
    OBVIOUS
  <2> QED
    BY <2>1, <2>2 DEF RingInit, RingTypeOK, RingRecords
<1>2. ring.mNumElems = 0
  BY DEF RingInit
<1>3. Elements(ring) \in Seq(Values) /\ Len(Elements(ring)) = 0
  BY <1>1, <1>2, ElementsIs DEF RingTypeOK
<1>4. Elements(ring) = <<>>
  BY <1>3
<1> QED
  BY <1>1, <1>4 DEF RingInit, RingInv, HoldsTheList

LEMMA RingStepInv == RingInv /\ [RingNext]_ringVars => RingInv'
<1> SUFFICES ASSUME RingInv, [RingNext]_ringVars
             PROVE  RingInv'
  OBVIOUS
<1> DEFINE s == Elements(ring)
<1>1. /\ ring \in RingRecords /\ ring.mNumElems \in 0..RingSize
      /\ mBackOverflow \in Seq(Values) /\ items \in Seq(Values)
      /\ items = s \o mBackOverflow
  BY RecordIs DEF RingInv, RingTypeOK, HoldsTheList
<1>2. /\ s \in Seq(Values) /\ Len(s) = ring.mNumElems
      /\ \A k \in 1..ring.mNumElems : s[k] = At(ring, k - 1)
  BY <1>1, ElementsIs
<1>3. Len(items) = Len(s) + Len(mBackOverflow) /\ Len(mBackOverflow) \in Nat
  BY <1>1, <1>2, ConcatShape
<1> HIDE DEF s
<1> USE DEF RingInv, RingTypeOK, HoldsTheList
<1>4. ASSUME NEW val \in Values, PushFront(val)
      PROVE  RingInv'
  <2>1. items' = <<val>> \o items /\ items' \in Seq(Values)
    BY <1>1, <1>4 DEF PushFront
  <2>2. CASE IsFull(ring)
    <3> DEFINE q == RingPopBack(ring)
               last == At(ring, RingSize - 1)
    <3>1. /\ mBackOverflow' = <<last>> \o mBackOverflow
          /\ ring' = RingPushFront(q, val)
          /\ ring.mNumElems = RingSize
      BY <1>4, <2>2 DEF PushFront, IsFull
    <3>2. /\ q \in RingRecords /\ q.mNumElems = RingSize - 1
          /\ Elements(q) = Front(s)
      BY <1>1, <3>1, RingPopBackIs, PopBackList DEF s
    <3>3. last \in Values /\ last = s[RingSize] /\ s # <<>> /\ Len(s) = RingSize
      BY <1>1, <1>2, <3>1, AtIs
    <3> HIDE DEF q, last
    <3>4. ring' \in RingRecords /\ Elements(ring') = <<val>> \o Front(s)
      BY <3>1, <3>2, RingPushFrontIs, PushFrontList
    <3>5. Front(s) \in Seq(Values) /\ Front(s) \o <<last>> = s
      <4>1. Len(s) > 0
        BY <3>3
      <4>2. /\ Front(s) \in Seq(Values) /\ Len(Front(s)) = Len(s) - 1
            /\ \A j \in 1..Len(s) - 1 : Front(s)[j] = s[j]
        BY <1>2, <4>1, FrontShape
      <4> DEFINE f == Front(s)
      <4> HIDE DEF f
      <4> QED
        BY <1>2, <3>3, <4>2, AppendOfList DEF f
    <3>6. mBackOverflow' \in Seq(Values)
      BY <1>1, <3>1, <3>3
    <3>7. Elements(ring') \o mBackOverflow' = items'
      <4> DEFINE f == Front(s)
      <4> HIDE DEF f
      <4>1. (<<val>> \o f) \o (<<last>> \o mBackOverflow) = <<val>> \o ((f \o <<last>>) \o mBackOverflow)
        BY <1>1, <3>3, <3>5, SMTT(30) DEF f
      <4> QED
        BY <1>1, <2>1, <3>1, <3>4, <3>5, <4>1 DEF f
    <3> QED
      BY <2>1, <3>4, <3>6, <3>7 DEF Elements
  <2>3. CASE ~IsFull(ring)
    <3>1. ring' = RingPushFront(ring, val) /\ mBackOverflow' = mBackOverflow /\ ring.mNumElems < RingSize
      BY <1>1, <1>4, <2>3 DEF PushFront, IsFull
    <3>2. ring' \in RingRecords /\ Elements(ring') = <<val>> \o s
      BY <1>1, <3>1, RingPushFrontIs, PushFrontList DEF s
    <3>3. (<<val>> \o s) \o mBackOverflow = <<val>> \o items
      BY <1>1, <1>2, FrontOfConcat
    <3> QED
      BY <1>1, <2>1, <3>1, <3>2, <3>3 DEF Elements
  <2> QED
    BY <2>2, <2>3, Zenon
<1>5. ASSUME NEW val \in Values, PushBack(val)
      PROVE  RingInv'
  <2>1. items' = Append(items, val) /\ items' \in Seq(Values)
    BY <1>1, <1>5 DEF PushBack
  <2>2. CASE ~IsFull(ring) /\ mBackOverflow = <<>>
    <3>1. ring' = RingPushBack(ring, val) /\ mBackOverflow' = <<>> /\ ring.mNumElems < RingSize
      BY <1>1, <1>5, <2>2 DEF PushBack, IsFull
    <3>2. ring' \in RingRecords /\ Elements(ring') = Append(s, val)
      BY <1>1, <3>1, RingPushBackIs, PushBackList DEF s
    <3>3. Append(s, val) \in Seq(Values) /\ items = s
      BY <1>1, <1>2, <2>2, BackOfConcat
    <3>4. Append(s, val) \o <<>> = items'
      BY <2>1, <3>3
    <3> QED
      BY <1>1, <2>1, <2>2, <3>1, <3>2, <3>4 DEF Elements
  <2>3. CASE ~(~IsFull(ring) /\ mBackOverflow = <<>>)
    <3>1. ring' = ring /\ mBackOverflow' = Append(mBackOverflow, val)
      BY <1>5, <2>3 DEF PushBack
    <3>2. s \o Append(mBackOverflow, val) = Append(items, val)
      BY <1>1, <1>2, BackOfConcat, SMTT(30)
    <3>3. mBackOverflow' \in Seq(Values)
      BY <1>1, <3>1
    <3>4. Elements(ring') = s
      BY <3>1 DEF s
    <3> QED
      BY <1>1, <2>1, <3>1, <3>2, <3>3, <3>4
  <2> QED
    BY <2>2, <2>3, Zenon
<1>6. ASSUME PopFront
      PROVE  RingInv'
  <2>1. items # <<>> /\ items' = Tail(items) /\ items' \in Seq(Values)
    BY <1>1, <1>6 DEF PopFront
  <2>2. CASE ring.mNumElems > 0
    <3>1. ring' = RingPopFront(ring) /\ mBackOverflow' = mBackOverflow /\ s # <<>>
      BY <1>2, <1>6, <2>2 DEF PopFront
    <3>2. ring' \in RingRecords /\ Elements(ring') = Tail(s)
      BY <1>1, <2>2, <3>1, RingPopFrontIs, PopFrontList DEF s
    <3>3. Tail(s) \o mBackOverflow = Tail(items)
      BY <1>1, <1>2, <3>1, FrontOfConcat
    <3> QED
      BY <1>1, <2>1, <3>1, <3>2, <3>3 DEF Elements
  <2>3. CASE ~(ring.mNumElems > 0)
    <3>1. ring' = ring /\ mBackOverflow' = Tail(mBackOverflow)
      BY <1>6, <2>3 DEF PopFront
    <3>2. s = <<>> /\ items = mBackOverflow
      BY <1>1, <1>2, <2>3, FrontOfConcat
    <3>3. mBackOverflow' \in Seq(Values) /\ <<>> \o mBackOverflow' = items'
      BY <1>1, <2>1, <3>1, <3>2
    <3>4. Elements(ring') = <<>>
      BY <3>1, <3>2 DEF s
    <3> QED
      BY <1>1, <2>1, <3>1, <3>3, <3>4
  <2> QED
    BY <2>2, <2>3, Zenon
<1>7. ASSUME PopBack
      PROVE  RingInv'
  <2>1. items # <<>> /\ items' = Front(items) /\ items' \in Seq(Values)
    <3>1. items # <<>> /\ items' = Front(items)
      BY <1>7 DEF PopBack
    <3>2. Len(items) > 0
      BY <1>1, <3>1
    <3> QED
      BY <1>1, <3>1, <3>2, FrontShape
  <2>2. CASE mBackOverflow = <<>>
    <3>1. ring' = RingPopBack(ring) /\ mBackOverflow' = mBackOverflow
      BY <1>7, <2>2 DEF PopBack
    <3>2. items = s /\ ring.mNumElems > 0
      BY <1>1, <1>2, <2>1, <2>2, BackOfConcat
    <3>3. ring' \in RingRecords /\ Elements(ring') = Front(s)
      BY <1>1, <3>1, <3>2, RingPopBackIs, PopBackList DEF s
    <3>4. Front(s) \o <<>> = items'
      BY <2>1, <3>2
    <3> QED
      BY <1>1, <2>1, <2>2, <3>1, <3>3, <3>4 DEF Elements
  <2>3. CASE mBackOverflow # <<>>
    <3>1. ring' = ring /\ mBackOverflow' = Front(mBackOverflow)
      BY <1>7, <2>3 DEF PopBack
    <3>2. s \o Front(mBackOverflow) = Front(items)
      BY <1>1, <1>2, <2>3, BackOfConcat
    <3>3. Len(mBackOverflow) > 0
      BY <1>1, <2>3
    <3>4. mBackOverflow' \in Seq(Values)
      BY <1>1, <3>1, <3>3, FrontShape
    <3>5. Elements(ring') = s
      BY <3>1 DEF s
    <3> QED
      BY <1>1, <2>1, <3>1, <3>2, <3>4, <3>5
  <2> QED
    BY <2>2, <2>3, Zenon
<1>8. ASSUME NEW pos \in 0..MaxItems - 1, Erase(pos)
      PROVE  RingInv'
  <2>0. pos \in Nat
    OBVIOUS
  <2>1. pos + 1 \in 1..Len(items) /\ items' = RemoveAt(items, pos + 1)
    BY <1>1, <1>8, <2>0 DEF Erase
  <2>2. items' \in Seq(Values)
    BY <1>1, <2>1, RemoveAtShape
  <2>3. CASE pos < ring.mNumElems
    <3>1. ring' = RingErase(ring, pos) /\ mBackOverflow' = mBackOverflow /\ pos \in 0..ring.mNumElems - 1
      BY <1>1, <1>8, <2>0, <2>3 DEF Erase
    <3>2. ring' \in RingRecords /\ Elements(ring') = RemoveAt(s, pos + 1)
      BY <1>1, <3>1, RingEraseIs, EraseList DEF s
    <3>3. pos + 1 \in 1..Len(s) + Len(mBackOverflow) /\ pos + 1 <= Len(s)
      BY <1>1, <1>2, <1>3, <2>0, <2>1, <2>3
    <3>4. RemoveAt(s, pos + 1) \o mBackOverflow = RemoveAt(s \o mBackOverflow, pos + 1)
      <4> DEFINE i == pos + 1
      <4>1. i \in 1..Len(s) + Len(mBackOverflow) /\ i <= Len(s)
        BY <3>3
      <4> HIDE DEF i
      <4>2. s \in Seq(Values) /\ mBackOverflow \in Seq(Values)
        BY <1>1, <1>2
      <4>3. i <= Len(s) => RemoveAt(s, i) \o mBackOverflow = RemoveAt(s \o mBackOverflow, i)
        BY ONLY <4>1, <4>2, EraseOfConcat, ZenonT(30)
      <4> QED
        BY <4>1, <4>3 DEF i
    <3> QED
      BY <1>1, <2>1, <2>2, <3>1, <3>2, <3>4 DEF Elements
  <2>4. CASE ~(pos < ring.mNumElems)
    <3>1. ring' = ring /\ mBackOverflow' = RemoveAt(mBackOverflow, pos - ring.mNumElems + 1)
      BY <1>8, <2>4 DEF Erase
    <3>2. /\ pos + 1 \in 1..Len(s) + Len(mBackOverflow) /\ ~(pos + 1 <= Len(s))
          /\ pos - ring.mNumElems + 1 = (pos + 1) - Len(s)
          /\ (pos + 1) - Len(s) \in 1..Len(mBackOverflow)
      BY <1>1, <1>2, <1>3, <2>0, <2>1, <2>4, SMTT(30)
    <3>3. s \o RemoveAt(mBackOverflow, (pos + 1) - Len(s)) = RemoveAt(s \o mBackOverflow, pos + 1)
      <4> DEFINE i == pos + 1
      <4>1. i \in 1..Len(s) + Len(mBackOverflow) /\ ~(i <= Len(s))
        BY <3>2
      <4> HIDE DEF i
      <4>2. s \o RemoveAt(mBackOverflow, i - Len(s)) = RemoveAt(s \o mBackOverflow, i)
        <5>1. s \in Seq(Values) /\ mBackOverflow \in Seq(Values)
          BY <1>1, <1>2
        <5>2. ~(i <= Len(s)) => s \o RemoveAt(mBackOverflow, i - Len(s)) = RemoveAt(s \o mBackOverflow, i)
          BY ONLY <5>1, <4>1, EraseOfConcat, ZenonT(30)
        <5> QED
          BY <4>1, <5>2
      <4> QED
        BY <4>2 DEF i
    <3>4. mBackOverflow' \in Seq(Values)
      BY <1>1, <3>1, <3>2, RemoveAtShape
    <3>5. Elements(ring') = s
      BY <3>1 DEF s
    <3> QED
      BY <1>1, <2>1, <2>2, <3>1, <3>2, <3>3, <3>4, <3>5
  <2> QED
    BY <2>3, <2>4, Zenon
<1>9. ASSUME UNCHANGED ringVars
      PROVE  RingInv'
  BY <1>9 DEF ringVars, Elements, At
<1> QED
  BY <1>4, <1>5, <1>6, <1>7, <1>8, <1>9 DEF RingNext

(* After every sequence of pushes, pops and erases the ring and its        *)
(* overflow list hold the items of a plain list in the same order, for     *)
(* every size of the ring, also when the items wrap round its end          *)
(* (container/RingBuffer.h).                                               *)
THEOREM RingHoldsTheList == RingSpec => []HoldsTheList
<1>1. RingInv => HoldsTheList
  BY DEF RingInv
<1> QED
  BY <1>1, RingInitInv, RingStepInv, PTL DEF RingSpec

(* The read position and the number of elements stay within the ring.      *)
THEOREM RingTypeCorrect == RingSpec => []RingTypeOK
<1>1. RingInv => RingTypeOK
  BY DEF RingInv
<1> QED
  BY <1>1, RingInitInv, RingStepInv, PTL DEF RingSpec

================================================================================
