-------------------------- MODULE ContainersProofs --------------------------
(***************************************************************************)
(* Theorems about the containers, for any sizes.  Of the memory pool:      *)
(* until somebody asks for an element more than there are, nobody gets an  *)
(* element twice and the pool does not run out early.  Of the FIFO queue:  *)
(* until a copy runs past the end of its array, tasks come out in the      *)
(* order in which they went in.                                            *)
(***************************************************************************)
EXTENDS Containers, TLAPS

\* The pool does not notice the queue.
LEMMA PoolAlone == BothSpec => PoolSpec
<1>1. BothInit => PoolInit
  BY DEF BothInit
<1>2. [BothNext]_<<poolVars, queueVars>> => [PoolNext]_poolVars
  BY DEF BothNext
<1> QED
  BY <1>1, <1>2, PTL DEF BothSpec, PoolSpec

-----------------------------------------------------------------------------
(***************************************************************************)
(* The memory pool.  The invariant names the free list: a sequence c of    *)
(* all elements that nobody holds, each once, that starts at m_free and    *)
(* follows m_marks.  Where the link of its last element leads does not     *)
(* matter.                                                                 *)
(***************************************************************************)
IsFreeList(n, c, begin, links, holds) ==
    /\ \A i, j \in 1 .. n : c[i] = c[j] => i = j
    /\ \A e \in Elems : holds[e] = 0 => \E i \in 1 .. n : c[i] = e
    /\ \A i \in 1 .. n : holds[c[i]] = 0
    /\ n >= 1 => c[1] = begin
    /\ \A i \in 1 .. n : i < n => links[c[i]] = c[i + 1]

FreeList == \E n \in Nat : \E c \in [1 .. n -> Elems] : IsFreeList(n, c, free, marks, holders)

FreeListInv == overdrawn \/ ((\A e \in Elems : holders[e] <= 1) /\ FreeList)

IInv == PoolTypeOK /\ FreeListInv

\* The constructor links the elements in order.
LEMMA InitInv == PoolInit => IInv
<1> SUFFICES ASSUME PoolInit PROVE IInv
  OBVIOUS
<1> USE PoolAssumption
<1>1. PoolTypeOK
  <2>1. free \in Elems \cup {-1} /\ marks \in [Elems -> Elems \cup {-1}]
    BY DEF PoolInit, Elems
  <2>2. holders \in [Elems -> Nat]
    BY DEF PoolInit
  <2>3. overdrawn \in BOOLEAN
    BY DEF PoolInit
  <2> QED
    BY <2>1, <2>2, <2>3 DEF PoolTypeOK
<1>3. \A e \in Elems : holders[e] <= 1
  BY DEF PoolInit
<1>2. FreeList
  <2> DEFINE c == [i \in 1 .. Count |-> i - 1]
  <2>1. c \in [1 .. Count -> Elems]
    BY DEF Elems
  <2>2. IsFreeList(Count, c, free, marks, holders)
    <3>1. \A i \in 1 .. Count : c[i] = i - 1 /\ c[i] \in Elems
      BY DEF Elems
    <3>2. \A e \in Elems : e + 1 \in 1 .. Count /\ c[e + 1] = e
      BY DEF Elems
    <3>3. \A i \in 1 .. Count : i < Count => marks[c[i]] = c[i + 1]
      BY <3>1 DEF PoolInit, Elems
    <3>4. \A e \in Elems : holders[e] = 0
      BY DEF PoolInit
    <3>5. c[1] = free
      BY <3>1 DEF PoolInit
    <3> HIDE DEF c
    <3> QED
      BY <3>1, <3>2, <3>3, <3>4, <3>5 DEF IsFreeList
  <2> QED
    BY <2>1, <2>2 DEF FreeList
<1> QED
  BY <1>1, <1>2, <1>3 DEF IInv, FreeListInv

\* Alloc and Free keep the types.
LEMMA AllocTypes == ASSUME PoolTypeOK, Alloc PROVE PoolTypeOK'
<1> USE PoolAssumption
<1>1. marks[free] \in Elems \cup {-1} /\ free \in Elems
  BY DEF Alloc, PoolTypeOK, Elems
<1>2. free' \in Elems \cup {-1} /\ marks' \in [Elems -> Elems \cup {-1}]
  BY <1>1 DEF Alloc, PoolTypeOK
<1>3. holders' \in [Elems -> Nat]
  BY <1>1 DEF Alloc, PoolTypeOK
<1>4. overdrawn' \in BOOLEAN
  BY DEF Alloc, PoolTypeOK
<1> QED
  BY <1>2, <1>3, <1>4 DEF PoolTypeOK

LEMMA FreeTypes == ASSUME PoolTypeOK, NEW e \in Elems, Free(e) PROVE PoolTypeOK'
<1> USE PoolAssumption
<1>1. free' \in Elems \cup {-1} /\ marks' \in [Elems -> Elems \cup {-1}]
  BY DEF Free, PoolTypeOK
<1>2. holders' \in [Elems -> Nat]
  BY DEF Free, PoolTypeOK
<1>3. overdrawn' \in BOOLEAN
  BY DEF Free, PoolTypeOK
<1> QED
  BY <1>1, <1>2, <1>3 DEF PoolTypeOK

\* What Alloc takes is the head of the free list, and the rest is a free list.
LEMMA AllocInv == ASSUME IInv, Alloc PROVE IInv'
<1> USE PoolAssumption
<1>a. PoolTypeOK'
  BY AllocTypes DEF IInv
<1> SUFFICES ASSUME ~overdrawn' PROVE (\A e \in Elems : holders'[e] <= 1) /\ FreeList'
  BY <1>a DEF IInv, FreeListInv
<1>b. ~overdrawn /\ Held # Elems
  BY DEF Alloc, IInv, PoolTypeOK
<1>1. PICK n \in Nat : \E c \in [1 .. n -> Elems] : IsFreeList(n, c, free, marks, holders)
  BY <1>b DEF IInv, FreeListInv, FreeList
<1>2. PICK c \in [1 .. n -> Elems] : IsFreeList(n, c, free, marks, holders)
  BY <1>1
<1>3. n >= 1 /\ c[1] = free /\ free \in Elems /\ holders[free] = 0
  <2>1. PICK e \in Elems : holders[e] = 0
    BY <1>b DEF Held, IInv, PoolTypeOK
  <2>2. n >= 1
    BY <2>1, <1>2 DEF IsFreeList
  <2> QED
    BY <2>2, <1>2 DEF IsFreeList
<1>4. /\ free' = marks[free]
      /\ marks' = [marks EXCEPT ![free] = -1]
      /\ holders' = [holders EXCEPT ![free] = 1]
  BY <1>3 DEF Alloc, IInv, PoolTypeOK
<1>5. \A e \in Elems : holders'[e] <= 1
  BY <1>b, <1>3, <1>4 DEF IInv, PoolTypeOK, FreeListInv
<1>6. FreeList'
  <2> DEFINE d == [i \in 1 .. n - 1 |-> c[i + 1]]
  <2>1. n - 1 \in Nat /\ d \in [1 .. n - 1 -> Elems]
    BY <1>3
  <2>2. \A i \in 1 .. n - 1 : d[i] = c[i + 1] /\ d[i] # free /\ d[i] \in Elems
    BY <1>2, <1>3 DEF IsFreeList
  <2>3. \A i, j \in 1 .. n - 1 : d[i] = d[j] => i = j
    BY <1>2, <2>2 DEF IsFreeList
  <2>4. \A e \in Elems : holders'[e] = 0 => \E i \in 1 .. n - 1 : d[i] = e
    <3> SUFFICES ASSUME NEW e \in Elems, holders'[e] = 0
                 PROVE  \E i \in 1 .. n - 1 : d[i] = e
      OBVIOUS
    <3>1. e # free /\ holders[e] = 0
      BY <1>3, <1>4 DEF IInv, PoolTypeOK
    <3>2. PICK k \in 1 .. n : c[k] = e
      BY <1>2, <3>1 DEF IsFreeList
    <3>3. k - 1 \in 1 .. n - 1 /\ d[k - 1] = e
      BY <1>3, <3>1, <3>2
    <3> QED
      BY <3>3
  <2>5. \A i \in 1 .. n - 1 : holders'[d[i]] = 0
    BY <1>2, <1>4, <2>2 DEF IsFreeList, IInv, PoolTypeOK
  <2>6. n - 1 >= 1 => d[1] = free'
    BY <1>2, <1>3, <1>4 DEF IsFreeList
  <2>7. \A i \in 1 .. n - 1 : i < n - 1 => marks'[d[i]] = d[i + 1]
    <3> SUFFICES ASSUME NEW i \in 1 .. n - 1, i < n - 1
                 PROVE  marks'[d[i]] = d[i + 1]
      OBVIOUS
    <3>1. marks'[d[i]] = marks[c[i + 1]]
      BY <1>4, <2>2 DEF IInv, PoolTypeOK
    <3>2. marks[c[i + 1]] = c[(i + 1) + 1]
      BY <1>2 DEF IsFreeList
    <3> QED
      BY <3>1, <3>2
  <2> HIDE DEF d
  <2>8. IsFreeList(n - 1, d, free', marks', holders')
    BY <2>1, <2>3, <2>4, <2>5, <2>6, <2>7 DEF IsFreeList
  <2> QED
    BY <2>1, <2>8 DEF FreeList
<1> QED
  BY <1>5, <1>6

\* What Free gives back becomes the head of the free list.
LEMMA FreeInv == ASSUME IInv, NEW e \in Elems, Free(e) PROVE IInv'
<1> USE PoolAssumption
<1>a. PoolTypeOK'
  BY FreeTypes DEF IInv
<1> SUFFICES ASSUME ~overdrawn' PROVE (\A f \in Elems : holders'[f] <= 1) /\ FreeList'
  BY <1>a DEF IInv, FreeListInv
<1>b. ~overdrawn
  BY DEF Free
<1>1. PICK n \in Nat : \E c \in [1 .. n -> Elems] : IsFreeList(n, c, free, marks, holders)
  BY <1>b DEF IInv, FreeListInv, FreeList
<1>2. PICK c \in [1 .. n -> Elems] : IsFreeList(n, c, free, marks, holders)
  BY <1>1
<1>3. holders[e] = 1
  BY <1>b DEF Free, IInv, PoolTypeOK, FreeListInv
<1>4. /\ free' = e
      /\ marks' = [marks EXCEPT ![e] = free]
      /\ holders' = [holders EXCEPT ![e] = 0]
  BY <1>3 DEF Free
<1>5. \A f \in Elems : holders'[f] <= 1
  BY <1>b, <1>4 DEF IInv, PoolTypeOK, FreeListInv
<1>6. FreeList'
  <2> DEFINE d == [i \in 1 .. n + 1 |-> IF i = 1 THEN e ELSE c[i - 1]]
  <2>1. n + 1 \in Nat /\ d \in [1 .. n + 1 -> Elems]
    OBVIOUS
  <2>2. \A i \in 1 .. n : c[i] \in Elems /\ c[i] # e
    BY <1>2, <1>3 DEF IsFreeList
  <2>3. d[1] = e /\ \A i \in 2 .. n + 1 : d[i] = c[i - 1] /\ d[i] # e
    BY <2>2
  <2>4. \A i, j \in 1 .. n + 1 : d[i] = d[j] => i = j
    <3> SUFFICES ASSUME NEW i \in 1 .. n + 1, NEW j \in 1 .. n + 1, d[i] = d[j]
                 PROVE  i = j
      OBVIOUS
    <3>1. CASE i = 1 \/ j = 1
      <4> HIDE DEF d
      <4>1. \A k \in 1 .. n + 1 : k # 1 => k \in 2 .. n + 1
        OBVIOUS
      <4> QED
        BY <2>3, <3>1, <4>1
    <3>2. CASE i # 1 /\ j # 1
      <4>1. c[i - 1] = c[j - 1] /\ i - 1 \in 1 .. n /\ j - 1 \in 1 .. n
        BY <2>3, <3>2
      <4>2. i - 1 = j - 1
        BY <1>2, <4>1 DEF IsFreeList
      <4> QED
        BY <4>2
    <3> QED
      BY <3>1, <3>2
  <2>5. \A f \in Elems : holders'[f] = 0 => \E i \in 1 .. n + 1 : d[i] = f
    <3> SUFFICES ASSUME NEW f \in Elems, holders'[f] = 0
                 PROVE  \E i \in 1 .. n + 1 : d[i] = f
      OBVIOUS
    <3>1. CASE f = e
      BY <2>3, <3>1
    <3>2. CASE f # e
      <4>1. holders[f] = 0
        BY <1>4, <3>2 DEF IInv, PoolTypeOK
      <4>2. PICK k \in 1 .. n : c[k] = f
        BY <1>2, <4>1 DEF IsFreeList
      <4>3. k + 1 \in 1 .. n + 1 /\ d[k + 1] = f
        BY <2>3, <4>2
      <4> HIDE DEF d
      <4> QED
        BY <4>3
    <3> QED
      BY <3>1, <3>2
  <2>6. \A i \in 1 .. n + 1 : holders'[d[i]] = 0
    <3> SUFFICES ASSUME NEW i \in 1 .. n + 1 PROVE holders'[d[i]] = 0
      OBVIOUS
    <3>1. CASE i = 1
      BY <1>4, <2>3, <3>1 DEF IInv, PoolTypeOK
    <3>2. CASE i # 1
      BY <1>2, <1>4, <2>2, <2>3, <3>2 DEF IsFreeList, IInv, PoolTypeOK
    <3> QED
      BY <3>1, <3>2
  <2>7. \A i \in 1 .. n + 1 : i < n + 1 => marks'[d[i]] = d[i + 1]
    <3> SUFFICES ASSUME NEW i \in 1 .. n + 1, i < n + 1
                 PROVE  marks'[d[i]] = d[i + 1]
      OBVIOUS
    <3>1. d[i + 1] = c[i]
      BY <2>3
    <3>2. CASE i = 1
      BY <1>2, <1>4, <2>3, <3>1, <3>2 DEF IsFreeList, IInv, PoolTypeOK
    <3>3. CASE i # 1
      <4>1. d[i] = c[i - 1] /\ d[i] # e /\ d[i] \in Elems
        BY <2>2, <2>3, <3>3
      <4>2. marks'[d[i]] = marks[c[i - 1]]
        BY <1>4, <4>1 DEF IInv, PoolTypeOK
      <4>3. marks[c[i - 1]] = c[(i - 1) + 1]
        BY <1>2, <3>3 DEF IsFreeList
      <4> QED
        BY <3>1, <4>2, <4>3
    <3> QED
      BY <3>2, <3>3
  <2> HIDE DEF d
  <2>8. IsFreeList(n + 1, d, free', marks', holders')
    BY <1>4, <2>1, <2>3, <2>4, <2>5, <2>6, <2>7 DEF IsFreeList
  <2> QED
    BY <2>1, <2>8 DEF FreeList
<1> QED
  BY <1>5, <1>6

\* The free list of a pool is intact after any sequence of Alloc and Free in
\* which nobody has asked for an element more than there are (EasyMath.cpp:48-87).
THEOREM FreeListIntact == PoolSpec => []IInv
<1>1. PoolInit => IInv
  BY InitInv
<1>2. IInv /\ [PoolNext]_poolVars => IInv'
  <2> SUFFICES ASSUME IInv, [PoolNext]_poolVars PROVE IInv'
    OBVIOUS
  <2>1. CASE Alloc
    BY <2>1, AllocInv
  <2>2. CASE AllocNull
    <3>1. PoolTypeOK'
      BY <2>2 DEF AllocNull, IInv, PoolTypeOK
    <3>2. FreeListInv'
      <4>1. UNCHANGED <<free, marks, holders>>
        BY <2>2 DEF AllocNull
      <4>2. FreeList => FreeList'
        BY <4>1 DEF FreeList
      <4>3. overdrawn => overdrawn'
        BY <2>2 DEF AllocNull
      <4> QED
        BY <4>1, <4>2, <4>3 DEF IInv, FreeListInv
    <3> QED
      BY <3>1, <3>2 DEF IInv
  <2>3. CASE UNCHANGED poolVars
    BY <2>3 DEF poolVars, IInv, PoolTypeOK, FreeListInv, FreeList, IsFreeList
  <2>4. ASSUME NEW e \in Elems, Free(e) PROVE IInv'
    BY <2>4, FreeInv
  <2> QED
    BY <2>1, <2>2, <2>3, <2>4 DEF PoolNext
<1> QED
  BY <1>1, <1>2, PTL DEF PoolSpec

\* Until the pool is overdrawn Alloc never returns an element that somebody
\* holds (EasyMath.cpp:70).
THEOREM NeverHeldTwice == BothSpec => []Exclusive
<1>1. IInv => Exclusive
  BY DEF IInv, FreeListInv, Exclusive
<1> QED
  BY <1>1, FreeListIntact, PoolAlone, PTL

\* As long as an element is free Alloc returns a free one (EasyMath.cpp:70).
THEOREM NextOneIsFree == BothSpec => []NextIsFree
<1>1. IInv => NextIsFree
  <2> SUFFICES ASSUME IInv, ~overdrawn, Held # Elems PROVE free \in Elems \ Held
    BY DEF NextIsFree
  <2>1. PICK n \in Nat : \E c \in [1 .. n -> Elems] : IsFreeList(n, c, free, marks, holders)
    BY DEF IInv, FreeListInv, FreeList
  <2>2. PICK c \in [1 .. n -> Elems] : IsFreeList(n, c, free, marks, holders)
    BY <2>1
  <2>3. PICK e \in Elems : holders[e] = 0
    BY DEF Held, IInv, PoolTypeOK
  <2>4. n >= 1
    BY <2>2, <2>3 DEF IsFreeList
  <2> QED
    BY <2>2, <2>4 DEF IsFreeList, Held
<1> QED
  BY <1>1, FreeListIntact, PoolAlone, PTL

-----------------------------------------------------------------------------
(* The FIFO queue.                                                         *)

\* A sum of two slots, and a difference of two, modulo the size.
LEMMA Below == ASSUME NEW s \in Nat \ {0}, NEW a \in 0 .. s - 1 PROVE a % s = a
OBVIOUS

LEMMA Above == ASSUME NEW s \in Nat \ {0}, NEW a \in s .. 2 * s - 1 PROVE a % s = a - s
OBVIOUS

LEMMA Negative == ASSUME NEW s \in Nat \ {0}, NEW a \in (- s) .. (-1) PROVE a % s = a + s
OBVIOUS

LEMMA Slot ==
    ASSUME NEW s \in Nat \ {0}, NEW a \in 0 .. 2 * s - 1
    PROVE  a % s = (IF a < s THEN a ELSE a - s) /\ a % s \in 0 .. s - 1
<1>1. CASE a < s
  BY <1>1, Below
<1>2. CASE a >= s
  <2>1. a \in s .. 2 * s - 1
    BY <1>2
  <2>2. a % s = a - s
    BY <2>1, Above
  <2> QED
    BY <2>1, <2>2
<1> QED
  BY <1>1, <1>2

LEMMA NextSlot ==
    ASSUME NEW s \in Nat \ {0}, NEW a \in 0 .. s - 1
    PROVE  (a + 1) % s = (IF a + 1 < s THEN a + 1 ELSE a + 1 - s) /\ (a + 1) % s \in 0 .. s - 1
<1>1. PICK b \in 0 .. 2 * s - 1 : b = a + 1
  OBVIOUS
<1>2. b % s = (IF b < s THEN b ELSE b - s) /\ b % s \in 0 .. s - 1
  BY Slot
<1> QED
  BY <1>1, <1>2

LEMMA SlotFrom ==
    ASSUME NEW s \in Nat \ {0}, NEW a \in 0 .. s - 1, NEW k \in 1 .. s
    PROVE  /\ (a + k - 1) % s = IF a + k - 1 < s THEN a + k - 1 ELSE a + k - 1 - s
           /\ (a + k - 1) % s \in 0 .. s - 1
<1>1. PICK b \in 0 .. 2 * s - 1 : b = a + k - 1
  OBVIOUS
<1>2. b % s = (IF b < s THEN b ELSE b - s) /\ b % s \in 0 .. s - 1
  BY Slot
<1> QED
  BY <1>1, <1>2

\* Counting on from the next slot is counting one further.
LEMMA SlotShift ==
    ASSUME NEW s \in Nat \ {0}, NEW a \in 0 .. s - 1, NEW k \in 1 .. s - 1
    PROVE  (((a + 1) % s) + k - 1) % s = (a + (k + 1) - 1) % s
<1> DEFINE b == (a + 1) % s
<1>1. b = (IF a + 1 < s THEN a + 1 ELSE a + 1 - s) /\ b \in 0 .. s - 1
  BY NextSlot
<1> HIDE DEF b
<1>2. k \in 1 .. s /\ k + 1 \in 1 .. s
  OBVIOUS
<1>3. (b + k - 1) % s = IF b + k - 1 < s THEN b + k - 1 ELSE b + k - 1 - s
  BY <1>1, <1>2, SlotFrom
<1>4. PICK c \in 1 .. s : c = k + 1
  BY <1>2
<1>5. (a + c - 1) % s = IF a + c - 1 < s THEN a + c - 1 ELSE a + c - 1 - s
  BY <1>4, SlotFrom
<1>6. (b + k - 1) % s = (a + c - 1) % s
  BY <1>1, <1>3, <1>4, <1>5
<1> QED
  BY <1>4, <1>6 DEF b

\* How many tasks are in the queue.
Length == pushed - popped

\* From head on the array holds the tasks not yet popped, oldest first, and
\* the slot before head is free.
QueueInv ==
    /\ size \in Nat \ {0}
    /\ head \in 0 .. size - 1 /\ tail \in 0 .. size - 1
    /\ pushed \in 0 .. MaxPushes /\ popped \in 0 .. pushed
    /\ Length < size
    /\ tail = IF head + Length < size THEN head + Length ELSE head + Length - size
    /\ DOMAIN items = 0 .. size - 1
    /\ items = [i \in DOMAIN items |-> items[i]]
    /\ \A k \in 1 .. Length : items[(head + k - 1) % size] = popped + k
    /\ last # 0 => last = popped
    /\ overrun \in BOOLEAN

\* The full and the empty queue, by their length.
LEMMA FullLength == ASSUME QueueInv PROVE Queue!Full <=> Length = size - 1
<1>1. /\ size \in Nat \ {0} /\ head \in 0 .. size - 1 /\ tail \in 0 .. size - 1
      /\ Length \in Nat /\ Length < size
      /\ tail = IF head + Length < size THEN head + Length ELSE head + Length - size
  BY DEF QueueInv, Length
<1>2. (tail + 1) % size = IF tail + 1 < size THEN tail + 1 ELSE tail + 1 - size
  BY <1>1, NextSlot
<1> QED
  BY <1>1, <1>2 DEF Queue!Full, Queue!Next1

LEMMA EmptyLength == ASSUME QueueInv PROVE Queue!Empty <=> Length = 0
BY DEF QueueInv, Length, Queue!Empty

LEMMA QueueInit == Queue!Init => QueueInv
<1> SUFFICES ASSUME Queue!Init PROVE QueueInv
  OBVIOUS
<1> USE QueueAssumption DEF Queue!Init
<1>1. /\ size \in Nat \ {0} /\ head \in 0 .. size - 1 /\ tail \in 0 .. size - 1
      /\ pushed \in 0 .. MaxPushes /\ popped \in 0 .. pushed /\ Length = 0
  BY DEF Length
<1>2. DOMAIN items = 0 .. size - 1 /\ items = [i \in DOMAIN items |-> items[i]]
  OBVIOUS
<1>3. /\ Length < size /\ 1 .. Length = {}
      /\ tail = IF head + Length < size THEN head + Length ELSE head + Length - size
  BY <1>1
<1>4. last = 0 /\ overrun \in BOOLEAN
  OBVIOUS
<1> QED
  BY <1>1, <1>2, <1>3, <1>4 DEF QueueInv

\* A task is put at the tail of an array that holds the others and has room.
LEMMA PutKeeps ==
    ASSUME NEW a, NEW n \in Nat \ {0}, DOMAIN a = 0 .. n - 1,
           head \in 0 .. n - 1, tail \in 0 .. n - 1,
           pushed \in 0 .. MaxPushes, popped \in 0 .. pushed, pushed < MaxPushes, MaxPushes \in Nat,
           Length < n - 1,
           tail = IF head + Length < n THEN head + Length ELSE head + Length - n,
           \A k \in 1 .. Length : a[(head + k - 1) % n] = popped + k,
           overrun \in BOOLEAN,
           Queue!Put(a, n)
    PROVE  QueueInv'
<1>1. /\ items' = [a EXCEPT ![tail] = pushed + 1] /\ size' = n /\ tail' = (tail + 1) % n
      /\ pushed' = pushed + 1 /\ last' = 0
      /\ head' = head /\ popped' = popped /\ overrun' = overrun
  BY DEF Queue!Put, Queue!Next1
<1>2. Length \in Nat /\ Length' = Length + 1 /\ Length' \in Nat /\ Length' < n
  BY <1>1 DEF Length
<1>3. tail' = (IF tail + 1 < n THEN tail + 1 ELSE tail + 1 - n) /\ tail' \in 0 .. n - 1
  BY <1>1, NextSlot
<1>4. tail' = IF head + Length' < n THEN head + Length' ELSE head + Length' - n
  BY <1>2, <1>3
<1>5. DOMAIN items' = 0 .. n - 1 /\ items' = [i \in DOMAIN items' |-> items'[i]]
  BY <1>1
<1>6. \A k \in 1 .. Length' : items'[(head + k - 1) % n] = popped + k
  <2> SUFFICES ASSUME NEW k \in 1 .. Length' PROVE items'[(head + k - 1) % n] = popped + k
    OBVIOUS
  <2> DEFINE i == (head + k - 1) % n
  <2>1. i = (IF head + k - 1 < n THEN head + k - 1 ELSE head + k - 1 - n) /\ i \in 0 .. n - 1
    <3>1. k \in 1 .. n
      BY <1>2
    <3> QED
      BY <3>1, SlotFrom
  <2> HIDE DEF i
  <2>2. CASE k = Length'
    <3>1. i = tail
      BY <1>2, <2>1, <2>2
    <3>2. items'[i] = pushed + 1
      BY <1>1, <2>1, <3>1
    <3> QED
      BY <1>1, <1>2, <2>2, <3>2 DEF Length, i
  <2>3. CASE k # Length'
    <3>1. k \in 1 .. Length
      BY <1>2, <2>3
    <3>2. i # tail
      BY <1>2, <2>1, <3>1
    <3>3. items'[i] = a[i]
      BY <1>1, <2>1, <3>2
    <3> QED
      BY <3>1, <3>3 DEF i
  <2> QED
    BY <2>2, <2>3
<1>7. pushed' \in 0 .. MaxPushes /\ popped' \in 0 .. pushed'
  BY <1>1
<1> QED
  BY <1>1, <1>2, <1>3, <1>4, <1>5, <1>6, <1>7 DEF QueueInv

LEMMA PushKeeps == ASSUME QueueInv, Queue!Push PROVE QueueInv'
<1> USE QueueAssumption
<1>0. /\ size \in Nat \ {0} /\ head \in 0 .. size - 1 /\ tail \in 0 .. size - 1
      /\ pushed \in 0 .. MaxPushes /\ popped \in 0 .. pushed /\ Length \in Nat /\ Length < size
      /\ tail = IF head + Length < size THEN head + Length ELSE head + Length - size
      /\ DOMAIN items = 0 .. size - 1 /\ overrun \in BOOLEAN /\ pushed < MaxPushes
      /\ \A k \in 1 .. Length : items[(head + k - 1) % size] = popped + k
  <2>1. /\ size \in Nat \ {0} /\ head \in 0 .. size - 1 /\ tail \in 0 .. size - 1
        /\ pushed \in 0 .. MaxPushes /\ popped \in 0 .. pushed /\ Length < size
        /\ DOMAIN items = 0 .. size - 1 /\ overrun \in BOOLEAN
        /\ tail = IF head + Length < size THEN head + Length ELSE head + Length - size
    BY DEF QueueInv
  <2>2. Length \in Nat
    BY <2>1 DEF Length
  <2>3. \A k \in 1 .. Length : items[(head + k - 1) % size] = popped + k
    BY DEF QueueInv
  <2>4. pushed < MaxPushes
    BY DEF Queue!Push
  <2> QED
    BY <2>1, <2>2, <2>3, <2>4
<1> DEFINE count == (tail - head) % 2^Bits
           copy == [i \in 0 .. 2 * size - 1 |-> IF i < count THEN items[(i + head) % size] ELSE Garbage]
<1>1. \/ ~ Queue!Full /\ Queue!Put(items, size)
      \/ Queue!Full /\ count <= 2 * size /\ Queue!Put(copy, 2 * size)
      \/ overrun' = TRUE /\ UNCHANGED <<items, size, head, tail, pushed, popped, last>>
  BY DEF Queue!Push
<1>2. CASE ~ Queue!Full /\ Queue!Put(items, size)
  <2>1. Length < size - 1
    BY <1>0, <1>2, FullLength
  <2> QED
    BY <1>0, <1>2, <2>1, PutKeeps
<1>3. CASE Queue!Full /\ count <= 2 * size /\ Queue!Put(copy, 2 * size)
  <2>1. Length = size - 1 /\ size <= MaxPushes
    BY <1>0, <1>3, FullLength DEF Length
  <2>2. 2^Bits \in Nat \ {0} /\ 2 * size + 1 < 2^Bits
    BY <1>0, <2>1
  \* Behind the end of the array the count is negative, and wraps.
  <2>3. head = 0 /\ tail = size - 1 /\ count = size - 1
    <3>1. ASSUME head # 0 PROVE FALSE
      <4>1. tail - head = -1
        BY <1>0, <2>1, <3>1
      <4>2. count = 2^Bits - 1
        BY <2>2, <4>1, Negative
      <4> QED
        BY <1>0, <1>3, <2>2, <4>2
    <3>2. head = 0 /\ tail = size - 1
      BY <1>0, <2>1, <3>1
    <3>3. tail - head \in 0 .. 2^Bits - 1 /\ tail - head = size - 1
      BY <1>0, <2>2, <3>2
    <3> QED
      BY <2>2, <3>2, <3>3, Below
  <2>4. DOMAIN copy = 0 .. 2 * size - 1 /\ 2 * size \in Nat \ {0}
    BY <1>0
  <2>5. \A k \in 1 .. Length : copy[(head + k - 1) % (2 * size)] = popped + k
    <3> SUFFICES ASSUME NEW k \in 1 .. Length PROVE copy[(head + k - 1) % (2 * size)] = popped + k
      OBVIOUS
    <3>1. head + k - 1 = k - 1 /\ k - 1 \in 0 .. size - 1 /\ k - 1 \in 0 .. 2 * size - 1 /\ k - 1 < count
      BY <1>0, <2>1, <2>3
    <3>2. (head + k - 1) % (2 * size) = k - 1 /\ (head + k - 1) % size = k - 1
      BY <1>0, <2>4, <3>1, Below
    <3>3. copy[k - 1] = items[(k - 1 + head) % size]
      BY <3>1
    <3>4. (k - 1 + head) % size = (head + k - 1) % size
      BY <1>0, <2>3
    <3> HIDE DEF copy
    <3> QED
      BY <1>0, <3>2, <3>3, <3>4
  <2>6. /\ head \in 0 .. 2 * size - 1 /\ tail \in 0 .. 2 * size - 1 /\ Length < 2 * size - 1
        /\ tail = IF head + Length < 2 * size THEN head + Length ELSE head + Length - 2 * size
    BY <1>0, <2>1, <2>3
  <2> HIDE DEF copy
  <2> QED
    BY <1>0, <1>3, <2>4, <2>5, <2>6, PutKeeps
<1>4. CASE overrun' = TRUE /\ UNCHANGED <<items, size, head, tail, pushed, popped, last>>
  BY <1>4 DEF QueueInv, Length
<1> QED
  BY <1>1, <1>2, <1>3, <1>4

LEMMA PopKeeps == ASSUME QueueInv, Queue!Pop PROVE QueueInv'
<1>0. /\ size \in Nat \ {0} /\ head \in 0 .. size - 1 /\ tail \in 0 .. size - 1
      /\ pushed \in Nat /\ popped \in 0 .. pushed /\ Length \in Nat /\ Length < size
      /\ tail = IF head + Length < size THEN head + Length ELSE head + Length - size
      /\ \A k \in 1 .. Length : items[(head + k - 1) % size] = popped + k
  BY QueueAssumption DEF QueueInv, Length
<1>a. UNCHANGED <<items, size, tail, pushed, overrun>>
  BY DEF Queue!Pop
<1>1. CASE Queue!Empty
  BY <1>1, <1>a DEF Queue!Pop, QueueInv, Length
<1>2. CASE ~ Queue!Empty
  <2>1. last' = items[head] /\ head' = (head + 1) % size /\ popped' = popped + 1
    BY <1>2 DEF Queue!Pop, Queue!Next1
  <2>2. Length >= 1
    BY <1>0, <1>2, EmptyLength
  <2>3. head' = (IF head + 1 < size THEN head + 1 ELSE head + 1 - size) /\ head' \in 0 .. size - 1
    BY <1>0, <2>1, NextSlot
  <2>4. Length' = Length - 1 /\ popped' \in 0 .. pushed'
    BY <1>0, <1>a, <2>1, <2>2 DEF Length
  <2>5. tail' = IF head' + Length' < size' THEN head' + Length' ELSE head' + Length' - size'
    <3>1. size' = size /\ tail' = tail /\ Length' \in Nat /\ head + Length = head + 1 + Length'
      BY <1>0, <1>a, <2>2, <2>4
    <3>2. CASE head + 1 < size
      <4>1. head' + Length' = head + Length
        BY <1>0, <2>3, <3>1, <3>2
      <4>2. CASE head + Length < size
        <5>1. tail = head + Length /\ head' + Length' < size
          BY <1>0, <4>1, <4>2
        <5> QED
          BY <3>1, <4>1, <5>1
      <4>3. CASE ~ (head + Length < size)
        <5>1. tail = head + Length - size /\ ~ (head' + Length' < size)
          BY <1>0, <4>1, <4>3
        <5>2. tail' = head' + Length' - size'
          <6>1. tail = (head + Length) - size
            BY <1>0, <5>1
          <6>2. head' \in Int /\ Length' \in Int /\ size \in Int
            BY <1>0, <2>3, <3>1
          <6>3. tail = (head' + Length') - size
            BY <4>1, <6>1
          <6> QED
            BY <3>1, <6>2, <6>3
        <5>3. ~ (head' + Length' < size')
          BY <3>1, <5>1
        <5> QED
          BY <5>2, <5>3
      <4> QED
        BY <4>2, <4>3
    <3>3. CASE head + 1 >= size
      BY <1>0, <2>3, <2>4, <3>1, <3>3
    <3> QED
      BY <1>0, <3>2, <3>3
  <2>6. last' = popped'
    <3>1. 1 \in 1 .. Length /\ head + 1 - 1 = head /\ head % size = head
      BY <1>0, <2>2, Below
    <3> QED
      BY <1>0, <2>1, <3>1
  <2>7. \A k \in 1 .. Length' : items'[(head' + k - 1) % size'] = popped' + k
    <3> SUFFICES ASSUME NEW k \in 1 .. Length' PROVE items'[(head' + k - 1) % size'] = popped' + k
      OBVIOUS
    <3>1. k + 1 \in 1 .. Length /\ k \in Nat
      BY <1>0, <2>4
    <3>2. (head' + k - 1) % size = (head + (k + 1) - 1) % size
      <4>1. k \in 1 .. size - 1
        BY <1>0, <3>1
      <4> QED
        BY <1>0, <2>1, <4>1, SlotShift
    <3>3. items[(head + (k + 1) - 1) % size] = popped + (k + 1)
      BY <1>0, <3>1
    <3>4. popped + (k + 1) = popped' + k
      BY <1>0, <2>1, <3>1
    <3> QED
      BY <1>a, <3>2, <3>3, <3>4
  <2>8. head' \in 0 .. size' - 1 /\ size' = size /\ Length' < size'
    BY <1>0, <1>a, <2>3, <2>4
  <2> HIDE DEF Length
  <2>9. /\ size' \in Nat \ {0} /\ tail' \in 0 .. size' - 1 /\ pushed' \in 0 .. MaxPushes
        /\ DOMAIN items' = 0 .. size' - 1 /\ items' = [i \in DOMAIN items' |-> items'[i]]
        /\ overrun' \in BOOLEAN
    BY <1>a DEF QueueInv
  <2> QED
    BY <2>4, <2>5, <2>6, <2>7, <2>8, <2>9 DEF QueueInv
<1> QED
  BY <1>1, <1>2

\* The array and the counts agree, whatever is done to the pool meanwhile.
THEOREM QueueIntact == BothSpec => []QueueInv
<1>1. BothInit => QueueInv
  BY QueueInit DEF BothInit
<1>2. QueueInv /\ [BothNext]_<<poolVars, queueVars>> => QueueInv'
  <2>1. ASSUME QueueInv, UNCHANGED queueVars PROVE QueueInv'
    BY <2>1 DEF queueVars, QueueInv, Length
  <2> QED
    BY <2>1, PushKeeps, PopKeeps DEF BothNext
<1> QED
  BY <1>1, <1>2, PTL DEF BothSpec

\* Tasks come out in the order in which they went in, each once, however the
\* array grows, as long as no copy has run past its end.
THEOREM FirstInFirstOut == BothSpec => []InOrder
<1>1. QueueInv => InOrder
  <2> SUFFICES ASSUME QueueInv PROVE Queue!InOrder
    BY DEF InOrder
  <2>1. (tail - head) % size = pushed - popped
    <3>1. /\ size \in Nat \ {0} /\ head \in 0 .. size - 1 /\ Length \in Nat /\ Length < size
          /\ tail = IF head + Length < size THEN head + Length ELSE head + Length - size
      BY QueueAssumption DEF QueueInv, Length
    <3>2. CASE head + Length < size
      BY <3>1, <3>2, Below DEF Length
    <3>3. CASE head + Length >= size
      BY <3>1, <3>3, Negative DEF Length
    <3> QED
      BY <3>1, <3>2, <3>3
  <2> QED
    BY <2>1 DEF QueueInv, Length, Queue!InOrder
<1> QED
  BY <1>1, QueueIntact, PTL
=============================================================================
