------------------------- MODULE WorkStealQueueProofs -------------------------
(***************************************************************************)
(* Theorems about WorkStealQueue: the queue implements TaskDeque, and a    *)
(* pop that finds nothing is right, for any number of thieves, sizes of    *)
(* arrays and indices that wrap around anywhere.                           *)
(***************************************************************************)
EXTENDS WorkStealQueue, TLAPS

-----------------------------------------------------------------------------
(* Remainders, and indices that wrap around.                              *)

LEMMA Remainder ==
    ASSUME NEW s \in Nat \ {0}, NEW q \in Int, NEW r \in 0 .. s - 1
    PROVE  (s * q + r) % s = r
OBVIOUS

LEMMA Division ==
    ASSUME NEW s \in Nat \ {0}, NEW a \in Int
    PROVE  \E q \in Int : a = s * q + (a % s) /\ a % s \in 0 .. s - 1
<1>1. PICK q \in Int : q = a \div s
  OBVIOUS
<1>2. PICK r \in Int : r = a % s
  OBVIOUS
<1>3. a = s * (a \div s) + (a % s)
  OBVIOUS
<1>4. a % s \in 0 .. s - 1
  OBVIOUS
<1>5. a = s * q + r
  BY <1>1, <1>2, <1>3
<1> QED
  BY <1>2, <1>4, <1>5

LEMMA WordIsNat == Word \in Nat \ {0}
BY WorkStealQueueAssumption

LEMMA NoMultiple ==
    ASSUME NEW s \in Nat \ {0}, NEW q \in Int, s * q > - s, s * q < s
    PROVE  q = 0
<1>1. CASE q >= 1
  <2>1. s * q >= s
    BY <1>1
  <2> QED BY <2>1
<1>2. CASE q <= -1
  <2>1. s * q <= - s
    BY <1>2
  <2> QED BY <2>1
<1> QED BY <1>1, <1>2

LEMMA SameRemainder ==
    ASSUME NEW s \in Nat \ {0}, NEW a \in Int, NEW b \in Int, a % s = b % s, a - b > - s, a - b < s
    PROVE  a = b
<1>1. PICK p \in Int : a = s * p + (a % s) /\ a % s \in 0 .. s - 1
  BY Division
<1>2. PICK q \in Int : b = s * q + (b % s) /\ b % s \in 0 .. s - 1
  BY Division
<1>3. a - b = s * (p - q) /\ p - q \in Int
  BY <1>1, <1>2
<1>4. p - q = 0
  BY <1>3, NoMultiple
<1> QED
  BY <1>3, <1>4

LEMMA Multiples ==
    ASSUME NEW s \in Nat \ {0}, NEW a \in Int, NEW q \in Int
    PROVE  (a + s * q) % s = a % s
<1>1. PICK p \in Int : a = s * p + (a % s) /\ a % s \in 0 .. s - 1
  BY Division
<1>2. PICK r \in 0 .. s - 1 : r = a % s
  BY <1>1
<1>3. PICK w \in Int : w = p + q
  OBVIOUS
<1>4. a + s * q = s * w + r
  BY <1>1, <1>2, <1>3
<1>5. (s * w + r) % s = r
  BY Remainder
<1> QED
  BY <1>2, <1>4, <1>5

LEMMA WrapIs == ASSUME NEW a \in Int PROVE \E q \in Int : Wrap(a) = a + Word * q /\ Wrap(a) \in 0 .. Word - 1
<1>1. PICK p \in Int : a = Word * p + (a % Word) /\ a % Word \in 0 .. Word - 1
  BY Division, WordIsNat
<1>2. Wrap(a) = a + Word * (- p) /\ - p \in Int
  BY <1>1, WordIsNat DEF Wrap
<1> QED
  BY <1>1, <1>2 DEF Wrap

LEMMA WrapRemainder ==
    ASSUME NEW s \in Nat \ {0}, Word % s = 0, NEW a \in Int
    PROVE  Wrap(a) % s = a % s
<1>1. PICK q \in Int : Wrap(a) = a + Word * q
  BY WrapIs
<1>2. PICK w \in Int : Word = s * w
  BY Division, WordIsNat
<1>3. Wrap(a) = a + s * (w * q) /\ w * q \in Int
  BY <1>1, <1>2
<1> QED
  BY <1>3, Multiples

\* Indices that wrap around can be added to and subtracted from.
LEMMA WrapSum == ASSUME NEW a \in Int, NEW k \in Int PROVE Wrap(Wrap(a) + k) = Wrap(a + k)
<1>1. PICK q \in Int : Wrap(a) = a + Word * q
  BY WrapIs
<1>2. PICK c \in Int : c = a + k
  OBVIOUS
<1>3. Wrap(a) + k = c + Word * q
  BY <1>1, <1>2, WordIsNat
<1>4. (c + Word * q) % Word = c % Word
  BY Multiples, WordIsNat
<1> QED
  BY <1>2, <1>3, <1>4 DEF Wrap

LEMMA WrapDifference ==
    ASSUME NEW a \in Int, NEW b \in Int
    PROVE  Wrap(Wrap(a) - Wrap(b)) = Wrap(a - b)
<1>1. PICK p \in Int : Wrap(a) = a + Word * p
  BY WrapIs
<1>2. PICK q \in Int : Wrap(b) = b + Word * q
  BY WrapIs
<1>3. PICK c \in Int : c = a - b
  OBVIOUS
<1>4. PICK r \in Int : r = p - q
  OBVIOUS
<1>5. Wrap(a) - Wrap(b) = c + Word * r
  BY <1>1, <1>2, <1>3, <1>4, WordIsNat
<1>6. (c + Word * r) % Word = c % Word
  BY Multiples, WordIsNat
<1> QED
  BY <1>3, <1>5, <1>6 DEF Wrap

LEMMA ToSignedIs ==
    ASSUME NEW d \in (- MaxPushes) .. MaxPushes
    PROVE  ToSigned(d) = d
<1> USE WorkStealQueueAssumption
<1>1. CASE d >= 0
  <2>1. d \in 0 .. Word - 1 /\ d = Word * 0 + d
    BY <1>1
  <2>2. (Word * 0 + d) % Word = d
    BY <2>1, Remainder, WordIsNat
  <2>3. Wrap(d) = d
    BY <2>1, <2>2 DEF Wrap
  <2> QED
    BY <1>1, <2>3 DEF ToSigned
<1>2. CASE d < 0
  <2>1. PICK r \in 0 .. Word - 1 : r = d + Word
    BY <1>2
  <2>2. d = Word * (-1) + r
    BY <2>1
  <2>3. (Word * (-1) + r) % Word = r
    BY Remainder, WordIsNat
  <2>4. Wrap(d) = r
    BY <2>2, <2>3 DEF Wrap
  <2> QED
    BY <1>2, <2>1, <2>4 DEF ToSigned
<1> QED
  BY <1>1, <1>2

LEMMA Signed ==
    ASSUME NEW a \in Int, NEW b \in Int, a - b \in (- MaxPushes) .. MaxPushes
    PROVE  ToSigned(Wrap(a) - Wrap(b)) = a - b
<1>1. PICK d \in (- MaxPushes) .. MaxPushes : d = a - b
  OBVIOUS
<1>2. Wrap(Wrap(a) - Wrap(b)) = Wrap(d)
  BY <1>1, WrapDifference
<1>3. ToSigned(Wrap(a) - Wrap(b)) = ToSigned(d)
  BY <1>2 DEF ToSigned
<1> QED
  BY <1>1, <1>3, ToSignedIs

LEMMA WrapOnce ==
    ASSUME NEW a \in Int, NEW b \in Int, a - b \in (- MaxPushes) .. MaxPushes, Wrap(a) = Wrap(b)
    PROVE  a = b
<1> USE WorkStealQueueAssumption
<1>1. a - b > - Word /\ a - b < Word
  OBVIOUS
<1> QED
  BY <1>1, SameRemainder, WordIsNat DEF Wrap

-----------------------------------------------------------------------------
(* Locations.                                                              *)

Divides(s) == s \in Nat \ {0} /\ Word % s = 0

LEMMA Distinct ==
    /\ Bottom # Array
    /\ \A s, i : Cell(s, i) # Bottom /\ Cell(s, i) # Array
    /\ \A s, i, r, j : Cell(s, i) = Cell(r, j) => s = r
BY DEF Bottom, Array, Cell

LEMMA SameItem ==
    ASSUME NEW s \in Nat \ {0}, NEW i \in Int, NEW r, NEW j \in Int, Cell(s, i) = Cell(r, j),
           i - j > - s, i - j < s
    PROVE  i = j
<1>1. i % s = j % s
  BY DEF Cell
<1> QED
  BY <1>1, SameRemainder

LEMMA ItemWrap ==
    ASSUME NEW s, Divides(s), NEW i \in Int
    PROVE  Cell(s, Wrap(i)) = Cell(s, i)
BY WrapRemainder DEF Cell, Divides

LEMMA ItemWrapPlus ==
    ASSUME NEW s, Divides(s), NEW i \in Int, NEW k \in Int
    PROVE  Cell(s, Wrap(i) + k) = Cell(s, i + k)
<1>1. PICK a \in Int : a = Wrap(i) + k
  BY WrapIs
<1>2. PICK b \in Int : b = i + k
  OBVIOUS
<1>3. Wrap(a) = Wrap(b)
  BY <1>1, <1>2, WrapSum
<1> QED
  BY <1>1, <1>2, <1>3, ItemWrap

LEMMA ItemSlot ==
    ASSUME NEW s \in Nat \ {0}, NEW i \in Int
    PROVE  \E k \in 0 .. s - 1 : Cell(s, i) = Cell(s, k)
<1>1. PICK q \in Int : i = s * q + (i % s) /\ i % s \in 0 .. s - 1
  BY Division
<1>2. PICK k \in 0 .. s - 1 : k = i % s
  BY <1>1
<1>3. k = s * 0 + k /\ (s * 0 + k) % s = k
  BY Remainder
<1> QED
  BY <1>2, <1>3 DEF Cell

-----------------------------------------------------------------------------
(***************************************************************************)
(* The invariant.  n stores of the owner wait in the buffer.  T is what    *)
(* `top' would be if it never wrapped around; bot[k] and arr[k] are what   *)
(* `bottom' and `array' in memory are once k of the stores have reached    *)
(* it, bot[n] and arr[n] what the owner sees.  The tasks have the indices  *)
(* from T up to h, and those below c are the ones thieves can see.         *)
(***************************************************************************)
Locs == {Bottom, Array} \cup ({"item"} \X Nat \X Nat)

\* The task with index j.
Val(j) == own[Cell(own[Array], j)]

\* Memory v has an array of size s.
Made(v, s) ==
    /\ Divides(s) /\ s <= v[Array]
    /\ \A k \in 0 .. s - 1 : Cell(s, k) \in DOMAIN v

\* It has none that is larger than the current one.
NoLarger(v) == \A s, i \in Int : Cell(s, i) \in DOMAIN v => s <= v[Array]

\* v is what memory m is for someone who has stored st: it agrees with m where
\* st does not store, and with the last one of st where it does.
View(m, v, st) ==
    /\ DOMAIN m = DOMAIN v
    /\ \A k \in 1 .. Len(st) : st[k][1] \in DOMAIN v
    /\ \A loc \in DOMAIN v : m[loc] = v[loc] \/ \E k \in 1 .. Len(st) : st[k][1] = loc
    /\ \A k \in 1 .. Len(st) : \/ st[k][2] = v[st[k][1]]
                               \/ \E j \in 1 .. Len(st) : j > k /\ st[j][1] = st[k][1]

MemInv(m, v, st, n, bot, arr) ==
    /\ View(m, v, st)
    /\ Bottom \in DOMAIN v /\ Array \in DOMAIN v
    /\ m[Bottom] = Wrap(bot[0]) /\ v[Bottom] = Wrap(bot[n])
    /\ m[Array] = arr[0] /\ v[Array] = arr[n]
    /\ \A k \in 0 .. n : Made(v, arr[k])

\* The store that takes bottom from b to b2, and the array from s to s2.  Only
\* the last store of a pop that waits for its fence lowers bottom.
Entry(w, lowers, T, b, b2, s, s2) ==
    \/ /\ w = <<Bottom, Wrap(b2)>> /\ s2 = s
       /\ b2 = IF lowers THEN b - 1 ELSE b + 1
    \/ /\ w = <<Array, s2>> /\ b2 = b
       /\ ~ lowers
    \/ /\ w[1] = Cell(s, b) /\ s2 = s /\ b2 = b /\ b < T + s
       /\ ~ lowers

BufInv(st, lowered, n, T, bot, arr) ==
    /\ st \in Seq(Locs \X Nat) /\ Len(st) = n
    /\ \A k \in 1 .. n :
          Entry(st[k], lowered /\ k = n, T, bot[k - 1], bot[k], arr[k - 1], arr[k])
    /\ \A j, k \in 0 .. n : j <= k /\ ~(lowered /\ k = n) => bot[j] <= bot[k]

IndexInv(n, T, bot, h) ==
    /\ pushed \in 0 .. MaxPushes
    /\ T \in Start .. Start + pushed /\ h <= Start + pushed
    /\ \A k \in 0 .. n : bot[k] \in Start .. Start + pushed
    /\ top = Wrap(T)
    /\ T <= h /\ h <= T + own[Array]

TaskInv(T, h) ==
    /\ taken \in [TaskIds -> {0, 1}]
    /\ \A x \in TaskIds : x > pushed => taken[x] = 0
    /\ \A j \in T .. h - 1 : Val(j) \in 1 .. pushed /\ taken[Val(j)] = 0
    /\ \A i, j \in T .. h - 1 : Val(i) = Val(j) => i = j

\* An array that has been replaced still holds the tasks that thieves look for
\* in it.
CopyInv(n, T, bot, arr) ==
    \A k \in 0 .. n : \A j \in T .. bot[k] - 1 : own[Cell(arr[k], j)] = Val(j)

OwnerInv(n, T, b, h) ==
    /\ DOMAIN owner = DOMAIN Idle
    /\ owner.pc \in {"idle", "fence", "cas"}
    /\ h = IF owner.pc = "idle" THEN b ELSE b + 1
    /\ owner.pc # "idle" => owner.b = Wrap(b)
    /\ owner.pc = "cas" => /\ n = 0 /\ T >= b /\ owner.t = Wrap(b)
                           /\ T = b => owner.x = Val(b)
    /\ ~ owner.got => owner.pc = "idle" /\ b <= T

\* A thief that will succeed with its compare-exchange has the right task.
Succeeds(i, T, c) ==
    /\ T < c
    /\ thief[i].pc = "get" => own[Cell(thief[i].a, T)] = Val(T)
    /\ thief[i].pc = "cas" => thief[i].x = Val(T)

ThiefInv(i, T, c) ==
    /\ DOMAIN thief[i] = DOMAIN NoSteal
    /\ thief[i].pc \in {"idle", "top", "bottom", "array", "get", "cas"}
    /\ thief[i].pc \notin {"idle", "top"} => \E j \in Start .. T : thief[i].t = Wrap(j)
    /\ thief[i].pc = "get" => Made(own, thief[i].a)
    /\ thief[i].pc \in {"array", "get", "cas"} /\ thief[i].t = top => Succeeds(i, T, c)

IsQueue(n, T, bot, arr, h, c) ==
    /\ n \in Nat /\ T \in Int /\ h \in Int /\ c \in Int
    /\ bot \in [0 .. n -> Int] /\ arr \in [0 .. n -> Nat]
    /\ c = IF Lowered THEN bot[0] + 1 ELSE bot[0]
    /\ MemInv(mem, own, buf, n, bot, arr) /\ NoLarger(own)
    /\ BufInv(buf, owner.pc = "fence", n, T, bot, arr)
    /\ IndexInv(n, T, bot, h)
    /\ TaskInv(T, h)
    /\ CopyInv(n, T, bot, arr)
    /\ OwnerInv(n, T, bot[n], h)
    /\ thief = [i \in Thieves |-> thief[i]]
    /\ \A i \in Thieves : ThiefInv(i, T, c)

DequeInv == \E n, T, bot, arr, h, c : IsQueue(n, T, bot, arr, h, c)

-----------------------------------------------------------------------------
(* Memory as its owner sees it.                                            *)

LEMMA ViewStore ==
    ASSUME NEW m, NEW v, NEW st \in Seq(Locs \X Nat), NEW w \in Locs \X Nat, w[1] \in DOMAIN v,
           View(m, v, st)
    PROVE  View(m, Changed(v, w), Append(st, w))
<1> DEFINE u == Changed(v, w)
           l == Len(st) + 1
<1>1. /\ DOMAIN u = DOMAIN v
      /\ u[w[1]] = w[2]
      /\ \A loc \in DOMAIN v : loc # w[1] => u[loc] = v[loc]
  BY DEF Changed
<1> HIDE DEF u
<1>2. PICK a : a = Append(st, w)
  OBVIOUS
<1>3. Len(a) = l /\ a[l] = w /\ \A k \in 1 .. Len(st) : a[k] = st[k] /\ k < l /\ k \in 1 .. l
  BY <1>2
<1>4. l \in 1 .. l /\ \A k \in 1 .. l : k \in 1 .. Len(st) \/ k = l
  OBVIOUS
<1> HIDE DEF l
<1>5. \A k \in 1 .. l : a[k][1] \in DOMAIN u
  BY <1>1, <1>3, <1>4 DEF View
<1>6. \A loc \in DOMAIN u : m[loc] = u[loc] \/ \E k \in 1 .. l : a[k][1] = loc
  <2> SUFFICES ASSUME NEW loc \in DOMAIN v, m[loc] # u[loc] PROVE \E k \in 1 .. l : a[k][1] = loc
    BY <1>1
  <2>1. CASE loc = w[1]
    BY <1>3, <1>4, <2>1
  <2>2. CASE loc # w[1]
    <3>1. PICK k \in 1 .. Len(st) : st[k][1] = loc
      BY <1>1, <2>2 DEF View
    <3> QED
      BY <1>3, <3>1
  <2> QED
    BY <2>1, <2>2
<1>7. \A k \in 1 .. l : \/ a[k][2] = u[a[k][1]]
                        \/ \E j \in 1 .. l : j > k /\ a[j][1] = a[k][1]
  <2> SUFFICES ASSUME NEW k \in 1 .. l, ~ \E j \in 1 .. l : j > k /\ a[j][1] = a[k][1]
               PROVE  a[k][2] = u[a[k][1]]
    OBVIOUS
  <2>1. CASE k = l
    BY <1>1, <1>3, <2>1
  <2>2. CASE k # l
    <3>1. k \in 1 .. Len(st) /\ a[k] = st[k] /\ l > k
      BY <1>3, <1>4, <2>2
    <3>2. st[k][1] # w[1]
      BY <1>3, <1>4, <3>1
    <3>3. ~ \E j \in 1 .. Len(st) : j > k /\ st[j][1] = st[k][1]
      BY <1>3, <3>1
    <3>4. st[k][2] = v[st[k][1]] /\ st[k][1] \in DOMAIN v
      BY <3>1, <3>3 DEF View
    <3> QED
      BY <1>1, <3>1, <3>2, <3>4
  <2> QED
    BY <2>1, <2>2
<1>8. DOMAIN m = DOMAIN u
  BY <1>1 DEF View
<1>9. View(m, u, a)
  BY <1>3, <1>5, <1>6, <1>7, <1>8 DEF View
<1> QED
  BY <1>2, <1>9 DEF u

LEMMA ViewFlush ==
    ASSUME NEW m, NEW v, NEW st \in Seq(Locs \X Nat), st # <<>>, View(m, v, st)
    PROVE  View(Changed(m, Head(st)), v, Tail(st))
<1> DEFINE u == Changed(m, Head(st))
<1>1. PICK w : w = st[1] /\ w = Head(st)
  OBVIOUS
<1>2. Len(st) \in Nat /\ 1 \in 1 .. Len(st)
  OBVIOUS
<1>3. /\ DOMAIN u = DOMAIN v
      /\ u[w[1]] = w[2]
      /\ \A loc \in DOMAIN v : loc # w[1] => u[loc] = m[loc]
  BY <1>1, <1>2 DEF Changed, View
<1> HIDE DEF u
<1>4. PICK a : a = Tail(st)
  OBVIOUS
<1>5. PICK l : l \in Nat /\ l = Len(st) - 1
  <2>1. Len(st) - 1 \in Nat
    BY <1>2
  <2> QED
    BY <2>1
<1>6. Len(a) = l /\ \A k \in 1 .. l : a[k] = st[k + 1] /\ k + 1 \in 1 .. Len(st)
  BY <1>4, <1>5
<1>7. \A k \in 1 .. Len(st) : k # 1 => k - 1 \in 1 .. l /\ a[k - 1] = st[k]
  BY <1>5, <1>6
<1>8. \A k \in 1 .. l : a[k][1] \in DOMAIN v
  BY <1>6 DEF View
<1>9. \A loc \in DOMAIN v : u[loc] = v[loc] \/ \E k \in 1 .. l : a[k][1] = loc
  <2> SUFFICES ASSUME NEW loc \in DOMAIN v, ~ \E k \in 1 .. l : a[k][1] = loc
               PROVE  u[loc] = v[loc]
    OBVIOUS
  <2>1. \A k \in 1 .. Len(st) : st[k][1] = loc => k = 1
    BY <1>7
  <2>2. CASE loc = w[1]
    <3>1. ~ \E j \in 1 .. Len(st) : j > 1 /\ st[j][1] = st[1][1]
      BY <1>1, <2>1, <2>2
    <3> QED
      BY <1>1, <1>2, <1>3, <2>2, <3>1 DEF View
  <2>3. CASE loc # w[1]
    BY <1>1, <1>3, <2>1, <2>3 DEF View
  <2> QED
    BY <2>2, <2>3
<1>10. \A k \in 1 .. l : \/ a[k][2] = v[a[k][1]]
                         \/ \E j \in 1 .. l : j > k /\ a[j][1] = a[k][1]
  <2> SUFFICES ASSUME NEW k \in 1 .. l, a[k][2] # v[a[k][1]]
               PROVE  \E j \in 1 .. l : j > k /\ a[j][1] = a[k][1]
    OBVIOUS
  <2>1. PICK i \in 1 .. Len(st) : i > k + 1 /\ st[i][1] = st[k + 1][1]
    BY <1>6 DEF View
  <2>2. i # 1 /\ i - 1 > k
    BY <2>1
  <2>3. i - 1 \in 1 .. l /\ a[i - 1][1] = a[k][1]
    BY <1>6, <1>7, <2>1, <2>2
  <2> QED
    BY <2>2, <2>3
<1>11. View(u, v, a)
  BY <1>3, <1>6, <1>8, <1>9, <1>10 DEF View
<1> QED
  BY <1>4, <1>11 DEF u

LEMMA ViewGrow ==
    ASSUME NEW m, NEW v, NEW st, NEW new, View(m, v, st), DOMAIN new \cap DOMAIN v = {}
    PROVE  View(Extend(m, new), Extend(v, new), st)
<1>1. /\ DOMAIN Extend(m, new) = DOMAIN Extend(v, new)
      /\ DOMAIN v \subseteq DOMAIN Extend(v, new)
      /\ \A loc \in DOMAIN v : Extend(m, new)[loc] = m[loc] /\ Extend(v, new)[loc] = v[loc]
      /\ \A loc \in DOMAIN Extend(v, new) : loc \notin DOMAIN v => Extend(m, new)[loc] = Extend(v, new)[loc]
  BY DEF View, Extend
<1>2. PICK a : a = Extend(m, new)
  OBVIOUS
<1>3. PICK u : u = Extend(v, new)
  OBVIOUS
<1>4. View(a, u, st)
  BY <1>1, <1>2, <1>3 DEF View
<1> QED
  BY <1>2, <1>3, <1>4

-----------------------------------------------------------------------------
(* What the invariant says of the items.                                   *)

LEMMA MadeItem ==
    ASSUME NEW v, NEW s, Made(v, s), NEW i \in Int
    PROVE  s \in Nat \ {0} /\ Cell(s, i) \in DOMAIN v
<1>1. s \in Nat \ {0}
  BY DEF Made, Divides
<1>2. PICK k \in 0 .. s - 1 : Cell(s, i) = Cell(s, k)
  BY <1>1, ItemSlot
<1> QED
  BY <1>1, <1>2 DEF Made

LEMMA ItemApart ==
    ASSUME NEW s \in Nat \ {0}, NEW i \in Int, NEW r, NEW j \in Int, i < j, j < i + s
    PROVE  Cell(s, i) # Cell(r, j)
<1> SUFFICES ASSUME Cell(s, i) = Cell(r, j) PROVE FALSE
  OBVIOUS
<1>1. i - j > - s /\ i - j < s
  OBVIOUS
<1> QED
  BY <1>1, SameItem

\* The last store of a pop that waits for its fence is the one that lowers
\* bottom; no store takes it above h.
LEMMA BottomsBelow ==
    ASSUME NEW n, NEW T, NEW bot, NEW arr, NEW h, NEW c, IsQueue(n, T, bot, arr, h, c)
    PROVE  /\ \A k \in 0 .. n : bot[k] \in Int /\ bot[k] <= h
           /\ owner.pc = "fence" /\ n # 0 => bot[n - 1] = h
           /\ c <= h
           /\ Lowered => n = 0
           /\ n = 0 <=> buf = <<>>
<1>1. /\ n \in Nat /\ h \in Int /\ \A k \in 0 .. n : bot[k] \in Int
      /\ h = IF owner.pc = "idle" THEN bot[n] ELSE bot[n] + 1
      /\ \A j, k \in 0 .. n : j <= k /\ ~(owner.pc = "fence" /\ k = n) => bot[j] <= bot[k]
  BY DEF IsQueue, BufInv, OwnerInv
<1>2. owner.pc = "fence" /\ n # 0 => bot[n - 1] = h
  <2> SUFFICES ASSUME owner.pc = "fence", n # 0 PROVE bot[n - 1] = h
    OBVIOUS
  <2>1. n \in 1 .. n /\ n - 1 \in 0 .. n
    BY <1>1
  <2>2. Entry(buf[n], TRUE, T, bot[n - 1], bot[n], arr[n - 1], arr[n])
    BY <2>1 DEF IsQueue, BufInv
  <2>3. bot[n] = bot[n - 1] - 1
    BY <2>2 DEF Entry
  <2> QED
    BY <1>1, <2>1, <2>3
<1>3. \A k \in 0 .. n : bot[k] <= h
  <2> SUFFICES ASSUME NEW k \in 0 .. n PROVE bot[k] <= h
    OBVIOUS
  <2>1. CASE owner.pc # "fence" \/ k = n
    BY <1>1, <2>1
  <2>2. CASE owner.pc = "fence" /\ k # n
    <3>1. k <= n - 1 /\ n - 1 \in 0 .. n /\ n - 1 # n
      BY <1>1, <2>2
    <3> QED
      BY <1>1, <1>2, <2>2, <3>1
  <2> QED
    BY <2>1, <2>2
<1>4. n = 0 <=> buf = <<>>
  <2>1. buf \in Seq(Locs \X Nat) /\ Len(buf) = n
    BY DEF IsQueue, BufInv
  <2> QED
    BY <2>1
<1>5. Lowered => n = 0 /\ owner.pc # "idle"
  BY <1>4 DEF Lowered, IsQueue, OwnerInv
<1>6. c <= h
  <2>1. c = IF Lowered THEN bot[0] + 1 ELSE bot[0]
    BY DEF IsQueue
  <2>2. 0 \in 0 .. n
    BY <1>1
  <2> QED
    BY <1>1, <1>3, <1>5, <2>1, <2>2
<1> QED
  BY <1>1, <1>2, <1>3, <1>4, <1>5, <1>6

\* No store waits for the place of the task at the top, once that can be seen.
LEMMA TopInMemory ==
    ASSUME NEW n, NEW T, NEW bot, NEW arr, NEW h, NEW c, IsQueue(n, T, bot, arr, h, c),
           T < c, NEW s, Made(own, s)
    PROVE  mem[Cell(s, T)] = own[Cell(s, T)]
<1>1. T \in Int /\ s \in Nat \ {0} /\ Cell(s, T) \in DOMAIN own
  BY MadeItem DEF IsQueue
<1> SUFFICES ASSUME mem[Cell(s, T)] # own[Cell(s, T)] PROVE FALSE
  OBVIOUS
<1>2. PICK k \in 1 .. n : buf[k][1] = Cell(s, T)
  <2>1. View(mem, own, buf) /\ Len(buf) = n
    BY DEF IsQueue, MemInv, BufInv
  <2> QED
    BY <1>1, <2>1 DEF View
<1>3. n \in Nat /\ k \in 0 .. n /\ k - 1 \in 0 .. n /\ 0 \in 0 .. n /\ n # 0
  BY <1>2 DEF IsQueue
<1>4. Entry(buf[k], owner.pc = "fence" /\ k = n, T, bot[k - 1], bot[k], arr[k - 1], arr[k])
  BY <1>2 DEF IsQueue, BufInv
<1>5. /\ buf[k][1] = Cell(arr[k - 1], bot[k - 1]) /\ bot[k] = bot[k - 1] /\ bot[k - 1] < T + arr[k - 1]
      /\ ~(owner.pc = "fence" /\ k = n)
  BY <1>2, <1>4, Distinct DEF Entry
<1>6. arr[k - 1] = s
  <2>1. Cell(arr[k - 1], bot[k - 1]) = Cell(s, T)
    BY <1>2, <1>5
  <2> QED
    BY <2>1 DEF Cell
<1>7. T < bot[0]
  <2>1. ~ Lowered
    BY <1>3, BottomsBelow
  <2> QED
    BY <2>1 DEF IsQueue
<1>8. bot[0] <= bot[k] /\ bot[0] \in Int /\ bot[k] \in Int
  <2>1. \A i, j \in 0 .. n : i <= j /\ ~(owner.pc = "fence" /\ j = n) => bot[i] <= bot[j]
    BY DEF IsQueue, BufInv
  <2> QED
    BY <1>3, <1>5, <2>1, BottomsBelow
<1>9. Cell(s, T) # Cell(s, bot[k - 1])
  BY <1>1, <1>5, <1>6, <1>7, <1>8, ItemApart
<1> QED
  BY <1>2, <1>5, <1>6, <1>9

\* Steps of the owner and of its store buffer leave thieves as they are.
LEMMA ThievesStay ==
    ASSUME NEW n, NEW T, NEW bot, NEW arr, NEW h, NEW c, NEW c2, IsQueue(n, T, bot, arr, h, c),
           thief' = thief, top' = top, T < c => T < c2,
           \A s : Made(own, s) => Made(own', s),
           T < c => \A s : Made(own, s) => own'[Cell(s, T)] = own[Cell(s, T)],
           T < c => Val(T)' = Val(T)
    PROVE  \A i \in Thieves : ThiefInv(i, T, c2)'
<1> SUFFICES ASSUME NEW i \in Thieves PROVE ThiefInv(i, T, c2)'
  OBVIOUS
<1>1. ThiefInv(i, T, c)
  BY DEF IsQueue
<1>2. thief[i].pc = "get" => Made(own', thief[i].a)
  BY <1>1 DEF ThiefInv
<1>3. Succeeds(i, T, c) /\ (thief[i].pc = "get" => Made(own, thief[i].a)) => Succeeds(i, T, c2)'
  BY DEF Succeeds
<1> QED
  BY <1>1, <1>2, <1>3 DEF ThiefInv

\* Steps of thieves that do not take a task leave the rest as it is.
LEMMA ThiefSteps ==
    ASSUME NEW n, NEW T, NEW bot, NEW arr, NEW h, NEW c, IsQueue(n, T, bot, arr, h, c),
           UNCHANGED <<mem, own, top, buf, owner, pushed, taken>>,
           NEW i \in Thieves, NEW f, thief' = [thief EXCEPT ![i] = f], ThiefInv(i, T, c)'
    PROVE  IsQueue(n, T, bot, arr, h, c)'
<1>1. \A j \in Thieves : ThiefInv(j, T, c)'
  <2> SUFFICES ASSUME NEW j \in Thieves, j # i PROVE ThiefInv(j, T, c)'
    OBVIOUS
  <2>1. thief'[j] = thief[j]
    BY DEF IsQueue
  <2>2. ThiefInv(j, T, c)
    BY DEF IsQueue
  <2> QED
    BY <2>1, <2>2 DEF ThiefInv, Succeeds, Val
<1>2. thief' = [j \in Thieves |-> thief'[j]]
  BY DEF IsQueue
<1> QED
  BY <1>1, <1>2 DEF IsQueue, Lowered, IndexInv, TaskInv, CopyInv, OwnerInv, Val

-----------------------------------------------------------------------------
(* A store of the owner, and its arrival in memory.                        *)

\* f, with x at n + 1.
More(f, n, x) == [k \in 0 .. n + 1 |-> IF k = n + 1 THEN x ELSE f[k]]

\* The owner can store w, which takes bottom to b and the array to s, and what
\* it can rely on when it has.
CanStore(m, v, st, n, T, bot, arr, w, lowers, b, s) ==
    /\ n \in Nat /\ T \in Int /\ bot \in [0 .. n -> Int] /\ arr \in [0 .. n -> Nat]
    /\ MemInv(m, v, st, n, bot, arr) /\ BufInv(st, FALSE, n, T, bot, arr)
    /\ w \in Locs \X Nat /\ b \in Int /\ s \in Nat /\ lowers \in BOOLEAN
    /\ Entry(w, lowers, T, bot[n], b, arr[n], s)
    /\ arr[n] <= s /\ Divides(s) /\ \A k \in 0 .. s - 1 : Cell(s, k) \in DOMAIN v

Stored(m, v, st, n, T, bot, arr, w, lowers, b, s) ==
    /\ MemInv(m, Changed(v, w), Append(st, w), n + 1, More(bot, n, b), More(arr, n, s))
    /\ BufInv(Append(st, w), lowers, n + 1, T, More(bot, n, b), More(arr, n, s))
    /\ More(bot, n, b) \in [0 .. n + 1 -> Int] /\ More(arr, n, s) \in [0 .. n + 1 -> Nat]
    /\ \A loc \in DOMAIN v : loc # w[1] => Changed(v, w)[loc] = v[loc]
    /\ Changed(v, w)[w[1]] = w[2]
    /\ DOMAIN Changed(v, w) = DOMAIN v

LEMMA StoreKeeps ==
    ASSUME NEW m, NEW v, NEW st, NEW n, NEW T, NEW bot, NEW arr, NEW w, NEW lowers, NEW b, NEW s,
           CanStore(m, v, st, n, T, bot, arr, w, lowers, b, s)
    PROVE  Stored(m, v, st, n, T, bot, arr, w, lowers, b, s)
<1> SUFFICES ASSUME n \in Nat, T \in Int, bot \in [0 .. n -> Int], arr \in [0 .. n -> Nat],
                    MemInv(m, v, st, n, bot, arr), BufInv(st, FALSE, n, T, bot, arr),
                    w \in Locs \X Nat, b \in Int, s \in Nat, lowers \in BOOLEAN,
                    Entry(w, lowers, T, bot[n], b, arr[n], s),
                    arr[n] <= s, Divides(s), \A k \in 0 .. s - 1 : Cell(s, k) \in DOMAIN v
             PROVE  Stored(m, v, st, n, T, bot, arr, w, lowers, b, s)
  BY DEF CanStore
<1>1. PICK bot2 : bot2 = More(bot, n, b)
  OBVIOUS
<1>2. PICK arr2 : arr2 = More(arr, n, s)
  OBVIOUS
<1>3. /\ bot2 \in [0 .. n + 1 -> Int] /\ bot2[n + 1] = b /\ \A k \in 0 .. n : bot2[k] = bot[k]
      /\ arr2 \in [0 .. n + 1 -> Nat] /\ arr2[n + 1] = s /\ \A k \in 0 .. n : arr2[k] = arr[k]
  BY <1>1, <1>2 DEF More
<1>4. PICK v2 : v2 = Changed(v, w)
  OBVIOUS
<1>5. PICK st2 : st2 = Append(st, w)
  OBVIOUS
<1>6. w[1] \in DOMAIN v
  <2>1. w[1] = Bottom \/ w[1] = Array \/ w[1] = Cell(arr[n], bot[n])
    BY DEF Entry
  <2>2. Made(v, arr[n])
    BY DEF MemInv
  <2>3. Cell(arr[n], bot[n]) \in DOMAIN v
    BY <2>2, MadeItem
  <2> QED
    BY <2>1, <2>3 DEF MemInv
<1>7. /\ DOMAIN v2 = DOMAIN v /\ v2[w[1]] = w[2]
      /\ \A loc \in DOMAIN v : loc # w[1] => v2[loc] = v[loc]
  BY <1>4, <1>6 DEF Changed
<1>8. st \in Seq(Locs \X Nat) /\ Len(st) = n
  BY DEF BufInv
<1>9. /\ st2 \in Seq(Locs \X Nat) /\ Len(st2) = n + 1 /\ st2[n + 1] = w
      /\ \A k \in 1 .. n : st2[k] = st[k]
  BY <1>5, <1>8
<1>10. MemInv(m, v2, st2, n + 1, bot2, arr2)
  <2>1. View(m, v2, st2)
    BY <1>4, <1>5, <1>6, <1>8, ViewStore DEF MemInv
  <2>2. Bottom \in DOMAIN v2 /\ Array \in DOMAIN v2 /\ m[Bottom] = Wrap(bot2[0]) /\ m[Array] = arr2[0]
    BY <1>3, <1>7 DEF MemInv
  <2>3. v2[Bottom] = Wrap(bot2[n + 1]) /\ v2[Array] = arr2[n + 1]
    <3>1. v[Bottom] = Wrap(bot[n]) /\ v[Array] = arr[n] /\ Bottom \in DOMAIN v /\ Array \in DOMAIN v
      BY DEF MemInv
    <3>2. CASE w = <<Bottom, Wrap(b)>> /\ s = arr[n]
      BY <1>3, <1>7, <3>1, <3>2, Distinct
    <3>3. CASE w = <<Array, s>> /\ b = bot[n]
      BY <1>3, <1>7, <3>1, <3>3, Distinct
    <3>4. CASE w[1] = Cell(arr[n], bot[n]) /\ s = arr[n] /\ b = bot[n]
      BY <1>3, <1>7, <3>1, <3>4, Distinct
    <3> QED
      BY <3>2, <3>3, <3>4 DEF Entry
  <2>4. \A k \in 0 .. n + 1 : Made(v2, arr2[k])
    <3> SUFFICES ASSUME NEW k \in 0 .. n + 1 PROVE Made(v2, arr2[k])
      OBVIOUS
    <3>1. CASE k = n + 1
      BY <1>3, <1>7, <2>3, <3>1 DEF Made
    <3>2. CASE k # n + 1
      <4>1. k \in 0 .. n /\ Made(v, arr[k]) /\ v[Array] = arr[n]
        BY <3>2 DEF MemInv
      <4>2. arr[k] <= s
        BY <4>1 DEF Made
      <4> QED
        BY <1>3, <1>7, <2>3, <4>1, <4>2 DEF Made
    <3> QED
      BY <3>1, <3>2
  <2> QED
    BY <2>1, <2>2, <2>3, <2>4 DEF MemInv
<1>11. BufInv(st2, lowers, n + 1, T, bot2, arr2)
  <2>1. \A k \in 1 .. n + 1 :
          Entry(st2[k], lowers /\ k = n + 1, T, bot2[k - 1], bot2[k], arr2[k - 1], arr2[k])
    <3> SUFFICES ASSUME NEW k \in 1 .. n + 1
                 PROVE  Entry(st2[k], lowers /\ k = n + 1, T, bot2[k - 1], bot2[k], arr2[k - 1], arr2[k])
      OBVIOUS
    <3>1. CASE k = n + 1
      <4>1. (lowers /\ k = n + 1) = lowers /\ k - 1 = n /\ n \in 0 .. n
        BY <3>1
      <4> QED
        BY <1>3, <1>9, <3>1, <4>1
    <3>2. CASE k # n + 1
      <4>1. k \in 1 .. n /\ k \in 0 .. n /\ k - 1 \in 0 .. n /\ n # 0
        BY <3>2
      <4>2. Entry(st[k], FALSE /\ k = n, T, bot[k - 1], bot[k], arr[k - 1], arr[k])
        BY <4>1 DEF BufInv
      <4>3. Entry(st[k], FALSE, T, bot[k - 1], bot[k], arr[k - 1], arr[k])
        BY <4>2 DEF Entry
      <4>4. (lowers /\ k = n + 1) = FALSE
        BY <3>2
      <4> QED
        BY <1>3, <1>9, <4>1, <4>3, <4>4
    <3> QED
      BY <3>1, <3>2
  <2>2. \A j, k \in 0 .. n + 1 : j <= k /\ ~(lowers /\ k = n + 1) => bot2[j] <= bot2[k]
    <3>1. \A j, k \in 0 .. n : j <= k => bot[j] <= bot[k]
      BY DEF BufInv
    <3>2. ~ lowers => bot[n] <= b
      BY DEF Entry
    <3> SUFFICES ASSUME NEW j \in 0 .. n + 1, NEW k \in 0 .. n + 1, j <= k, ~(lowers /\ k = n + 1)
                 PROVE  bot2[j] <= bot2[k]
      OBVIOUS
    <3>3. CASE k = n + 1
      <4>1. CASE j = n + 1
        BY <1>3, <3>3, <4>1
      <4>2. CASE j # n + 1
        <5>1. j \in 0 .. n /\ n \in 0 .. n /\ j <= n
          BY <4>2
        <5> QED
          BY <1>3, <3>1, <3>2, <3>3, <5>1
      <4> QED
        BY <4>1, <4>2
    <3>4. CASE k # n + 1
      <4>1. j \in 0 .. n /\ k \in 0 .. n
        BY <3>4
      <4> QED
        BY <1>3, <3>1, <4>1
    <3> QED
      BY <3>3, <3>4
  <2> QED
    BY <1>9, <2>1, <2>2 DEF BufInv
<1> QED
  BY <1>1, <1>2, <1>3, <1>4, <1>5, <1>7, <1>10, <1>11 DEF Stored

\* f, from 1 on.
Less(f, n) == [k \in 0 .. n - 1 |-> f[k + 1]]

LEMMA FlushKeeps ==
    ASSUME NEW n, NEW T, NEW bot, NEW arr, NEW h, NEW c, IsQueue(n, T, bot, arr, h, c), Flush
    PROVE  \E d \in {c, c + 1} : IsQueue(n - 1, T, Less(bot, n), Less(arr, n), h, d)' /\ d >= c /\ d <= h
<1>1. /\ n \in Nat /\ n # 0 /\ buf # <<>> /\ buf \in Seq(Locs \X Nat) /\ Len(buf) = n
      /\ T \in Int /\ h \in Int /\ c \in Int
      /\ bot \in [0 .. n -> Int] /\ arr \in [0 .. n -> Nat]
  BY BottomsBelow DEF Flush, IsQueue, BufInv
<1>2. UNCHANGED <<own, top, owner, thief, pushed, taken>>
  BY DEF Flush
<1>3. PICK bot2 : bot2 = Less(bot, n)
  OBVIOUS
<1>4. PICK arr2 : arr2 = Less(arr, n)
  OBVIOUS
<1>5. PICK m \in Nat : m = n - 1
  BY <1>1
<1>6. /\ bot2 \in [0 .. m -> Int] /\ arr2 \in [0 .. m -> Nat]
      /\ \A k \in 0 .. m : bot2[k] = bot[k + 1] /\ arr2[k] = arr[k + 1] /\ k + 1 \in 0 .. n
  BY <1>1, <1>3, <1>4, <1>5 DEF Less
<1>7. PICK w : w = Head(buf) /\ w = buf[1]
  BY <1>1
<1>8. /\ buf' \in Seq(Locs \X Nat) /\ Len(buf') = m
      /\ \A k \in 1 .. m : buf'[k] = buf[k + 1] /\ k + 1 \in 1 .. n
  BY <1>1, <1>5 DEF Flush
<1>9. Entry(w, owner.pc = "fence" /\ 1 = n, T, bot[0], bot[1], arr[0], arr[1])
  <2>1. 1 \in 1 .. n /\ 1 - 1 = 0
    BY <1>1
  <2> QED
    BY <1>7, <2>1 DEF IsQueue, BufInv
<1>10. owner.pc # "cas"
  BY <1>1 DEF IsQueue, OwnerInv
<1>11. ~ Lowered /\ c = bot[0]
  BY <1>1, <1>10 DEF Lowered, IsQueue
<1>12. Lowered' <=> owner.pc = "fence" /\ 1 = n
  <2>1. buf' = <<>> <=> m = 0
    BY <1>8
  <2> QED
    BY <1>1, <1>2, <1>5, <1>10, <2>1 DEF Lowered
<1>13. PICK d : d = IF owner.pc = "fence" /\ 1 = n THEN bot[1] + 1 ELSE bot[1]
  OBVIOUS
<1>14. d \in {c, c + 1} /\ d >= c /\ d \in Int
  <2>1. bot[0] \in Int /\ bot[1] \in Int
    BY <1>1
  <2> QED
    BY <1>9, <1>11, <1>13, <2>1 DEF Entry
<1>15. MemInv(mem', own, buf', m, bot2, arr2)
  <2>1. View(mem, own, buf) /\ mem' = Changed(mem, w) /\ DOMAIN mem = DOMAIN own
    BY <1>7 DEF Flush, IsQueue, MemInv, View
  <2>2. View(mem', own, buf')
    BY <1>1, <1>7, <2>1, ViewFlush DEF Flush
  <2>3. /\ Bottom \in DOMAIN own /\ Array \in DOMAIN own
        /\ mem[Bottom] = Wrap(bot[0]) /\ mem[Array] = arr[0]
        /\ own[Bottom] = Wrap(bot[n]) /\ own[Array] = arr[n]
    BY DEF IsQueue, MemInv
  <2>4. mem'[Bottom] = Wrap(bot[1]) /\ mem'[Array] = arr[1]
    <3>1. w[1] \in DOMAIN mem
      <4>1. 1 \in 1 .. Len(buf)
        BY <1>1
      <4> QED
        BY <1>7, <2>1, <4>1 DEF View
    <3>2. mem'[w[1]] = w[2] /\ \A loc \in DOMAIN mem : loc # w[1] => mem'[loc] = mem[loc]
      BY <2>1, <3>1 DEF Changed
    <3>3. CASE w = <<Bottom, Wrap(bot[1])>> /\ arr[1] = arr[0]
      BY <2>1, <2>3, <3>2, <3>3, Distinct
    <3>4. CASE w = <<Array, arr[1]>> /\ bot[1] = bot[0]
      BY <2>1, <2>3, <3>2, <3>4, Distinct
    <3>5. CASE w[1] = Cell(arr[0], bot[0]) /\ arr[1] = arr[0] /\ bot[1] = bot[0]
      BY <2>1, <2>3, <3>2, <3>5, Distinct
    <3> QED
      BY <1>9, <3>3, <3>4, <3>5 DEF Entry
  <2>5. bot2[0] = bot[1] /\ arr2[0] = arr[1] /\ bot2[m] = bot[n] /\ arr2[m] = arr[n]
    <3>1. 0 \in 0 .. m /\ m \in 0 .. m /\ 0 + 1 = 1 /\ m + 1 = n
      BY <1>1, <1>5
    <3> QED
      BY <1>6, <3>1
  <2>6. \A k \in 0 .. m : Made(own, arr2[k])
    BY <1>6 DEF IsQueue, MemInv
  <2> QED
    BY <2>2, <2>3, <2>4, <2>5, <2>6 DEF MemInv
<1>16. BufInv(buf', owner.pc = "fence", m, T, bot2, arr2)
  <2>1. \A k \in 1 .. m :
          Entry(buf'[k], owner.pc = "fence" /\ k = m, T, bot2[k - 1], bot2[k], arr2[k - 1], arr2[k])
    <3> SUFFICES ASSUME NEW k \in 1 .. m
                 PROVE  Entry(buf'[k], owner.pc = "fence" /\ k = m, T, bot2[k - 1], bot2[k], arr2[k - 1], arr2[k])
      OBVIOUS
    <3>1. k - 1 \in 0 .. m /\ k \in 0 .. m /\ (k - 1) + 1 = k /\ (k + 1) - 1 = k /\ k + 1 \in 1 .. n
      BY <1>1, <1>5
    <3>2. Entry(buf[k + 1], owner.pc = "fence" /\ k + 1 = n, T, bot[k], bot[k + 1], arr[k], arr[k + 1])
      BY <3>1 DEF IsQueue, BufInv
    <3>3. k + 1 = n <=> k = m
      BY <1>1, <1>5
    <3> QED
      BY <1>6, <1>8, <3>1, <3>2, <3>3 DEF Entry
  <2>2. \A j, k \in 0 .. m : j <= k /\ ~(owner.pc = "fence" /\ k = m) => bot2[j] <= bot2[k]
    <3> SUFFICES ASSUME NEW j \in 0 .. m, NEW k \in 0 .. m, j <= k, ~(owner.pc = "fence" /\ k = m)
                 PROVE  bot2[j] <= bot2[k]
      OBVIOUS
    <3>1. j + 1 \in 0 .. n /\ k + 1 \in 0 .. n /\ j + 1 <= k + 1 /\ ~(owner.pc = "fence" /\ k + 1 = n)
      BY <1>1, <1>5
    <3>2. bot[j + 1] <= bot[k + 1]
      BY <3>1 DEF IsQueue, BufInv
    <3> QED
      BY <1>6, <3>2
  <2> QED
    BY <1>8, <2>1, <2>2 DEF BufInv
<1>17. IndexInv(m, T, bot2, h)'
  BY <1>2, <1>6 DEF IsQueue, IndexInv
<1>18. TaskInv(T, h)'
  BY <1>2 DEF IsQueue, TaskInv, Val
<1>19. CopyInv(m, T, bot2, arr2)'
  <2> SUFFICES ASSUME NEW k \in 0 .. m, NEW j \in T .. bot2[k] - 1
               PROVE  own[Cell(arr2[k], j)] = Val(j)
    BY <1>2 DEF CopyInv, Val
  <2>1. k + 1 \in 0 .. n /\ j \in T .. bot[k + 1] - 1
    BY <1>6
  <2> QED
    BY <1>6, <2>1 DEF IsQueue, CopyInv
<1>20. OwnerInv(m, T, bot2[m], h)'
  <2>1. bot2[m] = bot[n]
    <3>1. m \in 0 .. m /\ m + 1 = n
      BY <1>1, <1>5
    <3> QED
      BY <1>6, <3>1
  <2>2. OwnerInv(n, T, bot[n], h)
    BY DEF IsQueue
  <2> QED
    BY <1>2, <1>10, <2>1, <2>2 DEF OwnerInv, Val
<1>21. \A i \in Thieves : ThiefInv(i, T, d)'
  <2>1. T < c => T < d
    BY <1>1, <1>14
  <2> QED
    BY <1>2, <2>1, ThievesStay DEF Val
<1>22. IsQueue(m, T, bot2, arr2, h, d)'
  <2>1. d = IF Lowered' THEN bot2[0] + 1 ELSE bot2[0]
    <3>1. bot2[0] = bot[1]
      BY <1>6
    <3> QED
      BY <1>12, <1>13, <3>1
  <2>2. thief' = [i \in Thieves |-> thief'[i]] /\ NoLarger(own')
    BY <1>2 DEF IsQueue
  <2> QED
    BY <1>1, <1>2, <1>5, <1>6, <1>14, <1>15, <1>16, <1>17, <1>18, <1>19, <1>20, <1>21, <2>1, <2>2
    DEF IsQueue
<1>23. d <= h
  <2>1. 1 \in 0 .. n /\ bot[1] \in Int /\ bot[1] <= h
    <3>1. 1 \in 0 .. n
      BY <1>1
    <3> QED
      BY <3>1, BottomsBelow
  <2>2. owner.pc = "fence" /\ 1 = n => h = bot[1] + 1
    BY DEF IsQueue, OwnerInv
  <2> QED
    BY <1>1, <1>13, <2>1, <2>2
<1> QED
  BY <1>3, <1>4, <1>5, <1>14, <1>22, <1>23

-----------------------------------------------------------------------------
(* pop.                                                                    *)

LEMMA BufLater ==
    ASSUME NEW st, NEW lowered, NEW n \in Nat, NEW T \in Int, NEW T2 \in Int, T2 >= T,
           NEW bot \in [0 .. n -> Int], NEW arr \in [0 .. n -> Nat],
           BufInv(st, lowered, n, T, bot, arr)
    PROVE  BufInv(st, lowered, n, T2, bot, arr)
<1> SUFFICES ASSUME NEW k \in 1 .. n
             PROVE  Entry(st[k], lowered /\ k = n, T2, bot[k - 1], bot[k], arr[k - 1], arr[k])
  BY DEF BufInv
<1>1. k - 1 \in 0 .. n /\ bot[k - 1] \in Int /\ arr[k - 1] \in Nat
  OBVIOUS
<1>2. Entry(st[k], lowered /\ k = n, T, bot[k - 1], bot[k], arr[k - 1], arr[k])
  BY DEF BufInv
<1> QED
  BY <1>1, <1>2 DEF Entry

\* How far bottom and top can be apart.
LEMMA Apart ==
    ASSUME NEW n, NEW T, NEW bot, NEW arr, NEW h, NEW c, IsQueue(n, T, bot, arr, h, c),
           NEW k \in 0 .. n
    PROVE  /\ bot[k] - T \in (- MaxPushes) .. MaxPushes
           /\ ToSigned(Wrap(bot[k]) - top) = bot[k] - T
           /\ top = Wrap(bot[k]) <=> T = bot[k]
<1>1. /\ pushed \in 0 .. MaxPushes /\ T \in Start .. Start + pushed
      /\ bot[k] \in Start .. Start + pushed /\ top = Wrap(T) /\ Start \in Int
  BY WorkStealQueueAssumption DEF IsQueue, IndexInv
<1>2. bot[k] - T \in (- MaxPushes) .. MaxPushes
  BY <1>1, WorkStealQueueAssumption
<1>3. bot[k] \in Int /\ T \in Int
  BY <1>1
<1>4. ToSigned(Wrap(bot[k]) - Wrap(T)) = bot[k] - T
  BY <1>2, <1>3, Signed
<1>5. Wrap(bot[k]) = Wrap(T) => bot[k] = T
  BY <1>2, <1>3, WrapOnce
<1> QED
  BY <1>1, <1>2, <1>4, <1>5

\* The owner stores bottom.
LEMMA BottomStored ==
    ASSUME NEW n, NEW T, NEW bot, NEW arr, NEW h, NEW c, IsQueue(n, T, bot, arr, h, c),
           NEW T2 \in Int, T2 >= T, NEW lowers \in BOOLEAN, NEW b \in Int, NEW x,
           b = IF lowers THEN bot[n] - 1 ELSE bot[n] + 1, Wrap(x) = Wrap(b), StoreBottom(x),
           owner.pc # "fence" \/ n = 0
    PROVE  /\ MemInv(mem, own', buf', n + 1, More(bot, n, b), More(arr, n, arr[n]))
           /\ BufInv(buf', lowers, n + 1, T2, More(bot, n, b), More(arr, n, arr[n]))
           /\ More(bot, n, b) \in [0 .. n + 1 -> Int] /\ More(arr, n, arr[n]) \in [0 .. n + 1 -> Nat]
           /\ buf' # <<>>
           /\ NoLarger(own')
           /\ own'[Array] = own[Array]
           /\ \A s : Made(own, s) => Made(own', s)
           /\ \A s : Made(own, s) => \A j \in Int : own'[Cell(s, j)] = own[Cell(s, j)]
           /\ \A j \in Int : own'[Cell(own'[Array], j)] = own[Cell(own[Array], j)]
           /\ CopyInv(n + 1, T2, More(bot, n, b), More(arr, n, arr[n]))'
<1>1. /\ n \in Nat /\ T \in Int /\ bot \in [0 .. n -> Int] /\ arr \in [0 .. n -> Nat]
      /\ n \in 0 .. n /\ n + 1 \in 0 .. n + 1
  BY DEF IsQueue
<1>2. PICK w : w = <<Bottom, Wrap(b)>>
  OBVIOUS
<1>3. own' = Changed(own, w) /\ buf' = Append(buf, w) /\ w \in Locs \X Nat /\ w[1] = Bottom
  <2>1. Wrap(b) \in Nat
    <3>1. \E q \in Int : Wrap(b) = b + Word * q /\ Wrap(b) \in 0 .. Word - 1
      BY WrapIs
    <3> QED
      BY <3>1, WordIsNat
  <2>2. own' = Changed(own, w) /\ buf' = Append(buf, w)
    BY <1>2 DEF StoreBottom
  <2>3. Bottom \in Locs
    BY DEF Locs
  <2> QED
    BY <1>2, <2>1, <2>2, <2>3
<1>4. PICK bot2 : bot2 = More(bot, n, b)
  OBVIOUS
<1>5. PICK arr2 : arr2 = More(arr, n, arr[n])
  OBVIOUS
<1>6. Made(own, arr[n]) /\ own[Array] = arr[n]
  BY <1>1 DEF IsQueue, MemInv
<1>7. BufInv(buf, FALSE, n, T, bot, arr)
  <2>1. CASE owner.pc # "fence"
    <3>1. (owner.pc = "fence") = FALSE
      BY <2>1
    <3>2. BufInv(buf, owner.pc = "fence", n, T, bot, arr)
      BY DEF IsQueue
    <3> QED
      BY <3>1, <3>2
  <2>2. CASE n = 0
    BY <2>2 DEF IsQueue, BufInv
  <2> QED
    BY <2>1, <2>2
<1>8. BufInv(buf, FALSE, n, T2, bot, arr) /\ MemInv(mem, own, buf, n, bot, arr)
  BY <1>1, <1>7, BufLater DEF IsQueue
<1>9. Entry(w, lowers, T2, bot[n], b, arr[n], arr[n])
  BY <1>2 DEF Entry
<1>10. PICK s \in Nat : s = arr[n]
  BY <1>1
<1>11. /\ MemInv(mem, own', buf', n + 1, bot2, arr2)
       /\ BufInv(buf', lowers, n + 1, T2, bot2, arr2)
       /\ bot2 \in [0 .. n + 1 -> Int] /\ arr2 \in [0 .. n + 1 -> Nat]
       /\ \A loc \in DOMAIN own : loc # Bottom => own'[loc] = own[loc]
       /\ DOMAIN own' = DOMAIN own
  <2>1. s <= s /\ Divides(s) /\ \A k \in 0 .. s - 1 : Cell(s, k) \in DOMAIN own
    BY <1>6, <1>10 DEF Made
  <2>2. Entry(w, lowers, T2, bot[n], b, arr[n], s) /\ arr[n] <= s
    BY <1>9, <1>10
  <2>3. CanStore(mem, own, buf, n, T2, bot, arr, w, lowers, b, s)
    BY <1>1, <1>3, <1>8, <2>1, <2>2 DEF CanStore
  <2>4. Stored(mem, own, buf, n, T2, bot, arr, w, lowers, b, s)
    BY <2>3, StoreKeeps
  <2> QED
    BY <1>3, <1>4, <1>5, <1>10, <2>4 DEF Stored
<1>12. own'[Array] = own[Array]
  BY <1>1, <1>11, Distinct DEF IsQueue, MemInv
<1>13. \A s1 : Made(own, s1) => Made(own', s1)
  BY <1>11, <1>12 DEF Made
<1>14. \A s1 : Made(own, s1) => \A j \in Int : own'[Cell(s1, j)] = own[Cell(s1, j)]
  BY <1>11, MadeItem, Distinct
<1>15. \A j \in Int : own'[Cell(own'[Array], j)] = own[Cell(own[Array], j)]
  BY <1>6, <1>12, <1>14
<1>16. NoLarger(own')
  BY <1>11, <1>12 DEF IsQueue, NoLarger
<1>17. CopyInv(n + 1, T2, bot2, arr2)'
  <2> SUFFICES ASSUME NEW k \in 0 .. n + 1, NEW j \in T2 .. bot2[k] - 1
               PROVE  own'[Cell(arr2[k], j)] = own[Cell(own[Array], j)]
    BY <1>11, <1>15 DEF CopyInv, Val
  <2>0. j \in Int
    BY <1>11
  <2>1. CASE k = n + 1
    <3>1. arr2[k] = own[Array]
      BY <1>1, <1>5, <1>6, <2>1 DEF More
    <3> QED
      BY <1>6, <1>14, <2>0, <3>1
  <2>2. CASE k # n + 1
    <3>1. k \in 0 .. n /\ bot2[k] = bot[k] /\ arr2[k] = arr[k]
      BY <1>1, <1>4, <1>5, <2>2 DEF More
    <3>2. j \in T .. bot[k] - 1
      BY <1>1, <3>1
    <3>3. own[Cell(arr[k], j)] = own[Cell(own[Array], j)]
      BY <3>1, <3>2 DEF IsQueue, CopyInv, Val
    <3>4. Made(own, arr[k])
      BY <3>1 DEF IsQueue, MemInv
    <3> QED
      BY <1>14, <2>0, <3>1, <3>3, <3>4
  <2> QED
    BY <2>1, <2>2
<1>18. buf' # <<>>
  <2>1. buf \in Seq(Locs \X Nat)
    BY DEF IsQueue, BufInv
  <2> QED
    BY <1>3, <2>1
<1> QED
  BY <1>4, <1>5, <1>11, <1>12, <1>13, <1>14, <1>15, <1>16, <1>17, <1>18

LEMMA PopBeginKeeps ==
    ASSUME NEW n, NEW T, NEW bot, NEW arr, NEW h, NEW c, IsQueue(n, T, bot, arr, h, c), PopBegin
    PROVE  /\ \/ IsQueue(n, T, bot, arr, h, c)'
              \/ IsQueue(n + 1, T, More(bot, n, bot[n] - 1), More(arr, n, arr[n]), h, c)'
           /\ UNCHANGED taken /\ \A j \in Int : Val(j)' = Val(j)
<1>1. /\ n \in Nat /\ T \in Int /\ h \in Int /\ c \in Int
      /\ bot \in [0 .. n -> Int] /\ arr \in [0 .. n -> Nat] /\ n \in 0 .. n /\ 0 \in 0 .. n
      /\ own[Bottom] = Wrap(bot[n]) /\ owner.pc = "idle" /\ h = bot[n]
      /\ c = bot[0] /\ thief = [i \in Thieves |-> thief[i]]
      /\ \A k \in 0 .. n : bot[k] \in Start .. Start + pushed
      /\ T \in Start .. Start + pushed /\ Start \in Int /\ pushed \in Int
  BY WorkStealQueueAssumption DEF PopBegin, IsQueue, MemInv, OwnerInv, Lowered, IndexInv
<1>2. ToSigned(own[Bottom] - top) = bot[n] - T
  BY <1>1, Apart
<1>3. UNCHANGED <<mem, top, thief, pushed, taken>>
  BY DEF PopBegin
<1>4. CASE /\ ToSigned(own[Bottom] - top) <= 0
           /\ owner' = [Idle EXCEPT !.got = FALSE]
           /\ UNCHANGED <<own, buf>>
  <2>1. owner'.pc = "idle" /\ bot[n] <= T
    BY <1>1, <1>2, <1>4 DEF Idle
  <2>2. OwnerInv(n, T, bot[n], h)'
    <3>1. DOMAIN owner' = DOMAIN Idle
      BY <1>4 DEF Idle
    <3> QED
      BY <1>1, <2>1, <3>1 DEF OwnerInv
  <2>3. ~ Lowered'
    BY <2>1 DEF Lowered
  <2>4. \A i \in Thieves : ThiefInv(i, T, c)'
    BY <1>3, <1>4 DEF IsQueue, ThiefInv, Succeeds, Val
  <2>5. BufInv(buf', owner'.pc = "fence", n, T, bot, arr)
    BY <1>1, <1>4, <2>1 DEF IsQueue
  <2>6. IndexInv(n, T, bot, h)' /\ TaskInv(T, h)' /\ CopyInv(n, T, bot, arr)'
    BY <1>3, <1>4 DEF IsQueue, IndexInv, TaskInv, CopyInv, Val
  <2>7. MemInv(mem', own', buf', n, bot, arr) /\ NoLarger(own')
    BY <1>3, <1>4 DEF IsQueue
  <2> QED
    BY <1>1, <1>3, <1>4, <2>2, <2>3, <2>4, <2>5, <2>6, <2>7 DEF IsQueue, Val
<1>5. CASE /\ ToSigned(own[Bottom] - top) > 0
           /\ owner' = [Idle EXCEPT !.pc = "fence", !.b = Wrap(own[Bottom] - 1)]
           /\ StoreBottom(own[Bottom] - 1)
  <2>1. PICK b \in Int : b = bot[n] - 1
    BY <1>1
  <2>2. Wrap(own[Bottom] - 1) = Wrap(b) /\ T <= b
    <3>1. Wrap(Wrap(bot[n]) + (-1)) = Wrap(bot[n] + (-1))
      <4>1. bot[n] \in Int /\ -1 \in Int
        BY <1>1
      <4> QED
        BY <4>1, WrapSum
    <3>2. Wrap(bot[n]) \in Int
      BY <1>1, WrapIs
    <3>3. own[Bottom] - 1 = Wrap(bot[n]) + (-1) /\ b = bot[n] + (-1)
      BY <1>1, <2>1, <3>2
    <3> QED
      BY <1>1, <1>2, <1>5, <2>1, <3>1, <3>3
  <2>3. PICK bot2 : bot2 = More(bot, n, b)
    OBVIOUS
  <2>4. PICK arr2 : arr2 = More(arr, n, arr[n])
    OBVIOUS
  <2>5. /\ MemInv(mem, own', buf', n + 1, bot2, arr2)
        /\ BufInv(buf', TRUE, n + 1, T, bot2, arr2)
        /\ bot2 \in [0 .. n + 1 -> Int] /\ arr2 \in [0 .. n + 1 -> Nat]
        /\ buf' # <<>>
        /\ NoLarger(own')
        /\ own'[Array] = own[Array]
        /\ \A s : Made(own, s) => Made(own', s)
        /\ \A s : Made(own, s) => \A j \in Int : own'[Cell(s, j)] = own[Cell(s, j)]
        /\ \A j \in Int : own'[Cell(own'[Array], j)] = own[Cell(own[Array], j)]
        /\ CopyInv(n + 1, T, bot2, arr2)'
    <3>1. b = IF TRUE THEN bot[n] - 1 ELSE bot[n] + 1
      BY <2>1
    <3>2. T >= T
      BY <1>1
    <3>3. /\ T \in Int /\ TRUE \in BOOLEAN /\ StoreBottom(own[Bottom] - 1)
          /\ Wrap(own[Bottom] - 1) = Wrap(b) /\ owner.pc # "fence"
      BY <1>1, <1>5, <2>2
    <3>4. /\ MemInv(mem, own', buf', n + 1, More(bot, n, b), More(arr, n, arr[n]))
          /\ BufInv(buf', TRUE, n + 1, T, More(bot, n, b), More(arr, n, arr[n]))
          /\ More(bot, n, b) \in [0 .. n + 1 -> Int] /\ More(arr, n, arr[n]) \in [0 .. n + 1 -> Nat]
          /\ buf' # <<>>
          /\ NoLarger(own')
          /\ own'[Array] = own[Array]
          /\ \A s : Made(own, s) => Made(own', s)
          /\ \A s : Made(own, s) => \A j \in Int : own'[Cell(s, j)] = own[Cell(s, j)]
          /\ \A j \in Int : own'[Cell(own'[Array], j)] = own[Cell(own[Array], j)]
          /\ CopyInv(n + 1, T, More(bot, n, b), More(arr, n, arr[n]))'
      BY <3>1, <3>2, <3>3, BottomStored, ZenonT(60)
    <3> QED
      BY <2>3, <2>4, <3>4
  <2>6. bot2[n + 1] = b /\ bot2[0] = bot[0] /\ \A k \in 0 .. n + 1 : bot2[k] = b \/ \E j \in 0 .. n : bot2[k] = bot[j]
    BY <1>1, <2>3 DEF More
  <2>7. owner'.pc = "fence" /\ owner'.b = Wrap(b) /\ owner'.got
    BY <1>5, <2>2 DEF Idle
  <2>8. ~ Lowered'
    BY <2>5, <2>7 DEF Lowered
  <2>9. OwnerInv(n + 1, T, bot2[n + 1], h)'
    <3>1. DOMAIN owner' = DOMAIN Idle
      BY <1>5 DEF Idle
    <3> QED
      BY <1>1, <2>1, <2>6, <2>7, <3>1 DEF OwnerInv
  <2>10. IndexInv(n + 1, T, bot2, h)'
    <3>1. b \in Start .. Start + pushed
      BY <1>1, <2>1, <2>2
    <3>2. \A k \in 0 .. n + 1 : bot2[k] \in Start .. Start + pushed
      BY <1>1, <2>6, <3>1
    <3> QED
      BY <1>3, <2>5, <3>2 DEF IsQueue, IndexInv
  <2>11. TaskInv(T, h)'
    <3>1. \A j \in T .. h - 1 : Val(j)' = Val(j)
      BY <1>1, <2>5 DEF Val
    <3> QED
      BY <1>3, <3>1 DEF IsQueue, TaskInv
  <2>12. \A i \in Thieves : ThiefInv(i, T, c)'
    BY <1>1, <1>3, <2>5, ThievesStay DEF Val
  <2>13. n + 1 \in Nat /\ c = bot2[0] /\ thief' = [i \in Thieves |-> thief'[i]]
    BY <1>1, <1>3, <2>6
  <2>14. BufInv(buf', owner'.pc = "fence", n + 1, T, bot2, arr2)
    BY <2>5, <2>7
  <2> HIDE <1>5
  <2>15. IsQueue(n + 1, T, bot2, arr2, h, c)'
    BY <1>1, <1>3, <2>5, <2>8, <2>9, <2>10, <2>11, <2>12, <2>13, <2>14 DEF IsQueue
  <2>16. \A j \in Int : Val(j)' = Val(j)
    BY <2>5 DEF Val
  <2> QED
    BY <1>3, <2>1, <2>3, <2>4, <2>15, <2>16
<1> QED
  BY <1>4, <1>5 DEF PopBegin

\* A task is handed out.
LEMMA TakeKeeps ==
    ASSUME NEW n, NEW T, NEW bot, NEW arr, NEW h, NEW c, IsQueue(n, T, bot, arr, h, c),
           NEW j \in T .. h - 1, Take(Val(j))
    PROVE  /\ Val(j) \in TaskIds /\ taken[Val(j)] = 0
           /\ taken' \in [TaskIds -> {0, 1}]
           /\ \A x \in TaskIds : x > pushed => taken'[x] = 0
           /\ \A i \in T .. h - 1 : i # j => taken'[Val(i)] = 0
<1>1. /\ taken \in [TaskIds -> {0, 1}]
      /\ \A x \in TaskIds : x > pushed => taken[x] = 0
      /\ \A i \in T .. h - 1 : Val(i) \in 1 .. pushed /\ taken[Val(i)] = 0
      /\ \A i \in T .. h - 1 : Val(i) = Val(j) => i = j
      /\ pushed \in 0 .. MaxPushes /\ MaxPushes \in Nat
  BY WorkStealQueueAssumption DEF IsQueue, TaskInv, IndexInv
<1>2. Val(j) \in TaskIds /\ Val(j) <= pushed /\ Val(j) \in Nat
  BY <1>1 DEF TaskIds
<1>3. taken' = [taken EXCEPT ![Val(j)] = 1]
  <2>1. taken[Val(j)] + 1 = 1
    BY <1>1
  <2>2. taken' = [taken EXCEPT ![Val(j)] = taken[Val(j)] + 1]
    BY DEF Take
  <2> QED
    BY <2>1, <2>2
<1>4. taken' \in [TaskIds -> {0, 1}]
  BY <1>1, <1>2, <1>3
<1>5. \A x \in TaskIds : x > pushed => taken'[x] = 0
  BY <1>1, <1>2, <1>3
<1>6. \A i \in T .. h - 1 : i # j => taken'[Val(i)] = 0
  <2> SUFFICES ASSUME NEW i \in T .. h - 1, i # j PROVE taken'[Val(i)] = 0
    OBVIOUS
  <2>1. Val(i) \in TaskIds /\ Val(i) # Val(j) /\ taken[Val(i)] = 0
    BY <1>1 DEF TaskIds
  <2> QED
    BY <1>1, <1>3, <2>1
<1> QED
  BY <1>1, <1>2, <1>4, <1>5, <1>6

\* The owner raises bottom.
LEMMA BottomRaised ==
    ASSUME NEW n, NEW T, NEW bot, NEW arr, NEW h, NEW c, IsQueue(n, T, bot, arr, h, c),
           NEW T2 \in Int, T2 >= T, NEW b \in Int, b = bot[n] + 1, NEW x, Wrap(x) = Wrap(b), StoreBottom(x),
           owner.pc # "fence" \/ n = 0
    PROVE  /\ MemInv(mem, own', buf', n + 1, More(bot, n, b), More(arr, n, arr[n]))
           /\ BufInv(buf', FALSE, n + 1, T2, More(bot, n, b), More(arr, n, arr[n]))
           /\ More(bot, n, b) \in [0 .. n + 1 -> Int] /\ More(arr, n, arr[n]) \in [0 .. n + 1 -> Nat]
           /\ NoLarger(own')
           /\ own'[Array] = own[Array]
           /\ \A s : Made(own, s) => Made(own', s)
           /\ CopyInv(n + 1, T2, More(bot, n, b), More(arr, n, arr[n]))'
<1>1. PICK lowers \in BOOLEAN : lowers = FALSE
  OBVIOUS
<1>2. b = IF lowers THEN bot[n] - 1 ELSE bot[n] + 1
  BY <1>1
<1> HIDE <1>1
<1>3. /\ MemInv(mem, own', buf', n + 1, More(bot, n, b), More(arr, n, arr[n]))
      /\ BufInv(buf', lowers, n + 1, T2, More(bot, n, b), More(arr, n, arr[n]))
      /\ More(bot, n, b) \in [0 .. n + 1 -> Int] /\ More(arr, n, arr[n]) \in [0 .. n + 1 -> Nat]
      /\ NoLarger(own')
      /\ own'[Array] = own[Array]
      /\ \A s : Made(own, s) => Made(own', s)
      /\ CopyInv(n + 1, T2, More(bot, n, b), More(arr, n, arr[n]))'
  BY <1>2, BottomStored
<1> QED
  BY <1>1, <1>3

\* The end of a pop that has found the queue empty, or has taken its last task.
LEMMA RestoreKeeps ==
    ASSUME NEW n, NEW T, NEW bot, NEW arr, NEW h, NEW c, IsQueue(n, T, bot, arr, h, c),
           n = 0, owner.pc # "idle", Restore, UNCHANGED <<mem, thief, pushed>>,
           owner'.pc = "idle", DOMAIN owner' = DOMAIN Idle,
           NEW T2 \in {T, T + 1}, T2 = h, top' = Wrap(T2),
           taken' \in [TaskIds -> {0, 1}], \A x \in TaskIds : x > pushed => taken'[x] = 0
    PROVE  IsQueue(n + 1, h, More(bot, n, h), More(arr, n, arr[n]), h, bot[0])'
<1>1. /\ T \in Int /\ h \in Int /\ c \in Int /\ n \in 0 .. n /\ n \in Nat
      /\ bot \in [0 .. n -> Int] /\ arr \in [0 .. n -> Nat]
      /\ h = bot[n] + 1 /\ owner.b = Wrap(bot[n]) /\ c <= h
      /\ bot[n] \in Start .. Start + pushed /\ T \in Start .. Start + pushed /\ h <= Start + pushed
      /\ Start \in Int /\ pushed \in 0 .. MaxPushes
      /\ thief = [i \in Thieves |-> thief[i]] /\ top = Wrap(T)
  BY BottomsBelow, WorkStealQueueAssumption DEF IsQueue, OwnerInv, IndexInv
<1>2. T2 >= T /\ T2 \in Int
  BY <1>1
<1>3. PICK bot2 : bot2 = More(bot, n, h)
  OBVIOUS
<1>4. PICK arr2 : arr2 = More(arr, n, arr[n])
  OBVIOUS
<1>5. /\ MemInv(mem, own', buf', n + 1, bot2, arr2)
      /\ BufInv(buf', FALSE, n + 1, h, bot2, arr2)
      /\ bot2 \in [0 .. n + 1 -> Int] /\ arr2 \in [0 .. n + 1 -> Nat]
      /\ NoLarger(own')
      /\ own'[Array] = own[Array]
      /\ \A s : Made(own, s) => Made(own', s)
      /\ CopyInv(n + 1, h, bot2, arr2)'
  <2>1. Wrap(owner.b + 1) = Wrap(h)
    BY <1>1, WrapSum
  <2>2. StoreBottom(owner.b + 1) /\ h = IF FALSE THEN bot[n] - 1 ELSE bot[n] + 1
    BY <1>1 DEF Restore
  <2> QED
    <3>1. FALSE \in BOOLEAN /\ (owner.pc # "fence" \/ n = 0)
      OBVIOUS
    <3>2. Wrap(owner.b + 1) = Wrap(h) /\ h >= T
      BY <1>2, <2>1
    <3>3. h = IF FALSE THEN bot[n] - 1 ELSE bot[n] + 1
      BY <2>2
    <3>4. h \in Int /\ StoreBottom(owner.b + 1)
      BY <1>1, <2>2
    <3>5. PICK x : x = owner.b + 1
      OBVIOUS
    <3>6. Wrap(x) = Wrap(h) /\ StoreBottom(x)
      BY <3>2, <3>4, <3>5
    <3>7. owner.pc # "fence" \/ n = 0
      OBVIOUS
    <3> HIDE <3>5
    <3>8. /\ MemInv(mem, own', buf', n + 1, More(bot, n, h), More(arr, n, arr[n]))
          /\ BufInv(buf', FALSE, n + 1, h, More(bot, n, h), More(arr, n, arr[n]))
          /\ More(bot, n, h) \in [0 .. n + 1 -> Int] /\ More(arr, n, arr[n]) \in [0 .. n + 1 -> Nat]
          /\ NoLarger(own')
          /\ own'[Array] = own[Array]
          /\ \A s : Made(own, s) => Made(own', s)
          /\ CopyInv(n + 1, h, More(bot, n, h), More(arr, n, arr[n]))'
      <4>1. h \in Int /\ h >= T /\ h = bot[n] + 1
        BY <1>1, <3>2
      <4>2. IsQueue(n, T, bot, arr, h, c)
        OBVIOUS
      <4> QED
        BY ONLY <3>6, <3>7, <4>1, <4>2, BottomRaised, ZenonT(60)
    <3> QED
      BY <1>3, <1>4, <3>8
<1>0. \A k \in Int : k \in 0 .. n + 1 => k = 0 \/ k = n + 1
  BY <1>1
<1>6. bot2[n + 1] = h /\ bot2[0] = bot[0] /\ \A k \in 0 .. n + 1 : k = 0 \/ k = n + 1
  BY <1>0, <1>1, <1>3 DEF More
<1>7. ~ Lowered'
  BY DEF Lowered
<1>8. OwnerInv(n + 1, h, bot2[n + 1], h)'
  BY <1>1, <1>6 DEF OwnerInv
<1>9. IndexInv(n + 1, h, bot2, h)'
  <2>1. h \in Start .. Start + pushed /\ \A k \in 0 .. n + 1 : bot2[k] \in Start .. Start + pushed
    BY <1>1, <1>6
  <2>2. h <= h + own[Array]
    <3>1. own[Array] = arr[n] /\ arr[n] \in Nat
      BY <1>1 DEF IsQueue, MemInv
    <3> QED
      BY <1>1, <3>1
  <2> QED
    BY <1>1, <1>5, <2>1, <2>2 DEF IndexInv
<1>10. TaskInv(h, h)'
  <2>1. h .. h - 1 = {}
    BY <1>1
  <2> QED
    BY <2>1 DEF TaskInv
<1>11. \A i \in Thieves : ThiefInv(i, h, bot[0])'
  <2> SUFFICES ASSUME NEW i \in Thieves PROVE ThiefInv(i, h, bot[0])'
    OBVIOUS
  <2>1. ThiefInv(i, T, c)
    BY DEF IsQueue
  <2>2. thief[i].pc \notin {"idle", "top"} => \E j \in Start .. h : thief[i].t = Wrap(j)
    BY <1>1, <1>2, <2>1 DEF ThiefInv
  <2>3. ~(thief[i].pc \in {"array", "get", "cas"} /\ thief[i].t = top')
    <3> SUFFICES ASSUME thief[i].pc \in {"array", "get", "cas"}, thief[i].t = Wrap(h) PROVE FALSE
      OBVIOUS
    <3>1. CASE T2 = T
      BY <1>1, <2>1, <3>1 DEF ThiefInv, Succeeds
    <3>2. CASE T2 = T + 1
      <4>1. PICK j \in Start .. T : Wrap(j) = Wrap(h)
        BY <2>1 DEF ThiefInv
      <4>2. j \in Int /\ j - h \in (- MaxPushes) .. MaxPushes
        BY <1>1, <3>2, WorkStealQueueAssumption
      <4> QED
        BY <1>1, <3>2, <4>1, <4>2, WrapOnce
    <3> QED
      BY <3>1, <3>2
  <2>4. thief[i].pc = "get" => Made(own', thief[i].a)
    BY <1>5, <2>1 DEF ThiefInv
  <2> QED
    BY <2>1, <2>2, <2>3, <2>4 DEF ThiefInv
<1>12. BufInv(buf', owner'.pc = "fence", n + 1, h, bot2, arr2)
  <2>1. (owner'.pc = "fence") = FALSE
    OBVIOUS
  <2> QED
    BY <1>5, <2>1
<1>13. thief' = [i \in Thieves |-> thief'[i]] /\ bot[0] \in Int /\ n + 1 \in Nat /\ bot[0] = bot2[0]
  BY <1>1, <1>6
<1>14. IsQueue(n + 1, h, bot2, arr2, h, bot[0])'
  BY <1>1, <1>5, <1>7, <1>8, <1>9, <1>10, <1>11, <1>12, <1>13 DEF IsQueue
<1> QED
  BY <1>3, <1>4, <1>14

\* What the owner reads of the task it is after.
LEMMA OwnTask ==
    ASSUME NEW n, NEW T, NEW bot, NEW arr, NEW h, NEW c, IsQueue(n, T, bot, arr, h, c),
           owner.pc # "idle"
    PROVE  own[Cell(own[Array], owner.b)] = Val(bot[n])
<1>1. n \in 0 .. n /\ bot[n] \in Int /\ own[Array] = arr[n] /\ Made(own, arr[n]) /\ owner.b = Wrap(bot[n])
  BY DEF IsQueue, MemInv, OwnerInv
<1>2. Cell(own[Array], Wrap(bot[n])) = Cell(own[Array], bot[n])
  BY <1>1, ItemWrap DEF Made
<1> QED
  BY <1>1, <1>2 DEF Val

\* pop decides what to do, with a buffer that is empty.
LEMMA PopTopKeeps ==
    ASSUME NEW n, NEW T, NEW bot, NEW arr, NEW h, NEW c, IsQueue(n, T, bot, arr, h, c), PopTop
    PROVE  \/ UNCHANGED <<own, taken>> /\ IsQueue(n, T, bot, arr, h, c)'
           \/ /\ T < bot[n] /\ c = bot[n] + 1 /\ Take(Val(bot[n])) /\ UNCHANGED own
              /\ IsQueue(n, T, bot, arr, bot[n], bot[n])'
           \/ /\ T = h /\ bot[0] < h /\ UNCHANGED taken
              /\ IsQueue(n + 1, h, More(bot, n, h), More(arr, n, arr[n]), h, bot[0])'
<1>1. /\ n = 0 /\ n \in 0 .. n /\ T \in Int /\ h \in Int /\ c \in Int
      /\ bot \in [0 .. n -> Int] /\ arr \in [0 .. n -> Nat]
      /\ owner.pc = "fence" /\ owner.b = Wrap(bot[n]) /\ h = bot[n] + 1 /\ c = h /\ T <= h
      /\ owner.got /\ DOMAIN owner = DOMAIN Idle
      /\ thief = [i \in Thieves |-> thief[i]]
      /\ top = Wrap(T)
  <2>1. n \in Nat /\ owner.pc = "fence" /\ Lowered /\ buf = <<>>
    BY DEF PopTop, IsQueue, Lowered
  <2>2. n = 0
    BY <2>1, BottomsBelow
  <2>3. T \in Int /\ h \in Int /\ c \in Int /\ bot \in [0 .. n -> Int] /\ arr \in [0 .. n -> Nat] /\ c = bot[0] + 1
    BY <2>1 DEF IsQueue
  <2>4. h = bot[n] + 1 /\ owner.b = Wrap(bot[n]) /\ owner.got /\ DOMAIN owner = DOMAIN Idle
    BY <2>1 DEF IsQueue, OwnerInv
  <2>5. T <= h /\ top = Wrap(T) /\ thief = [i \in Thieves |-> thief[i]]
    BY DEF IsQueue, IndexInv
  <2> QED
    BY <2>1, <2>2, <2>3, <2>4, <2>5
<1>2. ToSigned(owner.b - top) = bot[n] - T /\ bot[n] \in Int
  BY <1>1, Apart
<1>3. own[Cell(own[Array], owner.b)] = Val(bot[n])
  BY <1>1, OwnTask
<1>4. UNCHANGED <<mem, top, thief, pushed>> /\ buf = <<>>
  BY DEF PopTop
<1>5. CASE bot[n] - T < 0 /\ Restore /\ owner' = [Idle EXCEPT !.got = FALSE] /\ UNCHANGED taken
  <2>1. T = h
    BY <1>1, <1>2, <1>5
  <2>2. owner'.pc = "idle" /\ DOMAIN owner' = DOMAIN Idle
    BY <1>5 DEF Idle
  <2>3. taken' \in [TaskIds -> {0, 1}] /\ \A x \in TaskIds : x > pushed => taken'[x] = 0
    BY <1>5 DEF IsQueue, TaskInv
  <2>4. T \in {T, T + 1} /\ top' = Wrap(T) /\ owner.pc # "idle"
    BY <1>1, <1>4
  <2>5. IsQueue(n + 1, h, More(bot, n, h), More(arr, n, arr[n]), h, bot[0])'
    BY <1>1, <1>4, <1>5, <2>1, <2>2, <2>3, <2>4, RestoreKeeps
  <2>6. bot[0] < h
    BY <1>1, <1>2
  <2> QED
    BY <1>5, <2>1, <2>5, <2>6
<1>6. CASE /\ bot[n] - T = 0
           /\ owner' = [owner EXCEPT !.pc = "cas", !.t = top, !.x = own[Cell(own[Array], owner.b)]]
           /\ UNCHANGED <<own, buf, taken>>
  <2>1. /\ owner'.pc = "cas" /\ owner'.t = Wrap(bot[n]) /\ owner'.x = Val(bot[n])
        /\ owner'.b = Wrap(bot[n]) /\ owner'.got /\ T = bot[n]
    BY <1>1, <1>2, <1>3, <1>6 DEF Idle
  <2>2. DOMAIN owner' = DOMAIN Idle
    BY <1>1, <1>6
  <2>3. OwnerInv(n, T, bot[n], h)'
    <3>1. Val(bot[n])' = Val(bot[n])
      BY <1>6 DEF Val
    <3> QED
      BY <1>1, <1>2, <2>1, <2>2, <3>1 DEF OwnerInv
  <2>4. Lowered /\ Lowered'
    BY <1>1, <1>4, <2>1 DEF Lowered
  <2>5. \A i \in Thieves : ThiefInv(i, T, c)'
    BY <1>4, <1>6 DEF IsQueue, ThiefInv, Succeeds, Val
  <2>6. BufInv(buf', owner'.pc = "fence", n, T, bot, arr)
    BY <1>1, <1>6, <2>1 DEF IsQueue, BufInv
  <2>7. IndexInv(n, T, bot, h)' /\ TaskInv(T, h)' /\ CopyInv(n, T, bot, arr)'
    BY <1>4, <1>6 DEF IsQueue, IndexInv, TaskInv, CopyInv, Val
  <2>8. MemInv(mem', own', buf', n, bot, arr) /\ NoLarger(own')
    BY <1>4, <1>6 DEF IsQueue
  <2> QED
    BY <1>1, <1>4, <1>6, <2>3, <2>4, <2>5, <2>6, <2>7, <2>8 DEF IsQueue
<1>7. CASE bot[n] - T > 0 /\ Take(Val(bot[n])) /\ owner' = Idle /\ UNCHANGED <<own, buf>>
  <2>1. owner'.pc = "idle" /\ owner'.got /\ DOMAIN owner' = DOMAIN Idle
    BY <1>7 DEF Idle
  <2>2. OwnerInv(n, T, bot[n], bot[n])'
    BY <1>1, <1>2, <2>1 DEF OwnerInv
  <2>3. ~ Lowered'
    BY <2>1 DEF Lowered
  <2>4. T < bot[n]
    BY <1>1, <1>2, <1>7
  <2>5. \A i \in Thieves : ThiefInv(i, T, bot[n])'
    BY <1>4, <1>7, <2>4, ThievesStay DEF Val
  <2>6. BufInv(buf', owner'.pc = "fence", n, T, bot, arr)
    BY <1>1, <1>7, <2>1 DEF IsQueue, BufInv
  <2>7. IndexInv(n, T, bot, bot[n])'
    <3>1. own[Array] = arr[n] /\ arr[n] \in Nat
      BY <1>1 DEF IsQueue, MemInv
    <3>2. IndexInv(n, T, bot, h) /\ own' = own
      BY <1>7 DEF IsQueue
    <3>3. Start + pushed \in Int
      BY <3>2, WorkStealQueueAssumption DEF IndexInv
    <3> QED
      BY <1>1, <1>2, <1>4, <2>4, <3>1, <3>2, <3>3 DEF IndexInv
  <2>8. TaskInv(T, bot[n])'
    <3>1. bot[n] \in T .. h - 1 /\ bot[n] = h - 1
      BY <1>1, <1>2, <2>4
    <3>2. /\ taken' \in [TaskIds -> {0, 1}]
          /\ \A x \in TaskIds : x > pushed => taken'[x] = 0
          /\ \A i \in T .. h - 1 : i # bot[n] => taken'[Val(i)] = 0
      BY <1>7, <3>1, TakeKeeps
    <3>3. \A i \in T .. bot[n] - 1 : i \in T .. h - 1 /\ i # bot[n]
      <4>1. bot[n] = h - 1 /\ T \in Int /\ h \in Int
        BY <1>1, <1>2
      <4> QED
        BY ONLY <4>1
    <3> QED
      BY <1>4, <1>7, <3>2, <3>3 DEF IsQueue, TaskInv, Val
  <2>9. CopyInv(n, T, bot, arr)' /\ MemInv(mem', own', buf', n, bot, arr) /\ NoLarger(own')
    BY <1>4, <1>7 DEF IsQueue, CopyInv, Val
  <2>10. bot[n] = bot[0]
    BY <1>1
  <2>11. IsQueue(n, T, bot, arr, bot[n], bot[n])'
    BY <1>1, <1>2, <1>4, <2>2, <2>3, <2>5, <2>6, <2>7, <2>8, <2>9, <2>10 DEF IsQueue
  <2> QED
    BY <1>1, <1>7, <2>4, <2>11
<1> QED
  BY <1>2, <1>3, <1>5, <1>6, <1>7 DEF PopTop

\* pop's compare-exchange.
LEMMA PopCasKeeps ==
    ASSUME NEW n, NEW T, NEW bot, NEW arr, NEW h, NEW c, IsQueue(n, T, bot, arr, h, c), PopCas
    PROVE  /\ IsQueue(n + 1, h, More(bot, n, h), More(arr, n, arr[n]), h, bot[0])'
           /\ bot[0] < h /\ c = h
           /\ \/ T = h /\ UNCHANGED taken
              \/ T = h - 1 /\ Take(Val(T))
<1>1. /\ n = 0 /\ n \in 0 .. n /\ T \in Int /\ h \in Int
      /\ bot \in [0 .. n -> Int]
      /\ owner.pc = "cas" /\ h = bot[n] + 1 /\ T <= h /\ T >= bot[n] /\ owner.t = Wrap(bot[n])
      /\ T = bot[n] => owner.x = Val(bot[n])
      /\ top = Wrap(T)
  BY DEF PopCas, IsQueue, OwnerInv, IndexInv
<1>2. (top = owner.t <=> T = bot[n]) /\ bot[n] \in Int
  BY <1>1, Apart
<1>3. UNCHANGED <<mem, thief, pushed>> /\ Restore /\ owner.pc # "idle"
  BY <1>1 DEF PopCas
<1>4. owner'.pc = "idle" /\ DOMAIN owner' = DOMAIN Idle
  BY DEF PopCas, Idle
<1>7. bot[0] < h /\ c = h
  <2>1. c = bot[0] + 1
    BY <1>1 DEF IsQueue, Lowered
  <2> QED
    BY <1>1, <1>2, <2>1
<1>5. CASE top = owner.t /\ top' = Wrap(owner.t + 1) /\ Take(owner.x)
  <2>1. T = bot[n] /\ h = T + 1 /\ T \in T .. h - 1 /\ T = h - 1
    BY <1>1, <1>2, <1>5
  <2>2. top' = Wrap(h)
    <3>1. Wrap(Wrap(T) + 1) = Wrap(T + 1)
      BY <1>1, WrapSum
    <3> QED
      BY <1>1, <1>5, <2>1, <3>1
  <2>3. Take(Val(T))
    BY <1>1, <1>5, <2>1
  <2>4. taken' \in [TaskIds -> {0, 1}] /\ \A x \in TaskIds : x > pushed => taken'[x] = 0
    BY <2>1, <2>3, TakeKeeps
  <2>5. T + 1 \in {T, T + 1} /\ T + 1 = h /\ top' = Wrap(T + 1)
    BY <1>1, <2>1, <2>2
  <2>6. IsQueue(n + 1, h, More(bot, n, h), More(arr, n, arr[n]), h, bot[0])'
    BY <1>1, <1>3, <1>4, <2>4, <2>5, RestoreKeeps
  <2> QED
    BY <1>7, <2>1, <2>3, <2>6
<1>6. CASE top # owner.t /\ UNCHANGED <<top, taken>>
  <2>1. T = h
    BY <1>1, <1>2, <1>6
  <2>2. taken' \in [TaskIds -> {0, 1}] /\ \A x \in TaskIds : x > pushed => taken'[x] = 0
    BY <1>6 DEF IsQueue, TaskInv
  <2>3. T \in {T, T + 1} /\ top' = Wrap(T)
    BY <1>1, <1>6
  <2>4. IsQueue(n + 1, h, More(bot, n, h), More(arr, n, arr[n]), h, bot[0])'
    BY <1>1, <1>3, <1>4, <2>1, <2>2, <2>3, RestoreKeeps
  <2> QED
    BY <1>6, <1>7, <2>1, <2>4
<1> QED
  BY <1>5, <1>6 DEF PopCas

-----------------------------------------------------------------------------
(* The steps of a thief.                                                   *)

LEMMA StealTopKeeps ==
    ASSUME NEW n, NEW T, NEW bot, NEW arr, NEW h, NEW c, IsQueue(n, T, bot, arr, h, c),
           NEW i \in Thieves, StealTop(i)
    PROVE  IsQueue(n, T, bot, arr, h, c)'
<1>1. PICK f : f = [NoSteal EXCEPT !.pc = "bottom", !.t = top]
  OBVIOUS
<1>2. thief' = [thief EXCEPT ![i] = f] /\ UNCHANGED <<mem, own, top, buf, owner, pushed, taken>>
  BY <1>1 DEF StealTop
<1>3. DOMAIN f = DOMAIN NoSteal /\ f.pc = "bottom" /\ f.t = top
  BY <1>1 DEF NoSteal
<1>4. thief'[i] = f
  BY <1>2 DEF IsQueue
<1>5. T \in Start .. T /\ top = Wrap(T)
  BY WorkStealQueueAssumption DEF IsQueue, IndexInv
<1>6. ThiefInv(i, T, c)'
  BY <1>3, <1>4, <1>5 DEF ThiefInv
<1> QED
  BY <1>2, <1>6, ThiefSteps, Zenon

\* A thief that has the current top goes on only if a task is in sight.
LEMMA StealBottomKeeps ==
    ASSUME NEW n, NEW T, NEW bot, NEW arr, NEW h, NEW c, IsQueue(n, T, bot, arr, h, c),
           NEW i \in Thieves, StealBottom(i)
    PROVE  IsQueue(n, T, bot, arr, h, c)'
<1>1. /\ n \in Nat /\ 0 \in 0 .. n /\ T \in Int /\ c \in Int /\ bot[0] \in Int
      /\ mem[Bottom] = Wrap(bot[0]) /\ top = Wrap(T) /\ c >= bot[0]
      /\ bot[0] \in Start .. Start + pushed /\ T \in Start .. Start + pushed
      /\ pushed \in 0 .. MaxPushes /\ Start \in Int /\ MaxPushes \in Nat
  <2>1. /\ n \in Nat /\ T \in Int /\ c \in Int /\ bot \in [0 .. n -> Int]
        /\ c = (IF Lowered THEN bot[0] + 1 ELSE bot[0])
        /\ MemInv(mem, own, buf, n, bot, arr) /\ IndexInv(n, T, bot, h)
    BY DEF IsQueue
  <2>2. 0 \in 0 .. n /\ bot[0] \in Int
    BY <2>1
  <2>3. mem[Bottom] = Wrap(bot[0])
    BY <2>1 DEF MemInv
  <2>4. /\ top = Wrap(T) /\ pushed \in 0 .. MaxPushes /\ T \in Start .. Start + pushed
        /\ \A k \in 0 .. n : bot[k] \in Start .. Start + pushed
    BY <2>1 DEF IndexInv
  <2>5. Start \in Int /\ MaxPushes \in Nat
    BY WorkStealQueueAssumption, WordIsNat
  <2> QED
    BY <2>1, <2>2, <2>3, <2>4, <2>5
<1>2. thief[i].pc = "bottom" /\ DOMAIN thief[i] = DOMAIN NoSteal /\ UNCHANGED <<mem, own, top, buf, owner, pushed, taken>>
  <2>1. ThiefInv(i, T, c)
    BY DEF IsQueue
  <2> QED
    BY <2>1 DEF StealBottom, ThiefInv
<1>3. PICK j \in Start .. T : thief[i].t = Wrap(j)
  BY <1>2 DEF IsQueue, ThiefInv
<1>4. CASE ToSigned(mem[Bottom] - thief[i].t) <= 0
  <2>1. PICK f : f = NoSteal
    OBVIOUS
  <2>2. thief' = [thief EXCEPT ![i] = f]
    BY <1>4, <2>1 DEF StealBottom
  <2>3. thief'[i] = f
    BY <2>2 DEF IsQueue
  <2>4. DOMAIN f = DOMAIN NoSteal /\ f.pc = "idle"
    BY <2>1 DEF NoSteal
  <2>5. ThiefInv(i, T, c)'
    BY <2>3, <2>4 DEF ThiefInv
  <2> QED
    BY <1>2, <2>2, <2>5, ThiefSteps
<1>5. CASE ~ (ToSigned(mem[Bottom] - thief[i].t) <= 0)
  <2>1. PICK f : f = [thief[i] EXCEPT !.pc = "array"]
    OBVIOUS
  <2>2. thief' = [thief EXCEPT ![i] = f]
    BY <1>5, <2>1 DEF StealBottom
  <2>3. thief'[i] = f
    BY <2>2 DEF IsQueue
  <2>4. DOMAIN f = DOMAIN NoSteal /\ f.pc = "array" /\ f.t = Wrap(j)
    BY <1>2, <1>3, <2>1 DEF NoSteal
  <2>5. thief[i].t = top => T < c
    <3> SUFFICES ASSUME Wrap(j) = Wrap(T) PROVE T < c
      BY <1>1, <1>3
    <3>1. j \in Int /\ j - T \in (- MaxPushes) .. MaxPushes /\ bot[0] - j \in (- MaxPushes) .. MaxPushes
      BY <1>1
    <3>2. j = T
      BY <1>1, <3>1, WrapOnce
    <3>3. ToSigned(Wrap(bot[0]) - Wrap(j)) = bot[0] - j
      BY <1>1, <3>1, Signed
    <3>4. ~ (bot[0] - j <= 0)
      BY <1>1, <1>3, <1>5, <3>3
    <3> QED
      BY <1>1, <3>2, <3>4
  <2>6. ThiefInv(i, T, c)'
    BY <1>2, <1>3, <2>3, <2>4, <2>5 DEF ThiefInv, Succeeds
  <2> QED
    BY <1>2, <2>2, <2>6, ThiefSteps
<1> QED
  BY <1>4, <1>5

\* The array that is current in memory has all tasks in sight.
LEMMA StealArrayKeeps ==
    ASSUME NEW n, NEW T, NEW bot, NEW arr, NEW h, NEW c, IsQueue(n, T, bot, arr, h, c),
           NEW i \in Thieves, StealArray(i)
    PROVE  IsQueue(n, T, bot, arr, h, c)'
<1>1. /\ n \in Nat /\ 0 \in 0 .. n /\ T \in Int /\ c \in Int /\ bot[0] \in Int
      /\ mem[Array] = arr[0] /\ own[Array] = arr[n] /\ Made(own, arr[0])
      /\ c = IF Lowered THEN bot[0] + 1 ELSE bot[0]
      /\ Lowered => n = 0
  BY BottomsBelow DEF IsQueue, MemInv
<1>2. thief[i].pc = "array" /\ ThiefInv(i, T, c) /\ UNCHANGED <<mem, own, top, buf, owner, pushed, taken>>
  BY DEF StealArray, IsQueue
<1>3. PICK f : f = [thief[i] EXCEPT !.pc = "get", !.a = arr[0]]
  OBVIOUS
<1>4. thief' = [thief EXCEPT ![i] = f]
  BY <1>1, <1>3 DEF StealArray
<1>5. thief'[i] = f
  BY <1>4 DEF IsQueue
<1>6. DOMAIN f = DOMAIN NoSteal /\ f.pc = "get" /\ f.a = arr[0] /\ f.t = thief[i].t
  BY <1>2, <1>3 DEF NoSteal, ThiefInv
<1>7. T < c => own[Cell(arr[0], T)] = Val(T)
  <2> SUFFICES ASSUME T < c PROVE own[Cell(arr[0], T)] = Val(T)
    OBVIOUS
  <2>1. CASE T < bot[0]
    <3>1. T \in T .. bot[0] - 1
      BY <1>1, <2>1
    <3> QED
      BY <1>1, <3>1 DEF IsQueue, CopyInv
  <2>2. CASE ~ (T < bot[0])
    <3>1. n = 0
      BY <1>1, <2>2
    <3> QED
      BY <1>1, <3>1 DEF Val
  <2> QED
    BY <2>1, <2>2
<1>8. ThiefInv(i, T, c)'
  BY <1>1, <1>2, <1>5, <1>6, <1>7 DEF ThiefInv, Succeeds, Val
<1> QED
  BY <1>2, <1>4, <1>8, ThiefSteps

\* The task at top is in memory, in old arrays too.
LEMMA StealGetKeeps ==
    ASSUME NEW n, NEW T, NEW bot, NEW arr, NEW h, NEW c, IsQueue(n, T, bot, arr, h, c),
           NEW i \in Thieves, StealGet(i)
    PROVE  IsQueue(n, T, bot, arr, h, c)'
<1>1. T \in Int /\ top = Wrap(T)
  BY DEF IsQueue, IndexInv
<1>2. thief[i].pc = "get" /\ ThiefInv(i, T, c) /\ UNCHANGED <<mem, own, top, buf, owner, pushed, taken>>
  BY DEF StealGet, IsQueue
<1>3. PICK f : f = [thief[i] EXCEPT !.pc = "cas", !.x = mem[Cell(thief[i].a, thief[i].t)]]
  OBVIOUS
<1>4. thief' = [thief EXCEPT ![i] = f]
  BY <1>3 DEF StealGet
<1>5. thief'[i] = f
  BY <1>4 DEF IsQueue
<1>6. DOMAIN f = DOMAIN NoSteal /\ f.pc = "cas" /\ f.x = mem[Cell(thief[i].a, thief[i].t)] /\ f.t = thief[i].t
  BY <1>2, <1>3 DEF NoSteal, ThiefInv
<1>7. thief[i].t = top => f.x = Val(T)
  <2> SUFFICES ASSUME thief[i].t = top PROVE mem[Cell(thief[i].a, Wrap(T))] = Val(T)
    BY <1>1, <1>6
  <2>1. T < c /\ own[Cell(thief[i].a, T)] = Val(T) /\ Made(own, thief[i].a)
    BY <1>2 DEF ThiefInv, Succeeds
  <2>2. Cell(thief[i].a, Wrap(T)) = Cell(thief[i].a, T)
    BY <1>1, <2>1, ItemWrap DEF Made
  <2>3. mem[Cell(thief[i].a, T)] = own[Cell(thief[i].a, T)]
    BY <2>1, TopInMemory
  <2> QED
    BY <2>1, <2>2, <2>3
<1>8. ThiefInv(i, T, c)'
  BY <1>2, <1>5, <1>6, <1>7 DEF ThiefInv, Succeeds, Val
<1> QED
  BY <1>2, <1>4, <1>8, ThiefSteps

\* A compare-exchange that succeeds takes the task at top.
LEMMA StealCasKeeps ==
    ASSUME NEW n, NEW T, NEW bot, NEW arr, NEW h, NEW c, IsQueue(n, T, bot, arr, h, c),
           NEW i \in Thieves, StealCas(i)
    PROVE  \/ IsQueue(n, T, bot, arr, h, c)' /\ UNCHANGED taken
           \/ T < c /\ Take(Val(T)) /\ IsQueue(n, T + 1, bot, arr, h, c)'
<1>1. /\ n \in Nat /\ n \in 0 .. n /\ T \in Int /\ h \in Int /\ c \in Int /\ c <= h /\ top = Wrap(T)
      /\ T \in Start .. Start + pushed /\ h <= Start + pushed /\ h <= T + own[Array]
      /\ bot \in [0 .. n -> Int] /\ arr \in [0 .. n -> Nat] /\ own[Array] = arr[n]
      /\ pushed \in 0 .. MaxPushes /\ Start \in Int /\ MaxPushes \in Nat
      /\ thief = [k \in Thieves |-> thief[k]]
  <2>1. /\ n \in Nat /\ T \in Int /\ h \in Int /\ c \in Int
        /\ bot \in [0 .. n -> Int] /\ arr \in [0 .. n -> Nat] /\ thief = [k \in Thieves |-> thief[k]]
    BY DEF IsQueue
  <2>2. c <= h
    BY BottomsBelow
  <2>3. /\ top = Wrap(T) /\ T \in Start .. Start + pushed /\ h <= Start + pushed /\ h <= T + own[Array]
        /\ pushed \in 0 .. MaxPushes
    BY DEF IsQueue, IndexInv
  <2>4. own[Array] = arr[n]
    BY DEF IsQueue, MemInv
  <2> QED
    BY <2>1, <2>2, <2>3, <2>4, WorkStealQueueAssumption
<1>2. thief[i].pc = "cas" /\ ThiefInv(i, T, c) /\ UNCHANGED <<mem, own, buf, owner, pushed>>
  BY DEF StealCas, IsQueue
<1>3. CASE top # thief[i].t /\ thief' = [thief EXCEPT ![i] = [NoSteal EXCEPT !.pc = "top"]] /\ UNCHANGED <<top, taken>>
  <2>1. PICK f : f = [NoSteal EXCEPT !.pc = "top"]
    OBVIOUS
  <2>2. thief' = [thief EXCEPT ![i] = f] /\ UNCHANGED <<mem, own, top, buf, owner, pushed, taken>>
    BY <1>2, <1>3, <2>1
  <2>3. thief'[i] = f
    BY <1>1, <2>2
  <2>4. DOMAIN f = DOMAIN NoSteal /\ f.pc = "top"
    BY <2>1 DEF NoSteal
  <2>5. ThiefInv(i, T, c)'
    BY <2>3, <2>4 DEF ThiefInv
  <2> QED
    BY <2>2, <2>5, ThiefSteps
<1>4. CASE top = thief[i].t /\ top' = Wrap(top + 1) /\ Take(thief[i].x) /\ thief' = [thief EXCEPT ![i] = NoSteal]
  <2>1. T < c /\ thief[i].x = Val(T)
    BY <1>2, <1>4 DEF ThiefInv, Succeeds
  <2>2. PICK T2 \in Int : T2 = T + 1
    BY <1>1
  <2>3. top' = Wrap(T2)
    <3>1. Wrap(Wrap(T) + 1) = Wrap(T + 1)
      <4>1. T \in Int /\ 1 \in Int
        BY <1>1
      <4> QED
        BY ONLY <4>1, WrapSum
    <3> QED
      BY <1>1, <1>4, <2>2, <3>1
  <2>4. T2 <= h /\ T2 <= c /\ T \in T .. h - 1 /\ T2 >= T
    BY <1>1, <2>1, <2>2
  <2>5. Take(Val(T))
    BY <1>4, <2>1
  <2>6. TaskInv(T2, h)'
    <3>1. /\ taken' \in [TaskIds -> {0, 1}]
          /\ \A x \in TaskIds : x > pushed => taken'[x] = 0
          /\ \A k \in T .. h - 1 : k # T => taken'[Val(k)] = 0
      BY <2>4, <2>5, TakeKeeps
    <3>2. \A k \in T2 .. h - 1 : k \in T .. h - 1 /\ k # T
      <4>1. T \in Int /\ h \in Int /\ T2 = T + 1
        BY <1>1, <2>2
      <4> QED
        BY ONLY <4>1
    <3> QED
      BY <1>2, <3>1, <3>2 DEF IsQueue, TaskInv, Val
  <2>7. BufInv(buf', owner'.pc = "fence", n, T2, bot, arr)
    <3>1. PICK fenced \in BOOLEAN : fenced = (owner.pc = "fence")
      OBVIOUS
    <3>2. BufInv(buf, fenced, n, T, bot, arr)
      BY <3>1 DEF IsQueue
    <3>3. BufInv(buf, fenced, n, T2, bot, arr)
      BY <1>1, <2>4, <3>2, BufLater
    <3> QED
      BY <1>2, <3>1, <3>3
  <2>8. IndexInv(n, T2, bot, h)'
    <3>1. Start <= T2 /\ T2 <= Start + pushed /\ h <= T2 + own[Array]
      BY <1>1, <2>2, <2>4
    <3> QED
      BY <1>1, <1>2, <2>2, <2>3, <2>4, <3>1 DEF IsQueue, IndexInv
  <2>9. CopyInv(n, T2, bot, arr)'
    <3>1. \A k \in 0 .. n : \A j \in T2 .. bot[k] - 1 : j \in T .. bot[k] - 1
      BY <1>1, <2>2
    <3> QED
      BY <1>2, <3>1 DEF IsQueue, CopyInv, Val
  <2>10. OwnerInv(n, T2, bot[n], h)'
    <3>1. OwnerInv(n, T, bot[n], h) /\ bot[n] \in Int
      BY <1>1 DEF IsQueue
    <3>2. (T >= bot[n] => T2 >= bot[n] /\ T2 # bot[n]) /\ (bot[n] <= T => bot[n] <= T2)
      BY <1>1, <2>2, <3>1
    <3> QED
      BY <1>2, <3>1, <3>2 DEF OwnerInv, Val
  <2>11. \A k \in Thieves : ThiefInv(k, T2, c)'
    <3> SUFFICES ASSUME NEW k \in Thieves PROVE ThiefInv(k, T2, c)'
      OBVIOUS
    <3>1. CASE k = i
      <4>1. thief'[k] = NoSteal
        BY <1>1, <1>4, <3>1
      <4> QED
        BY <4>1 DEF ThiefInv, NoSteal
    <3>2. CASE k # i
      <4>1. thief'[k] = thief[k] /\ ThiefInv(k, T, c)
        BY <1>1, <1>4, <3>2 DEF IsQueue
      <4>2. thief[k].pc \notin {"idle", "top"} => \E j \in Start .. T2 : thief[k].t = Wrap(j)
        BY <1>1, <2>2, <4>1 DEF ThiefInv
      <4>3. ~ (thief[k].pc \in {"array", "get", "cas"} /\ thief[k].t = top')
        <5> SUFFICES ASSUME thief[k].pc \in {"array", "get", "cas"}, thief[k].t = Wrap(T2) PROVE FALSE
          BY <2>3
        <5>1. PICK j \in Start .. T : Wrap(j) = Wrap(T2)
          BY <4>1 DEF ThiefInv
        <5>2. j \in Int /\ j - T2 \in (- MaxPushes) .. MaxPushes /\ j # T2
          BY <1>1, <2>2, <2>4
        <5> QED
          BY <5>1, <5>2, WrapOnce
      <4> QED
        BY <1>2, <4>1, <4>2, <4>3 DEF ThiefInv
    <3> QED
      BY <3>1, <3>2
  <2>12. thief' = [k \in Thieves |-> thief'[k]]
    BY <1>1, <1>4
  <2>13. c = (IF Lowered THEN bot[0] + 1 ELSE bot[0])'
    BY <1>2 DEF IsQueue, Lowered
  <2>14. MemInv(mem', own', buf', n, bot, arr) /\ NoLarger(own')
    BY <1>2 DEF IsQueue
  <2>15. IsQueue(n, T2, bot, arr, h, c)'
    BY <1>1, <2>6, <2>7, <2>8, <2>9, <2>10, <2>11, <2>12, <2>13, <2>14 DEF IsQueue
  <2> QED
    BY <2>1, <2>2, <2>5, <2>15
<1> QED
  BY <1>3, <1>4 DEF StealCas

-----------------------------------------------------------------------------
(* push.                                                                   *)

LEMMA TwoAppended ==
    ASSUME NEW S, NEW st \in Seq(S), NEW a \in S, NEW b \in S
    PROVE  st \o <<a, b>> = Append(Append(st, a), b)
OBVIOUS

\* There is room for a task in the array of size s: m and v are memory and
\* what its owner sees of it, with that array in place.
Room(m, v, st, n, T, bot, arr, h, s) ==
    /\ n \in Nat /\ T \in Int /\ h \in Int /\ T <= h /\ h < T + s
    /\ bot \in [0 .. n -> Int] /\ arr \in [0 .. n -> Nat] /\ bot[n] = h /\ arr[n] = s
    /\ \A k \in 0 .. n : bot[k] \in Start .. Start + pushed
    /\ MemInv(m, v, st, n, bot, arr) /\ NoLarger(v)
    /\ BufInv(st, FALSE, n, T, bot, arr)
    /\ \A k \in 0 .. n : \A j \in T .. bot[k] - 1 : v[Cell(arr[k], j)] = Val(j)
    /\ \A r : Made(own, r) => Made(v, r) /\ \A j \in Int : v[Cell(r, j)] = own[Cell(r, j)]

\* What the two stores of a put do.
PutDone(m, v, st, n, T, bot, arr, h, s, n2, bot2, arr2) ==
    /\ n2 \in Nat /\ bot2 \in [0 .. n2 -> Int] /\ arr2 \in [0 .. n2 -> Nat]
    /\ MemInv(m, own', buf', n2, bot2, arr2)
    /\ BufInv(buf', FALSE, n2, T, bot2, arr2)
    /\ bot2[0] = bot[0] /\ bot2[n2] = h + 1 /\ arr2[n2] = s
    /\ \A k \in 0 .. n2 : \/ bot2[k] = h + 1 /\ arr2[k] = s
                          \/ \E j \in 0 .. n : bot2[k] = bot[j] /\ arr2[k] = arr[j]
    /\ DOMAIN own' = DOMAIN v /\ own'[Array] = v[Array]
    /\ own'[Cell(s, h)] = pushed + 1
    /\ \A r, j \in Int : Cell(r, j) \in DOMAIN v /\ Cell(r, j) # Cell(s, h) => own'[Cell(r, j)] = v[Cell(r, j)]

LEMMA PutStores ==
    ASSUME NEW m, NEW v, NEW st, NEW n, NEW T, NEW bot, NEW arr, NEW h, NEW s,
           Room(m, v, st, n, T, bot, arr, h, s), Put(s, m, v, st), own[Bottom] = Wrap(h), pushed \in Nat
    PROVE  \E n2, bot2, arr2 : PutDone(m, v, st, n, T, bot, arr, h, s, n2, bot2, arr2)
<1>1. /\ n \in Nat /\ T \in Int /\ h \in Int /\ T <= h /\ h < T + s /\ n \in 0 .. n
      /\ bot \in [0 .. n -> Int] /\ arr \in [0 .. n -> Nat] /\ bot[n] = h /\ arr[n] = s
      /\ MemInv(m, v, st, n, bot, arr) /\ BufInv(st, FALSE, n, T, bot, arr)
      /\ Made(v, s) /\ v[Array] = s
  <2>1. /\ n \in Nat /\ T \in Int /\ h \in Int /\ T <= h /\ h < T + s
        /\ bot \in [0 .. n -> Int] /\ arr \in [0 .. n -> Nat] /\ bot[n] = h /\ arr[n] = s
        /\ MemInv(m, v, st, n, bot, arr) /\ BufInv(st, FALSE, n, T, bot, arr)
    BY DEF Room
  <2>2. n \in 0 .. n
    BY <2>1
  <2>3. Made(v, s) /\ v[Array] = s
    BY <2>1, <2>2 DEF MemInv
  <2> QED
    BY <2>1, <2>2, <2>3
<1>2. Cell(s, own[Bottom]) = Cell(s, h) /\ Divides(s)
  BY <1>1, ItemWrap DEF Made
<1>3. Wrap(own[Bottom] + 1) = Wrap(h + 1)
  <2>1. h \in Int /\ 1 \in Int
    BY <1>1
  <2> QED
    BY <2>1, WrapSum
<1>4. PICK w1 : w1 = <<Cell(s, h), pushed + 1>>
  OBVIOUS
<1>5. PICK w2 : w2 = <<Bottom, Wrap(h + 1)>>
  OBVIOUS
<1>6. w1 \in Locs \X Nat /\ w2 \in Locs \X Nat /\ w1[1] = Cell(s, h) /\ w1[2] = pushed + 1 /\ w2[1] = Bottom /\ w2[2] = Wrap(h + 1)
  <2>1. s \in Nat /\ h % s \in Nat
    <3>1. s \in Nat \ {0}
      BY <1>2 DEF Divides
    <3> QED
      BY <1>1, <3>1
  <2>2. Cell(s, h) \in Locs
    BY <2>1 DEF Locs, Cell
  <2>3. Wrap(h + 1) \in Nat
    <3>1. h + 1 \in Int
      BY <1>1
    <3>2. \E q \in Int : Wrap(h + 1) = h + 1 + Word * q /\ Wrap(h + 1) \in 0 .. Word - 1
      BY <3>1, WrapIs
    <3> QED
      BY <3>2, WordIsNat
  <2> QED
    BY <1>4, <1>5, <2>2, <2>3 DEF Locs
<1>7. /\ own' = Changed(Changed(v, w1), w2)
      /\ buf' = Append(Append(st, w1), w2)
  <2>1. st \in Seq(Locs \X Nat)
    BY <1>1 DEF BufInv
  <2>2. buf' = st \o <<w1, w2>>
    BY <1>2, <1>3, <1>4, <1>5 DEF Put
  <2>3. own' = [v EXCEPT ![Cell(s, h)] = pushed + 1, ![Bottom] = Wrap(h + 1)]
    BY <1>2, <1>3 DEF Put
  <2> QED
    BY <1>6, <2>1, <2>2, <2>3, TwoAppended DEF Changed
<1>8. CanStore(m, v, st, n, T, bot, arr, w1, FALSE, h, s)
  <2>1. Entry(w1, FALSE, T, bot[n], h, arr[n], s)
    BY <1>1, <1>6 DEF Entry
  <2> QED
    BY <1>1, <1>6, <2>1 DEF CanStore, Made, Divides
<1>9. Stored(m, v, st, n, T, bot, arr, w1, FALSE, h, s)
  BY <1>8, StoreKeeps
<1>10. PICK v1 : v1 = Changed(v, w1)
  OBVIOUS
<1>11. PICK st1 : st1 = Append(st, w1)
  OBVIOUS
<1>12. PICK n1 \in Nat : n1 = n + 1
  BY <1>1
<1>13. PICK bot1 : bot1 = More(bot, n, h)
  OBVIOUS
<1>14. PICK arr1 : arr1 = More(arr, n, s)
  OBVIOUS
<1>15. /\ MemInv(m, v1, st1, n1, bot1, arr1) /\ BufInv(st1, FALSE, n1, T, bot1, arr1)
       /\ bot1 \in [0 .. n1 -> Int] /\ arr1 \in [0 .. n1 -> Nat]
       /\ \A loc \in DOMAIN v : loc # Cell(s, h) => v1[loc] = v[loc]
       /\ v1[Cell(s, h)] = pushed + 1 /\ DOMAIN v1 = DOMAIN v
  BY <1>6, <1>9, <1>10, <1>11, <1>12, <1>13, <1>14 DEF Stored
<1>16. /\ bot1[n1] = h /\ arr1[n1] = s /\ bot1[0] = bot[0]
       /\ \A k \in 0 .. n1 : \E j \in 0 .. n : bot1[k] = bot[j] /\ arr1[k] = arr[j]
  <2>1. n1 \in 0 .. n + 1 /\ n1 = n + 1 /\ 0 \in 0 .. n /\ 0 \in 0 .. n + 1 /\ 0 # n + 1
    BY <1>1, <1>12
  <2>2. bot1[n1] = h /\ arr1[n1] = s /\ bot1[0] = bot[0]
    BY <2>1, <1>13, <1>14 DEF More
  <2>3. ASSUME NEW k \in 0 .. n1 PROVE \E j \in 0 .. n : bot1[k] = bot[j] /\ arr1[k] = arr[j]
    <3>1. CASE k = n1
      BY <1>1, <2>2, <3>1
    <3>2. CASE k # n1
      <4>1. k \in 0 .. n /\ k \in 0 .. n + 1 /\ k # n + 1
        BY <1>1, <2>1, <3>2
      <4>2. bot1[k] = bot[k] /\ arr1[k] = arr[k]
        BY <4>1, <1>13, <1>14 DEF More
      <4> QED
        BY <4>1, <4>2
    <3> QED
      BY <3>1, <3>2
  <2> QED
    BY <2>2, <2>3
<1>17. CanStore(m, v1, st1, n1, T, bot1, arr1, w2, FALSE, h + 1, s)
  <2>1. Entry(w2, FALSE, T, bot1[n1], h + 1, arr1[n1], s)
    BY <1>5, <1>16 DEF Entry
  <2>2. h + 1 \in Int /\ s \in Nat /\ arr1[n1] <= s /\ FALSE \in BOOLEAN
    BY <1>1, <1>16
  <2>3. Divides(s) /\ \A k \in 0 .. s - 1 : Cell(s, k) \in DOMAIN v1
    BY <1>1, <1>15 DEF Made
  <2> QED
    BY <1>1, <1>6, <1>12, <1>15, <2>1, <2>2, <2>3 DEF CanStore
<1>18. Stored(m, v1, st1, n1, T, bot1, arr1, w2, FALSE, h + 1, s)
  BY <1>17, StoreKeeps
<1>19. PICK n2 \in Nat : n2 = n1 + 1
  BY <1>12
<1>20. PICK bot2 : bot2 = More(bot1, n1, h + 1)
  OBVIOUS
<1>21. PICK arr2 : arr2 = More(arr1, n1, s)
  OBVIOUS
<1>22. /\ MemInv(m, own', buf', n2, bot2, arr2) /\ BufInv(buf', FALSE, n2, T, bot2, arr2)
       /\ bot2 \in [0 .. n2 -> Int] /\ arr2 \in [0 .. n2 -> Nat]
       /\ \A loc \in DOMAIN v1 : loc # Bottom => own'[loc] = v1[loc]
       /\ DOMAIN own' = DOMAIN v1
  BY <1>6, <1>7, <1>10, <1>11, <1>18, <1>19, <1>20, <1>21 DEF Stored
<1>23. /\ bot2[n2] = h + 1 /\ arr2[n2] = s /\ bot2[0] = bot1[0]
       /\ \A k \in 0 .. n2 : k = n2 \/ (k \in 0 .. n1 /\ bot2[k] = bot1[k] /\ arr2[k] = arr1[k])
  BY <1>12, <1>19, <1>20, <1>21 DEF More
<1>24. own'[Array] = v[Array]
  BY <1>1, <1>15, <1>22, Distinct DEF MemInv
<1>25. own'[Cell(s, h)] = pushed + 1
  <2>1. Cell(s, h) \in DOMAIN v
    BY <1>1, MadeItem
  <2> QED
    BY <1>15, <1>22, <2>1, Distinct
<1>26. \A r, j \in Int : Cell(r, j) \in DOMAIN v /\ Cell(r, j) # Cell(s, h) => own'[Cell(r, j)] = v[Cell(r, j)]
  BY <1>15, <1>22, Distinct
<1>27. \A k \in 0 .. n2 : \/ bot2[k] = h + 1 /\ arr2[k] = s
                          \/ \E j \in 0 .. n : bot2[k] = bot[j] /\ arr2[k] = arr[j]
  BY <1>16, <1>23
<1> HIDE <1>4, <1>5, <1>7, <1>10, <1>11, <1>12, <1>13, <1>14, <1>19, <1>20, <1>21
<1>28. PutDone(m, v, st, n, T, bot, arr, h, s, n2, bot2, arr2)
  BY <1>15, <1>16, <1>22, <1>23, <1>24, <1>25, <1>26, <1>27 DEF PutDone
<1> QED
  BY <1>28

LEMMA PutKeeps ==
    ASSUME NEW n, NEW T, NEW bot, NEW arr, NEW h, NEW c, IsQueue(n, T, bot, arr, h, c),
           NEW m, NEW v, NEW st, NEW n1, NEW bot1, NEW arr1, NEW s,
           Room(m, v, st, n1, T, bot1, arr1, h, s), bot1[0] = bot[0], Put(s, m, v, st),
           owner.pc = "idle", pushed < MaxPushes, pushed' = pushed + 1, owner' = Idle,
           UNCHANGED <<top, thief, taken>>
    PROVE  /\ \E n2, bot2, arr2 : IsQueue(n2, T, bot2, arr2, h + 1, c)'
           /\ \A j \in T .. h - 1 : Val(j)' = Val(j)
<1>1. /\ n \in Nat /\ 0 \in 0 .. n /\ n \in 0 .. n /\ T \in Int /\ h \in Int /\ c \in Int
      /\ bot \in [0 .. n -> Int] /\ arr \in [0 .. n -> Nat] /\ bot[n] = h
      /\ thief = [i \in Thieves |-> thief[i]]
      /\ own[Bottom] = Wrap(h) /\ Made(own, own[Array])
      /\ c = bot[0]
  <2>1. /\ n \in Nat /\ T \in Int /\ h \in Int /\ c \in Int /\ bot \in [0 .. n -> Int] /\ arr \in [0 .. n -> Nat]
        /\ thief = [i \in Thieves |-> thief[i]] /\ MemInv(mem, own, buf, n, bot, arr)
        /\ OwnerInv(n, T, bot[n], h)
    BY DEF IsQueue
  <2>2. n \in 0 .. n /\ 0 \in 0 .. n /\ bot[n] = h
    BY <2>1 DEF OwnerInv
  <2>3. own[Bottom] = Wrap(h) /\ Made(own, own[Array])
    BY <2>1, <2>2 DEF MemInv
  <2>4. c = bot[0]
    BY DEF IsQueue, Lowered
  <2> QED
    BY <2>1, <2>2, <2>3, <2>4
<1>2. /\ pushed \in 0 .. MaxPushes /\ T \in Start .. Start + pushed /\ h <= Start + pushed
      /\ top = Wrap(T) /\ T <= h /\ c <= h /\ Start \in Int /\ MaxPushes \in Nat
  <2>1. /\ pushed \in 0 .. MaxPushes /\ T \in Start .. Start + pushed /\ h <= Start + pushed
        /\ top = Wrap(T) /\ T <= h
    BY DEF IsQueue, IndexInv
  <2>2. c <= h
    BY BottomsBelow
  <2> QED
    BY <2>1, <2>2, WorkStealQueueAssumption
<1>3. PICK n2, bot2, arr2 : PutDone(m, v, st, n1, T, bot1, arr1, h, s, n2, bot2, arr2)
  BY <1>1, <1>2, PutStores
<1>4. /\ n1 \in Nat /\ bot1 \in [0 .. n1 -> Int] /\ n1 \in 0 .. n1 /\ h < T + s
      /\ \A k \in 0 .. n1 : bot1[k] \in Start .. Start + pushed
      /\ \A k \in 0 .. n1 : \A j \in T .. bot1[k] - 1 : v[Cell(arr1[k], j)] = Val(j)
      /\ \A r : Made(own, r) => Made(v, r) /\ \A j \in Int : v[Cell(r, j)] = own[Cell(r, j)]
      /\ NoLarger(v) /\ MemInv(m, v, st, n1, bot1, arr1) /\ bot1[n1] = h /\ arr1[n1] = s
  BY DEF Room
<1>5. /\ Made(v, s) /\ v[Array] = s /\ s \in Nat \ {0}
      /\ \A k \in 0 .. n1 : Made(v, arr1[k])
  BY <1>4, MadeItem DEF MemInv
<1>6. \A k \in 0 .. n1 : bot1[k] <= h
  <2>1. BufInv(st, FALSE, n1, T, bot1, arr1)
    BY DEF Room
  <2> QED
    BY <1>4, <2>1 DEF BufInv
\* The stores leave the other tasks alone.
<1>7. \A r : \A j \in T .. h - 1 : Made(v, r) => own'[Cell(r, j)] = v[Cell(r, j)]
  <2> SUFFICES ASSUME NEW r, NEW j \in T .. h - 1, Made(v, r) PROVE own'[Cell(r, j)] = v[Cell(r, j)]
    OBVIOUS
  <2>1. j \in Int /\ r \in Int /\ Cell(r, j) \in DOMAIN v
    BY <1>1, MadeItem
  <2>2. Cell(r, j) # Cell(s, h)
    <3>1. CASE r = s
      <4>1. j < h /\ h < j + s
        BY <1>1, <1>4, <1>5
      <4> QED
        BY <1>1, <1>5, <2>1, <3>1, <4>1, ItemApart
    <3>2. CASE r # s
      BY <3>2, Distinct
    <3> QED
      BY <3>1, <3>2
  <2> QED
    BY <1>3, <2>1, <2>2 DEF PutDone
<1>8. own'[Array] = s /\ DOMAIN own' = DOMAIN v
  BY <1>3, <1>5 DEF PutDone
<1>9. \A r : Made(own, r) => Made(own', r)
  BY <1>4, <1>5, <1>8 DEF Made
<1>10. \A j \in T .. h - 1 : Val(j)' = Val(j)
  <2> SUFFICES ASSUME NEW j \in T .. h - 1 PROVE own'[Cell(s, j)] = Val(j)
    BY <1>8 DEF Val
  <2> QED
    BY <1>4, <1>5, <1>7
<1>11. Val(h)' = pushed + 1
  BY <1>3, <1>8 DEF Val, PutDone
<1>12. \A j \in T .. (h + 1) - 1 : j \in T .. h - 1 \/ j = h
  BY <1>1
<1>13. TaskInv(T, h + 1)'
  <2>1. TaskInv(T, h)
    BY DEF IsQueue
  <2>2. \A j \in T .. (h + 1) - 1 : /\ Val(j)' \in 1 .. pushed + 1 /\ taken[Val(j)'] = 0
                                    /\ j # h => Val(j)' = Val(j) /\ Val(j) \in 1 .. pushed /\ j \in T .. h - 1
    <3>1. pushed + 1 \in TaskIds /\ pushed + 1 > pushed /\ pushed + 1 \in 1 .. pushed + 1
      BY <1>2 DEF TaskIds
    <3>2. taken[pushed + 1] = 0
      BY <2>1, <3>1 DEF TaskInv
    <3> SUFFICES ASSUME NEW j \in T .. (h + 1) - 1
                 PROVE  /\ Val(j)' \in 1 .. pushed + 1 /\ taken[Val(j)'] = 0
                        /\ j # h => Val(j)' = Val(j) /\ Val(j) \in 1 .. pushed /\ j \in T .. h - 1
      OBVIOUS
    <3>3. CASE j = h
      BY <1>11, <3>1, <3>2, <3>3
    <3>4. CASE j # h
      <4>1. j \in T .. h - 1
        BY <1>12, <3>4
      <4>2. Val(j)' = Val(j) /\ Val(j) \in 1 .. pushed /\ taken[Val(j)] = 0
        BY <1>10, <2>1, <4>1 DEF TaskInv
      <4>3. Val(j) \in 1 .. pushed + 1
        BY <1>2, <4>2
      <4> QED
        BY <4>1, <4>2, <4>3
    <3> QED
      BY <3>3, <3>4
  <2>3. \A i, j \in T .. (h + 1) - 1 : Val(i)' = Val(j)' => i = j
    <3> SUFFICES ASSUME NEW i \in T .. (h + 1) - 1, NEW j \in T .. (h + 1) - 1, Val(i)' = Val(j)' PROVE i = j
      OBVIOUS
    <3>1. CASE i = h /\ j = h
      BY <3>1
    <3>2. CASE i = h /\ j # h
      <4>1. Val(j)' \in 1 .. pushed /\ Val(j)' = pushed + 1
        BY <1>11, <2>2, <3>2
      <4> QED
        BY <1>2, <4>1
    <3>3. CASE i # h /\ j = h
      <4>1. Val(i)' \in 1 .. pushed /\ Val(i)' = pushed + 1
        BY <1>11, <2>2, <3>3
      <4> QED
        BY <1>2, <4>1
    <3>4. CASE i # h /\ j # h
      <4>1. i \in T .. h - 1 /\ j \in T .. h - 1 /\ Val(i) = Val(j)
        BY <2>2, <3>4
      <4> QED
        BY <2>1, <4>1 DEF TaskInv
    <3> QED
      BY <3>1, <3>2, <3>3, <3>4
  <2>4. taken \in [TaskIds -> {0, 1}] /\ \A x \in TaskIds : x > pushed + 1 => taken[x] = 0
    BY <1>2, <2>1 DEF TaskInv, TaskIds
  <2> QED
    BY <2>2, <2>3, <2>4 DEF TaskInv
<1>14. CopyInv(n2, T, bot2, arr2)'
  <2> SUFFICES ASSUME NEW k \in 0 .. n2, NEW j \in T .. bot2[k] - 1
               PROVE  own'[Cell(arr2[k], j)] = Val(j)'
    BY DEF CopyInv
  <2>1. CASE arr2[k] = s
    BY <1>8, <2>1 DEF Val
  <2>2. CASE \E i \in 0 .. n1 : bot2[k] = bot1[i] /\ arr2[k] = arr1[i]
    <3>1. PICK i \in 0 .. n1 : bot2[k] = bot1[i] /\ arr2[k] = arr1[i]
      BY <2>2
    <3>2. bot1[i] \in Int /\ bot1[i] <= h /\ j \in T .. bot1[i] - 1
      BY <1>4, <1>6, <3>1
    <3>3. j \in T .. h - 1
      BY <1>1, <3>2
    <3>4. own'[Cell(arr1[i], j)] = v[Cell(arr1[i], j)]
      BY <1>5, <1>7, <3>3
    <3>5. v[Cell(arr1[i], j)] = Val(j)
      BY <1>4, <3>2
    <3> QED
      BY <1>10, <3>1, <3>3, <3>4, <3>5
  <2> QED
    BY <1>3, <2>1, <2>2 DEF PutDone
<1>15. IndexInv(n2, T, bot2, h + 1)'
  <2>1. \A k \in 0 .. n2 : bot2[k] \in Start .. Start + (pushed + 1)
    <3> SUFFICES ASSUME NEW k \in 0 .. n2 PROVE bot2[k] \in Start .. Start + (pushed + 1)
      OBVIOUS
    <3>1. CASE bot2[k] = h + 1
      BY <1>1, <1>2, <3>1
    <3>2. CASE \E i \in 0 .. n1 : bot2[k] = bot1[i]
      <4>1. PICK i \in 0 .. n1 : bot2[k] = bot1[i]
        BY <3>2
      <4>2. bot1[i] \in Start .. Start + pushed
        BY <1>4
      <4> QED
        BY <1>2, <4>1, <4>2
    <3> QED
      BY <1>3, <3>1, <3>2 DEF PutDone
  <2>2. /\ pushed + 1 \in 0 .. MaxPushes /\ T \in Start .. Start + (pushed + 1) /\ h + 1 <= Start + (pushed + 1)
        /\ T <= h + 1 /\ h + 1 <= T + s
    BY <1>1, <1>2, <1>4, <1>5
  <2> QED
    BY <1>2, <1>8, <2>1, <2>2 DEF IndexInv
<1>16. OwnerInv(n2, T, bot2[n2], h + 1)'
  BY <1>3 DEF OwnerInv, PutDone, Idle
<1>17. \A i \in Thieves : ThiefInv(i, T, c)'
  <2>1. T < c => T \in T .. h - 1
    BY <1>1, <1>2
  <2>2. T < c => \A r : Made(own, r) => own'[Cell(r, T)] = own[Cell(r, T)]
    BY <1>1, <1>4, <1>7, <2>1
  <2>3. T < c => Val(T)' = Val(T)
    BY <1>10, <2>1
  <2>4. thief' = thief /\ top' = top /\ (T < c => T < c)
    OBVIOUS
  <2> QED
    BY <1>1, <1>9, <2>2, <2>3, <2>4, ThievesStay
<1>18. owner'.pc = "idle" /\ ~ Lowered'
  BY DEF Idle, Lowered
<1>19. BufInv(buf', owner'.pc = "fence", n2, T, bot2, arr2)
  <2>1. (owner'.pc = "fence") = FALSE
    BY <1>18
  <2> QED
    BY <1>3, <2>1 DEF PutDone
<1>20. MemInv(mem', own', buf', n2, bot2, arr2) /\ NoLarger(own')
  <2>1. mem' = m
    BY DEF Put
  <2> QED
    BY <1>3, <1>4, <1>5, <1>8, <2>1 DEF PutDone, NoLarger
<1>21. /\ n2 \in Nat /\ h + 1 \in Int /\ bot2 \in [0 .. n2 -> Int] /\ arr2 \in [0 .. n2 -> Nat]
       /\ c = bot2[0] /\ thief' = [i \in Thieves |-> thief'[i]]
  BY <1>1, <1>3 DEF PutDone
<1>22. IsQueue(n2, T, bot2, arr2, h + 1, c)'
  BY <1>1, <1>13, <1>14, <1>15, <1>16, <1>17, <1>18, <1>19, <1>20, <1>21 DEF IsQueue
<1> QED
  BY <1>10, <1>22

\* The new array holds the tasks under the same indices as the old one.
LEMMA GrowCopies ==
    ASSUME NEW T \in Int, NEW h \in Int, NEW s, Divides(s), Divides(2 * s), T <= h, h <= T + s, h - T <= MaxPushes,
           NEW new, new = Grow(s, Wrap(T), Wrap(h))
    PROVE  /\ \A k \in 0 .. 2 * s - 1 : Cell(2 * s, k) \in DOMAIN new
           /\ \A loc \in DOMAIN new : \E k \in 0 .. 2 * s - 1 : loc = Cell(2 * s, k)
           /\ \A j \in T .. h - 1 : new[Cell(2 * s, j)] = own[Cell(s, j)]
<1>1. s \in Nat \ {0} /\ 2 * s \in Nat \ {0} /\ MaxPushes \in Nat
  BY WorkStealQueueAssumption DEF Divides
<1>2. DOMAIN new = {Cell(2 * s, k) : k \in 0 .. 2 * s - 1}
  BY DEF Grow
<1>3. ToSigned(Wrap(h) - Wrap(T)) = h - T
  <2>1. h - T \in (- MaxPushes) .. MaxPushes
    BY <1>1
  <2> QED
    BY <2>1, Signed
<1>4. PICK B : B = Between(Wrap(T), Wrap(h))
  OBVIOUS
<1>5. B = {Wrap(Wrap(T) + k) : k \in 0 .. (h - T) - 1}
  BY <1>3, <1>4 DEF Between
<1>6. \A i \in B : \E j \in T .. h - 1 : i = Wrap(j)
  <2> SUFFICES ASSUME NEW i \in B PROVE \E j \in T .. h - 1 : i = Wrap(j)
    OBVIOUS
  <2>1. PICK k \in 0 .. (h - T) - 1 : i = Wrap(Wrap(T) + k)
    BY <1>5
  <2>2. k \in Int /\ T + k \in T .. h - 1
    OBVIOUS
  <2>3. i = Wrap(T + k)
    BY <2>1, <2>2, WrapSum
  <2> QED
    BY <2>2, <2>3
<1>7. \A j \in T .. h - 1 : Wrap(j) \in B
  <2> SUFFICES ASSUME NEW j \in T .. h - 1 PROVE Wrap(j) \in B
    OBVIOUS
  <2>1. PICK k : k = j - T
    OBVIOUS
  <2>2. k \in Int /\ k \in 0 .. (h - T) - 1 /\ T + k = j
    BY <2>1
  <2>3. Wrap(Wrap(T) + k) = Wrap(T + k)
    BY <2>2, WrapSum
  <2> QED
    BY <1>5, <2>2, <2>3
<1>8. \A j \in T .. h - 1 : new[Cell(2 * s, j)] = own[Cell(s, j)]
  <2> SUFFICES ASSUME NEW j \in T .. h - 1 PROVE new[Cell(2 * s, j)] = own[Cell(s, j)]
    OBVIOUS
  <2>1. j \in Int
    OBVIOUS
  <2>2. Cell(2 * s, Wrap(j)) = Cell(2 * s, j) /\ Cell(s, Wrap(j)) = Cell(s, j)
    BY <2>1, ItemWrap
  <2>3. Cell(2 * s, j) \in DOMAIN new
    <3>1. \E k \in 0 .. 2 * s - 1 : Cell(2 * s, j) = Cell(2 * s, k)
      BY <1>1, <2>1, ItemSlot
    <3> QED
      BY <1>2, <3>1
  <2>4. \E i \in B : Cell(2 * s, i) = Cell(2 * s, j)
    BY <1>7, <2>2
  <2>5. PICK e : e = CHOOSE i \in B : Cell(2 * s, i) = Cell(2 * s, j)
    OBVIOUS
  <2>6. e \in B /\ Cell(2 * s, e) = Cell(2 * s, j)
    BY <2>4, <2>5
  <2>7. e = Wrap(j)
    <3>1. PICK i \in T .. h - 1 : e = Wrap(i)
      BY <1>6, <2>6
    <3>2. i \in Int /\ i - j < 2 * s /\ i - j > - (2 * s)
      BY <1>1
    <3>3. Cell(2 * s, i) = Cell(2 * s, j)
      BY <2>6, <3>1, <3>2, ItemWrap
    <3>4. i = j
      BY <1>1, <2>1, <3>2, <3>3, SameItem
    <3> QED
      BY <3>1, <3>4
  <2>8. new[Cell(2 * s, j)] = own[Cell(s, e)]
    BY <1>4, <2>3, <2>4, <2>5 DEF Grow
  <2> QED
    BY <2>2, <2>7, <2>8
<1> QED
  BY <1>2, <1>8

\* With the new array in place there is room.
LEMMA GrowRoom ==
    ASSUME NEW n, NEW T, NEW bot, NEW arr, NEW h, NEW c, IsQueue(n, T, bot, arr, h, c),
           owner.pc = "idle", NEW s, s = own[Array], h - T >= s, pushed < MaxPushes,
           NEW new, new = Grow(s, top, own[Bottom]),
           NEW m, NEW v, m = Extend(mem, new), v = Changed(Extend(own, new), <<Array, 2 * s>>)
    PROVE  Room(m, v, Append(buf, <<Array, 2 * s>>), n + 1, T, More(bot, n, h), More(arr, n, 2 * s), h, 2 * s)
<1>1. /\ n \in Nat /\ 0 \in 0 .. n /\ n \in 0 .. n /\ T \in Int /\ h \in Int
      /\ bot \in [0 .. n -> Int] /\ arr \in [0 .. n -> Nat] /\ bot[n] = h /\ arr[n] = s
      /\ own[Bottom] = Wrap(h) /\ Made(own, s) /\ MemInv(mem, own, buf, n, bot, arr)
  <2>1. /\ n \in Nat /\ T \in Int /\ h \in Int /\ bot \in [0 .. n -> Int] /\ arr \in [0 .. n -> Nat]
        /\ MemInv(mem, own, buf, n, bot, arr) /\ OwnerInv(n, T, bot[n], h)
    BY DEF IsQueue
  <2>2. n \in 0 .. n /\ 0 \in 0 .. n /\ bot[n] = h
    BY <2>1 DEF OwnerInv
  <2>3. own[Bottom] = Wrap(h) /\ own[Array] = arr[n] /\ Made(own, arr[n])
    BY <2>1, <2>2 DEF MemInv
  <2> QED
    BY <2>1, <2>2, <2>3
<1>2. /\ pushed \in 0 .. MaxPushes /\ T \in Start .. Start + pushed /\ h <= Start + pushed
      /\ top = Wrap(T) /\ T <= h /\ h <= T + s
      /\ \A k \in 0 .. n : bot[k] \in Start .. Start + pushed
  BY DEF IsQueue, IndexInv
<1>3. s \in Nat \ {0} /\ Word % s = 0 /\ Divides(s)
  BY <1>1 DEF Made, Divides
<1>4. Divides(2 * s)
  <2>1. s \in 1 .. Word - 1
    <3>1. Word \in Nat /\ MaxPushes \in Nat /\ 2 * MaxPushes < Word /\ Start \in Int
      BY WorkStealQueueAssumption
    <3>2. h - T <= pushed /\ pushed < MaxPushes /\ pushed \in Int
      BY <1>1, <1>2, <3>1
    <3> QED
      BY <1>1, <1>3, <3>1, <3>2
  <2> QED
    BY <1>3, <2>1, WorkStealQueueAssumption DEF Divides
<1>5. /\ \A k \in 0 .. 2 * s - 1 : Cell(2 * s, k) \in DOMAIN new
      /\ \A loc \in DOMAIN new : \E k \in 0 .. 2 * s - 1 : loc = Cell(2 * s, k)
      /\ \A j \in T .. h - 1 : new[Cell(2 * s, j)] = own[Cell(s, j)]
  <2>1. new = Grow(s, Wrap(T), Wrap(h))
    BY <1>1, <1>2
  <2>2. MaxPushes \in Nat /\ Start \in Int
    BY WorkStealQueueAssumption
  <2>3. h - T <= MaxPushes
    BY <1>1, <1>2, <2>2
  <2>4. T \in Int /\ h \in Int /\ T <= h /\ h <= T + s /\ Divides(s) /\ Divides(2 * s)
    BY <1>1, <1>2, <1>3, <1>4
  <2> QED
    BY ONLY <2>1, <2>3, <2>4, GrowCopies
<1>6. PICK w : w = <<Array, 2 * s>>
  OBVIOUS
<1>7. w \in Locs \X Nat /\ w[1] = Array /\ w[2] = 2 * s
  BY <1>3, <1>6 DEF Locs
<1>8. PICK m1 : m1 = Extend(mem, new)
  OBVIOUS
<1>9. PICK v1 : v1 = Extend(own, new)
  OBVIOUS
<1>10. \A k \in 0 .. n : Made(own, arr[k]) /\ arr[k] <= s
  BY <1>1 DEF MemInv, Made
<1>11. /\ View(mem, own, buf) /\ DOMAIN mem = DOMAIN own
       /\ Bottom \in DOMAIN own /\ Array \in DOMAIN own
       /\ mem[Bottom] = Wrap(bot[0]) /\ own[Bottom] = Wrap(bot[n]) /\ mem[Array] = arr[0] /\ own[Array] = arr[n]
  BY <1>1 DEF MemInv, View
<1>12. DOMAIN new \cap DOMAIN own = {}
  <2> SUFFICES ASSUME NEW k \in 0 .. 2 * s - 1, Cell(2 * s, k) \in DOMAIN own PROVE FALSE
    BY <1>5
  <2>1. 2 * s \in Int /\ k \in Int /\ ~(2 * s <= s)
    BY <1>3
  <2> QED
    BY <2>1 DEF IsQueue, NoLarger
<1>13. /\ DOMAIN v1 = DOMAIN own \cup DOMAIN new
       /\ \A loc \in DOMAIN own : v1[loc] = own[loc] /\ loc \in DOMAIN v1
       /\ \A loc \in DOMAIN new : v1[loc] = new[loc] /\ loc \in DOMAIN v1
  BY <1>9, <1>12 DEF Extend
<1>14. \A loc \in DOMAIN mem : m1[loc] = mem[loc]
  BY <1>8 DEF Extend
<1>15. \A r : Made(own, r) => Made(v1, r)
  BY <1>11, <1>13 DEF Made
<1>16. MemInv(m1, v1, buf, n, bot, arr)
  <2>1. View(m1, v1, buf)
    BY <1>8, <1>9, <1>11, <1>12, ViewGrow
  <2> QED
    BY <1>10, <1>11, <1>13, <1>14, <1>15, <2>1 DEF MemInv
<1>17. CanStore(m1, v1, buf, n, T, bot, arr, w, FALSE, h, 2 * s)
  <2>1. Entry(w, FALSE, T, bot[n], h, arr[n], 2 * s)
    BY <1>1, <1>6 DEF Entry
  <2>2. BufInv(buf, FALSE, n, T, bot, arr)
    <3>1. (owner.pc = "fence") = FALSE
      OBVIOUS
    <3>2. BufInv(buf, owner.pc = "fence", n, T, bot, arr)
      BY DEF IsQueue
    <3> QED
      BY <3>1, <3>2
  <2>3. 2 * s \in Nat /\ arr[n] <= 2 * s /\ FALSE \in BOOLEAN
    BY <1>1, <1>3
  <2>4. \A k \in 0 .. 2 * s - 1 : Cell(2 * s, k) \in DOMAIN v1
    BY <1>5, <1>13
  <2> QED
    BY <1>1, <1>4, <1>7, <1>16, <2>1, <2>2, <2>3, <2>4 DEF CanStore
<1>18. Stored(m1, v1, buf, n, T, bot, arr, w, FALSE, h, 2 * s)
  BY <1>17, StoreKeeps
<1>19. PICK bot2 : bot2 = More(bot, n, h)
  OBVIOUS
<1>20. PICK arr2 : arr2 = More(arr, n, 2 * s)
  OBVIOUS
<1>21. /\ MemInv(m, v, Append(buf, w), n + 1, bot2, arr2)
       /\ BufInv(Append(buf, w), FALSE, n + 1, T, bot2, arr2)
       /\ bot2 \in [0 .. n + 1 -> Int] /\ arr2 \in [0 .. n + 1 -> Nat]
       /\ \A loc \in DOMAIN v1 : loc # Array => v[loc] = v1[loc]
       /\ v[Array] = 2 * s /\ DOMAIN v = DOMAIN v1
  BY <1>6, <1>7, <1>8, <1>9, <1>18, <1>19, <1>20 DEF Stored
<1>22. /\ bot2[n + 1] = h /\ arr2[n + 1] = 2 * s
       /\ \A k \in 0 .. n + 1 : \/ k = n + 1
                                \/ k \in 0 .. n /\ bot2[k] = bot[k] /\ arr2[k] = arr[k]
  BY <1>1, <1>19, <1>20 DEF More
<1>23. \A r : Made(own, r) => Made(v, r) /\ \A j \in Int : v[Cell(r, j)] = own[Cell(r, j)]
  <2> SUFFICES ASSUME NEW r, Made(own, r) PROVE Made(v, r) /\ \A j \in Int : v[Cell(r, j)] = own[Cell(r, j)]
    OBVIOUS
  <2>1. \A j \in Int : Cell(r, j) \in DOMAIN own
    BY MadeItem
  <2>2. \A j \in Int : v[Cell(r, j)] = own[Cell(r, j)]
    BY <1>13, <1>21, <2>1, Distinct
  <2>3. r <= 2 * s
    <3>1. r \in Nat /\ r <= s
      BY DEF Made, Divides
    <3> QED
      BY <1>3, <3>1
  <2> QED
    BY <1>13, <1>21, <2>2, <2>3 DEF Made
<1>24. NoLarger(v)
  <2> SUFFICES ASSUME NEW r \in Int, NEW i \in Int, Cell(r, i) \in DOMAIN v PROVE r <= 2 * s
    BY <1>21 DEF NoLarger
  <2>1. CASE Cell(r, i) \in DOMAIN own
    <3>1. r <= s
      BY <2>1 DEF IsQueue, NoLarger
    <3> QED
      BY <1>3, <3>1
  <2>2. CASE Cell(r, i) \in DOMAIN new
    <3>1. r = 2 * s
      BY <1>5, <2>2, Distinct
    <3> QED
      BY <1>3, <3>1
  <2> QED
    BY <1>13, <1>21, <2>1, <2>2
<1>25. \A k \in 0 .. n + 1 : \A j \in T .. bot2[k] - 1 : v[Cell(arr2[k], j)] = Val(j)
  <2> SUFFICES ASSUME NEW k \in 0 .. n + 1, NEW j \in T .. bot2[k] - 1 PROVE v[Cell(arr2[k], j)] = Val(j)
    OBVIOUS
  <2>1. CASE k = n + 1
    <3>1. j \in T .. h - 1 /\ j \in Int
      BY <1>22, <2>1
    <3>2. new[Cell(2 * s, j)] = Val(j)
      BY <1>5, <3>1 DEF Val
    <3>3. Cell(2 * s, j) \in DOMAIN new
      <4>1. 2 * s \in Nat \ {0}
        BY <1>3
      <4>2. \E i \in 0 .. 2 * s - 1 : Cell(2 * s, j) = Cell(2 * s, i)
        BY <3>1, <4>1, ItemSlot
      <4> QED
        BY <1>5, <4>2
    <3>4. v1[Cell(2 * s, j)] = Val(j) /\ Cell(2 * s, j) \in DOMAIN v1
      BY <1>13, <3>2, <3>3
    <3>5. v[Cell(2 * s, j)] = Val(j)
      BY <1>21, <3>4, Distinct
    <3>6. arr2[k] = 2 * s
      BY <1>22, <2>1
    <3> QED
      BY <3>5, <3>6
  <2>2. CASE k \in 0 .. n /\ bot2[k] = bot[k] /\ arr2[k] = arr[k]
    <3>1. own[Cell(arr[k], j)] = Val(j)
      BY <2>2 DEF IsQueue, CopyInv
    <3>2. j \in Int /\ Made(own, arr[k])
      BY <1>10, <1>21, <2>2
    <3> QED
      BY <1>23, <2>2, <3>1, <3>2
  <2> QED
    BY <1>22, <2>1, <2>2
<1>26. \A k \in 0 .. n + 1 : bot2[k] \in Start .. Start + pushed
  BY <1>1, <1>2, <1>22
<1>27. h < T + 2 * s /\ n + 1 \in Nat
  BY <1>1, <1>2, <1>3
<1>28. Room(m, v, Append(buf, w), n + 1, T, bot2, arr2, h, 2 * s)
  BY <1>1, <1>2, <1>21, <1>22, <1>23, <1>24, <1>25, <1>26, <1>27 DEF Room
<1> QED
  BY <1>6, <1>19, <1>20, <1>28

LEMMA PushKeeps ==
    ASSUME NEW n, NEW T, NEW bot, NEW arr, NEW h, NEW c, IsQueue(n, T, bot, arr, h, c), Push
    PROVE  /\ \E n2, bot2, arr2 : IsQueue(n2, T, bot2, arr2, h + 1, c)'
           /\ \A j \in T .. h - 1 : Val(j)' = Val(j)
<1>1. /\ owner.pc = "idle" /\ pushed < MaxPushes /\ pushed' = pushed + 1 /\ owner' = Idle
      /\ UNCHANGED <<top, thief, taken>>
  BY DEF Push
<1>2. /\ n \in Nat /\ n \in 0 .. n /\ 0 \in 0 .. n /\ T \in Int /\ h \in Int
      /\ bot \in [0 .. n -> Int] /\ arr \in [0 .. n -> Nat] /\ bot[n] = h /\ own[Array] = arr[n] /\ own[Bottom] = Wrap(bot[n])
      /\ MemInv(mem, own, buf, n, bot, arr) /\ NoLarger(own) /\ CopyInv(n, T, bot, arr)
  <2>1. /\ n \in Nat /\ T \in Int /\ h \in Int /\ bot \in [0 .. n -> Int] /\ arr \in [0 .. n -> Nat]
        /\ MemInv(mem, own, buf, n, bot, arr) /\ OwnerInv(n, T, bot[n], h)
        /\ NoLarger(own) /\ CopyInv(n, T, bot, arr)
    BY DEF IsQueue
  <2>2. n \in 0 .. n /\ 0 \in 0 .. n /\ bot[n] = h
    BY <1>1, <2>1 DEF OwnerInv
  <2> QED
    BY <2>1, <2>2 DEF MemInv
<1>3. PICK s : s = own[Array]
  OBVIOUS
<1>4. ToSigned(own[Bottom] - top) = h - T
  <2>1. n \in 0 .. n
    BY <1>2
  <2>2. ToSigned(Wrap(bot[n]) - top) = bot[n] - T
    BY <2>1, Apart
  <2> QED
    BY <1>2, <2>2
<1>5. CASE ~ (h - T >= s) /\ Put(s, mem, own, buf)
  <2>1. BufInv(buf, FALSE, n, T, bot, arr)
    <3>1. (owner.pc = "fence") = FALSE
      BY <1>1
    <3>2. BufInv(buf, owner.pc = "fence", n, T, bot, arr)
      BY DEF IsQueue
    <3> QED
      BY <3>1, <3>2
  <2>2. s \in Nat /\ T <= h /\ h < T + s
    BY <1>2, <1>3, <1>5 DEF IsQueue, IndexInv
  <2>3. \A k \in 0 .. n : bot[k] \in Start .. Start + pushed
    BY DEF IsQueue, IndexInv
  <2>4. \A k \in 0 .. n : \A j \in T .. bot[k] - 1 : own[Cell(arr[k], j)] = Val(j)
    BY <1>2 DEF CopyInv
  <2>5. Room(mem, own, buf, n, T, bot, arr, h, s)
    BY <1>2, <1>3, <2>1, <2>2, <2>3, <2>4 DEF Room
  <2> QED
    BY <1>1, <1>5, <2>5, PutKeeps
<1>6. CASE /\ h - T >= s
           /\ Put(2 * s, Extend(mem, Grow(s, top, own[Bottom])), Changed(Extend(own, Grow(s, top, own[Bottom])), <<Array, 2 * s>>),
                  Append(buf, <<Array, 2 * s>>))
  <2>1. PICK new : new = Grow(s, top, own[Bottom])
    OBVIOUS
  <2>2. PICK m : m = Extend(mem, new)
    OBVIOUS
  <2>3. PICK v : v = Changed(Extend(own, new), <<Array, 2 * s>>)
    OBVIOUS
  <2>4. PICK st : st = Append(buf, <<Array, 2 * s>>)
    OBVIOUS
  <2>5. PICK bot1 : bot1 = More(bot, n, h)
    OBVIOUS
  <2>6. PICK arr1 : arr1 = More(arr, n, 2 * s)
    OBVIOUS
  <2>7. PICK n1 : n1 = n + 1
    OBVIOUS
  <2>8. Room(m, v, st, n1, T, bot1, arr1, h, 2 * s)
    BY <1>1, <1>3, <1>6, <2>1, <2>2, <2>3, <2>4, <2>5, <2>6, <2>7, GrowRoom
  <2>9. bot1[0] = bot[0]
    BY <1>2, <2>5 DEF More
  <2>10. Put(2 * s, m, v, st)
    BY <1>6, <2>1, <2>2, <2>3, <2>4
  <2> QED
    BY <1>1, <2>8, <2>9, <2>10, PutKeeps
<1> QED
  BY <1>3, <1>4, <1>5, <1>6 DEF Push

-----------------------------------------------------------------------------
LEMMA InitKeeps == ASSUME DequeInit PROVE DequeInv
<1>1. PICK bot : bot = [k \in 0 .. 0 |-> Start]
  OBVIOUS
<1>2. PICK arr : arr = [k \in 0 .. 0 |-> InitialSize]
  OBVIOUS
<1>3. /\ InitialSize \in Nat \ {0} /\ Word % InitialSize = 0 /\ Start \in 0 .. Word - 1 /\ Start \in Int
      /\ MaxPushes \in Nat /\ Word \in Nat \ {0}
  BY WorkStealQueueAssumption, WordIsNat
<1>4. /\ 0 \in 0 .. 0 /\ bot \in [0 .. 0 -> Int] /\ bot[0] = Start
      /\ arr \in [0 .. 0 -> Nat] /\ arr[0] = InitialSize
      /\ \A k \in 0 .. 0 : k = 0
  BY <1>1, <1>2, <1>3
<1>5. Wrap(Start) = Start
  <2>1. (Word * 0 + Start) % Word = Start
    BY <1>3, Remainder
  <2> QED
    BY <1>3, <2>1 DEF Wrap
<1>6. /\ own = mem /\ buf = <<>> /\ top = Start /\ owner = Idle /\ pushed = 0
      /\ taken = [x \in TaskIds |-> 0] /\ thief = [i \in Thieves |-> NoSteal]
      /\ DOMAIN own = {Bottom, Array} \cup {Cell(InitialSize, k) : k \in 0 .. InitialSize - 1}
      /\ own[Bottom] = Start /\ own[Array] = InitialSize
  BY Distinct DEF DequeInit
<1>7. owner.pc = "idle" /\ ~ Lowered /\ (owner.pc = "fence") = FALSE
  BY <1>6 DEF Idle, Lowered
<1>8. Made(own, InitialSize)
  BY <1>3, <1>6 DEF Made, Divides
<1>9. MemInv(mem, own, buf, 0, bot, arr)
  <2>1. View(mem, own, buf)
    <3>1. Len(buf) = 0
      BY <1>6
    <3> QED
      BY <1>6, <3>1 DEF View
  <2> QED
    BY <1>4, <1>5, <1>6, <1>8, <2>1 DEF MemInv
<1>10. NoLarger(own)
  <2> SUFFICES ASSUME NEW s \in Int, NEW i \in Int, Cell(s, i) \in DOMAIN own PROVE s <= InitialSize
    BY <1>6 DEF NoLarger
  <2>1. s = InitialSize
    BY <1>6, Distinct
  <2> QED
    BY <1>3, <2>1
<1>11. BufInv(buf, FALSE, 0, Start, bot, arr)
  BY <1>4, <1>6 DEF BufInv
<1>12. IndexInv(0, Start, bot, Start)
  BY <1>3, <1>4, <1>5, <1>6 DEF IndexInv
<1>13. Start .. Start - 1 = {}
  BY <1>3
<1>14. TaskInv(Start, Start)
  BY <1>6, <1>13 DEF TaskInv
<1>15. CopyInv(0, Start, bot, arr)
  BY <1>4, <1>13 DEF CopyInv
<1>16. OwnerInv(0, Start, bot[0], Start)
  BY <1>4, <1>6 DEF OwnerInv, Idle
<1>17. thief = [i \in Thieves |-> thief[i]] /\ \A i \in Thieves : ThiefInv(i, Start, Start)
  BY <1>6 DEF ThiefInv, NoSteal
<1>18. BufInv(buf, owner.pc = "fence", 0, Start, bot, arr)
  BY <1>7, <1>11
<1>19. IsQueue(0, Start, bot, arr, Start, Start)
  BY <1>3, <1>4, <1>7, <1>9, <1>10, <1>12, <1>14, <1>15, <1>16, <1>17, <1>18 DEF IsQueue
<1> QED
  BY <1>19 DEF DequeInv

LEMMA StutterKeeps ==
    ASSUME NEW n, NEW T, NEW bot, NEW arr, NEW h, NEW c, IsQueue(n, T, bot, arr, h, c), UNCHANGED dequeVars
    PROVE  IsQueue(n, T, bot, arr, h, c)'
BY DEF IsQueue, dequeVars, Lowered, IndexInv, TaskInv, CopyInv, OwnerInv, ThiefInv, Succeeds, Val

-----------------------------------------------------------------------------
(* The refinement.                                                         *)

\* The tasks from T on, up to and without c.
Queued(T, c) == [k \in 1 .. c - T |-> Val(T + k - 1)]

LEMMA ContentIs ==
    ASSUME NEW n, NEW T, NEW bot, NEW arr, NEW h, NEW c, IsQueue(n, T, bot, arr, h, c)
    PROVE  Content = Queued(T, c)
<1>1. /\ n \in Nat /\ 0 \in 0 .. n /\ n \in 0 .. n /\ T \in Int /\ c \in Int /\ bot[0] \in Int
      /\ mem[Bottom] = Wrap(bot[0]) /\ top = Wrap(T)
      /\ c = (IF Lowered THEN bot[0] + 1 ELSE bot[0])
      /\ own[Array] = arr[n] /\ Made(own, arr[n])
  BY DEF IsQueue, MemInv, IndexInv
<1>2. ToSigned(mem[Bottom] - top) = bot[0] - T
  BY <1>1, Apart
<1>3. PICK s : s = own[Array]
  OBVIOUS
<1>4. Divides(s)
  BY <1>1, <1>3 DEF Made
<1>5. PICK l : l = ToSigned(mem[Bottom] - top) + IF Lowered THEN 1 ELSE 0
  OBVIOUS
<1>6. l = c - T
  BY <1>1, <1>2, <1>5
<1>7. Content = [k \in 1 .. l |-> own[Cell(s, top + k - 1)]]
  BY <1>3, <1>5 DEF Content
<1>8. \A k \in 1 .. l : own[Cell(s, top + k - 1)] = Val(T + k - 1)
  <2> SUFFICES ASSUME NEW k \in 1 .. l PROVE Cell(s, top + k - 1) = Cell(s, T + k - 1)
    BY <1>3 DEF Val
  <2>1. k \in Int /\ k - 1 \in Int
    BY <1>1, <1>6
  <2>2. Cell(s, Wrap(T) + (k - 1)) = Cell(s, T + (k - 1))
    BY <1>1, <1>4, <2>1, ItemWrapPlus
  <2>3. Wrap(T) \in Int
    BY <1>1, WrapIs
  <2>4. top + k - 1 = Wrap(T) + (k - 1) /\ T + k - 1 = T + (k - 1)
    BY <1>1, <2>1, <2>3
  <2> QED
    BY <2>2, <2>4
<1> QED
  BY <1>6, <1>7, <1>8 DEF Queued

\* pop comes back empty-handed only when nothing is queued.
LEMMA NothingThere ==
    ASSUME NEW n, NEW T, NEW bot, NEW arr, NEW h, NEW c, IsQueue(n, T, bot, arr, h, c)
    PROVE  EmptyPopMeansEmpty
<1> SUFFICES ASSUME ~ owner.got PROVE Content = <<>>
  BY DEF EmptyPopMeansEmpty
<1>1. /\ n \in Nat /\ n \in 0 .. n /\ T \in Int /\ c \in Int
      /\ owner.pc = "idle" /\ bot[n] <= T /\ h = bot[n]
  BY DEF IsQueue, OwnerInv
<1>2. bot[n] \in Int /\ c <= h
  BY <1>1, BottomsBelow
<1>3. 1 .. c - T = {}
  BY <1>1, <1>2
<1>4. Queued(T, c) = <<>>
  BY <1>3 DEF Queued
<1> QED
  BY <1>4, ContentIs

LEMMA QueuedSame ==
    ASSUME NEW T \in Int, NEW c \in Int, \A j \in T .. c - 1 : Val(j)' = Val(j)
    PROVE  Queued(T, c)' = Queued(T, c)
<1>1. \A k \in 1 .. c - T : T + k - 1 \in T .. c - 1
  OBVIOUS
<1> QED
  BY <1>1 DEF Queued

LEMMA QueuedNone == ASSUME NEW T \in Int, NEW c \in Int, c <= T PROVE Queued(T, c) = <<>>
<1>1. 1 .. c - T = {}
  OBVIOUS
<1> QED
  BY <1>1 DEF Queued

AreTasks(T, c) == \A j \in T .. c - 1 : Val(j) \in TaskIds

LEMMA QueuedSeq ==
    ASSUME NEW T \in Int, NEW c \in Int, T <= c, AreTasks(T, c)
    PROVE  /\ Queued(T, c) \in Seq(TaskIds) /\ Len(Queued(T, c)) = c - T
           /\ \A k \in 1 .. c - T : Queued(T, c)[k] = Val(T + k - 1)
<1>1. \A k \in 1 .. c - T : T + k - 1 \in T .. c - 1
  OBVIOUS
<1>2. c - T \in Nat
  OBVIOUS
<1> QED
  BY <1>1, <1>2 DEF Queued, AreTasks

\* A task at the end.
LEMMA QueuedAppend ==
    ASSUME NEW T \in Int, NEW c \in Int, T <= c, AreTasks(T, c + 1)
    PROVE  Queued(T, c + 1) = Append(Queued(T, c), Val(c))
<1>1. PICK q : q = Queued(T, c)
  OBVIOUS
<1>2. PICK r : r = Queued(T, c + 1)
  OBVIOUS
<1>3. /\ q \in Seq(TaskIds) /\ Len(q) = c - T
      /\ \A k \in 1 .. c - T : q[k] = Val(T + k - 1)
  <2>1. AreTasks(T, c)
    BY DEF AreTasks
  <2> QED
    BY <1>1, <2>1, QueuedSeq
<1>4. /\ r \in Seq(TaskIds) /\ Len(r) = c + 1 - T
      /\ \A k \in 1 .. c + 1 - T : r[k] = Val(T + k - 1)
  <2>1. c + 1 \in Int /\ T <= c + 1
    OBVIOUS
  <2> QED
    BY <1>2, <2>1, QueuedSeq
<1>5. Val(c) \in TaskIds
  BY DEF AreTasks
<1>6. Append(q, Val(c)) \in Seq(TaskIds) /\ Len(Append(q, Val(c))) = c - T + 1
  BY <1>3, <1>5
<1>7. \A k \in 1 .. c - T + 1 : Append(q, Val(c))[k] = r[k]
  <2> SUFFICES ASSUME NEW k \in 1 .. c - T + 1 PROVE Append(q, Val(c))[k] = r[k]
    OBVIOUS
  <2>1. CASE k = c - T + 1
    <3>1. T + k - 1 = c
      BY <2>1
    <3> QED
      BY <1>3, <1>4, <1>5, <2>1, <3>1
  <2>2. CASE k # c - T + 1
    <3>1. k \in 1 .. c - T
      BY <2>2
    <3> QED
      BY <1>3, <1>4, <1>5, <3>1
  <2> QED
    BY <2>1, <2>2
<1>8. r = Append(q, Val(c))
  BY <1>4, <1>6, <1>7
<1> QED
  BY <1>1, <1>2, <1>8

\* The task at the front.
LEMMA QueuedTail ==
    ASSUME NEW T \in Int, NEW c \in Int, T < c, AreTasks(T, c)
    PROVE  /\ Queued(T, c) # <<>> /\ Head(Queued(T, c)) = Val(T)
           /\ Tail(Queued(T, c)) = Queued(T + 1, c)
<1>1. PICK q : q = Queued(T, c)
  OBVIOUS
<1>2. PICK r : r = Queued(T + 1, c)
  OBVIOUS
<1>3. /\ q \in Seq(TaskIds) /\ Len(q) = c - T
      /\ \A k \in 1 .. c - T : q[k] = Val(T + k - 1)
  BY <1>1, QueuedSeq
<1>4. /\ r \in Seq(TaskIds) /\ Len(r) = c - (T + 1)
      /\ \A k \in 1 .. c - (T + 1) : r[k] = Val((T + 1) + k - 1)
  <2>1. AreTasks(T + 1, c) /\ T + 1 \in Int /\ T + 1 <= c
    BY DEF AreTasks
  <2> QED
    BY <1>2, <2>1, QueuedSeq
<1>5. q # <<>> /\ Head(q) = Val(T)
  BY <1>3
<1>6. Tail(q) \in Seq(TaskIds) /\ Len(Tail(q)) = c - T - 1
  BY <1>3, <1>5
<1>7. \A k \in 1 .. c - T - 1 : Tail(q)[k] = r[k]
  <2> SUFFICES ASSUME NEW k \in 1 .. c - T - 1 PROVE Tail(q)[k] = r[k]
    OBVIOUS
  <2>1. Tail(q)[k] = q[k + 1] /\ k + 1 \in 1 .. c - T
    BY <1>3, <1>5
  <2>2. PICK i : i = k + 1
    OBVIOUS
  <2>3. Tail(q)[k] = Val(T + i - 1) /\ T + i - 1 = T + k
    BY <1>3, <2>1, <2>2
  <2>4. r[k] = Val((T + 1) + k - 1) /\ (T + 1) + k - 1 = T + k
    BY <1>4
  <2> QED
    BY <2>3, <2>4
<1>8. r = Tail(q)
  BY <1>4, <1>6, <1>7
<1> QED
  BY <1>1, <1>2, <1>5, <1>8

-----------------------------------------------------------------------------
(* The steps of the abstract queue.                                        *)

LEMMA AbstractPush ==
    ASSUME NEW T \in Int, NEW c \in Int, T <= c, AreTasks(T, c + 1),
           taken[Val(c)] = 0, \A j \in T .. c - 1 : Val(j) # Val(c),
           Content = Queued(T, c), Content' = Queued(T, c + 1), taken' = taken
    PROVE  Abstract!Next
<1>1. Content' = Append(Content, Val(c)) /\ Val(c) \in TaskIds
  BY QueuedAppend DEF AreTasks
<1>2. ~ Abstract!Contains(Content, Val(c))
  <2>1. AreTasks(T, c)
    BY DEF AreTasks
  <2>2. /\ Len(Content) = c - T
        /\ \A k \in 1 .. c - T : Content[k] = Val(T + k - 1)
    BY <2>1, QueuedSeq
  <2>3. \A k \in 1 .. c - T : T + k - 1 \in T .. c - 1
    OBVIOUS
  <2> QED
    BY <2>2, <2>3 DEF Abstract!Contains
<1> QED
  BY <1>1, <1>2 DEF Abstract!Next, Abstract!Push

LEMMA AbstractTakeTop ==
    ASSUME NEW T \in Int, NEW c \in Int, T < c, AreTasks(T, c),
           Content = Queued(T, c), Content' = Queued(T + 1, c), Take(Val(T))
    PROVE  Abstract!Next
<1>1. Content # <<>> /\ Head(Content) = Val(T) /\ Content' = Tail(Content)
  BY QueuedTail
<1> QED
  BY <1>1 DEF Abstract!Next, Abstract!TakeTop, Take

LEMMA AbstractTakeBottom ==
    ASSUME NEW T \in Int, NEW c \in Int, T <= c, AreTasks(T, c + 1),
           Content = Queued(T, c + 1), Content' = Queued(T, c), Take(Val(c))
    PROVE  Abstract!Next
<1>1. PICK q : q = Queued(T, c)
  OBVIOUS
<1>2. q \in Seq(TaskIds) /\ Content = Append(q, Val(c)) /\ Val(c) \in TaskIds
  <2>1. AreTasks(T, c) /\ Val(c) \in TaskIds
    BY DEF AreTasks
  <2> QED
    BY <1>1, <2>1, QueuedSeq, QueuedAppend
<1>3. Content # <<>> /\ Abstract!Last(Content) = Val(c) /\ Abstract!Front(Content) = q
  BY <1>2 DEF Abstract!Last, Abstract!Front
<1> QED
  BY <1>1, <1>3 DEF Abstract!Next, Abstract!TakeBottom, Take

ContentIsQueued == \A n, T, bot, arr, h, c : IsQueue(n, T, bot, arr, h, c) => Content = Queued(T, c)

\* What a state of the invariant says of the queued tasks.
LEMMA QueuedTasks ==
    ASSUME NEW n, NEW T, NEW bot, NEW arr, NEW h, NEW c, IsQueue(n, T, bot, arr, h, c)
    PROVE  T \in Int /\ c \in Int /\ h \in Int /\ c <= h /\ AreTasks(T, h) /\ AreTasks(T, c)
<1>1. T \in Int /\ c \in Int /\ h \in Int /\ c <= h
  BY BottomsBelow DEF IsQueue
<1>2. \A j \in T .. h - 1 : Val(j) \in TaskIds
  BY WorkStealQueueAssumption DEF IsQueue, TaskInv, IndexInv, TaskIds
<1> QED
  BY <1>1, <1>2 DEF AreTasks

LEMMA FlushPushes ==
    ASSUME NEW n, NEW T, NEW bot, NEW arr, NEW h, NEW c, IsQueue(n, T, bot, arr, h, c), Flush, ContentIsQueued'
    PROVE  Abstract!Next \/ UNCHANGED <<Content, taken>>
<1>1. PICK d \in {c, c + 1} : IsQueue(n - 1, T, Less(bot, n), Less(arr, n), h, d)' /\ d <= h
  BY FlushKeeps
<1>2. T \in Int /\ c \in Int /\ h \in Int /\ c <= h /\ AreTasks(T, h)
  BY QueuedTasks
<1>3. taken' = taken /\ \A j \in Int : Val(j)' = Val(j)
  BY DEF Flush, Val
<1>4. Content = Queued(T, c)
  BY ContentIs
<1>5. Content' = Queued(T, d)
  <2>1. Content' = Queued(T, d)'
    BY <1>1 DEF ContentIsQueued
  <2>2. d \in Int /\ \A j \in T .. d - 1 : Val(j)' = Val(j)
    BY <1>1, <1>2, <1>3
  <2> QED
    BY <1>2, <2>1, <2>2, QueuedSame
<1>6. CASE d = c
  BY <1>3, <1>4, <1>5, <1>6
<1>7. CASE d = c + 1 /\ c < T
  <2>1. Queued(T, c) = <<>> /\ Queued(T, c + 1) = <<>>
    BY <1>2, <1>7, QueuedNone
  <2> QED
    BY <1>3, <1>4, <1>5, <1>7, <2>1
<1>8. CASE d = c + 1 /\ T <= c
  <2>1. c \in T .. h - 1 /\ \A j \in T .. c - 1 : j \in T .. h - 1 /\ j # c
    BY <1>1, <1>2, <1>8
  <2>2. taken[Val(c)] = 0 /\ \A j \in T .. c - 1 : Val(j) # Val(c)
    BY <2>1 DEF IsQueue, TaskInv
  <2>3. AreTasks(T, c + 1)
    BY <1>1, <1>2, <1>8 DEF AreTasks
  <2> QED
    BY <1>2, <1>3, <1>4, <1>5, <1>8, <2>2, <2>3, AbstractPush
<1> QED
  BY <1>1, <1>2, <1>6, <1>7, <1>8

LEMMA PushStutters ==
    ASSUME NEW n, NEW T, NEW bot, NEW arr, NEW h, NEW c, IsQueue(n, T, bot, arr, h, c), Push, ContentIsQueued'
    PROVE  UNCHANGED <<Content, taken>>
<1>1. PICK n2, bot2, arr2 : IsQueue(n2, T, bot2, arr2, h + 1, c)'
  BY PushKeeps
<1>2. \A j \in T .. h - 1 : Val(j)' = Val(j)
  BY PushKeeps
<1>3. T \in Int /\ c \in Int /\ h \in Int /\ c <= h
  BY QueuedTasks
<1>4. Content' = Queued(T, c)'
  BY <1>1 DEF ContentIsQueued
<1>5. \A j \in T .. c - 1 : Val(j)' = Val(j)
  BY <1>2, <1>3
<1> QED
  BY <1>3, <1>4, <1>5, QueuedSame, ContentIs DEF Push

LEMMA PopBeginStutters ==
    ASSUME NEW n, NEW T, NEW bot, NEW arr, NEW h, NEW c, IsQueue(n, T, bot, arr, h, c), PopBegin, ContentIsQueued'
    PROVE  UNCHANGED <<Content, taken>>
<1>1. \E n2, bot2, arr2 : IsQueue(n2, T, bot2, arr2, h, c)'
  BY PopBeginKeeps
<1>2. UNCHANGED taken /\ \A j \in Int : Val(j)' = Val(j)
  BY PopBeginKeeps
<1>3. T \in Int /\ c \in Int
  BY QueuedTasks
<1>4. Content' = Queued(T, c)'
  BY <1>1 DEF ContentIsQueued
<1>5. \A j \in T .. c - 1 : Val(j)' = Val(j)
  BY <1>2, <1>3
<1> QED
  BY <1>2, <1>3, <1>4, <1>5, QueuedSame, ContentIs

LEMMA PopTopTakes ==
    ASSUME NEW n, NEW T, NEW bot, NEW arr, NEW h, NEW c, IsQueue(n, T, bot, arr, h, c), PopTop, ContentIsQueued'
    PROVE  Abstract!Next \/ UNCHANGED <<Content, taken>>
<1>1. T \in Int /\ c \in Int /\ h \in Int /\ c <= h /\ AreTasks(T, c) /\ Content = Queued(T, c)
  BY QueuedTasks, ContentIs
<1>2. CASE UNCHANGED <<own, taken>> /\ IsQueue(n, T, bot, arr, h, c)'
  <2>1. Content' = Queued(T, c)'
    BY <1>2 DEF ContentIsQueued
  <2>2. \A j \in T .. c - 1 : Val(j)' = Val(j)
    BY <1>2 DEF Val
  <2> QED
    BY <1>1, <1>2, <2>1, <2>2, QueuedSame
<1>3. CASE /\ T < bot[n] /\ c = bot[n] + 1 /\ Take(Val(bot[n])) /\ UNCHANGED own
           /\ IsQueue(n, T, bot, arr, bot[n], bot[n])'
  <2>1. PICK b : b = bot[n]
    OBVIOUS
  <2>2. b \in Int
    BY <2>1 DEF IsQueue
  <2>3. Content' = Queued(T, b)'
    BY <1>3, <2>1 DEF ContentIsQueued
  <2>4. \A j \in T .. b - 1 : Val(j)' = Val(j)
    BY <1>3 DEF Val
  <2>5. Content' = Queued(T, b)
    BY <1>1, <2>2, <2>3, <2>4, QueuedSame
  <2>6. T <= b /\ c = b + 1 /\ Take(Val(b))
    BY <1>1, <1>3, <2>1, <2>2
  <2> QED
    BY <1>1, <2>2, <2>5, <2>6, AbstractTakeBottom
<1>4. CASE /\ T = h /\ bot[0] < h /\ UNCHANGED taken
           /\ IsQueue(n + 1, h, More(bot, n, h), More(arr, n, arr[n]), h, bot[0])'
  <2>1. PICK b : b = bot[0]
    OBVIOUS
  <2>2. b \in Int
    BY <2>1 DEF IsQueue
  <2>3. Content' = Queued(h, b)'
    BY <1>4, <2>1 DEF ContentIsQueued
  <2>4. \A j \in h .. b - 1 : Val(j)' = Val(j)
    BY <1>1, <1>4, <2>1, <2>2
  <2>5. Queued(h, b) = <<>> /\ Queued(T, c) = <<>>
    BY <1>1, <1>4, <2>1, <2>2, QueuedNone
  <2> QED
    BY <1>1, <1>4, <2>2, <2>3, <2>4, <2>5, QueuedSame
<1> QED
  BY <1>2, <1>3, <1>4, PopTopKeeps

LEMMA PopCasTakes ==
    ASSUME NEW n, NEW T, NEW bot, NEW arr, NEW h, NEW c, IsQueue(n, T, bot, arr, h, c), PopCas, ContentIsQueued'
    PROVE  Abstract!Next \/ UNCHANGED <<Content, taken>>
<1>1. T \in Int /\ c \in Int /\ h \in Int /\ AreTasks(T, c) /\ Content = Queued(T, c)
  BY QueuedTasks, ContentIs
<1>2. PICK b : b = bot[0]
  OBVIOUS
<1>3. b \in Int
  BY <1>2 DEF IsQueue
<1>4. IsQueue(n + 1, h, More(bot, n, h), More(arr, n, arr[n]), h, b)' /\ b < h /\ c = h
  BY <1>2, PopCasKeeps
<1>5. Content' = <<>>
  <2>1. Content' = Queued(h, b)'
    BY <1>4 DEF ContentIsQueued
  <2>2. \A j \in h .. b - 1 : Val(j)' = Val(j)
    BY <1>1, <1>3, <1>4
  <2>3. Queued(h, b) = <<>>
    BY <1>1, <1>3, <1>4, QueuedNone
  <2> QED
    BY <1>1, <1>3, <2>1, <2>2, <2>3, QueuedSame
<1>6. CASE T = h /\ UNCHANGED taken
  <2>1. Queued(T, c) = <<>>
    BY <1>1, <1>4, <1>6, QueuedNone
  <2> QED
    BY <1>1, <1>5, <1>6, <2>1
<1>7. CASE T = h - 1 /\ Take(Val(T))
  <2>1. c = T + 1 /\ T <= T /\ AreTasks(T, T + 1)
    BY <1>1, <1>4, <1>7
  <2>2. Queued(T, T) = <<>>
    BY <1>1, QueuedNone
  <2> QED
    BY <1>1, <1>5, <1>7, <2>1, <2>2, AbstractTakeBottom
<1> QED
  BY <1>6, <1>7, PopCasKeeps

LEMMA StealCasTakes ==
    ASSUME NEW n, NEW T, NEW bot, NEW arr, NEW h, NEW c, IsQueue(n, T, bot, arr, h, c),
           NEW i \in Thieves, StealCas(i), ContentIsQueued'
    PROVE  Abstract!Next \/ UNCHANGED <<Content, taken>>
<1>1. T \in Int /\ c \in Int /\ AreTasks(T, c) /\ Content = Queued(T, c)
  BY QueuedTasks, ContentIs
<1>2. \A j \in Int : Val(j)' = Val(j)
  BY DEF StealCas, Val
<1>3. CASE IsQueue(n, T, bot, arr, h, c)' /\ UNCHANGED taken
  <2>1. Content' = Queued(T, c)'
    BY <1>3 DEF ContentIsQueued
  <2>2. \A j \in T .. c - 1 : Val(j)' = Val(j)
    BY <1>1, <1>2
  <2> QED
    BY <1>1, <1>3, <2>1, <2>2, QueuedSame
<1>4. CASE T < c /\ Take(Val(T)) /\ IsQueue(n, T + 1, bot, arr, h, c)'
  <2>1. Content' = Queued(T + 1, c)'
    BY <1>4 DEF ContentIsQueued
  <2>2. T + 1 \in Int /\ \A j \in T + 1 .. c - 1 : Val(j)' = Val(j)
    BY <1>1, <1>2
  <2>3. Content' = Queued(T + 1, c)
    BY <1>1, <2>1, <2>2, QueuedSame
  <2> QED
    BY <1>1, <1>4, <2>3, AbstractTakeTop
<1> QED
  BY <1>3, <1>4, StealCasKeeps

\* All other steps of a thief change neither.
LEMMA LooksStutter ==
    ASSUME NEW n, NEW T, NEW bot, NEW arr, NEW h, NEW c, IsQueue(n, T, bot, arr, h, c),
           IsQueue(n, T, bot, arr, h, c)', UNCHANGED <<own, taken>>, ContentIsQueued'
    PROVE  UNCHANGED <<Content, taken>>
<1>1. T \in Int /\ c \in Int /\ Content = Queued(T, c)
  BY QueuedTasks, ContentIs
<1>2. Content' = Queued(T, c)'
  BY DEF ContentIsQueued
<1>3. \A j \in T .. c - 1 : Val(j)' = Val(j)
  BY DEF Val
<1> QED
  BY <1>1, <1>2, <1>3, QueuedSame

-----------------------------------------------------------------------------
\* The inductive invariant of the queue, whatever the sizes, the number of
\* thieves and the place at which the indices start (work_steal_queue.h).
THEOREM QueueConsistent == DequeSpec => []DequeInv
<1>1. DequeInit => DequeInv
  BY InitKeeps
<1>2. DequeInv /\ [DequeNext]_dequeVars => DequeInv'
  <2> SUFFICES ASSUME DequeInv, [DequeNext]_dequeVars PROVE DequeInv'
    OBVIOUS
  <2>1. PICK n, T, bot, arr, h, c : IsQueue(n, T, bot, arr, h, c)
    BY DEF DequeInv
  <2>2. CASE Flush
    BY <2>1, <2>2, FlushKeeps DEF DequeInv
  <2>3. CASE Push
    BY <2>1, <2>3, PushKeeps DEF DequeInv
  <2>4. CASE PopBegin
    BY <2>1, <2>4, PopBeginKeeps DEF DequeInv
  <2>5. CASE PopTop
    BY <2>1, <2>5, PopTopKeeps DEF DequeInv
  <2>6. CASE PopCas
    BY <2>1, <2>6, PopCasKeeps DEF DequeInv
  <2>7. CASE \E i \in Thieves : StealTop(i)
    BY <2>1, <2>7, StealTopKeeps DEF DequeInv
  <2>8. CASE \E i \in Thieves : StealBottom(i)
    BY <2>1, <2>8, StealBottomKeeps DEF DequeInv
  <2>9. CASE \E i \in Thieves : StealArray(i)
    BY <2>1, <2>9, StealArrayKeeps DEF DequeInv
  <2>10. CASE \E i \in Thieves : StealGet(i)
    BY <2>1, <2>10, StealGetKeeps DEF DequeInv
  <2>11. CASE \E i \in Thieves : StealCas(i)
    BY <2>1, <2>11, StealCasKeeps DEF DequeInv
  <2>12. CASE UNCHANGED dequeVars
    BY <2>1, <2>12, StutterKeeps DEF DequeInv
  <2> QED
    BY <2>2, <2>3, <2>4, <2>5, <2>6, <2>7, <2>8, <2>9, <2>10, <2>11, <2>12 DEF DequeNext, PopStep, StealStep
<1> QED
  BY <1>1, <1>2, PTL DEF DequeSpec

\* pop comes back without a task only when no task is queued that a thief has
\* not got (work_steal_queue.h:134, 149, 166).
THEOREM PopFindsTasks == DequeSpec => []EmptyPopMeansEmpty
<1>1. DequeInv => EmptyPopMeansEmpty
  BY NothingThere DEF DequeInv
<1> QED
  BY <1>1, QueueConsistent, PTL

\* The queue is a deque whose tasks are each handed out once, by the owner from
\* the bottom or by a thief from the top.
THEOREM QueueIsDeque == DequeSpec => IsTaskDeque
<1>1. DequeInit => Abstract!Init
  <2> SUFFICES ASSUME DequeInit PROVE Abstract!Init
    OBVIOUS
  <2>1. PICK n, T, bot, arr, h, c : IsQueue(n, T, bot, arr, h, c)
    BY InitKeeps DEF DequeInv
  <2>2. taken = [x \in TaskIds |-> 0]
    BY DEF DequeInit
  <2>3. Content = <<>>
    <3>1. pushed = 0 /\ T \in Int /\ c \in Int /\ h \in Int /\ c <= h /\ Content = Queued(T, c)
      BY <2>1, QueuedTasks, ContentIs DEF DequeInit
    <3>2. c <= T
      BY <2>1, <3>1, WorkStealQueueAssumption DEF IsQueue, IndexInv
    <3> QED
      BY <3>1, <3>2, QueuedNone
  <2> QED
    BY <2>2, <2>3 DEF Abstract!Init
<1>2. ContentIsQueued
  BY ContentIs DEF ContentIsQueued
<1>3. DequeInv /\ [DequeNext]_dequeVars /\ ContentIsQueued' => [Abstract!Next]_<<Content, taken>>
  <2> SUFFICES ASSUME DequeInv, [DequeNext]_dequeVars, ContentIsQueued' PROVE Abstract!Next \/ UNCHANGED <<Content, taken>>
    OBVIOUS
  <2>1. PICK n, T, bot, arr, h, c : IsQueue(n, T, bot, arr, h, c)
    BY DEF DequeInv
  <2>2. CASE Flush
    BY <2>1, <2>2, FlushPushes
  <2>3. CASE Push
    BY <2>1, <2>3, PushStutters
  <2>4. CASE PopBegin
    BY <2>1, <2>4, PopBeginStutters
  <2>5. CASE PopTop
    BY <2>1, <2>5, PopTopTakes
  <2>6. CASE PopCas
    BY <2>1, <2>6, PopCasTakes
  <2>7. CASE \E i \in Thieves : StealCas(i)
    BY <2>1, <2>7, StealCasTakes
  <2>8. CASE \E i \in Thieves : StealTop(i) \/ StealBottom(i) \/ StealArray(i) \/ StealGet(i)
    <3>1. PICK i \in Thieves : StealTop(i) \/ StealBottom(i) \/ StealArray(i) \/ StealGet(i)
      BY <2>8
    <3>2. IsQueue(n, T, bot, arr, h, c)'
      BY <2>1, <3>1, StealTopKeeps, StealBottomKeeps, StealArrayKeeps, StealGetKeeps
    <3>3. UNCHANGED <<own, taken>>
      BY <3>1 DEF StealTop, StealBottom, StealArray, StealGet
    <3> QED
      BY <2>1, <3>2, <3>3, LooksStutter
  <2>9. CASE UNCHANGED dequeVars
    <3>1. IsQueue(n, T, bot, arr, h, c)'
      BY <2>1, <2>9, StutterKeeps
    <3> QED
      BY <2>1, <2>9, <3>1, LooksStutter DEF dequeVars
  <2> QED
    BY <2>2, <2>3, <2>4, <2>5, <2>6, <2>7, <2>8, <2>9 DEF DequeNext, PopStep, StealStep
<1> QED
  BY <1>1, <1>2, <1>3, QueueConsistent, PTL DEF DequeSpec, IsTaskDeque, Abstract!Spec

-----------------------------------------------------------------------------
(***************************************************************************)
(* Types.  Slots hold tasks, and arrays replace each other in the order of *)
(* their sizes: the waiting stores of `array' lie between what memory has  *)
(* and what the owner sees, so what a thief has read is never too large.   *)
(***************************************************************************)
Slots(m) == \A loc \in DOMAIN m \ {Bottom, Array} : m[loc] \in TaskIds \cup {Null}

ArrayStores(st) == {k \in DOMAIN st : st[k][1] = Array}

StoresInv(m, v, st) ==
    /\ Slots(m) /\ Slots(v)
    /\ \A k \in DOMAIN st : st[k][1] \notin {Bottom, Array} => st[k][2] \in TaskIds
    /\ m[Array] <= v[Array]
    /\ \A k \in ArrayStores(st) : m[Array] <= st[k][2] /\ st[k][2] <= v[Array]
    /\ \A j, k \in ArrayStores(st) : j < k => st[j][2] <= st[k][2]

ValueInv ==
    /\ StoresInv(mem, own, buf)
    /\ owner.pc = "cas" => owner.x \in TaskIds
    /\ \A i \in Thieves : thief[i].a \in 0 .. mem[Array]

\* What is in DequeInv about types.
DequeTypes ==
    /\ buf \in Seq(Locs \X Nat)
    /\ DOMAIN mem = DOMAIN own /\ Bottom \in DOMAIN own /\ Array \in DOMAIN own
    /\ \A k \in DOMAIN buf : buf[k][1] \in DOMAIN own
    /\ mem[Array] \in Nat /\ own[Array] \in Nat \ {0} /\ mem[Array] <= own[Array]
    /\ \A i \in Int : Cell(own[Array], i) \in DOMAIN own
    /\ mem[Bottom] \in 0 .. Word - 1 /\ own[Bottom] \in Int /\ top \in 0 .. Word - 1
    /\ DOMAIN owner = DOMAIN Idle /\ owner.pc \in {"idle", "fence", "cas"}
    /\ owner.pc # "idle" => owner.b \in Int
    /\ owner.pc = "cas" /\ owner.t = top => owner.x \in TaskIds
    /\ thief = [i \in Thieves |-> thief[i]]
    /\ \A i \in Thieves :
          /\ DOMAIN thief[i] = DOMAIN NoSteal
          /\ thief[i].pc \in {"idle", "top", "bottom", "array", "get", "cas"}
    /\ taken \in [TaskIds -> {0, 1}]
    /\ pushed \in 0 .. MaxPushes

LEMMA TypesKnown == DequeInv => DequeTypes
<1> SUFFICES ASSUME DequeInv PROVE DequeTypes
  OBVIOUS
<1>1. PICK n, T, bot, arr, h, c : IsQueue(n, T, bot, arr, h, c)
  BY DEF DequeInv
<1>2. /\ n \in Nat /\ 0 \in 0 .. n /\ n \in 0 .. n /\ T \in Int /\ h \in Int
      /\ bot[0] \in Int /\ bot[n] \in Int /\ arr[0] \in Nat /\ arr[n] \in Nat
  <2>1. n \in Nat /\ T \in Int /\ h \in Int /\ bot \in [0 .. n -> Int] /\ arr \in [0 .. n -> Nat]
    BY <1>1 DEF IsQueue
  <2> QED
    BY <2>1
<1>3. /\ DOMAIN mem = DOMAIN own /\ Bottom \in DOMAIN own /\ Array \in DOMAIN own
      /\ \A k \in 1 .. Len(buf) : buf[k][1] \in DOMAIN own
      /\ mem[Bottom] = Wrap(bot[0]) /\ own[Bottom] = Wrap(bot[n]) /\ mem[Array] = arr[0] /\ own[Array] = arr[n]
      /\ Made(own, arr[0]) /\ Made(own, arr[n])
  BY <1>1, <1>2 DEF IsQueue, MemInv, View
<1>4. buf \in Seq(Locs \X Nat) /\ DOMAIN buf = 1 .. Len(buf)
  BY <1>1 DEF IsQueue, BufInv
<1>5. \A i \in Int : Cell(own[Array], i) \in DOMAIN own
  BY <1>3, MadeItem
<1>6. own[Array] \in Nat \ {0} /\ mem[Array] \in Nat /\ mem[Array] <= own[Array]
  BY <1>2, <1>3 DEF Made, Divides
<1>7. /\ top = Wrap(T) /\ pushed \in 0 .. MaxPushes /\ T \in Start .. Start + pushed
      /\ bot[n] \in Start .. Start + pushed
  BY <1>1, <1>2 DEF IsQueue, IndexInv
<1>8. mem[Bottom] \in 0 .. Word - 1 /\ own[Bottom] \in Int /\ top \in 0 .. Word - 1 /\ Wrap(bot[n]) \in Int
  <2>1. \A a \in Int : Wrap(a) \in 0 .. Word - 1
    BY WrapIs
  <2>2. \A a \in 0 .. Word - 1 : a \in Int
    BY WordIsNat
  <2> QED
    BY <1>2, <1>3, <1>7, <2>1, <2>2
<1>9. /\ DOMAIN owner = DOMAIN Idle /\ owner.pc \in {"idle", "fence", "cas"}
      /\ owner.pc # "idle" => owner.b = Wrap(bot[n])
      /\ h = IF owner.pc = "idle" THEN bot[n] ELSE bot[n] + 1
      /\ owner.pc = "cas" => owner.t = Wrap(bot[n]) /\ (T = bot[n] => owner.x = Val(bot[n]))
  BY <1>1 DEF IsQueue, OwnerInv
<1>10. taken \in [TaskIds -> {0, 1}] /\ \A j \in T .. h - 1 : Val(j) \in 1 .. pushed
  BY <1>1 DEF IsQueue, TaskInv
<1>11. ASSUME owner.pc = "cas", owner.t = top PROVE owner.x \in TaskIds
  <2>1. Wrap(T) = Wrap(bot[n]) /\ T - bot[n] \in (- MaxPushes) .. MaxPushes
    BY <1>7, <1>9, <1>11, WorkStealQueueAssumption
  <2>2. T = bot[n]
    BY <1>2, <2>1, WrapOnce
  <2>3. h = bot[n] + 1
    BY <1>9, <1>11
  <2>4. bot[n] \in T .. h - 1
    BY <1>2, <2>2, <2>3
  <2>5. owner.x \in 1 .. pushed
    BY <1>9, <1>10, <1>11, <2>2, <2>4
  <2> QED
    BY <1>7, <2>5, WorkStealQueueAssumption DEF TaskIds
<1>12. thief = [i \in Thieves |-> thief[i]] /\ \A i \in Thieves : ThiefInv(i, T, c)
  BY <1>1 DEF IsQueue
<1>13. \A i \in Thieves : /\ DOMAIN thief[i] = DOMAIN NoSteal
                          /\ thief[i].pc \in {"idle", "top", "bottom", "array", "get", "cas"}
  BY <1>12 DEF ThiefInv
<1> QED
  BY <1>3, <1>4, <1>5, <1>6, <1>7, <1>8, <1>9, <1>10, <1>11, <1>12, <1>13 DEF DequeTypes

LEMMA InitValues == DequeInit => ValueInv
<1> SUFFICES ASSUME DequeInit PROVE ValueInv
  OBVIOUS
<1>1. /\ Bottom \in DOMAIN mem /\ Array \in DOMAIN mem /\ Bottom # Array
      /\ mem[Array] = InitialSize /\ own = mem /\ InitialSize \in Nat
      /\ \A loc \in DOMAIN mem \ {Bottom, Array} : mem[loc] = Null
  BY Distinct, WorkStealQueueAssumption DEF DequeInit
<1>2. DOMAIN buf = {}
  BY DEF DequeInit
<1>3. owner.pc = "idle" /\ \A i \in Thieves : thief[i].a = 0
  BY DEF DequeInit, Idle, NoSteal
<1> QED
  BY <1>1, <1>2, <1>3 DEF ValueInv, StoresInv, Slots, ArrayStores

LEMMA SlotStore ==
    ASSUME NEW m, Slots(m), NEW w, w[1] \notin {Bottom, Array} => w[2] \in TaskIds
    PROVE  Slots(Changed(m, w))
BY DEF Slots, Changed

\* One more store of the owner.
LEMMA AppendValues ==
    ASSUME NEW m, NEW v, NEW st \in Seq(Locs \X Nat), StoresInv(m, v, st),
           Array \in DOMAIN v, m[Array] \in Nat, v[Array] \in Nat,
           NEW w \in Locs \X Nat, w[1] \notin {Bottom, Array} => w[2] \in TaskIds,
           w[1] = Array => v[Array] <= w[2]
    PROVE  StoresInv(m, Changed(v, w), Append(st, w))
<1>1. PICK a : a = Append(st, w)
  OBVIOUS
<1>2. PICK u : u = Changed(v, w)
  OBVIOUS
<1>3. PICK l \in Nat : l = Len(st) + 1
  OBVIOUS
<1>4. /\ DOMAIN st = 1 .. l - 1 /\ DOMAIN a = 1 .. l
      /\ a[l] = w /\ \A k \in DOMAIN st : a[k] = st[k] /\ st[k] \in Locs \X Nat
      /\ \A k \in DOMAIN a : k \in DOMAIN st \/ k = l
  BY <1>1, <1>3
<1>5. Slots(m) /\ Slots(u)
  BY <1>2, SlotStore DEF StoresInv
<1>6. \A k \in DOMAIN a : a[k][1] \notin {Bottom, Array} => a[k][2] \in TaskIds
  BY <1>4 DEF StoresInv
<1>7. /\ u[Array] \in Nat /\ v[Array] <= u[Array] /\ w[2] \in Nat
      /\ w[1] = Array => u[Array] = w[2]
  BY <1>2 DEF Changed
<1>8. m[Array] <= v[Array] /\ m[Array] <= u[Array]
  BY <1>7 DEF StoresInv
<1>9. \A k \in ArrayStores(a) : \/ k \in ArrayStores(st) /\ a[k] = st[k] /\ st[k][2] \in Nat
                                \/ k = l /\ a[k] = w /\ w[1] = Array
  BY <1>4 DEF ArrayStores
<1>10. \A k \in ArrayStores(a) : m[Array] <= a[k][2] /\ a[k][2] <= u[Array]
  <2> SUFFICES ASSUME NEW k \in ArrayStores(a) PROVE m[Array] <= a[k][2] /\ a[k][2] <= u[Array]
    OBVIOUS
  <2>1. CASE k \in ArrayStores(st) /\ a[k] = st[k] /\ st[k][2] \in Nat
    <3>1. m[Array] <= st[k][2] /\ st[k][2] <= v[Array]
      BY <2>1 DEF StoresInv
    <3> QED
      BY <1>7, <2>1, <3>1
  <2>2. CASE k = l /\ a[k] = w /\ w[1] = Array
    BY <1>7, <1>8, <2>2
  <2> QED
    BY <1>9, <2>1, <2>2
<1>11. \A j, k \in ArrayStores(a) : j < k => a[j][2] <= a[k][2]
  <2> SUFFICES ASSUME NEW j \in ArrayStores(a), NEW k \in ArrayStores(a), j < k PROVE a[j][2] <= a[k][2]
    OBVIOUS
  <2>1. j # l /\ j \in ArrayStores(st) /\ a[j] = st[j] /\ st[j][2] \in Nat
    <3>1. j \in 1 .. l /\ k \in 1 .. l
      BY <1>4 DEF ArrayStores
    <3>2. j # l
      BY <3>1
    <3> QED
      BY <1>9, <3>2
  <2>2. CASE k \in ArrayStores(st) /\ a[k] = st[k]
    BY <2>1, <2>2 DEF StoresInv
  <2>3. CASE k = l /\ a[k] = w /\ w[1] = Array
    <3>1. st[j][2] <= v[Array]
      BY <2>1 DEF StoresInv
    <3> QED
      BY <1>7, <2>1, <2>3, <3>1
  <2> QED
    BY <1>9, <2>2, <2>3
<1>12. StoresInv(m, u, a)
  BY <1>5, <1>6, <1>8, <1>10, <1>11 DEF StoresInv
<1> QED
  BY <1>1, <1>2, <1>12

\* The oldest store reaches memory.
LEMMA FlushValues == ASSUME DequeTypes, ValueInv, Flush PROVE ValueInv'
<1>1. /\ buf \in Seq(Locs \X Nat) /\ buf # <<>> /\ mem' = Changed(mem, Head(buf)) /\ buf' = Tail(buf)
      /\ own' = own /\ owner' = owner /\ thief' = thief
  BY DEF Flush, DequeTypes
<1>2. PICK l \in Nat : l = Len(buf)
  BY <1>1
<1>3. PICK w : w = buf[1]
  OBVIOUS
<1>4. /\ Head(buf) = w /\ 1 \in DOMAIN buf /\ w \in Locs \X Nat
      /\ DOMAIN buf = 1 .. l /\ DOMAIN buf' = 1 .. l - 1
      /\ \A k \in DOMAIN buf' : k \in Nat /\ k + 1 \in DOMAIN buf /\ buf'[k] = buf[k + 1] /\ 1 < k + 1
  BY <1>1, <1>2, <1>3
<1>5. StoresInv(mem, own, buf)
  BY DEF ValueInv
<1>6. w[1] \notin {Bottom, Array} => w[2] \in TaskIds
  BY <1>3, <1>4, <1>5 DEF StoresInv
<1>7. Slots(mem') /\ Slots(own')
  BY <1>1, <1>4, <1>5, <1>6, SlotStore DEF StoresInv
<1>8. \A k \in DOMAIN buf' : buf'[k][1] \notin {Bottom, Array} => buf'[k][2] \in TaskIds
  BY <1>4, <1>5 DEF StoresInv
<1>9. Array \in DOMAIN mem /\ mem[Array] \in Nat /\ own[Array] \in Nat /\ w[2] \in Nat
  BY <1>4 DEF DequeTypes
<1>10. w[1] = Array => 1 \in ArrayStores(buf)
  BY <1>3, <1>4 DEF ArrayStores
<1>11. /\ w[1] = Array => mem'[Array] = w[2] /\ mem[Array] <= w[2] /\ w[2] <= own[Array]
       /\ w[1] # Array => mem'[Array] = mem[Array]
  BY <1>1, <1>3, <1>4, <1>5, <1>9, <1>10 DEF Changed, StoresInv
<1>12. mem'[Array] \in Nat /\ mem[Array] <= mem'[Array] /\ mem'[Array] <= own[Array]
  BY <1>5, <1>9, <1>11 DEF StoresInv
<1>13. \A k \in ArrayStores(buf') : k \in DOMAIN buf' /\ k + 1 \in ArrayStores(buf)
  BY <1>4 DEF ArrayStores
<1>14. \A k \in ArrayStores(buf') : mem'[Array] <= buf'[k][2] /\ buf'[k][2] <= own'[Array]
  <2> SUFFICES ASSUME NEW k \in ArrayStores(buf') PROVE mem'[Array] <= buf'[k][2] /\ buf'[k][2] <= own'[Array]
    OBVIOUS
  <2>1. k + 1 \in ArrayStores(buf) /\ buf'[k] = buf[k + 1] /\ 1 < k + 1
    BY <1>4, <1>13
  <2>2. mem[Array] <= buf[k + 1][2] /\ buf[k + 1][2] <= own[Array]
    BY <1>5, <2>1 DEF StoresInv
  <2>3. w[1] = Array => w[2] <= buf[k + 1][2]
    BY <1>3, <1>5, <1>10, <2>1 DEF StoresInv
  <2> QED
    BY <1>1, <1>11, <2>1, <2>2, <2>3
<1>15. \A j, k \in ArrayStores(buf') : j < k => buf'[j][2] <= buf'[k][2]
  <2> SUFFICES ASSUME NEW j \in ArrayStores(buf'), NEW k \in ArrayStores(buf'), j < k
               PROVE  buf'[j][2] <= buf'[k][2]
    OBVIOUS
  <2>1. /\ j + 1 \in ArrayStores(buf) /\ buf'[j] = buf[j + 1]
        /\ k + 1 \in ArrayStores(buf) /\ buf'[k] = buf[k + 1]
    BY <1>4, <1>13
  <2>2. j + 1 < k + 1
    BY <1>4, <1>13
  <2> QED
    BY <1>5, <2>1, <2>2 DEF StoresInv
<1>16. StoresInv(mem, own, buf)'
  BY <1>1, <1>7, <1>8, <1>12, <1>14, <1>15 DEF StoresInv
<1>17. \A i \in Thieves : thief'[i].a \in 0 .. mem'[Array]
  <2> SUFFICES ASSUME NEW i \in Thieves PROVE thief'[i].a \in 0 .. mem'[Array]
    OBVIOUS
  <2>1. thief[i].a \in 0 .. mem[Array]
    BY DEF ValueInv
  <2> QED
    BY <1>1, <1>9, <1>12, <2>1
<1>18. owner'.pc = "cas" => owner'.x \in TaskIds
  BY <1>1 DEF ValueInv
<1> QED
  BY <1>16, <1>17, <1>18 DEF ValueInv

\* The owner moves bottom.
LEMMA BottomValues ==
    ASSUME DequeTypes, ValueInv, NEW b \in Int, StoreBottom(b), mem' = mem,
           owner'.pc = "cas" => owner'.x \in TaskIds, thief' = thief
    PROVE  ValueInv'
<1>1. PICK w : w = <<Bottom, Wrap(b)>>
  OBVIOUS
<1>2. Wrap(b) \in Nat
  <2>1. Wrap(b) \in 0 .. Word - 1
    BY WrapIs
  <2> QED
    BY <2>1, WordIsNat
<1>3. w \in Locs \X Nat /\ w[1] = Bottom /\ own' = Changed(own, w) /\ buf' = Append(buf, w)
  BY <1>1, <1>2 DEF StoreBottom, Locs
<1>4. /\ StoresInv(mem, own, buf) /\ buf \in Seq(Locs \X Nat) /\ Array \in DOMAIN own
      /\ mem[Array] \in Nat /\ own[Array] \in Nat
  BY DEF ValueInv, DequeTypes
<1>5. StoresInv(mem, Changed(own, w), Append(buf, w))
  BY <1>3, <1>4, AppendValues, Distinct
<1> QED
  BY <1>3, <1>5 DEF ValueInv

\* A step of the owner that stores nothing.
LEMMA QuietValues ==
    ASSUME ValueInv, UNCHANGED <<mem, own, buf>>, owner'.pc = "cas" => owner'.x \in TaskIds,
           \A i \in Thieves : thief'[i].a \in 0 .. mem[Array]
    PROVE  ValueInv'
BY DEF ValueInv

LEMMA PopValues ==
    ASSUME DequeTypes, ValueInv, DequeTypes', PopBegin \/ PopTop \/ PopCas
    PROVE  ValueInv'
<1>1. mem' = mem /\ thief' = thief
  BY DEF PopBegin, PopTop, PopCas
<1>2. \A i \in Thieves : thief'[i].a \in 0 .. mem[Array]
  BY <1>1 DEF ValueInv
<1>3. owner'.pc = "cas" => owner'.x \in TaskIds
  <2>1. CASE PopBegin
    BY <2>1 DEF PopBegin, Idle
  <2>2. CASE PopTop
    <3>1. CASE owner' = [owner EXCEPT !.pc = "cas", !.t = top, !.x = own[Cell(own[Array], owner.b)]]
      <4>1. owner'.t = top /\ top' = top
        BY <2>2, <3>1 DEF PopTop, DequeTypes, Idle
      <4> QED
        BY <4>1 DEF DequeTypes
    <3>2. CASE owner' = Idle \/ owner' = [Idle EXCEPT !.got = FALSE]
      BY <3>2 DEF Idle
    <3> QED
      BY <2>2, <3>1, <3>2 DEF PopTop
  <2>3. CASE PopCas
    BY <2>3 DEF PopCas, Idle
  <2> QED
    BY <2>1, <2>2, <2>3
<1>4. (\E b \in Int : StoreBottom(b)) \/ UNCHANGED <<own, buf>>
  <2>1. own[Bottom] - 1 \in Int /\ (owner.pc # "idle" => owner.b + 1 \in Int)
    BY DEF DequeTypes
  <2> QED
    BY <2>1 DEF PopBegin, PopTop, PopCas, Restore
<1> QED
  BY <1>1, <1>2, <1>3, <1>4, BottomValues, QuietValues

LEMMA StealValues ==
    ASSUME DequeTypes, ValueInv, NEW i \in Thieves,
           StealTop(i) \/ StealBottom(i) \/ StealArray(i) \/ StealGet(i) \/ StealCas(i)
    PROVE  ValueInv'
<1>1. UNCHANGED <<mem, own, buf, owner>>
  BY DEF StealTop, StealBottom, StealArray, StealGet, StealCas
<1>2. mem[Array] \in Nat /\ 0 \in 0 .. mem[Array] /\ mem[Array] \in 0 .. mem[Array]
  BY DEF DequeTypes
<1>3. /\ thief = [j \in Thieves |-> thief[j]] /\ DOMAIN thief[i] = DOMAIN NoSteal
      /\ \A j \in Thieves : thief[j].a \in 0 .. mem[Array]
  BY DEF DequeTypes, ValueInv
<1>4. \A j \in Thieves : j # i => thief'[j] = thief[j]
  BY <1>3 DEF StealTop, StealBottom, StealArray, StealGet, StealCas
<1>5. thief'[i].a \in {0, mem[Array], thief[i].a}
  <2>1. CASE StealTop(i)
    BY <1>3, <2>1 DEF StealTop, NoSteal
  <2>2. CASE StealBottom(i)
    BY <1>3, <2>2 DEF StealBottom, NoSteal
  <2>3. CASE StealArray(i)
    BY <1>3, <2>3 DEF StealArray, NoSteal
  <2>4. CASE StealGet(i)
    BY <1>3, <2>4 DEF StealGet, NoSteal
  <2>5. CASE StealCas(i)
    BY <1>3, <2>5 DEF StealCas, NoSteal
  <2> QED
    BY <2>1, <2>2, <2>3, <2>4, <2>5
<1>6. \A j \in Thieves : thief'[j].a \in 0 .. mem[Array]
  BY <1>2, <1>3, <1>4, <1>5
<1>7. owner'.pc = "cas" => owner'.x \in TaskIds
  BY <1>1 DEF ValueInv
<1> QED
  BY <1>1, <1>6, <1>7, QuietValues

\* A new array holds tasks of the old one.
LEMMA GrowValues ==
    ASSUME DequeTypes, ValueInv, NEW new, new = Grow(own[Array], top, own[Bottom])
    PROVE  StoresInv(Extend(mem, new), Extend(own, new), buf)
<1>1. PICK s : s = own[Array]
  OBVIOUS
<1>2. Slots(own) /\ Slots(mem) /\ StoresInv(mem, own, buf)
  BY DEF ValueInv, StoresInv
<1>3. \A i \in Int : own[Cell(s, i)] \in TaskIds \cup {Null}
  BY <1>1, <1>2, Distinct DEF DequeTypes, Slots
<1>4. PICK B : B = Between(top, own[Bottom])
  OBVIOUS
<1>5. B \subseteq Int
  <2> SUFFICES ASSUME NEW i \in B PROVE i \in Int
    OBVIOUS
  <2>1. PICK k \in Int : i = Wrap(top + k)
    BY <1>4 DEF Between
  <2>2. top + k \in Int
    BY WordIsNat DEF DequeTypes
  <2>3. i \in 0 .. Word - 1
    BY <2>1, <2>2, WrapIs
  <2> QED
    BY <2>3
<1>6. \A loc \in DOMAIN new : new[loc] \in TaskIds \cup {Null}
  <2> SUFFICES ASSUME NEW loc \in DOMAIN new PROVE new[loc] \in TaskIds \cup {Null}
    OBVIOUS
  <2>1. CASE \E i \in B : Cell(2 * s, i) = loc
    <3>1. PICK e : e = CHOOSE i \in B : Cell(2 * s, i) = loc
      OBVIOUS
    <3>2. e \in Int
      BY <1>5, <2>1, <3>1
    <3>3. new[loc] = own[Cell(s, e)]
      BY <1>1, <1>4, <2>1, <3>1 DEF Grow
    <3> QED
      BY <1>3, <3>2, <3>3
  <2>2. CASE ~ \E i \in B : Cell(2 * s, i) = loc
    BY <1>1, <1>4, <2>2 DEF Grow
  <2> QED
    BY <2>1, <2>2
<1>7. Slots(Extend(mem, new)) /\ Slots(Extend(own, new))
  BY <1>2, <1>6 DEF Slots, Extend
<1>8. Extend(mem, new)[Array] = mem[Array] /\ Extend(own, new)[Array] = own[Array]
  BY DEF Extend, DequeTypes
<1> QED
  BY <1>2, <1>7, <1>8 DEF StoresInv

LEMMA PutValues ==
    ASSUME DequeTypes, ValueInv, pushed < MaxPushes, NEW s \in Nat \ {0}, NEW m, NEW v, NEW st \in Seq(Locs \X Nat),
           StoresInv(m, v, st), Array \in DOMAIN v, m[Array] = mem[Array], v[Array] \in Nat, Put(s, m, v, st),
           owner' = Idle, thief' = thief
    PROVE  ValueInv'
<1>1. PICK w1 : w1 = <<Cell(s, own[Bottom]), pushed + 1>>
  OBVIOUS
<1>2. PICK w2 : w2 = <<Bottom, Wrap(own[Bottom] + 1)>>
  OBVIOUS
<1>3. Wrap(own[Bottom] + 1) \in Nat
  <2>1. own[Bottom] + 1 \in Int
    BY DEF DequeTypes
  <2>2. Wrap(own[Bottom] + 1) \in 0 .. Word - 1
    BY <2>1, WrapIs
  <2> QED
    BY <2>2, WordIsNat
<1>4. pushed + 1 \in TaskIds /\ pushed + 1 \in Nat
  BY WorkStealQueueAssumption DEF DequeTypes, TaskIds
<1>5. w2 \in Locs \X Nat /\ w2[1] = Bottom
  BY <1>2, <1>3 DEF Locs
<1>6. w1 \in Locs \X Nat /\ w1[2] \in TaskIds /\ w1[1] \notin {Bottom, Array}
  <2>1. own[Bottom] % s \in 0 .. s - 1
    <3>1. own[Bottom] \in Int
      BY DEF DequeTypes
    <3> QED
      BY <3>1, Division
  <2>2. Cell(s, own[Bottom]) \in {"item"} \X Nat \X Nat
    BY <2>1 DEF Cell
  <2> QED
    BY <1>1, <1>4, <2>2, Distinct DEF Locs
<1>7. /\ mem' = m /\ own' = Changed(Changed(v, w1), w2)
      /\ buf' = st \o <<w1, w2>>
  BY <1>1, <1>2 DEF Put, Changed
<1>8. buf' = Append(Append(st, w1), w2) /\ Append(st, w1) \in Seq(Locs \X Nat)
  BY <1>5, <1>6, <1>7
<1>9. PICK u : u = Changed(v, w1)
  OBVIOUS
<1>10. m[Array] \in Nat
  BY DEF DequeTypes
<1>11. StoresInv(m, u, Append(st, w1))
  BY <1>6, <1>9, <1>10, AppendValues
<1>12. Array \in DOMAIN u /\ u[Array] = v[Array]
  BY <1>6, <1>9 DEF Changed
<1>13. StoresInv(m, Changed(u, w2), Append(Append(st, w1), w2))
  BY <1>5, <1>8, <1>10, <1>11, <1>12, AppendValues, Distinct
<1>14. StoresInv(mem, own, buf)'
  BY <1>7, <1>8, <1>9, <1>13
<1>15. \A i \in Thieves : thief'[i].a \in 0 .. mem'[Array]
  BY <1>7 DEF ValueInv
<1> QED
  BY <1>14, <1>15 DEF ValueInv, Idle

LEMMA PushValues == ASSUME DequeTypes, ValueInv, Push PROVE ValueInv'
<1>1. PICK s : s = own[Array]
  OBVIOUS
<1>2. PICK new : new = Grow(s, top, own[Bottom])
  OBVIOUS
<1>3. /\ s \in Nat \ {0} /\ 2 * s \in Nat \ {0} /\ s <= 2 * s /\ Array \in DOMAIN own /\ Array \in DOMAIN mem
      /\ mem[Array] \in Nat /\ buf \in Seq(Locs \X Nat)
  BY <1>1 DEF DequeTypes
<1>4. pushed < MaxPushes /\ owner' = Idle /\ thief' = thief
  BY DEF Push
<1>5. CASE Put(s, mem, own, buf)
  BY <1>1, <1>3, <1>4, <1>5, PutValues DEF ValueInv
<1>6. CASE Put(2 * s, Extend(mem, new), Changed(Extend(own, new), <<Array, 2 * s>>), Append(buf, <<Array, 2 * s>>))
  <2>1. PICK w : w = <<Array, 2 * s>>
    OBVIOUS
  <2>2. w \in Locs \X Nat /\ w[1] = Array /\ w[2] = 2 * s
    BY <1>3, <2>1 DEF Locs
  <2>3. PICK m : m = Extend(mem, new)
    OBVIOUS
  <2>4. PICK e : e = Extend(own, new)
    OBVIOUS
  <2>5. Array \in DOMAIN e /\ e[Array] = s /\ m[Array] = mem[Array]
    BY <1>1, <1>3, <2>3, <2>4 DEF Extend
  <2>6. StoresInv(m, e, buf)
    BY <1>1, <1>2, <2>3, <2>4, GrowValues
  <2>7. StoresInv(m, Changed(e, w), Append(buf, w))
    BY <1>3, <2>2, <2>5, <2>6, AppendValues
  <2>8. Array \in DOMAIN Changed(e, w) /\ Changed(e, w)[Array] = 2 * s /\ Append(buf, w) \in Seq(Locs \X Nat)
    BY <1>3, <2>2, <2>5 DEF Changed
  <2>9. PICK v : v = Changed(e, w)
    OBVIOUS
  <2>10. PICK st : st = Append(buf, w)
    OBVIOUS
  <2>11. Put(2 * s, m, v, st)
    BY <1>6, <2>1, <2>3, <2>4, <2>9, <2>10
  <2> QED
    BY <1>3, <1>4, <2>5, <2>7, <2>8, <2>9, <2>10, <2>11, PutValues
<1> QED
  BY <1>1, <1>2, <1>5, <1>6 DEF Push

LEMMA TypesFollow == DequeTypes /\ ValueInv => DequeTypeOK
BY DEF DequeTypes, ValueInv, StoresInv, Slots, DequeTypeOK

\* The type invariant: slots and stores hold tasks, and a thief never has a
\* larger array than memory does (work_steal_queue.h).
THEOREM DequeTyped == DequeSpec => []DequeTypeOK
<1>1. DequeSpec => []DequeTypes
  BY QueueConsistent, TypesKnown, PTL
<1>2. DequeInit => ValueInv
  BY InitValues
<1>3. DequeTypes /\ DequeTypes' /\ ValueInv /\ [DequeNext]_dequeVars => ValueInv'
  <2> SUFFICES ASSUME DequeTypes, DequeTypes', ValueInv, [DequeNext]_dequeVars PROVE ValueInv'
    OBVIOUS
  <2>1. CASE Flush
    BY <2>1, FlushValues
  <2>2. CASE Push
    BY <2>2, PushValues
  <2>3. CASE PopBegin \/ PopStep
    BY <2>3, PopValues DEF PopStep
  <2>4. ASSUME NEW i \in Thieves, StealTop(i) \/ StealStep(i) PROVE ValueInv'
    BY <2>4, StealValues DEF StealStep
  <2>5. CASE UNCHANGED dequeVars
    BY <2>5 DEF dequeVars, ValueInv
  <2> QED
    BY <2>1, <2>2, <2>3, <2>4, <2>5 DEF DequeNext
<1>4. DequeSpec => []ValueInv
  BY <1>1, <1>2, <1>3, PTL DEF DequeSpec
<1> QED
  BY <1>1, <1>4, TypesFollow, PTL
=============================================================================
