--------------------------- MODULE TransformsProofs ---------------------------
(***************************************************************************)
(* Theorems about Transforms, for any arguments of exact lengths and any   *)
(* number of calls: the overloads agree, the matrix takes points where the *)
(* motions take them, the orientation follows, tangents turn with the      *)
(* matrix, a view volume fills its window, and cameras look at targets.    *)
(***************************************************************************)
EXTENDS Transforms, AlgebraProofs, SequenceTheorems

(***************************************************************************)
(* What is asked for consists of numbers.                                  *)
(***************************************************************************)

\* Numbers of the model are the fractions of the proofs.
LEMMA NumberNum == Number \subseteq Num /\ Vectors \subseteq V3 /\ Registers \subseteq V4
<1>1. ASSUME NEW r \in Number PROVE r \in Num
  <2>1. PICK n \in Int, d \in Nat \ {0} : r = <<n, d>> /\ gcd[<<Magnitude(n), d>>] = 1
    BY DEF Number
  <2>2. Magnitude(n) \in Nat
    BY DEF Magnitude
  <2>3. IsGcd(1, Magnitude(n), d)
    BY <2>1, <2>2, GcdIsGcd
  <2>4. PICK x, y \in Int : Magnitude(n) * x + d * y = 1
    BY <2>3 DEF IsGcd
  <2>5. Coprime(n, d)
    <3>1. CASE n < 0
      <4>1. PICK z \in Int : z = -x
        OBVIOUS
      <4>2. (-n) * x + d * y = 1
        BY <2>4, <3>1 DEF Magnitude
      <4>3. (-n) * x = n * z
        BY <4>1
      <4>4. n * z + d * y = 1
        BY <4>2, <4>3
      <4> QED
        BY <4>4 DEF Coprime
    <3>2. CASE ~(n < 0)
      BY <2>4, <3>2 DEF Magnitude, Coprime
    <3> QED
      BY <3>1, <3>2
  <2> QED
    BY <2>1, <2>5 DEF Num
<1> QED
  BY <1>1 DEF Vectors, Registers, V3, V4

(***************************************************************************)
(* Cameras and frames that callers can ask for.                            *)
(***************************************************************************)

\* A rigid motion: a turn and then a move.
IsFrame(m) == Affine(m) /\ \E R : Turning(R) /\ Block(m, R)

\* A turn is a rigid motion.
LEMMA TurningFrame ==
    ASSUME NEW m, Turning(m)
    PROVE  IsFrame(m)
  BY DEF IsFrame, Block, Turning, Linear

\* The same for Easy_vector_normalize on float[3].
LEMMA Unturned ==
    ASSUME NEW v, Three(v), NEW u, u = Unit(v), Three(u)
    PROVE  /\ Dot(u, u) = One
           /\ \A w : Three(w) /\ Dot(v, w) = Zero => Dot(u, w) = Zero /\ Dot(w, u) = Zero
<1>1. PICK c, n : c = Easy_vector_copy(v, Zero) /\ n = Easy_vector_normalize_sse(c)
  OBVIOUS
<1>2. c[0] = v[0] /\ c[1] = v[1] /\ c[2] = v[2]
  BY <1>1, PsAt DEF Easy_vector_copy
<1>3. u[0] = n[0] /\ u[1] = n[1] /\ u[2] = n[2]
  BY <1>1, XYZAt, LaneSet DEF Unit
<1>4. Three(c) /\ Three(n)
  BY <1>2, <1>3 DEF Three
<1>5. /\ Dot(n, n) = One
      /\ \A w : Three(w) /\ Dot(c, w) = Zero => Dot(n, w) = Zero /\ Dot(w, n) = Zero
  BY <1>1, <1>4, UnitVector
<1>6. Dot(n, n) = Dot(u, u) /\ \A w : Dot(c, w) = Dot(v, w) /\ Dot(n, w) = Dot(u, w) /\ Dot(w, n) = Dot(w, u)
  BY <1>2, <1>3 DEF Dot, Easy_vector_dot
<1> QED
  BY <1>5, <1>6

\* The columns of a matrix of numbers.
LEMMA ColumnsThree ==
    ASSUME NEW x, NEW y, NEW z, NEW m, m = Columns(x, y, z), m \in M4
    PROVE  Three(x) /\ Three(y) /\ Three(z)
<1>1. /\ m[0][0] \in Num /\ m[0][1] \in Num /\ m[0][2] \in Num
      /\ m[1][0] \in Num /\ m[1][1] \in Num /\ m[1][2] \in Num
      /\ m[2][0] \in Num /\ m[2][1] \in Num /\ m[2][2] \in Num
  BY M4Mat, LaneSet
<1>2. /\ m[0] = Ps(x[0], y[0], z[0], Zero) /\ m[1] = Ps(x[1], y[1], z[1], Zero)
      /\ m[2] = Ps(x[2], y[2], z[2], Zero)
  BY PsAt DEF Columns, Lanes
<1>3. /\ m[0][0] = x[0] /\ m[0][1] = y[0] /\ m[0][2] = z[0]
      /\ m[1][0] = x[1] /\ m[1][1] = y[1] /\ m[1][2] = z[1]
      /\ m[2][0] = x[2] /\ m[2][1] = y[2] /\ m[2][2] = z[2]
  BY <1>2, PsAt
<1> QED
  BY <1>1, <1>3 DEF Three

\* They are numbers when the length has an exact value and is not zero.
LEMMA NormalNumbers ==
    ASSUME NEW v, Three(v), Rooted(v), NEW u, \A i \in Axis : u[i] = Over(v[i], SqrtQ(Dot(v, v)))
    PROVE  Three(u)
<1>1. PICK r : r = SqrtQ(Dot(v, v))
  OBVIOUS
<1>2. r \in Num /\ r # Zero
  BY <1>1, DotCommutes, SqrtSquares DEF Rooted
<1> QED
  BY <1>1, <1>2, NumClosed, LaneSet DEF Three

\* The same for Easy_vector_normalize on float[3].
LEMMA UnitLanes ==
    ASSUME NEW v, Three(v)
    PROVE  /\ \A i \in Axis : Unit(v)[i] = Over(v[i], SqrtQ(Dot(v, v)))
           /\ Rooted(v) => Three(Unit(v))
<1>1. PICK c, n : c = Easy_vector_copy(v, Zero) /\ n = Easy_vector_normalize_sse(c)
  OBVIOUS
<1>2. c[0] = v[0] /\ c[1] = v[1] /\ c[2] = v[2]
  BY <1>1, PsAt DEF Easy_vector_copy
<1>3. PICK u : u = Unit(v)
  OBVIOUS
<1>4. u[0] = n[0] /\ u[1] = n[1] /\ u[2] = n[2]
  BY <1>1, <1>3, XYZAt, LaneSet DEF Unit
<1>5. Three(c) /\ Dot(c, c) = Dot(v, v)
  BY <1>2 DEF Three, Dot, Easy_vector_dot
<1>6. \A i \in Axis : n[i] = Over(c[i], SqrtQ(Dot(c, c)))
  BY <1>1, <1>5, NormalLanes
<1>7. \A i \in Axis : u[i] = Over(v[i], SqrtQ(Dot(v, v)))
  BY <1>2, <1>4, <1>5, <1>6, LaneSet
<1>8. Rooted(v) => Three(u)
  BY <1>7, NormalNumbers
<1> QED
  BY <1>3, <1>7, <1>8

\* A vector of length 1 can be normalised.
LEMMA OneRooted ==
    ASSUME NEW v, Dot(v, v) = One
    PROVE  Rooted(v)
  BY RootOne, OneNotZero, Constants, NumParts DEF Rooted

\* The horizontal part of a vector is zero only if both of its entries are.
LEMMA SideZero ==
    ASSUME NEW a \in Num, NEW b \in Num, IsNumber(Side(a, b)), Side(a, b) = Zero
    PROVE  a = Zero /\ b = Zero
<1>1. PICK s : s = Plus(Times(a, a), Times(b, b))
  OBVIOUS
<1>2. s \in Num
  BY <1>1, NumClosed
<1>3. Times(SqrtQ(s), SqrtQ(s)) = s
  BY <1>1, <1>2, SqrtSquares DEF Side
<1>4. SqrtQ(s) = Zero
  BY <1>1 DEF Side
<1>5. s = Zero
  BY <1>3, <1>4, Neutral, Constants
<1> QED
  BY <1>1, <1>5, TwoSquares

\* Signs of one.
LEMMA Signs ==
    /\ Int2Q(0) = Zero /\ Int2Q(1) = One /\ Int2Q(-1) = Neg(One) /\ Neg(One) \in Num
    /\ Times(One, One) = One /\ Times(Neg(One), Neg(One)) = One
<1>1. PICK o \in Int : o = -1
  OBVIOUS
<1>2. Neg(One) = <<o, 1>> /\ Int2Q(-1) = <<o, 1>>
  BY <1>1 DEF Neg, One, Int2Q
<1>3. Times(Neg(One), Neg(One)) = Neg(Neg(One)) /\ Neg(Neg(One)) = One
  BY Neutral, NumClosed, Constants, NegTimes
<1> QED
  BY <1>2, <1>3, Neutral, NumClosed, Constants DEF Zero, One

\* The horizontal axis of a camera: at right angles to where it looks and to up.
LEMMA CameraAside ==
    ASSUME NEW y, Three(y), Dot(y, y) = One, IsNumber(Side(y[0], y[1])),
           NEW up, up = IF y[0] # Zero \/ y[1] # Zero THEN Vec(0, 0, 1, 0) ELSE Vec(-1, 0, 0, 0),
           NEW x, x = Easy_vector_cross(y, up)
    PROVE  Rooted(x)
<1>1. /\ x[0] = Minus(Times(y[1], up[2]), Times(y[2], up[1]))
      /\ x[1] = Minus(Times(y[2], up[0]), Times(y[0], up[2]))
      /\ x[2] = Minus(Times(y[0], up[1]), Times(y[1], up[0]))
  BY CrossIs, LaneSet
<1>2. PICK a, b, c \in Num : a = y[0] /\ b = y[1] /\ c = y[2]
  BY DEF Three
<1>3. CASE a # Zero \/ b # Zero
  <2>1. up[0] = Zero /\ up[1] = Zero /\ up[2] = One
    BY <1>2, <1>3, VecIs DEF Zero, One
  <2>2. x[0] = b /\ x[1] = Neg(a) /\ x[2] = Zero
    BY <1>1, <1>2, <2>1, Neutral, NegSquare, Constants
  <2>3. Dot(x, x) = Plus(Plus(Times(b, b), Times(a, a)), Zero)
    BY <1>2, <2>2, NegSquare, Neutral, Constants DEF Dot, Easy_vector_dot, Plus3
  <2>4. Dot(x, x) = Plus(Times(a, a), Times(b, b))
    <3>1. PICK i, j \in Num : i = Times(a, a) /\ j = Times(b, b)
      BY NumClosed
    <3>2. Plus(j, i) \in Num /\ Plus(j, i) = Plus(i, j)
      BY NumClosed, PlusCommutes
    <3> QED
      BY <2>3, <3>1, <3>2, Neutral
  <2> QED
    BY <1>2, <1>3, <2>4, SideZero DEF Rooted, Side
<1>4. CASE a = Zero /\ b = Zero
  <2>1. PICK o \in Int : o = -1
    OBVIOUS
  <2>2. up = Vec(o, 0, 0, 0)
    BY <1>2, <1>4, <2>1
  <2>3. up[0] = Int2Q(o) /\ up[1] = Zero /\ up[2] = Zero
    BY <2>2, VecIs DEF Zero
  <2>4. up[0] = Neg(One)
    BY <2>1, <2>3, Signs
  <2>5. PICK u \in Num : u = Neg(One)
    BY NumClosed, Constants
  <2>6. /\ x[0] = Minus(Times(Zero, Zero), Times(c, Zero))
        /\ x[1] = Minus(Times(c, u), Times(Zero, Zero))
        /\ x[2] = Minus(Times(Zero, Zero), Times(Zero, u))
    BY <1>1, <1>2, <1>4, <2>3, <2>4, <2>5
  <2>7. Times(c, u) = Neg(c) /\ Neg(c) \in Num
    BY <2>5, NegTimes, NumClosed, Constants
  <2>8. /\ Times(Zero, Zero) = Zero /\ Times(c, Zero) = Zero /\ Times(Zero, u) = Zero
        /\ Minus(Zero, Zero) = Zero /\ Minus(Neg(c), Zero) = Neg(c)
    BY <2>5, <2>7, Neutral, Constants
  <2>9. x[0] = Zero /\ x[1] = Neg(c) /\ x[2] = Zero
    BY <2>6, <2>7, <2>8
  <2>10. Dot(x, x) = Plus(Plus(Times(Zero, Zero), Times(c, c)), Times(Zero, Zero))
    BY <2>9, NegSquare DEF Dot, Easy_vector_dot, Plus3
  <2>11. Dot(x, x) = Times(c, c)
    BY <2>8, <2>10, Neutral, NumClosed, Constants
  <2>12. Dot(y, y) = Times(c, c)
    BY <1>2, <1>4, Neutral, NumClosed, Constants DEF Dot, Easy_vector_dot, Plus3
  <2> QED
    BY <2>11, <2>12, OneRooted
<1> QED
  BY <1>3, <1>4

\* The horizontal axis of a view or a frame.
LEMMA UpAside ==
    ASSUME NEW up, up[0] = Zero, up[1] = One, up[2] = Zero, NEW z, Three(z),
           NEW x, x = Easy_vector_cross_sse(up, z)
    PROVE  Dot(x, x) = Plus(Times(z[0], z[0]), Times(z[2], z[2]))
<1>1. \A i \in Axis : x[i] = Easy_vector_cross(up, z)[i]
  BY CrossSse
<1>2. /\ x[0] = Minus(Times(up[1], z[2]), Times(up[2], z[1]))
      /\ x[1] = Minus(Times(up[2], z[0]), Times(up[0], z[2]))
      /\ x[2] = Minus(Times(up[0], z[1]), Times(up[1], z[0]))
  BY <1>1, CrossIs, LaneSet
<1>3. PICK a, b, c \in Num : a = z[0] /\ b = z[1] /\ c = z[2]
  BY DEF Three
<1>4. x[0] = c /\ x[1] = Zero /\ x[2] = Neg(a)
  BY <1>2, <1>3, Neutral, NegSquare, Constants
<1>5. PICK i, j \in Num : i = Times(a, a) /\ j = Times(c, c)
  BY NumClosed
<1>6. Dot(x, x) = Plus(Plus(j, Zero), i)
  BY <1>3, <1>4, <1>5, NegSquare, Neutral, Constants DEF Dot, Easy_vector_dot, Plus3
<1> QED
  BY <1>3, <1>5, <1>6, Neutral, PlusCommutes

\* A number divided and multiplied again.
LEMMA Quotients3 ==
    ASSUME NEW a \in Num, NEW l \in Num, l # Zero
    PROVE  Over(a, l) \in Num /\ Times(l, Over(a, l)) = a
<1>1. PICK n, d \in Int : d > 0 /\ Is(a, n, d)
  BY Fraction
<1>2. PICK k, e \in Int : e > 0 /\ Is(l, k, e)
  BY Fraction
<1>3. k # 0
  <2>1. ASSUME k = 0 PROVE FALSE
    BY <1>2, <2>1, ZeroIs, IsEqual
  <2> QED
    BY <2>1
<1>4. PICK b : b = Over(a, l)
  OBVIOUS
<1>5. Is(b, n * e, d * k)
  BY <1>1, <1>2, <1>3, <1>4, OverIs
<1>6. Is(Times(l, b), k * (n * e), e * (d * k))
  BY <1>2, <1>5, TimesIs
<1>7. n * (e * (d * k)) = (k * (n * e)) * d
  BY <1>1, <1>2
<1>8. Is(Times(l, b), n, d)
  BY <1>1, <1>6, <1>7, IsSame
<1> QED
  BY <1>1, <1>4, <1>5, <1>8, IsEqual, IsInts

\* To divide is to multiply by the inverse.
LEMMA OverTimes ==
    ASSUME NEW a \in Num, NEW r \in Num, r # Zero
    PROVE  Over(a, r) = Times(Over(One, r), a) /\ Over(One, r) \in Num
  BY Quotients, Constants

\* c is the vector product of a and b.
Crossed(c, a, b) == \A i \in Axis : c[i] = Easy_vector_cross(a, b)[i]

\* The integers of a vector of length one, and of one at right angles to it.
LEMMA UprightInts ==
    ASSUME NEW a, NEW b, NEW x \in Int, NEW y \in Int, NEW z \in Int, NEW d \in Int, d > 0, Parts(a, x, y, z, d),
           NEW f \in Int, NEW g \in Int, NEW h \in Int, NEW e \in Int, e > 0, Parts(b, f, g, h, e),
           Dot(b, b) = One, Dot(a, b) = Zero
    PROVE  f * f + g * g + h * h = e * e /\ x * f + y * g + z * h = 0
<1>1. PICK m, n : m = f * f + g * g + h * h /\ n = x * f + y * g + z * h
  OBVIOUS
<1>2. Is(One, m, e * e) /\ Is(Zero, n, d * e)
  BY <1>1, DotParts
<1>3. PICK j, w \in Int : j = e * e /\ w = d * e /\ j > 0 /\ w > 0
  OBVIOUS
<1>4. Is(One, j, j) /\ Is(Zero, 0, w)
  BY <1>3, ZeroIs
<1>5. Is(One, m, j) /\ Is(Zero, n, w)
  BY <1>2, <1>3
<1>6. m * j = j * j /\ n * w = 0 * w
  BY <1>4, <1>5, IsCross
<1>7. m \in Int /\ n \in Int
  BY <1>1
<1> QED
  BY <1>1, <1>3, <1>6, <1>7

Twice(x, y, z, f, g, h, s) ==
  /\ g * (x * g - y * f) - h * (z * f - x * h) = x * s
  /\ h * (y * h - z * g) - f * (x * g - y * f) = y * s
  /\ f * (z * f - x * h) - g * (y * h - z * g) = z * s

\* Vector products of products, where factors are at right angles.
LEMMA CrossTwice ==
    ASSUME NEW x \in Int, NEW y \in Int, NEW z \in Int, NEW f \in Int, NEW g \in Int, NEW h \in Int, NEW s \in Int,
           f * f + g * g + h * h = s, x * f + y * g + z * h = 0
    PROVE  Twice(x, y, z, f, g, h, s)
<1>1. /\ g * (x * g - y * f) - h * (z * f - x * h) = x * (f * f + g * g + h * h) - f * (x * f + y * g + z * h)
      /\ h * (y * h - z * g) - f * (x * g - y * f) = y * (f * f + g * g + h * h) - g * (x * f + y * g + z * h)
      /\ f * (z * f - x * h) - g * (y * h - z * g) = z * (f * f + g * g + h * h) - h * (x * f + y * g + z * h)
  OBVIOUS
<1>2. PICK t, o : t = f * f + g * g + h * h /\ o = x * f + y * g + z * h
  OBVIOUS
<1>3. /\ g * (x * g - y * f) - h * (z * f - x * h) = x * t - f * o
      /\ h * (y * h - z * g) - f * (x * g - y * f) = y * t - g * o
      /\ f * (z * f - x * h) - g * (y * h - z * g) = z * t - h * o
  BY <1>1, <1>2
<1>4. t = s /\ o = 0
  BY <1>2
<1>5. x * t - f * o = x * s /\ y * t - g * o = y * s /\ z * t - h * o = z * s
  BY <1>4
<1> QED
  BY <1>3, <1>5 DEF Twice

\* Axes in a right-handed order follow each other round.
LEMMA CrossBack ==
    ASSUME NEW a, NEW b, NEW c, Three(a), Three(b), Dot(b, b) = One, Dot(a, b) = Zero, Crossed(c, a, b)
    PROVE  Crossed(a, b, c)
<1>1. PICK x, y, z, d \in Int : d > 0 /\ Parts(a, x, y, z, d)
  BY ThreeParts
<1>2. PICK f, g, h, e \in Int : e > 0 /\ Parts(b, f, g, h, e)
  BY ThreeParts
<1>3. PICK p, q, r, k : /\ p = CrossX(x, y, z, f, g, h) /\ q = CrossY(x, y, z, f, g, h)
                        /\ r = CrossZ(x, y, z, f, g, h) /\ k = d * e
  OBVIOUS
<1>4. Parts(c, p, q, r, k)
  BY <1>1, <1>2, <1>3, CrossParts DEF Crossed
<1>5. PICK v : v = Easy_vector_cross(b, c)
  OBVIOUS
<1>6. PICK i, j, l : i = CrossX(f, g, h, p, q, r) /\ j = CrossY(f, g, h, p, q, r) /\ l = CrossZ(f, g, h, p, q, r)
  OBVIOUS
<1>7. Parts(v, i, j, l, e * k)
  BY <1>2, <1>4, <1>5, <1>6, CrossParts
<1>8. PICK s \in Int : s = e * e
  BY <1>2
<1>9. f * f + g * g + h * h = s /\ x * f + y * g + z * h = 0
  BY <1>1, <1>2, <1>8, UprightInts
<1>10. i = x * s /\ j = y * s /\ l = z * s
  <2>1. /\ i = g * (x * g - y * f) - h * (z * f - x * h)
        /\ j = h * (y * h - z * g) - f * (x * g - y * f)
        /\ l = f * (z * f - x * h) - g * (y * h - z * g)
    BY <1>3, <1>6 DEF CrossX, CrossY, CrossZ
  <2>2. Twice(x, y, z, f, g, h, s)
    BY <1>9, CrossTwice
  <2> QED
    BY <2>1, <2>2 DEF Twice
<1>11. e * k = d * s /\ s # 0
  BY <1>1, <1>2, <1>3, <1>8
<1>12. Is(v[0], x * s, d * s) /\ Is(v[1], y * s, d * s) /\ Is(v[2], z * s, d * s)
  BY <1>7, <1>10, <1>11 DEF Parts
<1>13. Is(a[0], x * s, d * s) /\ Is(a[1], y * s, d * s) /\ Is(a[2], z * s, d * s)
  <2>1. Is(a[0], x, d) /\ Is(a[1], y, d) /\ Is(a[2], z, d)
    BY <1>1 DEF Parts
  <2> QED
    BY <1>8, <1>11, <2>1, IsScaled, Zenon
<1>14. a[0] = v[0] /\ a[1] = v[1] /\ a[2] = v[2]
  <2>1. PICK m, n, o, w : m = x * s /\ n = y * s /\ o = z * s /\ w = d * s
    OBVIOUS
  <2>2. m \in Int /\ n \in Int /\ o \in Int /\ w \in Int /\ w # 0
    BY <1>1, <1>8, <1>11, <2>1
  <2> QED
    BY <1>12, <1>13, <2>1, <2>2, IsEqual
<1> QED
  BY <1>5, <1>14, LaneSet DEF Crossed

\* Swapping the factors turns the product round, which two swaps undo.
LEMMA CrossOrder ==
    ASSUME NEW a, NEW b, NEW c, Three(a), Three(b), Dot(a, a) = One, Dot(a, b) = Zero, Crossed(c, a, b)
    PROVE  Crossed(b, c, a)
<1>1. PICK x, y, z, d \in Int : d > 0 /\ Parts(a, x, y, z, d)
  BY ThreeParts
<1>2. PICK f, g, h, e \in Int : e > 0 /\ Parts(b, f, g, h, e)
  BY ThreeParts
<1>3. PICK p, q, r, k : /\ p = CrossX(x, y, z, f, g, h) /\ q = CrossY(x, y, z, f, g, h)
                        /\ r = CrossZ(x, y, z, f, g, h) /\ k = d * e
  OBVIOUS
<1>4. Parts(c, p, q, r, k)
  BY <1>1, <1>2, <1>3, CrossParts DEF Crossed
<1>5. PICK v : v = Easy_vector_cross(c, a)
  OBVIOUS
<1>6. PICK i, j, l : i = CrossX(p, q, r, x, y, z) /\ j = CrossY(p, q, r, x, y, z) /\ l = CrossZ(p, q, r, x, y, z)
  OBVIOUS
<1>7. Parts(v, i, j, l, k * d)
  BY <1>1, <1>4, <1>5, <1>6, CrossParts
<1>8. PICK s \in Int : s = d * d
  BY <1>1
<1>9. x * x + y * y + z * z = s /\ f * x + g * y + h * z = 0
  <2>1. Dot(b, a) = Zero
    BY DotCommutes
  <2> QED
    BY <1>1, <1>2, <1>8, <2>1, UprightInts
<1>10. i = f * s /\ j = g * s /\ l = h * s
  <2>1. /\ i = (z * f - x * h) * z - (x * g - y * f) * y
        /\ j = (x * g - y * f) * x - (y * h - z * g) * z
        /\ l = (y * h - z * g) * y - (z * f - x * h) * x
    BY <1>3, <1>6 DEF CrossX, CrossY, CrossZ
  <2>2. /\ i = y * (f * y - g * x) - z * (h * x - f * z)
        /\ j = z * (g * z - h * y) - x * (f * y - g * x)
        /\ l = x * (h * x - f * z) - y * (g * z - h * y)
    BY <1>1, <1>2, <2>1
  <2>3. Twice(f, g, h, x, y, z, s)
    BY <1>9, CrossTwice
  <2> QED
    BY <2>2, <2>3 DEF Twice
<1>11. k * d = e * s /\ s # 0
  BY <1>1, <1>2, <1>3, <1>8
<1>12. Is(v[0], f * s, e * s) /\ Is(v[1], g * s, e * s) /\ Is(v[2], h * s, e * s)
  BY <1>7, <1>10, <1>11 DEF Parts
<1>13. Is(b[0], f * s, e * s) /\ Is(b[1], g * s, e * s) /\ Is(b[2], h * s, e * s)
  <2>1. Is(b[0], f, e) /\ Is(b[1], g, e) /\ Is(b[2], h, e)
    BY <1>2 DEF Parts
  <2> QED
    BY <1>8, <1>11, <2>1, IsScaled, Zenon
<1>14. b[0] = v[0] /\ b[1] = v[1] /\ b[2] = v[2]
  <2>1. PICK m, n, o, w : m = f * s /\ n = g * s /\ o = h * s /\ w = e * s
    OBVIOUS
  <2>2. m \in Int /\ n \in Int /\ o \in Int /\ w \in Int /\ w # 0
    BY <1>2, <1>8, <1>11, <2>1
  <2> QED
    BY <1>12, <1>13, <2>1, <2>2, IsEqual
<1> QED
  BY <1>5, <1>14, LaneSet DEF Crossed

\* A factor taken n times as long takes the product along.
LEMMA CrossTimes ==
    ASSUME NEW a, NEW b, NEW c, Three(a), Three(b), Crossed(c, a, b), NEW s \in Num,
           NEW u, \A i \in Axis : u[i] = Times(s, a[i]), NEW w, \A i \in Axis : w[i] = Times(s, c[i])
    PROVE  Crossed(w, u, b)
<1>1. PICK x, y, z, d \in Int : d > 0 /\ Parts(a, x, y, z, d)
  BY ThreeParts
<1>2. PICK f, g, h, e \in Int : e > 0 /\ Parts(b, f, g, h, e)
  BY ThreeParts
<1>3. PICK n, m \in Int : m > 0 /\ Is(s, n, m)
  BY Fraction
<1>4. PICK p, q, r, k : /\ p = CrossX(x, y, z, f, g, h) /\ q = CrossY(x, y, z, f, g, h)
                        /\ r = CrossZ(x, y, z, f, g, h) /\ k = d * e
  OBVIOUS
<1>5. Parts(c, p, q, r, k)
  BY <1>1, <1>2, <1>4, CrossParts DEF Crossed
<1>6. Parts(w, n * p, n * q, n * r, m * k)
  BY <1>3, <1>5, TimesIs, LaneSet DEF Parts
<1>7. Parts(u, n * x, n * y, n * z, m * d)
  <2>1. Is(a[0], x, d) /\ Is(a[1], y, d) /\ Is(a[2], z, d)
    BY <1>1 DEF Parts
  <2>2. u[0] = Times(s, a[0]) /\ u[1] = Times(s, a[1]) /\ u[2] = Times(s, a[2])
    BY LaneSet
  <2>3. /\ Is(Times(s, a[0]), n * x, m * d) /\ Is(Times(s, a[1]), n * y, m * d)
        /\ Is(Times(s, a[2]), n * z, m * d)
    BY <1>3, <2>1, TimesIs
  <2> QED
    BY <2>2, <2>3 DEF Parts
<1>8. PICK v : v = Easy_vector_cross(u, b)
  OBVIOUS
<1>9. PICK i, j, l, o : i = n * x /\ j = n * y /\ l = n * z /\ o = m * d
  OBVIOUS
<1>10. Parts(v, CrossX(i, j, l, f, g, h), CrossY(i, j, l, f, g, h), CrossZ(i, j, l, f, g, h), o * e)
  BY <1>2, <1>7, <1>8, <1>9, CrossParts
<1>11. /\ CrossX(i, j, l, f, g, h) = n * p /\ CrossY(i, j, l, f, g, h) = n * q /\ CrossZ(i, j, l, f, g, h) = n * r
       /\ o * e = m * k
  BY <1>1, <1>2, <1>3, <1>4, <1>9 DEF CrossX, CrossY, CrossZ
<1>12. Parts(v, n * p, n * q, n * r, m * k)
  BY <1>10, <1>11
<1>13. w[0] = v[0] /\ w[1] = v[1] /\ w[2] = v[2]
  BY <1>6, <1>12, IsEqual DEF Parts
<1> QED
  BY <1>8, <1>13, LaneSet DEF Crossed

\* The same for a factor that is divided.
LEMMA CrossOver ==
    ASSUME NEW a, NEW b, NEW c, Three(a), Three(b), Crossed(c, a, b), NEW r \in Num, r # Zero,
           NEW u, \A i \in Axis : u[i] = Over(a[i], r), NEW w, \A i \in Axis : w[i] = Over(c[i], r)
    PROVE  Crossed(w, u, b)
<1>1. PICK s \in Num : s = Over(One, r)
  BY OverTimes, Constants
<1>2. Three(c)
  BY CrossUpright DEF Crossed
<1>3. \A i \in Axis : a[i] \in Num /\ c[i] \in Num
  BY <1>2, LaneSet DEF Three
<1>4. \A i \in Axis : u[i] = Times(s, a[i]) /\ w[i] = Times(s, c[i])
  BY <1>1, <1>3, OverTimes
<1> QED
  BY <1>1, <1>4, CrossTimes

\* How far one looks is the length along the direction one looks in.
LEMMA SightLength ==
    ASSUME NEW d, Three(d), Rooted(d), NEW r, r = SqrtQ(Dot(d, d)),
           NEW y, \A i \in Axis : y[i] = Over(d[i], r)
    PROVE  /\ r \in Num /\ r # Zero /\ Three(y) /\ Dot(d, y) = r /\ Dot(y, d) = r
           /\ \A w : Three(w) /\ Dot(y, w) = Zero => Dot(d, w) = Zero
<1>1. Dot(d, d) \in Num
  BY DotCommutes
<1>2. r \in Num /\ r # Zero /\ Times(r, r) = Dot(d, d)
  BY <1>1, SqrtSquares DEF Rooted
<1>3. Three(y)
  BY NormalNumbers
<1>4. ASSUME NEW w, Three(w) PROVE Dot(y, w) = Over(Dot(d, w), r)
  BY <1>2, <1>4, DotOver
<1>5. Over(Times(r, r), r) = r
  <2>1. PICK a, b \in Int : b > 0 /\ Is(r, a, b)
    BY <1>2, Fraction
  <2>2. PICK i \in Num : i = Times(r, r)
    BY <1>2, NumClosed
  <2>3. Times(r, Over(i, r)) = i /\ Over(i, r) \in Num
    BY <1>2, <2>2, Quotients3
  <2>4. Over(i, r) = Times(Over(One, r), i) /\ Over(One, r) \in Num
    BY <1>2, <2>2, OverTimes
  <2>5. PICK o \in Num : o = Over(One, r)
    BY <2>4
  <2>6. Times(o, Times(r, r)) = Times(Times(o, r), r)
    BY <1>2, <2>5, TimesAssociates
  <2>7. Times(o, r) = One
    BY <1>2, <2>5, Quotients
  <2> QED
    BY <1>2, <2>2, <2>4, <2>5, <2>6, <2>7, Neutral
<1>6. Dot(y, d) = r
  BY <1>2, <1>4, <1>5
<1>7. Dot(d, y) = r
  BY <1>3, <1>6, DotCommutes
<1>8. ASSUME NEW w, Three(w), Dot(y, w) = Zero PROVE Dot(d, w) = Zero
  <2>1. PICK n \in Num : n = Dot(d, w)
    BY <1>8, DotCommutes
  <2>2. Over(n, r) = Zero
    BY <1>4, <1>8, <2>1
  <2>3. Times(r, Over(n, r)) = n
    BY <1>2, <2>1, Quotients3
  <2> QED
    BY <1>2, <2>1, <2>2, <2>3, Neutral
<1> QED
  BY <1>2, <1>3, <1>6, <1>7, <1>8

\* What columns make of a vector.
LEMMA ColumnsTake ==
    ASSUME NEW a, NEW b, NEW c, Three(a), Three(b), Three(c), NEW m, m = Columns(a, b, c), NEW v, Three(v)
    PROVE  Image(m, v, 0) = Dot(a, v) /\ Image(m, v, 1) = Dot(b, v) /\ Image(m, v, 2) = Dot(c, v)
<1>1. /\ m[0] = Ps(a[0], b[0], c[0], Zero) /\ m[1] = Ps(a[1], b[1], c[1], Zero)
      /\ m[2] = Ps(a[2], b[2], c[2], Zero) /\ m[3] = IdentityMatrix[3]
  BY PsAt DEF Columns, Lanes
<1>2. m[3][0] = Zero /\ m[3][1] = Zero /\ m[3][2] = Zero
  BY <1>1, IdentityIs, LaneSet
<1>3. /\ m[0][0] = a[0] /\ m[1][0] = a[1] /\ m[2][0] = a[2]
      /\ m[0][1] = b[0] /\ m[1][1] = b[1] /\ m[2][1] = b[2]
      /\ m[0][2] = c[0] /\ m[1][2] = c[1] /\ m[2][2] = c[2]
  BY <1>1, PsAt
<1>4. Dot(a, v) \in Num /\ Dot(b, v) \in Num /\ Dot(c, v) \in Num
  BY DotCommutes
<1>5. Image(m, v, 0) = Plus(Dot(a, v), Zero)
  BY <1>2, <1>3 DEF Image, Plus4, Plus3, Dot, Easy_vector_dot
<1>6. Image(m, v, 1) = Plus(Dot(b, v), Zero)
  BY <1>2, <1>3 DEF Image, Plus4, Plus3, Dot, Easy_vector_dot
<1>7. Image(m, v, 2) = Plus(Dot(c, v), Zero)
  BY <1>2, <1>3 DEF Image, Plus4, Plus3, Dot, Easy_vector_dot
<1> QED
  BY <1>4, <1>5, <1>6, <1>7, Neutral

\* Right-handed axes make right-handed columns.
LEMMA ColumnsHanded ==
    ASSUME NEW a, NEW b, NEW c, Three(a), Three(b), Three(c), NEW m, m = Columns(a, b, c),
           Crossed(c, a, b), Crossed(a, b, c), Crossed(b, c, a)
    PROVE  Crossed(m[2], m[0], m[1])
<1>1. /\ m[0] = Ps(a[0], b[0], c[0], Zero) /\ m[1] = Ps(a[1], b[1], c[1], Zero)
      /\ m[2] = Ps(a[2], b[2], c[2], Zero)
  BY PsAt DEF Columns, Lanes
<1>2. PICK u, v, w : u = m[0] /\ v = m[1] /\ w = m[2]
  OBVIOUS
<1>3. /\ u[0] = a[0] /\ v[0] = a[1] /\ w[0] = a[2]
      /\ u[1] = b[0] /\ v[1] = b[1] /\ w[1] = b[2]
      /\ u[2] = c[0] /\ v[2] = c[1] /\ w[2] = c[2]
  BY <1>1, <1>2, PsAt
<1>4. /\ a[2] = Minus(Times(b[0], c[1]), Times(b[1], c[0]))
      /\ b[2] = Minus(Times(c[0], a[1]), Times(c[1], a[0]))
      /\ c[2] = Minus(Times(a[0], b[1]), Times(a[1], b[0]))
  BY CrossIs, LaneSet DEF Crossed
<1>5. /\ Times(b[1], c[0]) = Times(c[0], b[1]) /\ Times(c[1], a[0]) = Times(a[0], c[1])
      /\ Times(a[1], b[0]) = Times(b[0], a[1])
  BY TimesCommutes DEF Three
<1>6. /\ Easy_vector_cross(u, v)[0] = Minus(Times(u[1], v[2]), Times(u[2], v[1]))
      /\ Easy_vector_cross(u, v)[1] = Minus(Times(u[2], v[0]), Times(u[0], v[2]))
      /\ Easy_vector_cross(u, v)[2] = Minus(Times(u[0], v[1]), Times(u[1], v[0]))
  BY CrossIs
<1>7. /\ w[0] = Easy_vector_cross(u, v)[0] /\ w[1] = Easy_vector_cross(u, v)[1]
      /\ w[2] = Easy_vector_cross(u, v)[2]
  BY <1>3, <1>4, <1>5, <1>6
<1> QED
  BY <1>2, <1>7, LaneSet DEF Crossed

\* Rows that are right-handed, as the property has it.
LEMMA HandedRows ==
    ASSUME NEW u, NEW v, NEW w, Crossed(w, u, v)
    PROVE  Easy_vector_cross(u, v) = Easy_vector_copy_out(w)
<1>1. Easy_vector_cross(u, v) = [i \in Axis |-> Easy_vector_cross(u, v)[i]]
  BY CrossIs
<1>2. Easy_vector_copy_out(w) = [i \in Axis |-> w[i]]
  BY XYZAt
<1> QED
  BY <1>1, <1>2 DEF Crossed

\* The rows of a matrix in a right-handed order.
Handed(m) == Crossed(m[2], m[0], m[1])

\* Axes at right angles as the columns of a rotation, right-handed like them.
LEMMA AxesHanded ==
    ASSUME NEW x, NEW y, NEW z, Upright(x, y, z), Crossed(z, x, y)
    PROVE  Turning(Columns(x, y, z)) /\ Handed(Columns(x, y, z))
<1>1. Crossed(x, y, z) /\ Crossed(y, z, x)
  BY CrossBack, CrossOrder DEF Upright
<1> QED
  BY <1>1, UprightColumns, ColumnsHanded DEF Upright, Handed

\* The axes of a camera are at right angles and right-handed, straight up and
\* down included.
LEMMA CameraAxesAre ==
    ASSUME NEW pos \in V3, NEW tgt \in V3, Rooted(Easy_vector_sub(tgt, pos)),
           NEW dir, dir = Unit(Easy_vector_sub(tgt, pos)), IsNumber(Side(dir[0], dir[1]))
    PROVE  \E x, z : CameraAxes(pos, tgt) = Columns(x, dir, z) /\ Upright(x, dir, z) /\ Crossed(z, x, dir)
<1>1. PICK d : d = Easy_vector_sub(tgt, pos)
  OBVIOUS
<1>2. Three(d) /\ Rooted(d)
  BY <1>1, LaneSet, NumClosed DEF Easy_vector_sub, XYZ, V3, Three
<1>3. PICK y : y = Unit(d)
  OBVIOUS
<1>4. PICK up : up = IF y[0] # Zero \/ y[1] # Zero THEN Vec(0, 0, 1, 0) ELSE Vec(-1, 0, 0, 0)
  OBVIOUS
<1>5. PICK x0 : x0 = Easy_vector_cross(y, up)
  OBVIOUS
<1>6. PICK z0 : z0 = Easy_vector_cross(x0, y)
  OBVIOUS
<1>7. PICK x, z : x = Unit(x0) /\ z = Unit(z0)
  OBVIOUS
<1>8. CameraAxes(pos, tgt) = Columns(x, y, z)
  BY <1>1, <1>3, <1>4, <1>5, <1>6, <1>7 DEF CameraAxes, AxesAlong
<1>9. Three(y)
  BY <1>2, <1>3, UnitLanes
<1>10. Dot(y, y) = One /\ IsNumber(Side(y[0], y[1]))
  BY <1>1, <1>2, <1>3, <1>9, Unturned
<1>11. Three(up)
  <2>1. \A a, b, c \in Int : Three(Vec(a, b, c, 0))
    BY VecIs, Constants DEF Three
  <2>2. PICK o \in Int : o = -1
    OBVIOUS
  <2>3. Three(Vec(0, 0, 1, 0)) /\ Three(Vec(o, 0, 0, 0))
    BY <2>1
  <2> QED
    BY <1>4, <2>2, <2>3
<1>12. Three(x0) /\ Dot(x0, y) = Zero
  BY <1>5, <1>9, <1>11, CrossUpright
<1>13. Rooted(x0)
  BY <1>4, <1>5, <1>9, <1>10, CameraAside
<1>14. Three(z0) /\ Dot(z0, x0) = Zero /\ Dot(z0, y) = Zero
  BY <1>6, <1>9, <1>12, CrossUpright
<1>15. Rooted(z0) /\ Dot(z0, z0) = Dot(x0, x0)
  <2>1. Dot(z0, z0) = Dot(x0, x0)
    BY <1>6, <1>9, <1>10, <1>12, LagrangeUpright
  <2> QED
    BY <1>13, <2>1 DEF Rooted
<1>16. Three(x) /\ Three(z)
  BY <1>7, <1>12, <1>13, <1>14, <1>15, UnitLanes
<1>17. Dot(x, x) = One /\ Dot(x, y) = Zero
  BY <1>7, <1>9, <1>12, <1>16, Unturned
<1>18. Dot(z, z) = One /\ Dot(z, y) = Zero /\ Dot(y, z) = Zero /\ Dot(x0, z) = Zero
  BY <1>7, <1>9, <1>12, <1>14, <1>16, Unturned
<1>19. Dot(x, z) = Zero
  BY <1>7, <1>12, <1>16, <1>18, Unturned
<1>20. Crossed(z, x, y)
  <2>1. PICK r : r = SqrtQ(Dot(x0, x0))
    OBVIOUS
  <2>2. r \in Num /\ r # Zero
    BY <1>12, <1>13, <2>1, DotCommutes, SqrtSquares DEF Rooted
  <2>3. (\A i \in Axis : x[i] = Over(x0[i], r)) /\ \A i \in Axis : z[i] = Over(z0[i], r)
    BY <1>7, <1>12, <1>14, <1>15, <2>1, UnitLanes
  <2>4. Crossed(z0, x0, y)
    BY <1>6 DEF Crossed
  <2> QED
    BY <1>9, <1>12, <2>2, <2>3, <2>4, CrossOver
<1>21. y = dir /\ Upright(x, y, z)
  BY <1>1, <1>3, <1>9, <1>10, <1>16, <1>17, <1>18, <1>19 DEF Upright
<1> QED
  BY <1>8, <1>20, <1>21

\* They make a rotation.
LEMMA CameraTurning ==
    ASSUME NEW pos \in V3, NEW tgt \in V3, Rooted(Easy_vector_sub(tgt, pos)),
           NEW dir, dir = Unit(Easy_vector_sub(tgt, pos)), IsNumber(Side(dir[0], dir[1]))
    PROVE  Turning(CameraAxes(pos, tgt)) /\ Handed(CameraAxes(pos, tgt))
  BY CameraAxesAre, AxesHanded

\* The rotation about the y axis that rolls a camera.
LEMMA RolledIs ==
    ASSUME NEW half, IsHalf(half)
    PROVE  \E r : /\ IsUnit(r) /\ r[0] = Zero /\ r[2] = Zero
                  /\ Easy_matrix_rotate(IdentityMatrix, half, Vec(0, 1, 0, 0)) = RotationOf(r)
<1>1. PICK v : v = Vec(0, 1, 0, 0)
  OBVIOUS
<1>2. v[0] = Zero /\ v[1] = One /\ v[2] = Zero
  BY <1>1, VecIs DEF Zero, One
<1>3. PICK a : a = V3Q(Zero, One, Zero)
  OBVIOUS
<1>4. a \in V3 /\ a[0] = Zero /\ a[1] = One /\ a[2] = Zero
  BY <1>3, Constants, LaneSet DEF V3Q, V3
<1>5. Easy_vector_dot(a, a) = One
  BY <1>4, Neutral, Constants DEF Easy_vector_dot, Plus3
<1>6. PICK r : r = Easy_quat_axis_angle(a, half)
  OBVIOUS
<1>7. r \in V4 /\ Length2(r) = One
  BY <1>4, <1>5, <1>6, UnitOne, AxisAngleIs
<1>8. Easy_quat_axis_angle(v, half) = r
  BY <1>2, <1>4, <1>6 DEF Easy_quat_axis_angle, Easy_vector_dot
<1>9. Easy_matrix_rotate_quat(IdentityMatrix, r) = Mul(RotationOf(r), IdentityMatrix) /\ RotationOf(r) \in M4
  BY <1>7, RotateQuatIs, UnitOne, IdentityIs
<1>10. Easy_matrix_rotate_quat(IdentityMatrix, r) = RotationOf(r)
  BY <1>9, MulIdentity
<1>11. r[0] = Zero /\ r[2] = Zero
  <2>1. SqrtQ(Easy_vector_dot(a, a)) = One /\ ~Less(One, Q(1, 100000))
    BY <1>5, RootOne, UnitOne DEF Tiny
  <2>2. PICK s : s = Over(Neg(half.sin), One)
    OBVIOUS
  <2>3. s \in Num
    BY <2>2, OverOne, NumClosed DEF IsHalf
  <2>4. r = Ps(Times(s, Zero), Times(s, One), Times(s, Zero), half.cos)
    BY <1>4, <1>6, <2>1, <2>2 DEF Easy_quat_axis_angle
  <2> QED
    BY <2>3, <2>4, PsAt, Neutral
<1> QED
  BY <1>1, <1>7, <1>8, <1>10, <1>11 DEF Easy_matrix_rotate, IsUnit

\* It is a turn.
LEMMA RolledTurning ==
    ASSUME NEW half, IsHalf(half)
    PROVE  Turning(Easy_matrix_rotate(IdentityMatrix, half, Vec(0, 1, 0, 0)))
  BY RolledIs, UnitTurning

\* A move before the rest changes the last row only.
LEMMA TranslatedFrame ==
    ASSUME NEW m, Affine(m), NEW v, Three(v), NEW n, n = Easy_matrix_translate_Internal(m, v)
    PROVE  Affine(n) /\ Block(n, m) /\ n[3] = TranslatedRow(m, v) /\ IsReg(n[3])
<1>1. PICK r : r = TranslatedRow(m, v)
  OBVIOUS
<1>2. PICK k : k = [m EXCEPT ![3] = r]
  OBVIOUS
<1>3. n = k /\ r \in V4 /\ r[3] = m[3][3] /\ m \in M4
  BY <1>1, <1>2, TranslateInternalIs, TranslatedRowIs DEF Affine, Three
<1>4. r \in V4 /\ m \in M4
  BY <1>3
<1>5. k \in M4 /\ k[3] = r /\ \A j \in {0, 1, 2} : k[j] = m[j]
  BY <1>2, <1>4, LaneSet DEF M4
<1>6. n \in M4 /\ n[3] = r /\ \A j \in {0, 1, 2} : n[j] = m[j]
  BY <1>3, <1>5
<1> QED
  BY <1>1, <1>3, <1>6, V4Reg, LaneSet DEF Affine, Block

\* A move after the rest adds to the last row.
LEMMA MovedFrame ==
    ASSUME NEW m, Affine(m), NEW v, Three(v), NEW n, n = Easy_matrix_translate_External(m, v)
    PROVE  /\ Affine(n) /\ Block(n, m) /\ n[3][3] = m[3][3]
           /\ \A i \in Axis : n[3][i] = Plus(m[3][i], v[i])
<1>1. PICK r : r = Ps(Plus(m[3][0], v[0]), Plus(m[3][1], v[1]), Plus(m[3][2], v[2]), m[3][3])
  OBVIOUS
<1>2. m \in M4 /\ \A i \in Lane : m[3][i] \in Num
  BY M4Rows DEF Affine
<1>3. r \in V4 /\ r[3] = m[3][3] /\ \A i \in Axis : r[i] = Plus(m[3][i], v[i])
  <2>1. /\ r[3] = m[3][3] /\ r[0] = Plus(m[3][0], v[0]) /\ r[1] = Plus(m[3][1], v[1])
        /\ r[2] = Plus(m[3][2], v[2]) /\ IsReg(r)
    BY <1>1, PsAt, PsReg
  <2>2. ASSUME NEW i \in Axis PROVE r[i] \in Num /\ r[i] = Plus(m[3][i], v[i])
    <3>1. m[3][i] \in Num /\ v[i] \in Num /\ r[i] = Plus(m[3][i], v[i])
      BY <1>2, <2>1, <2>2, LaneSet DEF Three
    <3> QED
      BY <3>1, NumClosed
  <2> QED
    BY <1>2, <2>1, <2>2, V4Reg, LaneSet
<1>4. PICK k : k = [m EXCEPT ![3] = r]
  OBVIOUS
<1>5. n = k
  BY <1>1, <1>2, <1>4, M4Rows DEF Easy_matrix_translate_External, IsReg, Lane
<1>6. k \in M4 /\ k[3] = r /\ \A j \in {0, 1, 2} : k[j] = m[j]
  BY <1>2, <1>3, <1>4, LaneSet DEF M4
<1>7. n \in M4 /\ n[3] = r /\ \A j \in {0, 1, 2} : n[j] = m[j]
  BY <1>5, <1>6
<1> QED
  BY <1>3, <1>7, LaneSet DEF Affine, Block

\* A camera moves its position away, then turns, then rolls.
LEMMA CameraIs ==
    ASSUME NEW pos \in V3, NEW tgt \in V3, Turning(CameraAxes(pos, tgt)), NEW half, IsHalf(half)
    PROVE  \E r, v : /\ IsUnit(r) /\ r[0] = Zero /\ r[2] = Zero
                     /\ v \in V3 /\ \A i \in Axis : v[i] = Neg(pos[i])
                     /\ Easy_matrix_camera_roll(pos, tgt, half)
                          = Easy_matrix_translate_Internal(Mul(CameraAxes(pos, tgt), RotationOf(r)), v)
<1>1. PICK r : /\ IsUnit(r) /\ r[0] = Zero /\ r[2] = Zero
               /\ Easy_matrix_rotate(IdentityMatrix, half, Vec(0, 1, 0, 0)) = RotationOf(r)
  BY RolledIs
<1>2. PICK R, C : R = RotationOf(r) /\ C = CameraAxes(pos, tgt)
  OBVIOUS
<1>3. Turning(R) /\ R \in M4 /\ C \in M4
  BY <1>1, <1>2, UnitTurning DEF Turning, Linear, Affine
<1>4. PICK mem : mem = [matrix |-> R, M |-> C]
  OBVIOUS
<1>5. mem \in [{"matrix", "M"} -> M4] /\ mem["matrix"] = R /\ mem["M"] = C
  BY <1>3, <1>4
<1>6. Easy_matrix_mult(mem, "matrix", "matrix", "M") = [mem EXCEPT !["matrix"] = Mul(C, R)]
  BY <1>5, ProductInPlace
<1>7. [mem EXCEPT !["matrix"] = Mul(C, R)].matrix = Mul(C, R)
  BY <1>5
<1>8. PICK v : v = XYZ(LAMBDA i : Neg(pos[i]))
  OBVIOUS
<1>9. v \in V3 /\ \A i \in Axis : v[i] = Neg(pos[i])
  BY <1>8, NumClosed, LaneSet DEF XYZ, V3
<1>10. Easy_matrix_camera_roll(pos, tgt, half) = Easy_matrix_translate_Internal(Mul(C, R), v)
  BY <1>1, <1>2, <1>4, <1>6, <1>7, <1>8 DEF Easy_matrix_camera_roll
<1> QED
  BY <1>1, <1>2, <1>9, <1>10

\* It is a rigid motion.
LEMMA CameraFrame ==
    ASSUME NEW pos \in V3, NEW tgt \in V3, Turning(CameraAxes(pos, tgt)), NEW half, IsHalf(half)
    PROVE  IsFrame(Easy_matrix_camera_roll(pos, tgt, half))
<1>1. PICK r, v : /\ IsUnit(r) /\ v \in V3
                  /\ Easy_matrix_camera_roll(pos, tgt, half)
                       = Easy_matrix_translate_Internal(Mul(CameraAxes(pos, tgt), RotationOf(r)), v)
  BY CameraIs
<1>2. PICK m : m = Mul(CameraAxes(pos, tgt), RotationOf(r))
  OBVIOUS
<1>3. Turning(m) /\ Affine(m) /\ Three(v)
  BY <1>1, <1>2, UnitTurning, MulTurning, LaneSet DEF Three, V3, Turning, Linear
<1> QED
  BY <1>1, <1>2, <1>3, TranslatedFrame DEF IsFrame

\* The lanes of the vector product of two registers.
LEMMA CrossLanes ==
    ASSUME NEW a, NEW b, NEW c, c = Easy_vector_cross_sse(a, b), Three(a), Three(b)
    PROVE  /\ Three(c) /\ Dot(c, a) = Zero /\ Dot(c, b) = Zero
           /\ Dot(a, a) = One /\ Dot(b, b) = One /\ Dot(a, b) = Zero => Dot(c, c) = One
<1>1. \A i \in Axis : c[i] = Easy_vector_cross(a, b)[i]
  BY CrossSse
<1> QED
  BY <1>1, CrossUpright

\* Rows at right angles and of length 1 make a turn.
LEMMA RowsTurning ==
    ASSUME NEW a, NEW b, NEW c, Upright(a, b, c), IsReg(a), IsReg(b), IsReg(c),
           a[3] = Zero, b[3] = Zero, c[3] = Zero,
           NEW m, m = Rows(a, b, c, IdentityMatrix[3])
    PROVE  Turning(m)
<1>1. PICK d : d = IdentityMatrix[3]
  OBVIOUS
<1>2. IsReg(d) /\ d[0] = Zero /\ d[1] = Zero /\ d[2] = Zero /\ d[3] = One
  BY <1>1, IdentityIs, M4Rows, LaneSet
<1>3. IsMat(m) /\ m[0] = a /\ m[1] = b /\ m[2] = c /\ m[3] = d
  BY <1>1, <1>2, RowsMat
<1>4. \A i \in Axis : m[0][i] = a[i] /\ m[1][i] = b[i] /\ m[2][i] = c[i]
  BY <1>3
<1>5. \A j \in Lane : /\ m[j][3] = IF j = 3 THEN One ELSE Zero
                      /\ m[3][j] = IF j = 3 THEN One ELSE Zero
  BY <1>2, <1>3, LaneSet
<1> QED
  BY <1>3, <1>4, <1>5, UprightRows

\* A quarter turn about the x axis.
LEMMA QuarterTurning ==
    ASSUME NEW a, NEW b, NEW c, NEW s \in {One, Neg(One)}, IsReg(a), IsReg(b), IsReg(c),
           a[0] = One, a[1] = Zero, a[2] = Zero, a[3] = Zero,
           b[0] = Zero, b[1] = Zero, b[2] = s, b[3] = Zero,
           c[0] = Zero, c[1] = Neg(s), c[2] = Zero, c[3] = Zero,
           NEW m, m = Rows(a, b, c, IdentityMatrix[3])
    PROVE  Turning(m) /\ Handed(m) /\ m[2] = c
<1>1. /\ s \in Num /\ Neg(s) \in Num /\ Times(s, s) = One /\ Times(Neg(s), Neg(s)) = One
  BY Signs, Constants, NumClosed, Neutral
<1>2. Three(a) /\ Three(b) /\ Three(c)
  BY <1>1, Constants DEF Three
<1>3. /\ Times(Zero, s) = Zero /\ Times(s, Zero) = Zero /\ Times(Zero, Neg(s)) = Zero
      /\ Times(Zero, Zero) = Zero /\ Times(One, Zero) = Zero /\ Times(One, One) = One
      /\ Plus(Zero, Zero) = Zero /\ Plus(Zero, One) = One /\ Plus(One, Zero) = One
  BY <1>1, Constants, Neutral
<1>4. /\ Dot(a, a) = One /\ Dot(b, b) = One /\ Dot(c, c) = One
      /\ Dot(a, b) = Zero /\ Dot(a, c) = Zero /\ Dot(b, c) = Zero
  BY <1>1, <1>3 DEF Dot, Easy_vector_dot, Plus3
<1>5. Upright(a, b, c)
  BY <1>2, <1>4 DEF Upright
<1>6. Crossed(c, a, b)
  <2>1. /\ Easy_vector_cross(a, b)[0] = Minus(Times(Zero, s), Times(Zero, Zero))
        /\ Easy_vector_cross(a, b)[1] = Minus(Times(Zero, Zero), Times(One, s))
        /\ Easy_vector_cross(a, b)[2] = Minus(Times(One, Zero), Times(Zero, Zero))
    BY CrossIs
  <2>2. Times(One, s) = s /\ Minus(Zero, s) = Neg(s) /\ Minus(Zero, Zero) = Zero
    BY <1>1, Neutral, NegSquare, Constants
  <2> QED
    BY <1>3, <2>1, <2>2, LaneSet DEF Crossed
<1>7. m[0] = a /\ m[1] = b /\ m[2] = c
  BY PsAt DEF Rows
<1> QED
  BY <1>5, <1>6, <1>7, RowsTurning DEF Handed

\* The two frames of Easy_PosTo for straight up and down, and TurnYZ.
LEMMA QuartersTurning ==
    ASSUME NEW m, m = Rows(Vec(1, 0, 0, 0), Vec(0, 0, 1, 0), Vec(0, -1, 0, 0), IdentityMatrix[3]),
           NEW n, n = Rows(Vec(1, 0, 0, 0), Vec(0, 0, -1, 0), Vec(0, 1, 0, 0), IdentityMatrix[3])
    PROVE  /\ Turning(m) /\ Handed(m) /\ m[2][0] = Zero /\ m[2][1] = Neg(One) /\ m[2][2] = Zero
           /\ Turning(n) /\ Handed(n) /\ n[2][0] = Zero /\ n[2][1] = One /\ n[2][2] = Zero
<1>1. PICK a, b, c : a = Vec(1, 0, 0, 0) /\ b = Vec(0, 0, 1, 0) /\ c = Vec(0, 1, 0, 0)
  OBVIOUS
<1>2. PICK d, e : d = Vec(0, -1, 0, 0) /\ e = Vec(0, 0, -1, 0)
  OBVIOUS
<1>3. /\ IsReg(a) /\ a[0] = One /\ a[1] = Zero /\ a[2] = Zero /\ a[3] = Zero
      /\ IsReg(b) /\ b[0] = Zero /\ b[1] = Zero /\ b[2] = One /\ b[3] = Zero
      /\ IsReg(c) /\ c[0] = Zero /\ c[1] = One /\ c[2] = Zero /\ c[3] = Zero
  BY <1>1, VecIs, Signs
<1>4. /\ IsReg(d) /\ d[0] = Zero /\ d[1] = Neg(One) /\ d[2] = Zero /\ d[3] = Zero
      /\ IsReg(e) /\ e[0] = Zero /\ e[1] = Zero /\ e[2] = Neg(One) /\ e[3] = Zero
  BY <1>2, VecIs, Signs
<1>5. Turning(m) /\ Handed(m) /\ m[2] = d
  <2>1. m = Rows(a, b, d, IdentityMatrix[3])
    BY <1>1, <1>2
  <2> QED
    BY <1>3, <1>4, <2>1, QuarterTurning
<1>6. Neg(Neg(One)) = One
  BY Neutral, Constants
<1>7. Turning(n) /\ Handed(n) /\ n[2] = c
  <2>1. n = Rows(a, e, c, IdentityMatrix[3])
    BY <1>1, <1>2
  <2> QED
    BY <1>3, <1>4, <1>6, <2>1, QuarterTurning
<1> QED
  BY <1>3, <1>4, <1>5, <1>7

\* A register with a zero put into its last lane.
LEMMA Cleared ==
    ASSUME NEW v, IsReg(v), NEW u, u = [v EXCEPT ![3] = Zero]
    PROVE  IsReg(u) /\ u[0] = v[0] /\ u[1] = v[1] /\ u[2] = v[2] /\ u[3] = Zero
<1>1. PICK k, w : k = 3 /\ w = Zero
  OBVIOUS
<1>2. k \in Lane
  BY <1>1, LaneSet
<1>3. PICK p : p = Put(v, k, w)
  OBVIOUS
<1>4. IsReg(p) /\ p[k] = w /\ \A i \in Lane : i # k => p[i] = v[i]
  BY <1>2, <1>3, PutIs
<1>5. p = u
  BY <1>1, <1>3 DEF Put
<1> QED
  BY <1>1, <1>4, <1>5, LaneSet

\* The axes of Easy_ViewTo are at right angles and right-handed.
LEMMA ViewAxesAre ==
    ASSUME NEW from \in V3, NEW to \in V3, Rooted(Easy_vector_sub(from, to)),
           NEW dir, dir = Unit(Easy_vector_sub(from, to)), IsNumber(Side(dir[0], dir[2])),
           Side(dir[0], dir[2]) # Zero,
           NEW src, src = Easy_vector_copy(from, One), NEW tgt, tgt = Easy_vector_copy(to, One)
    PROVE  \E x, y, z : /\ Easy_ViewTo(src, tgt) = Columns(x, y, z) /\ Upright(x, y, z) /\ Crossed(z, x, y)
                        /\ \A i \in Axis : z[i] = dir[i]
<1>1. PICK d0 : d0 = subps(src, tgt)
  OBVIOUS
<1>2. PICK d : d = [d0 EXCEPT ![3] = Zero]
  OBVIOUS
<1>3. PICK e : e = Easy_vector_sub(from, to)
  OBVIOUS
<1>4. Three(d) /\ Three(e) /\ Dot(d, d) = Dot(e, e) /\ d[0] = e[0] /\ d[1] = e[1] /\ d[2] = e[2]
  <2>1. /\ src[0] = from[0] /\ src[1] = from[1] /\ src[2] = from[2]
        /\ tgt[0] = to[0] /\ tgt[1] = to[1] /\ tgt[2] = to[2]
    BY PsAt DEF Easy_vector_copy
  <2>2. IsReg(d0) /\ d0[0] = Minus(src[0], tgt[0]) /\ d0[1] = Minus(src[1], tgt[1]) /\ d0[2] = Minus(src[2], tgt[2])
    BY <1>1, Lanewise, LaneSet
  <2>3. d[0] = d0[0] /\ d[1] = d0[1] /\ d[2] = d0[2]
    BY <1>2, <2>2, Cleared
  <2>4. /\ e[0] = Minus(from[0], to[0]) /\ e[1] = Minus(from[1], to[1]) /\ e[2] = Minus(from[2], to[2])
    BY <1>3, LaneSet DEF Easy_vector_sub, XYZ
  <2>5. e[0] \in Num /\ e[1] \in Num /\ e[2] \in Num
    BY <2>4, NumClosed, LaneSet DEF V3
  <2> QED
    BY <2>1, <2>2, <2>3, <2>4, <2>5 DEF Three, Dot, Easy_vector_dot
<1>5. PICK z : z = Easy_vector_normalize_sse(d)
  OBVIOUS
<1>6. PICK up : up = Vec(0, 1, 0, 0)
  OBVIOUS
<1>7. PICK x0 : x0 = Easy_vector_cross_sse(up, z)
  OBVIOUS
<1>8. PICK x : x = Easy_vector_normalize_sse(x0)
  OBVIOUS
<1>9. PICK y : y = Easy_vector_cross_sse(z, x)
  OBVIOUS
<1>10. Easy_ViewTo(src, tgt) = Columns(x, y, z)
  BY <1>1, <1>2, <1>5, <1>6, <1>7, <1>8, <1>9 DEF Easy_ViewTo
<1>11. Three(z) /\ z[0] = dir[0] /\ z[1] = dir[1] /\ z[2] = dir[2]
  <2>1. \A i \in Axis : z[i] = Over(d[i], SqrtQ(Dot(d, d)))
    BY <1>4, <1>5, NormalLanes
  <2>2. \A i \in Axis : dir[i] = Over(e[i], SqrtQ(Dot(e, e)))
    BY <1>3, <1>4, UnitLanes
  <2>3. z[0] = dir[0] /\ z[1] = dir[1] /\ z[2] = dir[2]
    BY <1>4, <2>1, <2>2, LaneSet
  <2>4. Three(dir)
    BY <1>3, <1>4, UnitLanes
  <2> QED
    BY <2>3, <2>4 DEF Three
<1>12. up[0] = Zero /\ up[1] = One /\ up[2] = Zero /\ Three(up)
  BY <1>6, VecIs, Constants DEF Three, Zero, One
<1>13. Three(x0) /\ Dot(x0, z) = Zero
  BY <1>7, <1>11, <1>12, CrossLanes
<1>14. Dot(x0, x0) = Plus(Times(z[0], z[0]), Times(z[2], z[2]))
  BY <1>7, <1>11, <1>12, UpAside
<1>15. Rooted(x0)
  BY <1>11, <1>14 DEF Rooted, Side
<1>16. Three(x)
  <2>1. \A i \in Axis : x[i] = Over(x0[i], SqrtQ(Dot(x0, x0)))
    BY <1>8, <1>13, NormalLanes
  <2> QED
    BY <1>13, <1>15, <2>1, NormalNumbers
<1>17. Dot(z, z) = One
  BY <1>4, <1>5, <1>11, UnitVector
<1>18. Dot(x, x) = One /\ Dot(x, z) = Zero /\ Dot(z, x) = Zero
  BY <1>8, <1>11, <1>13, <1>16, UnitVector
<1>19. Three(y) /\ Dot(y, y) = One /\ Dot(y, z) = Zero /\ Dot(y, x) = Zero
  BY <1>9, <1>11, <1>16, <1>17, <1>18, CrossLanes
<1>20. Dot(x, y) = Zero
  BY <1>16, <1>19, DotCommutes
<1>21. Crossed(y, z, x)
  BY <1>9, CrossSse DEF Crossed
<1>22. Crossed(z, x, y)
  BY <1>11, <1>16, <1>18, <1>21, CrossBack
<1>23. Upright(x, y, z) /\ \A i \in Axis : z[i] = dir[i]
  BY <1>11, <1>16, <1>17, <1>18, <1>19, <1>20, LaneSet DEF Upright
<1> QED
  BY <1>10, <1>22, <1>23

\* They make a rotation.
LEMMA ViewTurning ==
    ASSUME NEW from \in V3, NEW to \in V3, Rooted(Easy_vector_sub(from, to)),
           NEW dir, dir = Unit(Easy_vector_sub(from, to)), IsNumber(Side(dir[0], dir[2])),
           Side(dir[0], dir[2]) # Zero,
           NEW src, src = Easy_vector_copy(from, One), NEW tgt, tgt = Easy_vector_copy(to, One)
    PROVE  Turning(Easy_ViewTo(src, tgt)) /\ Handed(Easy_ViewTo(src, tgt))
  BY ViewAxesAre, AxesHanded

\* A vector of length 1 without a horizontal part is taken to be straight up
\* or down.
LEMMA Vertical ==
    ASSUME NEW to, Three(to), Dot(to, to) = One, to[0] = Zero, to[2] = Zero
    PROVE  \/ Less(Easy_vector_Getlenth_2(to, Vec(0, -1, 0, 1)), Q(1, 100000))
           \/ Less(Easy_vector_Getlenth_2(to, Vec(0, 1, 0, 1)), Q(1, 100000))
<1>1. PICK b \in Num : b = to[1]
  BY DEF Three
<1>2. Times(b, b) = One
  BY <1>1, Neutral, Constants, NumClosed DEF Dot, Easy_vector_dot, Plus3
<1>3. b = One \/ b = Neg(One)
  <2>1. AbsQ(b) = One
    BY <1>2, SqrtOfSquare, RootOne
  <2>2. AbsQ(b) \in {b, Neg(b)}
    BY Fraction, AbsIs
  <2>3. Neg(Neg(b)) = b
    BY Neutral
  <2> QED
    BY <2>1, <2>2, <2>3
<1>4. Less(Zero, Q(1, 100000))
  <2>1. PICK o, m, n \in Int : o = 0 /\ m = 1 /\ n = 100000
    OBVIOUS
  <2>2. Is(Zero, o, m) /\ Is(Q(1, 100000), m, n)
    BY <2>1, ZeroIs, TinyIs DEF Tiny
  <2>3. Less(Zero, Q(1, 100000)) <=> o * n < m * m
    BY <2>1, <2>2, LessIs
  <2> QED
    BY <2>1, <2>3
<1>5. ASSUME NEW w, w[0] = Zero, w[1] = b, w[2] = Zero
      PROVE  Less(Easy_vector_Getlenth_2(to, w), Q(1, 100000))
  <2>1. Easy_vector_Getlenth_2(to, w) = Zero
    BY <1>1, <1>5, Neutral, Constants DEF Easy_vector_Getlenth_2, Plus3
  <2> QED
    BY <1>4, <2>1
<1>6. CASE b = One
  <2>1. PICK w : w = Vec(0, 1, 0, 1)
    OBVIOUS
  <2>2. w[0] = Zero /\ w[1] = b /\ w[2] = Zero
    BY <1>6, <2>1, VecIs DEF Zero, One
  <2> QED
    BY <1>5, <2>1, <2>2
<1>7. CASE b = Neg(One)
  <2>1. PICK w : w = Vec(0, -1, 0, 1)
    OBVIOUS
  <2>2. w[0] = Zero /\ w[1] = b /\ w[2] = Zero
    BY <1>7, <2>1, VecIs, Signs
  <2> QED
    BY <1>5, <2>1, <2>2
<1> QED
  BY <1>3, <1>6, <1>7

\* A direction that Easy_PosTo does not tell from straight up or down.
Upwards(to, w) ==
  \E s \in {-1, 1} : /\ w[0] = Zero /\ w[1] = Int2Q(s) /\ w[2] = Zero
                     /\ Less(Easy_vector_Getlenth_2(to, Vec(0, s, 0, 1)), Q(1, 100000))

\* The rows of Easy_PosTo are those of a rotation, and the last one points in
\* the direction asked for.
LEMMA PosTurning ==
    ASSUME NEW to, IsReg(to), Three(to), Dot(to, to) = One, IsNumber(Side(to[0], to[2])),
           NEW f, f = Easy_PosTo(to), NEW m, m = Rows(f[1], f[2], f[3], IdentityMatrix[3])
    PROVE  /\ Turning(m) /\ Handed(m)
           /\ (\A i \in Axis : m[2][i] = to[i]) \/ Upwards(to, m[2])
<1>1. PICK z : z = [to EXCEPT ![3] = Zero]
  OBVIOUS
<1>2. PICK up : up = Vec(0, 1, 0, 1)
  OBVIOUS
<1>3. PICK x0 : x0 = Easy_vector_cross_sse(up, z)
  OBVIOUS
<1>4. PICK x1 : x1 = Easy_vector_normalize_sse(x0)
  OBVIOUS
<1>5. PICK x : x = [x1 EXCEPT ![3] = Zero]
  OBVIOUS
<1>6. PICK y0 : y0 = Easy_vector_cross_sse(z, x)
  OBVIOUS
<1>7. PICK y1 : y1 = Easy_vector_normalize_sse(y0)
  OBVIOUS
<1>8. PICK y : y = [y1 EXCEPT ![3] = Zero]
  OBVIOUS
<1>9. \/ /\ f = <<Vec(1, 0, 0, 0), Vec(0, 0, 1, 0), Vec(0, -1, 0, 0)>>
         /\ Less(Easy_vector_Getlenth_2(to, Vec(0, -1, 0, 1)), Q(1, 100000))
      \/ /\ f = <<Vec(1, 0, 0, 0), Vec(0, 0, -1, 0), Vec(0, 1, 0, 0)>>
         /\ Less(Easy_vector_Getlenth_2(to, Vec(0, 1, 0, 1)), Q(1, 100000))
      \/ f = <<x, y, z>> /\ ~(to[0] = Zero /\ to[2] = Zero)
  <2>1. x = [Easy_vector_normalize_sse(Easy_vector_cross_sse(Vec(0, 1, 0, 1), [to EXCEPT ![3] = Zero])) EXCEPT ![3] = Zero]
    BY <1>1, <1>2, <1>3, <1>4, <1>5, Zenon
  <2>2. y = [Easy_vector_normalize_sse(Easy_vector_cross_sse([to EXCEPT ![3] = Zero], x)) EXCEPT ![3] = Zero]
    BY <1>1, <1>6, <1>7, <1>8, Zenon
  <2>3. f = IF Less(Easy_vector_Getlenth_2(to, Vec(0, -1, 0, 1)), Q(1, 100000))
            THEN <<Vec(1, 0, 0, 0), Vec(0, 0, 1, 0), Vec(0, -1, 0, 0)>>
            ELSE IF Less(Easy_vector_Getlenth_2(to, Vec(0, 1, 0, 1)), Q(1, 100000))
            THEN <<Vec(1, 0, 0, 0), Vec(0, 0, -1, 0), Vec(0, 1, 0, 0)>>
            ELSE <<x, y, z>>
    BY <1>1, <2>1, <2>2 DEF Easy_PosTo
  <2>4. to[0] = Zero /\ to[2] = Zero =>
          \/ Less(Easy_vector_Getlenth_2(to, Vec(0, -1, 0, 1)), Q(1, 100000))
          \/ Less(Easy_vector_Getlenth_2(to, Vec(0, 1, 0, 1)), Q(1, 100000))
    BY Vertical
  <2> QED
    BY <2>3, <2>4
<1>10. CASE f = <<x, y, z>> /\ ~(to[0] = Zero /\ to[2] = Zero)
  <2>1. IsReg(x1) /\ IsReg(y1)
    BY <1>4, <1>7, Lanewise DEF Easy_vector_normalize_sse
  <2>2. /\ IsReg(x) /\ x[0] = x1[0] /\ x[1] = x1[1] /\ x[2] = x1[2] /\ x[3] = Zero
        /\ IsReg(y) /\ y[0] = y1[0] /\ y[1] = y1[1] /\ y[2] = y1[2] /\ y[3] = Zero
        /\ IsReg(z) /\ z[0] = to[0] /\ z[1] = to[1] /\ z[2] = to[2] /\ z[3] = Zero
    BY <1>1, <1>5, <1>8, <2>1, Cleared
  <2>3. Three(z) /\ Dot(z, z) = One
    BY <2>2 DEF Three, Dot, Easy_vector_dot
  <2>4. up[0] = Zero /\ up[1] = One /\ up[2] = Zero /\ Three(up)
    BY <1>2, VecIs, Signs, Constants DEF Three
  <2>5. Three(x0) /\ Dot(x0, z) = Zero
    BY <1>3, <2>3, <2>4, CrossLanes
  <2>6. Rooted(x0)
    <3>1. Dot(x0, x0) = Plus(Times(to[0], to[0]), Times(to[2], to[2]))
      BY <1>3, <2>2, <2>3, <2>4, UpAside
    <3>2. to[0] \in Num /\ to[2] \in Num
      BY DEF Three
    <3> QED
      BY <1>10, <3>1, <3>2, SideZero DEF Rooted, Side
  <2>7. Three(x1)
    <3>1. \A i \in Axis : x1[i] = Over(x0[i], SqrtQ(Dot(x0, x0)))
      BY <1>4, <2>5, NormalLanes
    <3> QED
      BY <2>5, <2>6, <3>1, NormalNumbers
  <2>8. Dot(x1, x1) = One /\ Dot(x1, z) = Zero
    BY <1>4, <2>3, <2>5, <2>7, UnitVector
  <2>9. Three(x) /\ Dot(x, x) = One /\ Dot(x, z) = Zero
    BY <2>2, <2>7, <2>8 DEF Three, Dot, Easy_vector_dot
  <2>10. Dot(z, x) = Zero
    BY <2>3, <2>9, DotCommutes
  <2>11. Three(y0) /\ Dot(y0, z) = Zero /\ Dot(y0, x) = Zero /\ Dot(y0, y0) = One
    BY <1>6, <2>3, <2>9, <2>10, CrossLanes
  <2>12. Three(y1)
    <3>1. \A i \in Axis : y1[i] = Over(y0[i], SqrtQ(Dot(y0, y0)))
      BY <1>7, <2>11, NormalLanes
    <3> QED
      BY <2>11, <3>1, OneRooted, NormalNumbers
  <2>13. Dot(y1, y1) = One /\ Dot(y1, z) = Zero /\ Dot(y1, x) = Zero /\ Dot(x, y1) = Zero
    BY <1>7, <2>3, <2>9, <2>11, <2>12, UnitVector
  <2>14. Three(y) /\ Dot(y, y) = One /\ Dot(y, z) = Zero /\ Dot(x, y) = Zero
    BY <2>2, <2>12, <2>13 DEF Three, Dot, Easy_vector_dot
  <2>15. Upright(x, y, z)
    BY <2>3, <2>9, <2>14 DEF Upright
  <2>16. Crossed(y, z, x)
    <3>1. \A i \in Axis : y1[i] = Over(y0[i], SqrtQ(Dot(y0, y0)))
      BY <1>7, <2>11, NormalLanes
    <3>2. y0[0] \in Num /\ y0[1] \in Num /\ y0[2] \in Num
      BY <2>11 DEF Three
    <3>3. y1[0] = y0[0] /\ y1[1] = y0[1] /\ y1[2] = y0[2]
      BY <2>11, <3>1, <3>2, RootOne, OverOne, LaneSet
    <3>4. \A i \in Axis : y0[i] = Easy_vector_cross(z, x)[i]
      BY <1>6, CrossSse
    <3> QED
      BY <2>2, <3>3, <3>4, LaneSet DEF Crossed
  <2>17. Crossed(z, x, y)
    BY <2>3, <2>9, <2>10, <2>16, CrossBack
  <2>18. m[0] = x /\ m[1] = y /\ m[2] = z
    <3>1. m = Rows(x, y, z, IdentityMatrix[3])
      BY <1>10
    <3> QED
      BY <3>1, PsAt DEF Rows
  <2>19. Turning(m)
    BY <1>10, <2>2, <2>15, RowsTurning
  <2> QED
    BY <2>2, <2>17, <2>18, <2>19, LaneSet DEF Handed
<1>11. CASE /\ f = <<Vec(1, 0, 0, 0), Vec(0, 0, 1, 0), Vec(0, -1, 0, 0)>>
            /\ Less(Easy_vector_Getlenth_2(to, Vec(0, -1, 0, 1)), Q(1, 100000))
  <2>1. m = Rows(Vec(1, 0, 0, 0), Vec(0, 0, 1, 0), Vec(0, -1, 0, 0), IdentityMatrix[3])
    BY <1>11
  <2>2. Turning(m) /\ Handed(m) /\ m[2][0] = Zero /\ m[2][1] = Neg(One) /\ m[2][2] = Zero
    BY <2>1, QuartersTurning
  <2>3. Upwards(to, m[2])
    BY <1>11, <2>2, Signs DEF Upwards
  <2> QED
    BY <2>2, <2>3
<1>12. CASE /\ f = <<Vec(1, 0, 0, 0), Vec(0, 0, -1, 0), Vec(0, 1, 0, 0)>>
            /\ Less(Easy_vector_Getlenth_2(to, Vec(0, 1, 0, 1)), Q(1, 100000))
  <2>1. m = Rows(Vec(1, 0, 0, 0), Vec(0, 0, -1, 0), Vec(0, 1, 0, 0), IdentityMatrix[3])
    BY <1>12
  <2>2. Turning(m) /\ Handed(m) /\ m[2][0] = Zero /\ m[2][1] = One /\ m[2][2] = Zero
    BY <2>1, QuartersTurning
  <2>3. Upwards(to, m[2])
    BY <1>12, <2>2, Signs DEF Upwards
  <2> QED
    BY <2>2, <2>3
<1> QED
  BY <1>9, <1>10, <1>11, <1>12

\* Every camera, view and frame (EasyMatrix.h:1531, 1936, 1969) is a rigid
\* motion, straight up and down included, as long as the roots it takes are
\* exact.
THEOREM LooksAreFrames ==
    ASSUME NEW look \in Looks
    PROVE  IsFrame(LookMatrix(look))
<1>1. look.from \in V3 /\ look.to \in V3
  BY LooksAssumption, NumberNum
<1>2. \A v \in V3 : \A w :
        /\ IsReg(Easy_vector_copy(v, w)) /\ Three(Easy_vector_copy(v, w))
        /\ Dot(Easy_vector_copy(v, w), Easy_vector_copy(v, w)) = Easy_vector_dot(v, v)
  <2> SUFFICES ASSUME NEW v \in V3, NEW w, NEW c, c = Easy_vector_copy(v, w)
               PROVE  IsReg(c) /\ Three(c) /\ Dot(c, c) = Easy_vector_dot(v, v)
    OBVIOUS
  <2>1. IsReg(c) /\ c[0] = v[0] /\ c[1] = v[1] /\ c[2] = v[2]
    BY PsReg, PsAt DEF Easy_vector_copy
  <2>2. v[0] \in Num /\ v[1] \in Num /\ v[2] \in Num
    BY LaneSet DEF V3
  <2> QED
    BY <2>1, <2>2 DEF Three, Dot, Easy_vector_dot
<1>3. CASE look.how = "camera"
  <2>1. IsHalf(look.half)
    BY <1>3, LooksAssumption, NumberNum DEF HalfAngle, IsHalf
  <2>2. PICK d, y : d = Easy_vector_sub(look.to, look.from) /\ y = Unit(d)
    OBVIOUS
  <2>3. Rooted(d) /\ IsNumber(Side(y[0], y[1]))
    BY <1>3, <2>2, LooksAssumption DEF Rooted, Dot, Distance, Sight
  <2>4. Turning(CameraAxes(look.from, look.to))
    BY <1>1, <2>2, <2>3, CameraTurning
  <2>5. LookMatrix(look) = Easy_matrix_camera_roll(look.from, look.to, look.half)
    BY <1>3 DEF LookMatrix
  <2> QED
    BY <1>1, <2>1, <2>4, <2>5, CameraFrame
<1>4. CASE look.how = "view"
  <2>1. PICK d, z : d = Easy_vector_sub(look.from, look.to) /\ z = Unit(d)
    OBVIOUS
  <2>2. Rooted(d) /\ IsNumber(Side(z[0], z[2])) /\ Side(z[0], z[2]) # Zero
    BY <1>4, <2>1, LooksAssumption DEF Rooted, Dot, Distance, Sight
  <2>3. PICK a, b : a = Easy_vector_copy(look.from, One) /\ b = Easy_vector_copy(look.to, One)
    OBVIOUS
  <2>4. LookMatrix(look) = Easy_ViewTo(a, b)
    BY <1>4, <2>3 DEF LookMatrix
  <2> QED
    BY <1>1, <2>1, <2>2, <2>3, <2>4, ViewTurning, TurningFrame
<1>5. CASE look.how = "pos"
  <2>1. PICK to : to = look.to
    OBVIOUS
  <2>2. Easy_vector_dot(to, to) = One /\ IsNumber(Side(to[0], to[2]))
    BY <1>5, <2>1, LooksAssumption
  <2>3. PICK a, f : a = Easy_vector_copy(to, One) /\ f = Easy_PosTo(a)
    OBVIOUS
  <2>4. LookMatrix(look) = Rows(f[1], f[2], f[3], IdentityMatrix[3])
    BY <1>5, <2>1, <2>3 DEF LookMatrix
  <2>5. IsReg(a) /\ Three(a) /\ Dot(a, a) = One
    BY <1>1, <1>2, <2>1, <2>2, <2>3
  <2>6. a[0] = to[0] /\ a[2] = to[2]
    BY <2>3, PsAt DEF Easy_vector_copy
  <2> QED
    BY <2>2, <2>3, <2>4, <2>5, <2>6, PosTurning, TurningFrame
<1> QED
  BY <1>3, <1>4, <1>5, LooksAssumption

(***************************************************************************)
(* The calls, on both matrices.                                            *)
(***************************************************************************)

Kept == mat \in M4 /\ sse = mat

\* Both matrices start alike.
LEMMA InitKept == ASSUME Init, \A look \in Looks : LookMatrix(look) \in M4 PROVE Kept
  BY IdentityIs DEF Init, Kept

\* Translations keep them alike ...
LEMMA MovesKept ==
    ASSUME Kept, NEW v \in Moves, TranslateInternal(v) \/ TranslateExternal(v)
    PROVE  Kept'
<1>1. v \in V3
  BY MovesAssumption, NumberNum
<1>2. PICK u : u = Easy_vector_copy(v, One)
  OBVIOUS
<1>3. u[0] = v[0] /\ u[1] = v[1] /\ u[2] = v[2] /\ v[0] \in Num /\ v[1] \in Num /\ v[2] \in Num
  BY <1>1, <1>2, CopyAt, Constants
<1>4. CASE TranslateInternal(v)
  <2>1. mat' = Easy_matrix_translate_Internal(mat, v) /\ sse' = Easy_matrix_translate_Internal_sse(mat, u)
    BY <1>2, <1>4 DEF TranslateInternal, Kept
  <2>2. mat' = [mat EXCEPT ![3] = TranslatedRow(mat, v)]
    BY <1>3, <2>1, TranslateInternalIs DEF Kept
  <2>3. sse' = [mat EXCEPT ![3] = TranslatedRow(mat, u)]
    BY <1>3, <2>1, TranslateInternalIs DEF Kept
  <2>4. TranslatedRow(mat, u) = TranslatedRow(mat, v)
    BY <1>3 DEF TranslatedRow, Image
  <2>5. TranslatedRow(mat, v) \in V4
    BY <1>3, TranslatedRowIs DEF Kept
  <2> QED
    BY <2>2, <2>3, <2>4, <2>5, RowReplaced DEF Kept
<1>5. CASE TranslateExternal(v)
  <2>1. mat' = Easy_matrix_translate_External(mat, v) /\ sse' = Easy_matrix_translate_External(mat, u)
    BY <1>2, <1>5 DEF TranslateExternal, Kept
  <2>2. Easy_matrix_translate_External(mat, u) = Easy_matrix_translate_External(mat, v)
    BY <1>3 DEF Easy_matrix_translate_External
  <2>3. PICK r : r = Ps(Plus(mat[3][0], v[0]), Plus(mat[3][1], v[1]), Plus(mat[3][2], v[2]), mat[3][3])
    OBVIOUS
  <2>4. r \in V4
    <3>1. mat[3][0] \in Num /\ mat[3][1] \in Num /\ mat[3][2] \in Num /\ mat[3][3] \in Num
      BY M4Rows, LaneSet DEF Kept
    <3> QED
      BY <1>3, <2>3, <3>1, NumClosed, PsType DEF V4
  <2>5. mat' = [mat EXCEPT ![3] = r]
    BY <2>1, <2>3, M4Rows DEF Easy_matrix_translate_External, Kept, IsReg, Lane
  <2> QED
    BY <2>1, <2>2, <2>4, <2>5, RowReplaced DEF Kept
<1> QED
  BY <1>4, <1>5

\* ... rotations do ...
LEMMA TurnsKept ==
    ASSUME Kept, (\E turn \in Turns : Rotate(turn)) \/ (\E r \in Quats : RotateQuat(r))
    PROVE  Kept'
<1>1. ASSUME NEW r \in V4, IsNumber(SqrtQ(Length2(r))), ~Less(Length2(r), Tiny),
             mat' = Easy_matrix_rotate_quat(mat, r), sse' = Easy_matrix_rotate_quat_sse(sse, r)
      PROVE  Kept'
  BY <1>1, RotateQuatIs, MulClosed DEF Kept
<1>2. ASSUME NEW turn \in Turns, Rotate(turn) PROVE Kept'
  <2>1. PICK r : r = Easy_quat_axis_angle(turn.axis, turn.half)
    OBVIOUS
  <2>2. turn.axis \in V3 /\ IsHalf(turn.half) /\ IsNumber(SqrtQ(Easy_vector_dot(turn.axis, turn.axis)))
    BY TurnsAssumption, NumberNum DEF IsHalf, HalfAngle
  <2>3. r \in V4 /\ Length2(r) = One
    BY <2>1, <2>2, AxisAngleIs
  <2>4. mat' = Easy_matrix_rotate_quat(mat, r) /\ sse' = Easy_matrix_rotate_quat_sse(sse, r)
    BY <1>2, <2>1 DEF Rotate, Easy_matrix_rotate, Easy_matrix_rotate_sse
  <2> QED
    BY <1>1, <2>3, <2>4, UnitOne
<1>3. ASSUME NEW r \in Quats, RotateQuat(r) PROVE Kept'
  <2>1. r \in V4 /\ IsNumber(SqrtQ(Length2(r))) /\ ~Less(Length2(r), Tiny)
    BY QuatsAssumption, NumberNum DEF Length2, Tiny
  <2> QED
    BY <1>1, <1>3, <2>1 DEF RotateQuat
<1> QED
  BY <1>2, <1>3

\* ... and so do the other calls, while the double inverse does not give up.
LEMMA OthersKept ==
    ASSUME Kept, Invertible, (\E v \in Scales : Scale(v)) \/ Mirror \/ SwapYZ \/ Invert \/ Transpose
    PROVE  Kept'
<1>1. ASSUME NEW v \in Scales, Scale(v) PROVE Kept'
  BY <1>1, ScalesAssumption, NumberNum, ScaleIs DEF Scale, Kept
<1>2. CASE Mirror
  BY <1>2, MirrorIs, MulClosed, ConstantMatrices DEF Mirror, Kept
<1>3. CASE SwapYZ
  BY <1>3, SwapYZIs, MulClosed, ConstantMatrices DEF SwapYZ, Kept
<1>4. CASE Invert
  BY <1>4, InversesAgree DEF Invert, Invertible, Kept
<1>5. CASE Transpose
  <2>1. T4(mat) \in M4
    BY M4Mat, T4Mat, MatM4 DEF Kept
  <2> QED
    BY <1>5, <2>1, M4Mat, TransposeIs, ShuffledTranspose DEF Transpose, Kept
<1> QED
  BY <1>1, <1>2, <1>3, <1>4, <1>5

\* Matrices that are alike look alike to all overloads that apply them.
LEMMA AgreeNow ==
    ASSUME Kept
    PROVE  OverloadsAgree
<1>1. ASSUME NEW p \in Probes, NEW v, v = Easy_vector_copy(p, One)
      PROVE  /\ Easy_matrix_mult_vector4X4_sse(sse, v) = Easy_matrix_mult_vector4X4(mat, v)
             /\ Easy_matrix_mult_vector3X3_sse(sse, v) = Easy_matrix_mult_vector4X4(mat, v)
             /\ Easy_matrix_scale3X3(sse, v) = Easy_matrix_scale(mat, p)
             /\ Easy_vector_copy_out(Easy_vector_cross_sse(v, Easy_matrix_mult_vector4X4(mat, v)))
                  = Easy_vector_cross(p, Easy_matrix_mult_vector3X3(mat, p))
  <2>1. p \in V3
    BY ProbesAssumption, NumberNum
  <2>2. v \in V4 /\ v[3] = One
    BY <1>1, <2>1, CopyAt, Constants
  <2> QED
    BY <1>1, <2>1, <2>2, AppliedAlike, ScaleIs, CrossAlike DEF Kept
<1> QED
  BY <1>1 DEF OverloadsAgree, Kept

(***************************************************************************)
(* Both overloads, after every call.                                       *)
(***************************************************************************)

\* Every call writes the same numbers through both overloads.
LEMMA NextKept == Kept /\ Invertible /\ [Next]_vars => Kept'
<1> SUFFICES ASSUME Kept, Invertible, [Next]_vars PROVE Kept'
  OBVIOUS
<1>1. CASE Next
  BY <1>1, MovesKept, TurnsKept, OthersKept DEF Next
<1>2. CASE UNCHANGED vars
  BY <1>2 DEF vars, Kept
<1> QED
  BY <1>1, <1>2

\* The scalar and the SSE overloads leave the same matrix, and apply it alike,
\* after any sequence of calls with any arguments, as long as the double
\* inverse does not give up (EasyMatrix.h:138-740, 1074-1529).
THEOREM OverloadsAlwaysAgree == Spec /\ []Invertible => []OverloadsAgree
<1>1. Init => Kept
  <2>1. \A look \in Looks : LookMatrix(look) \in M4
    BY LooksAreFrames DEF IsFrame, Affine
  <2> QED
    BY <2>1, InitKept
<1>2. Kept => OverloadsAgree
  BY AgreeNow
<1> QED
  BY <1>1, <1>2, NextKept, PTL DEF Spec

(***************************************************************************)
(* The motions that calls can hold.                                        *)
(***************************************************************************)
Factors == {v \in V3 : v[0] # Zero /\ v[1] # Zero /\ v[2] # Zero}
Frames == {m \in M4 : IsFrame(m)}
\* The quaternion (v, w), of any length, turns like the unit quaternion u; one of
\* length zero does not turn.
SameTurn(v, w, u) ==
  \/ (\A i \in Axis : v[i] = Zero) /\ w = Zero /\ u = NoTurn
  \/ \E l \in Num : l # Zero /\ w = Times(l, u[3]) /\ \A i \in Axis : v[i] = Times(l, u[i])
MoveMotions == [kind : {"move"}, v : V3]
ScaleMotions == [kind : {"scale"}, v : Factors]
TurnMotions == {c \in [kind : {"turn"}, v : V3, w : Num] :
                  \E u : IsUnit(u) /\ SameTurn(c.v, c.w, u)}
SwapMotions == [kind : {"swap", "unswap"}]
LookMotions == {c \in [kind : {"look", "unlook"}, m : Frames, look : Looks] : c.m = LookMatrix(c.look)}
Motions == MoveMotions \cup ScaleMotions \cup TurnMotions \cup SwapMotions \cup LookMotions

RigidKinds == {"move", "turn"}
TurnKinds == {"turn", "swap", "unswap"}

\* The inverse of a number that is not zero is not zero, and undoes it.
LEMMA InverseNumber ==
    ASSUME NEW a \in Num, a # Zero
    PROVE  /\ Over(One, a) \in Num /\ Over(One, a) # Zero /\ Times(a, Over(One, a)) = One
<1>1. PICK n, d \in Int : d > 0 /\ Is(a, n, d)
  BY Fraction
<1>2. n # 0
  <2>1. ASSUME n = 0 PROVE FALSE
    BY <1>1, <2>1, ZeroIs, IsEqual
  <2> QED
    BY <2>1
<1>3. PICK o \in Int : o = 1 /\ o # 0
  OBVIOUS
<1>4. Is(One, o, o)
  BY <1>3, ZeroIs
<1>5. PICK b : b = Over(One, a)
  OBVIOUS
<1>6. Is(b, o * d, o * n)
  BY <1>1, <1>2, <1>4, <1>5, OverIs
<1>7. o * d = d /\ o * n = n
  BY <1>1, <1>3
<1>8. Is(b, d, n)
  BY <1>6, <1>7
<1>9. Is(Times(a, b), n * d, d * n)
  BY <1>1, <1>8, TimesIs
<1>10. PICK k \in Int : k = n * d /\ k = d * n /\ k # 0
  BY <1>1, <1>2
<1>11. Is(Times(a, b), k, k)
  BY <1>9, <1>10
<1>12. Times(a, b) = One
  BY <1>10, <1>11, ZeroIs, IsEqual
<1>13. b \in Num
  BY <1>8, IsInts
<1>14. b # Zero
  BY <1>12, Neutral, OneNotZero
<1> QED
  BY <1>5, <1>12, <1>13, <1>14

\* A turn by the same angle the other way.
LEMMA TimesNeg ==
    ASSUME NEW a \in Num, NEW b \in Num
    PROVE  Times(a, Neg(b)) = Neg(Times(a, b))
<1>1. PICK n, d \in Int : d > 0 /\ Is(a, n, d)
  BY Fraction
<1>2. PICK k, e \in Int : e > 0 /\ Is(b, k, e)
  BY Fraction
<1>3. PICK j \in Int : j = -k
  BY <1>2
<1>4. Is(Neg(b), j, e) /\ Is(Times(a, b), n * k, d * e)
  BY <1>1, <1>2, <1>3, NegIs, TimesIs
<1>5. Is(Times(a, Neg(b)), n * j, d * e) /\ Is(Neg(Times(a, b)), -(n * k), d * e)
  BY <1>1, <1>4, TimesIs, NegIs
<1>6. n * j = -(n * k)
  BY <1>1, <1>2, <1>3
<1> QED
  BY <1>5, <1>6, IsEqual

\* The quaternion with the opposite real part turns back.
LEMMA TurnBack ==
    ASSUME NEW v \in V3, NEW w \in Num, NEW u, IsUnit(u), SameTurn(v, w, u)
    PROVE  \E t : /\ IsUnit(t) /\ SameTurn(v, Neg(w), t) /\ RotationOf(t) = T4(RotationOf(u))
<1>1. CASE (\A i \in Axis : v[i] = Zero) /\ w = Zero /\ u = NoTurn
  <2>1. T4(IdentityMatrix) = IdentityMatrix
    BY IdentityIs, T4Mat, M4Mat, SameMat
  <2> QED
    BY <1>1, <2>1, NegZero, NoTurnIs DEF SameTurn
<1>2. ASSUME NEW l \in Num, l # Zero, w = Times(l, u[3]), \A i \in Axis : v[i] = Times(l, u[i])
      PROVE  \E t : /\ IsUnit(t) /\ SameTurn(v, Neg(w), t) /\ RotationOf(t) = T4(RotationOf(u))
  <2>1. PICK c, t : c = Conj(u) /\ t = Opposite(c)
    OBVIOUS
  <2>2. IsUnit(c) /\ RotationOf(c) = T4(RotationOf(u)) /\ IsUnit(t) /\ RotationOf(t) = RotationOf(c)
    BY <2>1, ConjTurnsBack
  <2>3. u[0] \in Num /\ u[1] \in Num /\ u[2] \in Num /\ u[3] \in Num
    BY V4Reg, LaneSet DEF IsUnit
  <2>4. c[0] = Neg(u[0]) /\ c[1] = Neg(u[1]) /\ c[2] = Neg(u[2]) /\ c[3] = u[3]
    BY <2>1, PsAt DEF Conj
  <2>5. t[0] = Neg(c[0]) /\ t[1] = Neg(c[1]) /\ t[2] = Neg(c[2]) /\ t[3] = Neg(c[3])
    BY <2>1, LaneSet DEF Opposite
  <2>6. t[0] = u[0] /\ t[1] = u[1] /\ t[2] = u[2] /\ t[3] = Neg(u[3])
    BY <2>3, <2>4, <2>5, Neutral
  <2>7. Neg(w) = Times(l, t[3])
    BY <1>2, <2>3, <2>6, TimesNeg
  <2>8. \A i \in Axis : v[i] = Times(l, t[i])
    BY <1>2, <2>6, LaneSet
  <2>9. SameTurn(v, Neg(w), t)
    BY <1>2, <2>7, <2>8 DEF SameTurn
  <2> QED
    BY <2>2, <2>9
<1> QED
  BY <1>1, <1>2 DEF SameTurn

\* A motion undone is a motion, and of a kind that undoes it.
LEMMA UndoneMotion ==
    ASSUME NEW c \in Motions
    PROVE  /\ Undone(c) \in Motions
           /\ Undone(c).kind \in RigidKinds <=> c.kind \in RigidKinds
           /\ Undone(c).kind \in TurnKinds <=> c.kind \in TurnKinds
<1>1. CASE c \in MoveMotions
  <2>1. PICK v : v = [i \in Axis |-> Neg(c.v[i])]
    OBVIOUS
  <2>2. v \in V3
    BY <1>1, <2>1, NumClosed DEF MoveMotions, V3
  <2>3. Undone(c) = [c EXCEPT !.v = v]
    BY <1>1, <2>1 DEF Undone, MoveMotions
  <2>4. [c EXCEPT !.v = v] \in MoveMotions
    BY <1>1, <2>2 DEF MoveMotions
  <2> QED
    BY <1>1, <2>3, <2>4 DEF Motions, MoveMotions, RigidKinds, TurnKinds
<1>2. CASE c \in ScaleMotions
  <2>1. PICK v : v = [i \in Axis |-> Over(One, c.v[i])]
    OBVIOUS
  <2>2. c.v \in Factors /\ c.kind = "scale"
    BY <1>2 DEF ScaleMotions
  <2>3. \A i \in Axis : c.v[i] \in Num /\ c.v[i] # Zero
    BY <2>2, LaneSet DEF Factors, V3
  <2>4. v \in Factors
    BY <2>1, <2>3, InverseNumber, LaneSet DEF Factors, V3
  <2>5. Undone(c) = [c EXCEPT !.v = v]
    BY <2>1, <2>2 DEF Undone
  <2>6. [c EXCEPT !.v = v] \in ScaleMotions
    BY <1>2, <2>4 DEF ScaleMotions
  <2> QED
    BY <1>2, <2>5, <2>6 DEF Motions, ScaleMotions, RigidKinds, TurnKinds
<1>3. CASE c \in TurnMotions
  <2>1. PICK w : w = Neg(c.w)
    OBVIOUS
  <2>2. c \in [kind : {"turn"}, v : V3, w : Num]
    BY <1>3 DEF TurnMotions
  <2>3. w \in Num /\ c.v \in V3 /\ c.w \in Num /\ c.kind = "turn"
    BY <2>1, <2>2, NumClosed
  <2>4. PICK u : IsUnit(u) /\ SameTurn(c.v, c.w, u)
    BY <1>3 DEF TurnMotions
  <2>5. PICK t : IsUnit(t) /\ SameTurn(c.v, w, t)
    BY <2>1, <2>3, <2>4, TurnBack
  <2>6. Undone(c) = [c EXCEPT !.w = w]
    BY <2>1, <2>3 DEF Undone
  <2>7. PICK b : b = [c EXCEPT !.w = w]
    OBVIOUS
  <2>8. b \in [kind : {"turn"}, v : V3, w : Num] /\ b.v = c.v /\ b.w = w /\ b.kind = "turn"
    BY <2>2, <2>3, <2>7
  <2>9. b \in TurnMotions
    BY <2>5, <2>8 DEF TurnMotions
  <2> QED
    BY <2>3, <2>6, <2>7, <2>8, <2>9 DEF Motions, RigidKinds, TurnKinds
<1>4. CASE c \in SwapMotions
  <2>1. Undone(c) \in SwapMotions
    BY <1>4 DEF Undone, SwapMotions
  <2> QED
    BY <1>4, <2>1 DEF Motions, SwapMotions, RigidKinds, TurnKinds
<1>5. CASE c \in LookMotions
  <2>1. PICK k : k = IF c.kind = "look" THEN "unlook" ELSE "look"
    OBVIOUS
  <2>2. k \in {"look", "unlook"}
    BY <2>1
  <2>3. Undone(c) = [c EXCEPT !.kind = k]
    BY <1>5, <2>1 DEF Undone, LookMotions
  <2>4. [c EXCEPT !.kind = k] \in LookMotions
    BY <1>5, <2>2 DEF LookMotions
  <2> QED
    BY <1>5, <2>3, <2>4 DEF Motions, LookMotions, RigidKinds, TurnKinds
<1> QED
  BY <1>1, <1>2, <1>3, <1>4, <1>5 DEF Motions

\* calls holds motions only, and Only reads their kinds.
OnlyOf(cs, K) == \A n \in DOMAIN cs : cs[n].kind \in K

\* A motion put before the others ...
LEMMA BeforeMotions ==
    ASSUME NEW c \in Motions, NEW cs \in Seq(Motions), NEW ds, ds = <<c>> \o cs
    PROVE  /\ ds \in Seq(Motions) /\ Len(ds) = Len(cs) + 1
           /\ ds[1] = c /\ \A n \in 1 .. Len(cs) : ds[n + 1] = cs[n]
           /\ \A K : OnlyOf(ds, K) => OnlyOf(cs, K) /\ c.kind \in K
<1>1. ds \in Seq(Motions) /\ Len(ds) = Len(cs) + 1 /\ ds[1] = c /\ \A n \in 1 .. Len(cs) : ds[n + 1] = cs[n]
  OBVIOUS
<1>2. DOMAIN cs = 1 .. Len(cs) /\ DOMAIN ds = 1 .. Len(cs) + 1 /\ Len(cs) \in Nat
  BY <1>1
<1>3. \A n \in 1 .. Len(cs) : n + 1 \in DOMAIN ds
  BY <1>2
<1>4. 1 \in DOMAIN ds
  BY <1>2
<1> QED
  BY <1>1, <1>2, <1>3, <1>4 DEF OnlyOf

\* ... and one put after them.
LEMMA AfterMotions ==
    ASSUME NEW c \in Motions, NEW cs \in Seq(Motions), NEW ds, ds = Append(cs, c)
    PROVE  /\ ds \in Seq(Motions) /\ Len(ds) = Len(cs) + 1
           /\ ds[Len(ds)] = c /\ \A n \in 1 .. Len(cs) : ds[n] = cs[n]
           /\ \A K : OnlyOf(ds, K) => OnlyOf(cs, K) /\ c.kind \in K
<1>1. ds \in Seq(Motions) /\ Len(ds) = Len(cs) + 1 /\ ds[Len(ds)] = c /\ \A n \in 1 .. Len(cs) : ds[n] = cs[n]
  OBVIOUS
<1>2. DOMAIN cs = 1 .. Len(cs) /\ DOMAIN ds = 1 .. Len(cs) + 1 /\ Len(cs) \in Nat
  BY <1>1
<1>3. \A n \in 1 .. Len(cs) : n \in DOMAIN ds
  BY <1>2
<1>4. Len(ds) \in DOMAIN ds
  BY <1>1, <1>2
<1> QED
  BY <1>1, <1>2, <1>3, <1>4 DEF OnlyOf

Backwards(cs) == [n \in DOMAIN cs |-> Undone(cs[Len(cs) + 1 - n])]

\* All motions, last one first and each undone.
LEMMA TurnedMotions ==
    ASSUME NEW cs \in Seq(Motions), NEW ds, ds = Backwards(cs)
    PROVE  /\ ds \in Seq(Motions) /\ Len(ds) = Len(cs)
           /\ \A n \in 1 .. Len(cs) : ds[n] = Undone(cs[Len(cs) + 1 - n]) /\ cs[n] \in Motions
           /\ \A K \in {RigidKinds, TurnKinds} : OnlyOf(ds, K) => OnlyOf(cs, K)
<1>1. DOMAIN cs = 1 .. Len(cs) /\ Len(cs) \in Nat /\ \A n \in 1 .. Len(cs) : cs[n] \in Motions
  OBVIOUS
<1>2. \A n \in 1 .. Len(cs) : Len(cs) + 1 - n \in 1 .. Len(cs) /\ Len(cs) + 1 - (Len(cs) + 1 - n) = n
  BY <1>1
<1>3. ds = [n \in 1 .. Len(cs) |-> Undone(cs[Len(cs) + 1 - n])]
  BY <1>1 DEF Backwards
<1>4. \A n \in 1 .. Len(cs) : ds[n] = Undone(cs[Len(cs) + 1 - n]) /\ ds[n] \in Motions
  BY <1>1, <1>2, <1>3, UndoneMotion
<1>5. ds \in Seq(Motions) /\ Len(ds) = Len(cs) /\ DOMAIN ds = 1 .. Len(cs)
  BY <1>1, <1>3, <1>4, SeqDef
<1>6. ASSUME NEW K \in {RigidKinds, TurnKinds}, OnlyOf(ds, K), NEW n \in 1 .. Len(cs)
      PROVE  cs[n].kind \in K
  <2>1. PICK k : k = Len(cs) + 1 - n
    OBVIOUS
  <2>2. k \in 1 .. Len(cs) /\ ds[k] = Undone(cs[n])
    BY <1>2, <1>4, <2>1
  <2>3. Undone(cs[n]).kind \in K
    BY <1>5, <1>6, <2>2 DEF OnlyOf
  <2> QED
    BY <1>1, <1>6, <2>3, UndoneMotion
<1> QED
  BY <1>1, <1>4, <1>5, <1>6 DEF OnlyOf

(***************************************************************************)
(* What the calls keep: motions, a last column of 0 0 0 1, a rotation      *)
(* while there were turns only, and a quaternion for its block while the   *)
(* motions are rigid.                                                      *)
(***************************************************************************)
Recorded == calls \in Seq(Motions)
Rotated(m, q) == IsUnit(q) /\ Block(m, RotationOf(q))
Placed ==
  /\ Affine(mat)
  /\ OnlyOf(calls, TurnKinds) => Turning(mat)
  /\ OnlyOf(calls, RigidKinds) => Rotated(mat, quat)

\* The two conditions on calls that the model reads.
LEMMA OnlyIs == /\ Rigid <=> OnlyOf(calls, RigidKinds)
                /\ Only({"turn", "swap", "unswap"}) <=> OnlyOf(calls, TurnKinds)
  BY DEF Rigid, Only, OnlyOf, RigidKinds, TurnKinds

\* The beginning: no motion, or one of the looks.
LEMMA InitPlaced == Init => Recorded /\ Placed
<1> SUFFICES ASSUME Init PROVE Recorded /\ Placed
  OBVIOUS
<1>1. CASE mat = IdentityMatrix /\ calls = <<>>
  <2>1. Turning(mat) /\ Affine(mat)
    BY <1>1, IdentityTurning DEF Turning, Linear
  <2>2. quat = NoTurn
    BY DEF Init, NoTurn
  <2>3. Rotated(mat, quat)
    BY <1>1, <2>2, NoTurnIs DEF Rotated, Block
  <2> QED
    BY <1>1, <2>1, <2>3 DEF Recorded, Placed
<1>2. ASSUME NEW look \in Looks, mat = LookMatrix(look),
             calls = << [kind |-> "look", m |-> mat, look |-> look] >>
      PROVE  Recorded /\ Placed
  <2>1. IsFrame(mat)
    BY <1>2, LooksAreFrames
  <2>2. Affine(mat) /\ mat \in Frames
    BY <2>1 DEF IsFrame, Frames, Affine
  <2>3. PICK c : c = [kind |-> "look", m |-> mat, look |-> look]
    OBVIOUS
  <2>4. c \in Motions /\ c.kind = "look"
    BY <1>2, <2>2, <2>3 DEF Motions, LookMotions
  <2>5. calls = <<c>>
    BY <1>2, <2>3
  <2>6. Recorded
    BY <2>4, <2>5 DEF Recorded
  <2>7. ~OnlyOf(calls, TurnKinds) /\ ~OnlyOf(calls, RigidKinds)
    <3>1. 1 \in DOMAIN calls /\ calls[1] = c
      BY <2>5
    <3> QED
      BY <2>4, <3>1 DEF OnlyOf, TurnKinds, RigidKinds
  <2> QED
    BY <2>2, <2>6, <2>7 DEF Placed
<1> QED
  BY <1>1, <1>2 DEF Init

\* One more motion was recorded.
LEMMA OneMore ==
    ASSUME Recorded, NEW c \in Motions, Before(c) \/ After(c)
    PROVE  /\ Recorded'
           /\ OnlyOf(calls', TurnKinds) => OnlyOf(calls, TurnKinds) /\ c.kind \in TurnKinds
           /\ OnlyOf(calls', RigidKinds) => OnlyOf(calls, RigidKinds) /\ c.kind \in RigidKinds
<1>1. CASE Before(c)
  BY <1>1, BeforeMotions DEF Before, Recorded
<1>2. CASE After(c)
  BY <1>2, AfterMotions DEF After, Recorded
<1> QED
  BY <1>1, <1>2

\* The invariant after a step, by its parts.
LEMMA PlacedNext ==
    ASSUME Affine(mat'), OnlyOf(calls', TurnKinds) => Turning(mat'),
           OnlyOf(calls', RigidKinds) => Rotated(mat', quat')
    PROVE  Placed'
  BY DEF Placed

\* The quaternion and the matrix turn on together.
LEMMA TurnedOn ==
    ASSUME NEW m, Affine(m), NEW q, Rotated(m, q), NEW r, IsUnit(r)
    PROVE  Rotated(Mul(RotationOf(r), m), Easy_quat_Mult(q, r))
<1>1. IsUnit(Easy_quat_Mult(q, r)) /\ RotationOf(Easy_quat_Mult(q, r)) = Mul(RotationOf(r), RotationOf(q))
  BY ProductTurns DEF Rotated
<1>2. Affine(RotationOf(r)) /\ m \in M4 /\ RotationOf(q) \in M4
  BY UnitTurning DEF Rotated, Turning, Linear, Affine
<1>3. Block(Mul(RotationOf(r), m), Mul(RotationOf(r), RotationOf(q)))
  BY <1>2, BlockProduct DEF Rotated
<1> QED
  BY <1>1, <1>3 DEF Rotated

\* The quaternion read off a turned-back block.
LEMMA ReadOff ==
    ASSUME NEW q, IsUnit(q), NEW m, Block(m, T4(RotationOf(q)))
    PROVE  Rotated(m, QuatFromMatrix(m))
<1>1. PICK p : p = Conj(q)
  OBVIOUS
<1>2. IsUnit(p) /\ RotationOf(p) = T4(RotationOf(q)) /\ IsUnit(Opposite(p)) /\ RotationOf(Opposite(p)) = RotationOf(p)
  BY <1>1, ConjTurnsBack
<1>3. \A j, i \in Axis : m[j][i] = RotationOf(p)[j][i]
  BY <1>2 DEF Block
<1>4. QuatFromMatrix(m) \in {p, Opposite(p)}
  BY <1>2, <1>3, QuaternionReadOff
<1> QED
  BY <1>2, <1>3, <1>4 DEF Rotated, Block

\* Moves change the last row only.
LEMMA MovesPlaced ==
    ASSUME Kept, Recorded, Placed, NEW v \in Moves, TranslateInternal(v) \/ TranslateExternal(v)
    PROVE  Recorded' /\ Placed'
<1>1. v \in V3 /\ Three(v)
  BY MovesAssumption, NumberNum, LaneSet DEF V3, Three
<1>2. PICK c : c = [kind |-> "move", v |-> v]
  OBVIOUS
<1>3. c \in Motions /\ c.kind = "move"
  BY <1>1, <1>2 DEF Motions, MoveMotions
<1>4. Before(c) \/ After(c)
  BY <1>2 DEF TranslateInternal, TranslateExternal
<1>5. /\ Recorded' /\ ~OnlyOf(calls', TurnKinds)
      /\ OnlyOf(calls', RigidKinds) => OnlyOf(calls, RigidKinds)
  BY <1>3, <1>4, OneMore DEF TurnKinds
<1>6. Affine(mat') /\ Block(mat', mat)
  <2>1. CASE TranslateInternal(v)
    BY <1>1, <2>1, TranslatedFrame DEF TranslateInternal, Placed
  <2>2. CASE TranslateExternal(v)
    BY <1>1, <2>2, MovedFrame DEF TranslateExternal, Placed
  <2> QED
    BY <2>1, <2>2
<1>7. quat' = quat
  BY DEF TranslateInternal, TranslateExternal
<1>8. Rotated(mat, quat) => Rotated(mat', quat)
  BY <1>6 DEF Rotated, Block
<1> QED
  BY <1>5, <1>6, <1>7, <1>8, PlacedNext DEF Placed

\* A turn turns the matrix and the quaternion on together.
LEMMA TurnsPlaced ==
    ASSUME Kept, Recorded, Placed,
           NEW r, IsUnit(r), mat' = Mul(RotationOf(r), mat), quat' = Easy_quat_Mult(quat, r),
           NEW c \in Motions, c.kind = "turn", Before(c)
    PROVE  Recorded' /\ Placed'
<1>1. Turning(RotationOf(r)) /\ Affine(RotationOf(r))
  BY UnitTurning DEF Turning, Linear
<1>2. Affine(mat') /\ Turning(mat) => Turning(mat')
  BY <1>1, MulAffine, MulTurning DEF Placed
<1>3. Affine(mat')
  BY <1>1, MulAffine DEF Placed
<1>4. Rotated(mat, quat) => Rotated(mat', quat')
  BY TurnedOn DEF Placed
<1>5. /\ Recorded' /\ OnlyOf(calls', TurnKinds) => OnlyOf(calls, TurnKinds)
      /\ OnlyOf(calls', RigidKinds) => OnlyOf(calls, RigidKinds)
  BY OneMore
<1> QED
  BY <1>2, <1>3, <1>4, <1>5, OneMore, PlacedNext DEF Placed

\* What Rotate records of the axis and the angle.
TurnAbout(turn) ==
  [kind |-> "turn", v |-> [i \in Axis |-> Times(Neg(turn.half.sin), turn.axis[i])],
   w |-> Times(turn.half.cos, SqrtQ(Easy_vector_dot(turn.axis, turn.axis)))]

\* A vector without length is zero.
LEMMA NoLength ==
    ASSUME NEW v, Three(v), Dot(v, v) = Zero
    PROVE  \A i \in Axis : v[i] = Zero
<1>1. PICK x, y, z, d \in Int : d > 0 /\ Parts(v, x, y, z, d)
  BY ThreeParts
<1>2. PICK n, e \in Int : n = x * x + y * y + z * z /\ e = d * d /\ e # 0
  BY <1>1
<1>3. Is(Zero, n, e)
  BY <1>1, <1>2, DotParts
<1>4. n * e = 0 * e
  <2>1. PICK o : o = 0
    OBVIOUS
  <2>2. Is(Zero, o, e)
    BY <1>2, <2>1, ZeroIs
  <2>3. n * e = o * e
    BY <1>3, <2>2, IsCross
  <2> QED
    BY <2>1, <2>3
<1>5. x = 0 /\ y = 0 /\ z = 0
  <2>1. n = 0
    BY <1>2, <1>4
  <2>2. x * x >= 0 /\ y * y >= 0 /\ z * z >= 0
    OBVIOUS
  <2>3. x * x = 0 /\ y * y = 0 /\ z * z = 0
    BY <1>2, <2>1, <2>2
  <2> QED
    BY <2>3
<1>6. v[0] = Zero /\ v[1] = Zero /\ v[2] = Zero
  BY <1>1, <1>5, ZeroIs, IsEqual DEF Parts
<1> QED
  BY <1>6, LaneSet

\* What Rotate records is the turn of the quaternion it multiplies by.
LEMMA TurnsAre ==
    ASSUME NEW turn \in Turns, NEW r, r = Easy_quat_axis_angle(turn.axis, turn.half)
    PROVE  /\ IsUnit(r) /\ TurnAbout(turn) \in TurnMotions
           /\ SameTurn(TurnAbout(turn).v, TurnAbout(turn).w, r)
<1>1. turn.axis \in V3 /\ IsHalf(turn.half) /\ IsNumber(SqrtQ(Easy_vector_dot(turn.axis, turn.axis)))
  BY TurnsAssumption, NumberNum DEF IsHalf, HalfAngle
<1>2. IsUnit(r)
  BY <1>1, AxisAngleIs DEF IsUnit
<1>3. PICK x, s, k, d : x = turn.axis /\ s = Neg(turn.half.sin) /\ k = turn.half.cos /\ d = Easy_vector_dot(x, x)
  OBVIOUS
<1>4. PICK l : l = SqrtQ(d)
  OBVIOUS
<1>5. Three(x) /\ Dot(x, x) = d
  BY <1>1, <1>3, LaneSet DEF V3, Three, Dot
<1>6. d \in Num
  BY <1>5, DotCommutes
<1>7. l \in Num /\ Times(l, l) = d
  BY <1>1, <1>3, <1>4, <1>6, SqrtSquares
<1>8. s \in Num /\ k \in Num
  BY <1>1, <1>3, NumClosed DEF IsHalf
<1>9. PICK v, w : v = [i \in Axis |-> Times(s, x[i])] /\ w = Times(k, l)
  OBVIOUS
<1>10. v \in V3 /\ w \in Num
  BY <1>1, <1>3, <1>7, <1>8, <1>9, NumClosed DEF V3
<1>11. TurnAbout(turn) = [kind |-> "turn", v |-> v, w |-> w]
  BY <1>3, <1>4, <1>9 DEF TurnAbout
<1>12. l = Zero \/ ~Less(l, Tiny)
  BY <1>3, <1>4, TurnsAssumption DEF Tiny
<1>13. Less(Zero, Tiny)
  <2>1. PICK n, o, t : n = 0 /\ o = 1 /\ t = 100000
    OBVIOUS
  <2>2. Is(Zero, n, o) /\ Is(Tiny, o, t) /\ o > 0 /\ t > 0
    BY <2>1, ZeroIs, TinyIs
  <2>3. Less(Zero, Tiny) <=> n * t < o * o
    BY <2>2, LessIs
  <2> QED
    BY <2>1, <2>3
<1>14. SameTurn(v, w, r)
  <2>1. CASE l = Zero
    <3>1. d = Zero
      BY <1>7, <2>1, Neutral, Constants
    <3>2. \A i \in Axis : x[i] = Zero
      BY <1>5, <3>1, NoLength
    <3>3. (\A i \in Axis : v[i] = Zero) /\ w = Zero
      BY <1>8, <1>9, <2>1, <3>2, Neutral
    <3>4. r = NoTurn
      BY <1>3, <1>4, <1>13, <2>1 DEF Easy_quat_axis_angle, NoTurn, Tiny
    <3> QED
      BY <3>3, <3>4 DEF SameTurn
  <2>2. CASE l # Zero
    <3>1. PICK f : f = Over(s, l)
      OBVIOUS
    <3>2. f \in Num /\ Times(l, f) = s
      BY <1>7, <1>8, <2>2, <3>1, Quotients3
    <3>3. r[0] = Times(f, x[0]) /\ r[1] = Times(f, x[1]) /\ r[2] = Times(f, x[2]) /\ r[3] = k
      <4>1. r = Ps(Times(f, x[0]), Times(f, x[1]), Times(f, x[2]), k)
        BY <1>3, <1>4, <1>12, <2>2, <3>1 DEF Easy_quat_axis_angle, Tiny
      <4> QED
        BY <4>1, PsAt
    <3>4. /\ Times(s, x[0]) = Times(l, r[0]) /\ Times(s, x[1]) = Times(l, r[1])
          /\ Times(s, x[2]) = Times(l, r[2])
      BY <1>5, <1>7, <3>2, <3>3, TimesAssociates DEF Three
    <3>5. \A i \in Axis : v[i] = Times(l, r[i])
      BY <1>9, <3>4, LaneSet
    <3>6. w = Times(l, r[3])
      BY <1>7, <1>8, <1>9, <3>3, TimesCommutes
    <3> QED
      BY <1>7, <2>2, <3>5, <3>6 DEF SameTurn
  <2> QED
    BY <2>1, <2>2
<1>15. [kind |-> "turn", v |-> v, w |-> w] \in TurnMotions
  BY <1>2, <1>10, <1>14 DEF TurnMotions
<1> QED
  BY <1>2, <1>11, <1>14, <1>15

\* Rotations about an axis keep the invariant ...
LEMMA RotatePlaced ==
    ASSUME Kept, Recorded, Placed, NEW turn \in Turns, Rotate(turn)
    PROVE  Recorded' /\ Placed'
<1>1. PICK r, c : r = Easy_quat_axis_angle(turn.axis, turn.half) /\ c = TurnAbout(turn)
  OBVIOUS
<1>2. IsUnit(r)
  BY <1>1, TurnsAre
<1>3. mat' = Mul(RotationOf(r), mat)
  BY <1>1, <1>2, RotateQuatIs, UnitOne DEF Rotate, Easy_matrix_rotate, Kept, IsUnit
<1>4. quat' = Easy_quat_Mult(quat, r)
  BY <1>1 DEF Rotate
<1>5. c \in Motions /\ c.kind = "turn"
  BY <1>1, TurnsAre DEF Motions, TurnMotions
<1>6. Before(c)
  BY <1>1 DEF Rotate, TurnAbout
<1> QED
  BY <1>2, <1>3, <1>4, <1>5, <1>6, TurnsPlaced

\* What RotateQuat records is the turn of the quaternion normalized.
LEMMA QuatsAre ==
    ASSUME NEW r \in Quats, NEW u, u = Easy_quat_normalize_sse(r)
    PROVE  /\ r \in V4 /\ IsNumber(SqrtQ(Length2(r))) /\ ~Less(Length2(r), Tiny)
           /\ IsUnit(u) /\ RotationOf(u) = RotationOf(r)
           /\ SameTurn(Easy_vector_copy_out(r), r[3], u)
           /\ [kind |-> "turn", v |-> Easy_vector_copy_out(r), w |-> r[3]] \in TurnMotions
<1>1. r \in V4 /\ IsNumber(SqrtQ(Length2(r))) /\ ~Less(Length2(r), Tiny)
  BY QuatsAssumption, NumberNum DEF Length2, Tiny
<1>2. PICK v : v = Easy_vector_copy_out(r)
  OBVIOUS
<1>3. v = [i \in Axis |-> r[i]]
  BY <1>2, XYZAt
<1>4. v \in V3 /\ r[3] \in Num /\ \A i \in Lane : r[i] \in Num
  BY <1>1, <1>3, V4Reg, LaneSet DEF V3
<1>5. IsUnit(u) /\ RotationOf(u) = RotationOf(r)
  BY <1>1, NormalizedUnit
<1>6. PICK n, l : n = Length2(r) /\ l = SqrtQ(n)
  OBVIOUS
<1>7. n \in Num /\ n # Zero
  <2>1. PICK x, y, z, w, d \in Int : d > 0 /\ Is(r[0], x, d) /\ Is(r[1], y, d) /\ Is(r[2], z, d) /\ Is(r[3], w, d)
    BY <1>1, CommonQ
  <2>2. PICK k, e \in Int : k = Length2Int(x, y, z, w) /\ e = d * d /\ e > 0
    BY <2>1 DEF Length2Int
  <2>3. Is(n, k, e)
    BY <1>6, <2>1, <2>2, Length2Is
  <2>4. k > 0
    BY <1>1, <1>6, <2>2, <2>3, NotTiny
  <2>5. n # Zero
    <3>1. ASSUME n = Zero PROVE FALSE
      <4>1. Is(n, 0, e)
        BY <2>2, <3>1, ZeroIs
      <4>2. k * e = 0 * e
        BY <2>3, <4>1, IsCross
      <4> QED
        BY <2>2, <2>4, <4>2
    <3> QED
      BY <3>1
  <2> QED
    BY <2>3, <2>5, IsInts
<1>8. l \in Num /\ l # Zero
  <2>1. l \in Num /\ Times(l, l) = n
    BY <1>1, <1>6, <1>7, SqrtSquares
  <2> QED
    BY <1>7, <2>1, Neutral, Constants
<1>9. \A i \in Lane : u[i] = Over(r[i], l)
  BY <1>1, <1>6, <1>8, NormalizedIs
<1>10. \A i \in Lane : r[i] = Times(l, u[i])
  BY <1>4, <1>8, <1>9, Quotients3
<1>11. r[3] = Times(l, u[3]) /\ \A i \in Axis : v[i] = Times(l, u[i])
  BY <1>3, <1>10, LaneSet
<1>12. SameTurn(v, r[3], u)
  BY <1>8, <1>11 DEF SameTurn
<1>13. [kind |-> "turn", v |-> v, w |-> r[3]] \in TurnMotions
  BY <1>4, <1>5, <1>12 DEF TurnMotions
<1> QED
  BY <1>1, <1>2, <1>5, <1>12, <1>13

\* ... and so do those by a quaternion.
LEMMA RotateQuatPlaced ==
    ASSUME Kept, Recorded, Placed, NEW r \in Quats, RotateQuat(r)
    PROVE  Recorded' /\ Placed'
<1>1. PICK u, c : u = Easy_quat_normalize_sse(r) /\ c = [kind |-> "turn", v |-> Easy_vector_copy_out(r), w |-> r[3]]
  OBVIOUS
<1>2. IsUnit(u) /\ RotationOf(u) = RotationOf(r)
  BY <1>1, QuatsAre
<1>3. mat' = Mul(RotationOf(u), mat)
  BY <1>2, QuatsAre, RotateQuatIs DEF RotateQuat, Kept
<1>4. quat' = Easy_quat_Mult(quat, u)
  BY <1>1 DEF RotateQuat
<1>5. c \in Motions /\ c.kind = "turn"
  BY <1>1, QuatsAre DEF Motions, TurnMotions
<1>6. Before(c)
  BY <1>1 DEF RotateQuat
<1> QED
  BY <1>2, <1>3, <1>4, <1>5, <1>6, TurnsPlaced

\* A scaling is neither a move nor a turn.
LEMMA ScalesRecorded ==
    ASSUME Recorded, NEW v \in Factors, NEW c, c = [kind |-> "scale", v |-> v], Before(c) \/ After(c)
    PROVE  Recorded' /\ ~OnlyOf(calls', TurnKinds) /\ ~OnlyOf(calls', RigidKinds)
<1>1. c \in Motions /\ c.kind = "scale"
  BY DEF Motions, ScaleMotions
<1> QED
  BY <1>1, OneMore DEF TurnKinds, RigidKinds

\* Scalings keep the invariant: nothing is rigid any more.
LEMMA ScalePlaced ==
    ASSUME Kept, Recorded, Placed, NEW v \in Scales, Scale(v)
    PROVE  Recorded' /\ Placed'
<1>1. v \in V3 /\ v \in Factors
  BY ScalesAssumption, NumberNum, LaneSet DEF Factors
<1>2. Recorded' /\ ~OnlyOf(calls', TurnKinds) /\ ~OnlyOf(calls', RigidKinds)
  BY <1>1, ScalesRecorded DEF Scale
<1>3. /\ mat' \in M4
      /\ \A j, i \in Lane : mat'[j][i] = IF j = 3 THEN mat[j][i] ELSE Times(mat[j][i], v[j])
  BY <1>1, ScaleIs DEF Scale, Kept
<1>4. Times(Zero, v[0]) = Zero /\ Times(Zero, v[1]) = Zero /\ Times(Zero, v[2]) = Zero
  BY <1>1, Neutral, LaneSet DEF V3
<1>5. mat'[0][3] = Zero /\ mat'[1][3] = Zero /\ mat'[2][3] = Zero /\ mat'[3][3] = One
  BY <1>3, <1>4, LaneSet DEF Placed, Affine
<1>6. Affine(mat')
  BY <1>3, <1>5, LaneSet DEF Affine
<1> QED
  BY <1>2, <1>6, PlacedNext

Mirrored == [i \in Axis |-> Int2Q(IF i = 1 THEN -1 ELSE 1)]

\* The matrix TurnY mirrors y.
LEMMA MirrorAre ==
    /\ Mirrored \in Factors /\ Mirrored[0] = One /\ Mirrored[1] = Neg(One) /\ Mirrored[2] = One
    /\ Affine(TurnY)
    /\ \A j, i \in Lane : TurnY[j][i] = IF j # i THEN Zero ELSE IF j = 1 THEN Neg(One) ELSE One
<1>1. Mirrored[0] = One /\ Mirrored[1] = Neg(One) /\ Mirrored[2] = One /\ Mirrored = [i \in Axis |-> Mirrored[i]]
  <2>1. Mirrored[0] = Int2Q(1) /\ Mirrored[1] = Int2Q(-1) /\ Mirrored[2] = Int2Q(1) /\ Mirrored = [i \in Axis |-> Mirrored[i]]
    BY LaneSet DEF Mirrored
  <2> QED
    BY <2>1, Signs
<1>2. Neg(One) # Zero
  <2>1. Times(Neg(One), Zero) = Zero
    BY Signs, Neutral
  <2> QED
    BY <2>1, Signs, OneNotZero
<1>3. Mirrored \in Factors
  BY <1>1, <1>2, Signs, Constants, OneNotZero, LaneSet DEF Factors, V3
<1>4. PICK a, b, c, d : /\ a = Vec(1, 0, 0, 0) /\ b = Vec(0, -1, 0, 0)
                        /\ c = Vec(0, 0, 1, 0) /\ d = Vec(0, 0, 0, 1)
  OBVIOUS
<1>5. TurnY[0] = a /\ TurnY[1] = b /\ TurnY[2] = c /\ TurnY[3] = d
  BY <1>4, PsAt DEF TurnY, Rows
<1>6. /\ a[0] = One /\ a[1] = Zero /\ a[2] = Zero /\ a[3] = Zero
      /\ b[0] = Zero /\ b[1] = Neg(One) /\ b[2] = Zero /\ b[3] = Zero
      /\ c[0] = Zero /\ c[1] = Zero /\ c[2] = One /\ c[3] = Zero
      /\ d[0] = Zero /\ d[1] = Zero /\ d[2] = Zero /\ d[3] = One
  BY <1>4, VecIs, Signs
<1>7. \A j, i \in Lane : TurnY[j][i] = IF j # i THEN Zero ELSE IF j = 1 THEN Neg(One) ELSE One
  BY <1>5, <1>6, LaneSet
<1>8. Affine(TurnY)
  BY <1>7, ConstantMatrices, LaneSet DEF Affine
<1> QED
  BY <1>1, <1>3, <1>7, <1>8

\* Mirroring keeps it in the same way.
LEMMA MirrorPlaced ==
    ASSUME Kept, Recorded, Placed, Mirror
    PROVE  Recorded' /\ Placed'
<1>1. Recorded' /\ ~OnlyOf(calls', TurnKinds) /\ ~OnlyOf(calls', RigidKinds)
  BY ScalesRecorded, MirrorAre DEF Mirror, Mirrored
<1>2. mat' = Mul(mat, TurnY)
  BY MirrorIs DEF Mirror, Kept
<1>3. Affine(mat')
  BY <1>2, MirrorAre, MulAffine DEF Placed
<1> QED
  BY <1>1, <1>3, PlacedNext

\* A quarter turn is a turn, and no quaternion is kept for it.
LEMMA SwapYZPlaced ==
    ASSUME Kept, Recorded, Placed, SwapYZ
    PROVE  Recorded' /\ Placed'
<1>1. PICK c : c = [kind |-> "swap"]
  OBVIOUS
<1>2. c \in Motions /\ c.kind = "swap"
  BY <1>1 DEF Motions, SwapMotions
<1>3. Recorded' /\ ~OnlyOf(calls', RigidKinds) /\ OnlyOf(calls', TurnKinds) => OnlyOf(calls, TurnKinds)
  BY <1>1, <1>2, OneMore DEF SwapYZ, RigidKinds
<1>4. Recorded' /\ ~OnlyOf(calls', RigidKinds)
  BY <1>1, <1>2, OneMore DEF SwapYZ, RigidKinds
<1>5. mat' = Mul(TurnYZ, mat)
  BY SwapYZIs DEF SwapYZ, Kept
<1>6. IdentityMatrix[3] = Vec(0, 0, 0, 1)
  BY PsAt DEF IdentityMatrix, Rows
<1>7. Turning(TurnYZ)
  BY <1>6, QuartersTurning DEF TurnYZ
<1>8. Affine(mat') /\ (Turning(mat) => Turning(mat'))
  BY <1>5, <1>7, MulAffine, MulTurning DEF Placed, Turning, Linear
<1> QED
  BY <1>3, <1>4, <1>8, PlacedNext DEF Placed

\* All motions undone, last one first.
LEMMA AllUndone ==
    ASSUME Recorded, calls' = Reversed
    PROVE  /\ Recorded'
           /\ OnlyOf(calls', TurnKinds) => OnlyOf(calls, TurnKinds)
           /\ OnlyOf(calls', RigidKinds) => OnlyOf(calls, RigidKinds)
<1>1. calls' = Backwards(calls)
  BY DEF Reversed, Backwards
<1> QED
  BY <1>1, TurnedMotions DEF Recorded

\* Inversions keep it: the quaternion is read off the new matrix.
LEMMA InvertPlaced ==
    ASSUME Kept, Recorded, Placed, Invertible, Invert
    PROVE  Recorded' /\ Placed'
<1>1. mat \in M4 /\ mat' \in M4 /\ Mul(mat, mat') = IdentityMatrix /\ Mul(mat', mat) = IdentityMatrix
  BY InversesAgree DEF Kept, Invertible, Invert
<1>2. Affine(mat')
  BY <1>1, InverseAffine DEF Placed
<1>3. Turning(mat) => Turning(mat')
  BY <1>1, InverseTurning, TransposeTurning
<1>4. ASSUME OnlyOf(calls, RigidKinds) PROVE Rotated(mat', quat')
  <2>1. IsUnit(quat) /\ Block(mat, RotationOf(quat))
    BY <1>4 DEF Placed, Rotated
  <2>2. Block(mat', T4(RotationOf(quat)))
    BY <1>1, <2>1, UnitTurning, InverseBlock DEF Placed
  <2>3. quat' = QuatFromMatrix(mat')
    BY <1>4, OnlyIs DEF Invert
  <2> QED
    BY <2>1, <2>2, <2>3, ReadOff
<1>5. Recorded' /\ (OnlyOf(calls', TurnKinds) => OnlyOf(calls, TurnKinds))
      /\ (OnlyOf(calls', RigidKinds) => OnlyOf(calls, RigidKinds))
  BY AllUndone DEF Invert
<1> QED
  BY <1>2, <1>3, <1>4, <1>5, PlacedNext DEF Placed

\* So do transpositions, of turns only.
LEMMA TransposePlaced ==
    ASSUME Kept, Recorded, Placed, Transpose
    PROVE  Recorded' /\ Placed'
<1>1. Turning(mat)
  BY OnlyIs DEF Transpose, Placed
<1>2. mat' = T4(mat)
  BY M4Mat, TransposeIs DEF Transpose, Kept
<1>3. Turning(mat') /\ Affine(mat')
  BY <1>1, <1>2, TransposeTurning DEF Turning, Linear
<1>4. ASSUME OnlyOf(calls, RigidKinds) PROVE Rotated(mat', quat')
  <2>1. IsUnit(quat) /\ Block(mat, RotationOf(quat))
    BY <1>4 DEF Placed, Rotated
  <2>2. Block(mat', T4(RotationOf(quat)))
    BY <1>2, <2>1, T4Mat, LaneSet DEF Block
  <2>3. quat' = QuatFromMatrix(mat')
    BY <1>4, OnlyIs DEF Transpose
  <2> QED
    BY <2>1, <2>2, <2>3, ReadOff
<1>5. Recorded' /\ (OnlyOf(calls', TurnKinds) => OnlyOf(calls, TurnKinds))
      /\ (OnlyOf(calls', RigidKinds) => OnlyOf(calls, RigidKinds))
  BY AllUndone DEF Transpose
<1> QED
  BY <1>3, <1>4, <1>5, PlacedNext

\* Every call keeps the invariant.
LEMMA NextPlaced ==
    ASSUME Kept, Recorded, Placed, Invertible, [Next]_vars
    PROVE  Recorded' /\ Placed'
<1>1. CASE Next
  BY <1>1, MovesPlaced, RotatePlaced, RotateQuatPlaced, ScalePlaced, MirrorPlaced, SwapYZPlaced,
     InvertPlaced, TransposePlaced DEF Next
<1>2. CASE UNCHANGED vars
  BY <1>2 DEF vars, Recorded, Placed
<1> QED
  BY <1>1, <1>2

(***************************************************************************)
(* The object after any sequence of calls.                                 *)
(***************************************************************************)

\* The inductive invariant of the object: both matrices are alike, calls holds
\* motions, and the last column, the turns and the quaternion are what those
\* say.
THEOREM ObjectConsistent == Spec /\ []Invertible => [](Kept /\ Recorded /\ Placed)
<1>1. Init => Kept /\ Recorded /\ Placed
  <2>1. \A look \in Looks : LookMatrix(look) \in M4
    BY LooksAreFrames DEF IsFrame, Affine
  <2> QED
    BY <2>1, InitKept, InitPlaced
<1>2. (Kept /\ Recorded /\ Placed) /\ Invertible /\ [Next]_vars => (Kept /\ Recorded /\ Placed)'
  BY NextKept, NextPlaced
<1> QED
  BY <1>1, <1>2, PTL DEF Spec

\* After any sequence of calls all entries are numbers, the last column is 0 0
\* 0 1, and so is the quaternion one of numbers while it is kept: no division
\* by zero or root of a non-square slips into EasyMatrix.h's results while the
\* double inverse does not give up.
THEOREM TypesAreKept == Spec /\ []Invertible => []TypeOK
<1>1. Kept /\ Recorded /\ Placed => TypeOK
  <2> SUFFICES ASSUME Kept, Recorded, Placed PROVE TypeOK
    OBVIOUS
  <2>1. \A j, i \in Lane : IsNumber(mat[j][i])
    BY M4Mat, NumParts DEF Kept
  <2>2. \A j \in Lane : mat[j][3] = IF j = 3 THEN One ELSE Zero
    BY DEF Placed, Affine
  <2>3. Rigid => \A i \in Lane : IsNumber(quat[i])
    BY OnlyIs, NumParts DEF Placed, Rotated, IsUnit, V4
  <2> QED
    BY <2>1, <2>2, <2>3 DEF TypeOK
<1> QED
  BY <1>1, ObjectConsistent, PTL

\* The product of the quaternions (EasyQuat.h:504) stays the rotation of the
\* matrix, and QuatFromMatrix (EasyQuat.h:249) reads it off up to sign, through
\* whichever of its branches, for all rigid motions.
THEOREM QuaternionAlwaysKeepsUp == Spec /\ []Invertible => []QuaternionKeepsUp
<1>1. Placed => QuaternionKeepsUp
  <2> SUFFICES ASSUME Placed, Rigid
               PROVE  /\ \A j, i \in Axis : Easy_quat_to_matrix(quat)[j][i] = mat[j][i]
                      /\ QuatFromMatrix(mat) \in {quat, [i \in Lane |-> Neg(quat[i])]}
    BY DEF QuaternionKeepsUp
  <2>1. IsUnit(quat) /\ Block(mat, RotationOf(quat))
    BY OnlyIs DEF Placed, Rotated
  <2>2. Easy_quat_to_matrix(quat) = RotationOf(quat)
    BY <2>1, UnitMatrix
  <2>3. QuatFromMatrix(mat) \in {quat, Opposite(quat)}
    BY <2>1, QuaternionReadOff DEF Block
  <2> QED
    BY <2>1, <2>2, <2>3 DEF Block, Opposite
<1> QED
  BY <1>1, ObjectConsistent, PTL

\* The product of two registers by two swizzles and two sums.
LEMMA DotPs ==
    ASSUME NEW v \in V4, NEW w \in V4, NEW i \in Lane
    PROVE  mm_dot_ps(v, w)[i] = Plus4(Times(v[0], w[0]), Times(v[1], w[1]), Times(v[2], w[2]), Times(v[3], w[3]))
<1>1. PICK d \in Int, x \in [Lane -> Int] : d > 0 /\ \A k \in Lane : Is(v[k], x[k], d)
  BY CommonV4
<1>2. PICK e \in Int, y \in [Lane -> Int] : e > 0 /\ \A k \in Lane : Is(w[k], y[k], e)
  BY CommonV4
<1>3. /\ Is(v[0], x[0], d) /\ Is(v[1], x[1], d) /\ Is(v[2], x[2], d) /\ Is(v[3], x[3], d)
      /\ Is(w[0], y[0], e) /\ Is(w[1], y[1], e) /\ Is(w[2], y[2], e) /\ Is(w[3], y[3], e)
  BY <1>1, <1>2, LaneSet
<1>4. Is(mm_dot_ps(v, w)[i], x[0] * y[0] + x[1] * y[1] + x[2] * y[2] + x[3] * y[3], d * e)
  BY <1>3, DotPsIs
<1>5. Is(Plus4(Times(v[0], w[0]), Times(v[1], w[1]), Times(v[2], w[2]), Times(v[3], w[3])),
         x[0] * y[0] + x[1] * y[1] + x[2] * y[2] + x[3] * y[3], d * e)
  BY <1>3, DotIs
<1> QED
  BY <1>4, <1>5, IsEqual

\* A direction through the block of a matrix.
LEMMA NormalIs ==
    ASSUME NEW m, NEW v, NEW u, u = Easy_matrix_mult_Normal3X3(m, v)
    PROVE  /\ IsReg(u)
           /\ \A i \in Lane : u[i] = Plus3(Times(v[0], m[0][i]), Times(v[1], m[1][i]), Times(v[2], m[2][i]))
<1>1. PICK a, b, c : a = pshufd(v, Imm(0)) /\ b = pshufd(v, Imm(85)) /\ c = pshufd(v, Imm(170))
  OBVIOUS
<1>2. \A i \in Lane : a[i] = v[0] /\ b[i] = v[1] /\ c[i] = v[2]
  BY <1>1, Splat
<1>3. PICK f, g, h : f = mulps(a, m[0]) /\ g = mulps(b, m[1]) /\ h = mulps(c, m[2])
  OBVIOUS
<1>4. \A i \in Lane : f[i] = Times(v[0], m[0][i]) /\ g[i] = Times(v[1], m[1][i]) /\ h[i] = Times(v[2], m[2][i])
  BY <1>2, <1>3, Lanewise
<1>5. u = addps(addps(f, g), h)
  BY <1>1, <1>3 DEF Easy_matrix_mult_Normal3X3
<1> QED
  BY <1>4, <1>5, Lanewise DEF Plus3

\* What a rotation turns, the rows of its inverse turn back: x is the row p
\* through R, and its products with the rows of R are p again.
LEMMA TurnsBack ==
    ASSUME NEW R, Turning(R), NEW p, Three(p), NEW u,
           \A i \in Axis : u[i] = Plus3(Times(p[0], R[0][i]), Times(p[1], R[1][i]), Times(p[2], R[2][i]))
    PROVE  \A j \in Axis : Plus3(Times(u[0], R[j][0]), Times(u[1], R[j][1]), Times(u[2], R[j][2])) = p[j]
<1>1. PICK P : P = [j \in Lane |-> [i \in Lane |-> IF i = 3 THEN Zero ELSE p[i]]]
  OBVIOUS
<1>2. IsMat(P) /\ \A j, i \in Lane : P[j][i] = IF i = 3 THEN Zero ELSE p[i]
  BY <1>1 DEF IsMat, IsReg
<1>3. \A j, i \in Lane : P[j][i] \in Num
  BY <1>2, Constants, LaneSet DEF Three
<1>4. P \in M4
  BY <1>2, <1>3, MatM4
<1>5. R \in M4 /\ T4(R) \in M4 /\ R[0][3] = Zero /\ R[1][3] = Zero /\ R[2][3] = Zero
      /\ \A j, i \in Lane : R[j][i] \in Num
  BY TransposeLinear, M4Mat, LaneSet DEF Turning, Linear, Affine
<1>6. PICK T : T = Mul(P, R)
  OBVIOUS
<1>7. T \in M4 /\ Mul(T, T4(R)) = P
  BY <1>4, <1>5, <1>6, MulAssociates, MulClosed, MulIdentity DEF Turning
<1>8. ASSUME NEW i \in Axis PROVE T[0][i] = u[i] /\ u[i] \in Num
  <2>1. i \in Lane /\ 0 \in Lane
    BY LaneSet
  <2>2. T[0][i] = Plus4(Times(P[0][0], R[0][i]), Times(P[0][1], R[1][i]), Times(P[0][2], R[2][i]), Times(P[0][3], R[3][i]))
    BY <1>6, <2>1 DEF Mul
  <2>3. P[0][0] = p[0] /\ P[0][1] = p[1] /\ P[0][2] = p[2] /\ P[0][3] = Zero
    BY <1>2, LaneSet
  <2>4. R[3][i] \in Num /\ R[0][i] \in Num /\ R[1][i] \in Num /\ R[2][i] \in Num
    BY <1>5, <2>1, LaneSet
  <2>5. u[i] \in Num
    <3>1. /\ Times(p[0], R[0][i]) \in Num /\ Times(p[1], R[1][i]) \in Num
          /\ Times(p[2], R[2][i]) \in Num
      BY <2>4, NumClosed DEF Three
    <3>2. u[i] = Plus(Plus(Times(p[0], R[0][i]), Times(p[1], R[1][i])), Times(p[2], R[2][i]))
      BY <1>8 DEF Plus3
    <3> QED
      BY <3>1, <3>2, NumClosed
  <2>6. T[0][i] = Plus(u[i], Zero)
    BY <2>2, <2>3, <2>4, Neutral DEF Plus4
  <2> QED
    BY <2>5, <2>6, Neutral
<1>9. T[0][3] \in Num
  BY <1>7, M4Mat, LaneSet
<1> TAKE j \in Axis
<1>10. j \in Lane /\ 0 \in Lane
  BY LaneSet
<1>11. PICK a, b, c, d : a = R[j][0] /\ b = R[j][1] /\ c = R[j][2] /\ d = R[j][3]
  OBVIOUS
<1>12. a \in Num /\ b \in Num /\ c \in Num /\ d = Zero
  BY <1>5, <1>10, <1>11, LaneSet
<1>13. Mul(T, T4(R))[0][j] = Plus4(Times(T[0][0], a), Times(T[0][1], b), Times(T[0][2], c), Times(T[0][3], d))
  BY <1>10, <1>11, T4Mat, LaneSet DEF Mul
<1>14. P[0][j] = p[j] /\ p[j] \in Num
  BY <1>2, <1>10, LaneSet DEF Three
<1>15. PICK s : s = Plus3(Times(u[0], a), Times(u[1], b), Times(u[2], c))
  OBVIOUS
<1>16. u[0] \in Num /\ u[1] \in Num /\ u[2] \in Num /\ T[0][0] = u[0] /\ T[0][1] = u[1] /\ T[0][2] = u[2]
  BY <1>8, LaneSet
<1>17. s \in Num
  BY <1>12, <1>15, <1>16, NumClosed DEF Plus3
<1>18. p[j] = Plus(s, Zero)
  BY <1>7, <1>9, <1>12, <1>13, <1>14, <1>15, <1>16, Neutral DEF Plus4
<1> QED
  BY <1>11, <1>15, <1>17, <1>18, Neutral

\* The rows of a joint's matrix (EasyQuat.h:352-481) turn back what the matrix
\* of the object turns, and move by its position, for all rigid motions and
\* points.
THEOREM JointsAlwaysTurnBack == Spec /\ []Invertible => []JointTurnsBack
<1>1. Kept /\ Placed => JointTurnsBack
  <2> SUFFICES ASSUME Kept, Placed, Rigid PROVE JointTurnsBack
    BY DEF JointTurnsBack
  <2>1. IsUnit(quat) /\ Block(mat, RotationOf(quat)) /\ Affine(mat)
    BY OnlyIs DEF Placed, Rotated
  <2>2. PICK R, t, J : R = RotationOf(quat) /\ t = mat[3] /\ J = QuatRows(quat, t)
    OBVIOUS
  <2>3. Turning(R)
    BY <2>1, <2>2, UnitTurning
  <2>4. J = Easy_Joint_to_matrix(<<[quat |-> SIMD_SP_one3, pos |-> SIMD_SP_one3],
                                   [quat |-> quat, pos |-> t]>>)[2]
    BY <2>2 DEF Easy_Joint_to_matrix
  <2>5. IsReg(quat)
    BY <2>1, V4Reg DEF IsUnit
  <2>6. \A j, i \in Axis : J[j][i] = R[j][i]
    <3>1. PICK K : K = QuatRows(quat, SIMD_SP_one3)
      OBVIOUS
    <3>2. K = R
      BY <2>1, <2>2, <3>1, UnitMatrix DEF Easy_quat_to_matrix
    <3>3. \A j, i \in Axis : J[j][i] = K[j][i]
      BY <2>2, <2>5, <3>1, QuatRowsAt, LaneSet
    <3> QED
      BY <3>2, <3>3
  <2>7. IsMat(J) /\ \A j \in Axis : J[j][3] = t[j]
    BY <2>2, <2>5, QuatRowsAt, LaneSet
  <2>8. \A j \in Axis : t[j] \in Num
    BY <2>1, <2>2, M4Mat, LaneSet DEF Affine
  <2>9. \A j \in Axis : J[j] \in V4 /\ \A i \in Axis : R[j][i] \in Num
    <3>1. \A j, i \in Axis : R[j][i] \in Num /\ j \in Lane /\ i \in Lane
      BY <2>3, M4Mat, LaneSet DEF Turning, Linear, Affine
    <3>2. \A j \in Axis : IsReg(J[j]) /\ \A i \in Lane : J[j][i] \in Num
      BY <2>6, <2>7, <2>8, <3>1, LaneSet DEF IsMat
    <3> QED
      BY <3>1, <3>2, V4Reg
  <2>10. ASSUME NEW p \in Probes, NEW turned, turned = Easy_matrix_mult_Normal3X3(sse, Easy_vector_copy(p, Zero)),
                NEW back, back = [j \in Axis |-> mm_dot_ps(J[j], [turned EXCEPT ![3] = One])[3]]
         PROVE  back = Add3(p, t)
    <3>1. p \in V3
      BY ProbesAssumption, NumberNum
    <3>2. PICK v, u : v = Easy_vector_copy(p, Zero) /\ u = [turned EXCEPT ![3] = One]
      OBVIOUS
    <3>3. v[0] = p[0] /\ v[1] = p[1] /\ v[2] = p[2] /\ Three(p)
      BY <3>1, <3>2, CopyAt, Constants DEF Three
    <3>4. /\ IsReg(turned)
          /\ \A i \in Lane : turned[i] = Plus3(Times(p[0], mat[0][i]), Times(p[1], mat[1][i]), Times(p[2], mat[2][i]))
      BY <2>10, <3>2, <3>3, NormalIs DEF Kept
    <3>5. \A i \in Axis : turned[i] = Plus3(Times(p[0], R[0][i]), Times(p[1], R[1][i]), Times(p[2], R[2][i]))
      BY <2>1, <2>2, <3>4, LaneSet DEF Block
    <3>6. PICK w, k : w = One /\ k = 3
      OBVIOUS
    <3>7. IsReg(u) /\ u[k] = w /\ \A i \in Lane : i # k => u[i] = turned[i]
      <4>1. PICK z : z = Put(turned, k, w)
        OBVIOUS
      <4>2. k \in Lane
        BY <3>6, LaneSet
      <4>3. IsReg(z) /\ z[k] = w /\ \A i \in Lane : i # k => z[i] = turned[i]
        BY <3>4, <4>1, <4>2, PutIs
      <4>4. z = u
        BY <3>2, <3>6, <4>1 DEF Put
      <4> QED
        BY <4>3, <4>4
    <3>8. u[0] = turned[0] /\ u[1] = turned[1] /\ u[2] = turned[2] /\ u[3] = One
      BY <3>6, <3>7, LaneSet
    <3>9. Three(turned)
      BY <2>9, <3>3, <3>5, NumClosed, LaneSet DEF Three, Plus3
    <3>10. u \in V4
      BY <3>7, <3>8, <3>9, V4Reg, Constants, LaneSet DEF Three
    <3>11. ASSUME NEW j \in Axis PROVE back[j] = Plus(p[j], t[j])
      <4>1. back[j] = mm_dot_ps(J[j], u)[3]
        BY <2>10, <3>2, <3>11
      <4>2. PICK x : x = J[j]
        OBVIOUS
      <4>3. x \in V4 /\ x[0] = R[j][0] /\ x[1] = R[j][1] /\ x[2] = R[j][2] /\ x[3] = t[j]
        BY <2>6, <2>7, <2>9, <3>11, <4>2, LaneSet
      <4>4. back[j] = Plus4(Times(x[0], u[0]), Times(x[1], u[1]), Times(x[2], u[2]), Times(x[3], u[3]))
        BY <3>10, <4>1, <4>2, <4>3, DotPs, LaneSet
      <4>5. /\ Times(x[0], u[0]) = Times(u[0], x[0]) /\ Times(x[1], u[1]) = Times(u[1], x[1])
            /\ Times(x[2], u[2]) = Times(u[2], x[2]) /\ Times(x[3], u[3]) = t[j]
        BY <2>8, <3>8, <3>9, <3>11, <4>3, TimesCommutes, Neutral, V4Reg, LaneSet DEF Three
      <4>6. Plus3(Times(u[0], x[0]), Times(u[1], x[1]), Times(u[2], x[2])) = p[j]
        BY <2>3, <3>3, <3>5, <3>8, <3>11, <4>3, TurnsBack
      <4> QED
        BY <4>4, <4>5, <4>6 DEF Plus4
    <3> QED
      BY <2>10, <3>11 DEF Add3, XYZ
  <2> QED
    BY <2>2, <2>4, <2>10 DEF JointTurnsBack
<1> QED
  BY <1>1, ObjectConsistent, PTL

(***************************************************************************)
(* The recursion in Follow, as a walk: the places of a point.              *)
(***************************************************************************)
LEMMA CountUp ==
    ASSUME NEW S, NEW N \in Nat, 0 \in S, \A n \in 0 .. N : n \in S /\ n # N => n + 1 \in S
    PROVE  \A n \in 0 .. N : n \in S
<1> SUFFICES ASSUME NEW m \in 0 .. N, m \notin S PROVE FALSE
  OBVIOUS
<1>1. PICK T : T = {n \in 0 .. N : n \notin S}
  OBVIOUS
<1>2. T \in SUBSET Nat /\ T # {}
  BY <1>1
<1>3. PICK n \in T : \A k \in T : n <= k
  BY <1>2, Least
<1>4. n \in Nat /\ n # 0 /\ n \in 0 .. N /\ n \notin S
  BY <1>1, <1>3
<1>5. n - 1 \in 0 .. N /\ n - 1 \notin T /\ n - 1 # N
  BY <1>3, <1>4
<1>6. n - 1 \in S
  BY <1>1, <1>5
<1>7. n - 1 + 1 \in S
  BY <1>5, <1>6
<1> QED
  BY <1>4, <1>7

IsWalk(f, cs, p, L) == f = [n \in 0 .. L |-> IF n = 0 THEN p ELSE Move(cs[n], f[n - 1])]

\* The places of a walk.
LEMMA WalkAt ==
    ASSUME NEW cs, NEW p, NEW L \in Nat, NEW f, IsWalk(f, cs, p, L)
    PROVE  f[0] = p /\ \A n \in 1 .. L : f[n] = Move(cs[n], f[n - 1])
<1>1. \A n \in 0 .. L : f[n] = IF n = 0 THEN p ELSE Move(cs[n], f[n - 1])
  BY DEF IsWalk
<1> QED
  BY <1>1

\* A function with these values is a walk.
LEMMA AtWalk ==
    ASSUME NEW cs, NEW p, NEW L \in Nat, NEW f, f = [n \in 0 .. L |-> f[n]],
           f[0] = p, \A n \in 1 .. L : f[n] = Move(cs[n], f[n - 1])
    PROVE  IsWalk(f, cs, p, L)
<1>1. \A n \in 0 .. L : f[n] = IF n = 0 THEN p ELSE Move(cs[n], f[n - 1])
  OBVIOUS
<1> QED
  BY <1>1 DEF IsWalk

\* Any number of motions can be followed: the least number that cannot has one
\* before it.
LEMMA WalkExists ==
    ASSUME NEW cs, NEW p, NEW N \in Nat
    PROVE  \E f : IsWalk(f, cs, p, N)
<1>1. PICK S : S = {n \in 0 .. N : \E f : IsWalk(f, cs, p, n)}
  OBVIOUS
<1>2. 0 \in S
  <2>1. PICK f : f = [n \in 0 .. 0 |-> p]
    OBVIOUS
  <2>2. f = [n \in 0 .. 0 |-> f[n]] /\ f[0] = p /\ 0 \in Nat /\ \A n \in 1 .. 0 : f[n] = Move(cs[n], f[n - 1])
    BY <2>1
  <2>3. IsWalk(f, cs, p, 0)
    BY <2>2, AtWalk
  <2> QED
    BY <1>1, <2>3
<1>3. ASSUME NEW m \in 0 .. N, m \in S, m # N PROVE m + 1 \in S
  <2>1. PICK f : IsWalk(f, cs, p, m)
    BY <1>1, <1>3
  <2>0. m \in Nat
    BY <1>3
  <2>2. f[0] = p /\ \A n \in 1 .. m : f[n] = Move(cs[n], f[n - 1])
    <3>1. \A n \in 0 .. m : f[n] = IF n = 0 THEN p ELSE Move(cs[n], f[n - 1])
      BY <2>1 DEF IsWalk
    <3> QED
      BY <3>1, <2>0
  <2>3. PICK g : g = [n \in 0 .. m + 1 |-> IF n = m + 1 THEN Move(cs[n], f[m]) ELSE f[n]]
    OBVIOUS
  <2>4. g = [n \in 0 .. m + 1 |-> g[n]]
    BY <2>3
  <2>5. g[m + 1] = Move(cs[m + 1], f[m]) /\ \A n \in 0 .. m : g[n] = f[n]
    BY <2>3
  <2>6. g[0] = p /\ \A n \in 1 .. m + 1 : g[n] = Move(cs[n], g[n - 1])
    <3>1. ASSUME NEW n \in 1 .. m + 1 PROVE g[n] = Move(cs[n], g[n - 1])
      <4>1. CASE n = m + 1
        BY <2>5, <4>1
      <4>2. CASE n # m + 1
        <5>1. n \in 1 .. m /\ n - 1 \in 0 .. m /\ n \in 0 .. m
          BY <4>2
        <5> QED
          BY <2>2, <2>5, <5>1
      <4> QED
        BY <4>1, <4>2
    <3> QED
      BY <2>2, <2>5, <3>1
  <2>7. m + 1 \in Nat /\ m + 1 \in 0 .. N
    BY <1>3
  <2>8. IsWalk(g, cs, p, m + 1)
    BY <2>4, <2>6, <2>7, AtWalk
  <2> QED
    BY <1>1, <2>7, <2>8
<1>4. \A n \in 0 .. N : n \in S
  BY <1>2, <1>3, CountUp
<1> QED
  BY <1>1, <1>4

\* And in one way only: two walks have no first place where they part.
LEMMA WalkUnique ==
    ASSUME NEW cs, NEW p, NEW L \in Nat, NEW f, NEW g, IsWalk(f, cs, p, L), IsWalk(g, cs, p, L)
    PROVE  f[L] = g[L]
<1>1. f[0] = p /\ \A n \in 1 .. L : f[n] = Move(cs[n], f[n - 1])
  BY WalkAt
<1>2. g[0] = p /\ \A n \in 1 .. L : g[n] = Move(cs[n], g[n - 1])
  BY WalkAt
<1>3. PICK S : S = {n \in 0 .. L : f[n] = g[n]}
  OBVIOUS
<1>4. 0 \in S
  BY <1>1, <1>2, <1>3
<1>5. ASSUME NEW n \in 0 .. L, n \in S, n # L PROVE n + 1 \in S
  <2>1. n + 1 \in 1 .. L /\ n + 1 - 1 = n
    BY <1>5
  <2> QED
    BY <1>1, <1>2, <1>3, <1>5, <2>1
<1>6. \A n \in 0 .. L : n \in S
  BY <1>4, <1>5, CountUp
<1> QED
  BY <1>3, <1>6

\* Follow ends where any walk ends.
LEMMA FollowIs ==
    ASSUME NEW cs \in Seq(Motions), NEW p
    PROVE  /\ \E f : IsWalk(f, cs, p, Len(cs))
           /\ \A g : IsWalk(g, cs, p, Len(cs)) => Follow(cs, p) = g[Len(cs)]
<1>1. Len(cs) \in Nat
  OBVIOUS
<1>2. \E f : IsWalk(f, cs, p, Len(cs))
  BY <1>1, WalkExists
<1>3. PICK h : h = CHOOSE f : IsWalk(f, cs, p, Len(cs))
  OBVIOUS
<1>4. IsWalk(h, cs, p, Len(cs))
  BY <1>2, <1>3
<1>5. Follow(cs, p) = h[Len(cs)]
  BY <1>3 DEF Follow, IsWalk
<1> QED
  BY <1>1, <1>2, <1>4, <1>5, WalkUnique

\* No motion, a motion before the others, and one after them.
LEMMA FollowNone ==
    ASSUME NEW p
    PROVE  Follow(<<>>, p) = p
<1>1. PICK cs : cs = <<>>
  OBVIOUS
<1>2. cs \in Seq(Motions) /\ Len(cs) = 0 /\ 0 \in Nat
  BY <1>1
<1>3. PICK g : IsWalk(g, cs, p, Len(cs))
  BY <1>2, FollowIs
<1>4. Follow(cs, p) = g[Len(cs)]
  BY <1>2, <1>3, FollowIs
<1>5. IsWalk(g, cs, p, 0)
  BY <1>2, <1>3
<1>6. g[0] = p
  BY <1>5 DEF IsWalk
<1> QED
  BY <1>1, <1>2, <1>4, <1>6

\* Following a motion before the others.
LEMMA FollowBefore ==
    ASSUME NEW c \in Motions, NEW cs \in Seq(Motions), NEW ds, ds = <<c>> \o cs, NEW p
    PROVE  Follow(ds, p) = Follow(cs, Move(c, p))
<1>1. /\ ds \in Seq(Motions) /\ Len(ds) = Len(cs) + 1
      /\ ds[1] = c /\ \A n \in 1 .. Len(cs) : ds[n + 1] = cs[n]
  BY BeforeMotions
<1>2. PICK q : q = Move(c, p)
  OBVIOUS
<1>3. PICK f : IsWalk(f, cs, q, Len(cs))
  BY FollowIs
<1>4. Follow(cs, q) = f[Len(cs)]
  BY <1>3, FollowIs
<1>5. PICK L \in Nat : L = Len(cs)
  OBVIOUS
<1>6. \A n \in 0 .. L : f[n] = IF n = 0 THEN q ELSE Move(cs[n], f[n - 1])
  BY <1>3, <1>5 DEF IsWalk
<1>7. PICK g : g = [n \in 0 .. L + 1 |-> IF n = 0 THEN p ELSE f[n - 1]]
  OBVIOUS
<1>8. g[0] = p /\ \A n \in 1 .. L + 1 : g[n] = f[n - 1]
  BY <1>7
<1>9. ASSUME NEW n \in 1 .. L + 1 PROVE g[n] = Move(ds[n], g[n - 1])
  <2>1. CASE n = 1
    <3>1. g[n] = f[0] /\ f[0] = q /\ n - 1 = 0
      BY <1>6, <1>8, <2>1
    <3> QED
      BY <1>1, <1>2, <1>8, <2>1, <3>1
  <2>2. CASE n # 1
    <3>1. PICK k : k = n - 1
      OBVIOUS
    <3>2. k \in 1 .. L /\ k # 0 /\ k \in 0 .. L /\ n = k + 1 /\ k \in 1 .. L + 1
      BY <2>2, <3>1
    <3>3. f[k] = Move(cs[k], f[k - 1])
      BY <1>6, <3>2
    <3>4. g[n] = f[k] /\ g[k] = f[k - 1]
      BY <1>8, <3>1, <3>2
    <3>5. ds[n] = cs[k]
      BY <1>1, <1>5, <3>2
    <3> QED
      BY <3>1, <3>3, <3>4, <3>5
  <2> QED
    BY <2>1, <2>2
<1>10. g = [n \in 0 .. L + 1 |-> g[n]]
  BY <1>7
<1>11. PICK N \in Nat : N = L + 1
  OBVIOUS
<1>12. IsWalk(g, ds, p, N)
  BY <1>8, <1>9, <1>10, <1>11, AtWalk
<1>13. Len(ds) = N
  BY <1>1, <1>5, <1>11
<1>14. Follow(ds, p) = g[N]
  BY <1>1, <1>12, <1>13, FollowIs
<1>15. g[N] = f[L]
  BY <1>8, <1>11
<1> QED
  BY <1>2, <1>4, <1>5, <1>14, <1>15

\* Following one after them.
LEMMA FollowAfter ==
    ASSUME NEW c \in Motions, NEW cs \in Seq(Motions), NEW ds, ds = Append(cs, c), NEW p
    PROVE  Follow(ds, p) = Move(c, Follow(cs, p))
<1>1. /\ ds \in Seq(Motions) /\ Len(ds) = Len(cs) + 1
      /\ ds[Len(ds)] = c /\ \A n \in 1 .. Len(cs) : ds[n] = cs[n]
  BY AfterMotions
<1>3. PICK f : IsWalk(f, cs, p, Len(cs))
  BY FollowIs
<1>4. Follow(cs, p) = f[Len(cs)]
  BY <1>3, FollowIs
<1>5. PICK L \in Nat : L = Len(cs)
  OBVIOUS
<1>6. \A n \in 0 .. L : f[n] = IF n = 0 THEN p ELSE Move(cs[n], f[n - 1])
  BY <1>3, <1>5 DEF IsWalk
<1>7. PICK N \in Nat : N = L + 1
  OBVIOUS
<1>8. PICK g : g = [n \in 0 .. N |-> IF n = N THEN Move(c, f[L]) ELSE f[n]]
  OBVIOUS
<1>9. g[N] = Move(c, f[L]) /\ \A n \in 0 .. L : g[n] = f[n]
  BY <1>7, <1>8
<1>10. g = [n \in 0 .. N |-> g[n]]
  BY <1>8
<1>11. ASSUME NEW n \in 1 .. N PROVE g[n] = Move(ds[n], g[n - 1])
  <2>1. CASE n = N
    <3>1. n - 1 = L /\ L \in 0 .. L /\ ds[n] = c
      BY <1>1, <1>5, <1>7, <2>1
    <3> QED
      BY <1>9, <2>1, <3>1
  <2>2. CASE n # N
    <3>1. n \in 1 .. L /\ n \in 0 .. L /\ n - 1 \in 0 .. L /\ n # 0
      BY <1>7, <2>2
    <3>2. f[n] = Move(cs[n], f[n - 1])
      BY <1>6, <3>1
    <3>3. g[n] = f[n] /\ g[n - 1] = f[n - 1] /\ ds[n] = cs[n]
      BY <1>1, <1>5, <1>9, <3>1
    <3> QED
      BY <3>2, <3>3
  <2> QED
    BY <2>1, <2>2
<1>12. g[0] = p
  BY <1>6, <1>9
<1>13. IsWalk(g, ds, p, N)
  BY <1>10, <1>11, <1>12, AtWalk
<1>14. Len(ds) = N
  BY <1>1, <1>5, <1>7
<1>15. Follow(ds, p) = g[N]
  BY <1>1, <1>13, <1>14, FollowIs
<1> QED
  BY <1>4, <1>5, <1>9, <1>15

\* Following one alone.
LEMMA FollowOne ==
    ASSUME NEW c \in Motions, NEW p
    PROVE  Follow(<<c>>, p) = Move(c, p)
<1>1. PICK cs : cs = <<>>
  OBVIOUS
<1>2. cs \in Seq(Motions) /\ <<c>> = Append(cs, c)
  BY <1>1
<1>3. Follow(<<c>>, p) = Move(c, Follow(cs, p))
  BY <1>2, FollowAfter
<1> QED
  BY <1>1, <1>3, FollowNone

\* Motions that are undone one by one, last one first, lead back.
LEMMA FollowTurned ==
    ASSUME NEW cs \in Seq(Motions), NEW p \in V3,
           \A c \in Motions : \A q \in V3 : Move(c, q) \in V3 /\ Move(Undone(c), Move(c, q)) = q
    PROVE  Follow(cs, p) \in V3 /\ Follow(Backwards(cs), Follow(cs, p)) = p
<1>1. PICK ds : ds = Backwards(cs)
  OBVIOUS
<1>2. /\ ds \in Seq(Motions) /\ Len(ds) = Len(cs)
      /\ \A n \in 1 .. Len(cs) : ds[n] = Undone(cs[Len(cs) + 1 - n]) /\ cs[n] \in Motions
  BY <1>1, TurnedMotions
<1>3. PICK f : IsWalk(f, cs, p, Len(cs))
  BY FollowIs
<1>4. Follow(cs, p) = f[Len(cs)]
  BY <1>3, FollowIs
<1>5. PICK L \in Nat : L = Len(cs)
  OBVIOUS
<1>6. \A n \in 0 .. L : f[n] = IF n = 0 THEN p ELSE Move(cs[n], f[n - 1])
  BY <1>3, <1>5 DEF IsWalk
<1>7. PICK S : S = {n \in 0 .. L : f[n] \in V3}
  OBVIOUS
<1>8. \A n \in 0 .. L : n \in S
  <2>1. 0 \in S
    BY <1>6, <1>7
  <2>2. ASSUME NEW n \in 0 .. L, n \in S, n # L PROVE n + 1 \in S
    <3>1. PICK k : k = n + 1
      OBVIOUS
    <3>2. k \in 1 .. L /\ k \in 0 .. L /\ k # 0 /\ k - 1 = n
      BY <2>2, <3>1
    <3>3. f[k] = Move(cs[k], f[n]) /\ cs[k] \in Motions /\ f[n] \in V3
      BY <1>2, <1>5, <1>6, <1>7, <2>2, <3>2
    <3>4. f[k] \in V3
      BY <3>3
    <3> QED
      BY <1>7, <3>1, <3>2, <3>4
  <2> QED
    BY <2>1, <2>2, CountUp
<1>9. PICK g : g = [n \in 0 .. L |-> f[L - n]]
  OBVIOUS
<1>10. ASSUME NEW n \in 1 .. L PROVE g[n] = Move(ds[n], g[n - 1])
  <2>1. PICK k : k = L + 1 - n
    OBVIOUS
  <2>2. k \in 1 .. L /\ k \in 0 .. L /\ k # 0 /\ k - 1 \in 0 .. L /\ L - n = k - 1 /\ L - (n - 1) = k
        /\ n \in 0 .. L /\ n - 1 \in 0 .. L
    BY <2>1
  <2>3. f[k] = Move(cs[k], f[k - 1]) /\ cs[k] \in Motions /\ f[k - 1] \in V3
    BY <1>2, <1>5, <1>6, <1>7, <1>8, <2>2
  <2>4. g[n] = f[k - 1] /\ g[n - 1] = f[k]
    BY <1>9, <2>2
  <2>5. ds[n] = Undone(cs[k])
    BY <1>2, <1>5, <2>1
  <2>6. Move(Undone(cs[k]), Move(cs[k], f[k - 1])) = f[k - 1]
    BY <2>3
  <2> QED
    BY <2>3, <2>4, <2>5, <2>6
<1>11. g = [n \in 0 .. L |-> g[n]] /\ g[0] = f[L] /\ g[L] = f[0]
  BY <1>9
<1>12. PICK r : r = f[L]
  OBVIOUS
<1>13. IsWalk(g, ds, r, L)
  BY <1>10, <1>11, <1>12, AtWalk
<1>14. Follow(ds, r) = g[L]
  BY <1>2, <1>5, <1>13, FollowIs
<1>15. f[0] = p /\ f[L] \in V3
  BY <1>6, <1>7, <1>8
<1> QED
  BY <1>1, <1>4, <1>5, <1>11, <1>12, <1>14, <1>15

(***************************************************************************)
(* Turning a point by a quaternion (v, w) of any length, as the geometry   *)
(* says it, is going through the matrix of the quaternion.                 *)
(***************************************************************************)
\* The coordinates of the turned point, over l * e, for the quaternion (x, y, z, w)
\* of squared length l and the point (f, g, h) / e.
TurnedX(x, y, z, w, l, f, g, h) ==
  f * l + 2 * (w * CrossX(x, y, z, f, g, h)
                 + CrossX(x, y, z, CrossX(x, y, z, f, g, h), CrossY(x, y, z, f, g, h), CrossZ(x, y, z, f, g, h)))
TurnedY(x, y, z, w, l, f, g, h) ==
  g * l + 2 * (w * CrossY(x, y, z, f, g, h)
                 + CrossY(x, y, z, CrossX(x, y, z, f, g, h), CrossY(x, y, z, f, g, h), CrossZ(x, y, z, f, g, h)))
TurnedZ(x, y, z, w, l, f, g, h) ==
  h * l + 2 * (w * CrossZ(x, y, z, f, g, h)
                 + CrossZ(x, y, z, CrossX(x, y, z, f, g, h), CrossY(x, y, z, f, g, h), CrossZ(x, y, z, f, g, h)))

EntriesTurn(x, y, z, w, l, f, g, h) ==
  /\ TurnedX(x, y, z, w, l, f, g, h)
       = Entry(x, y, z, w, l, 0, 0) * f + Entry(x, y, z, w, l, 1, 0) * g + Entry(x, y, z, w, l, 2, 0) * h
  /\ TurnedY(x, y, z, w, l, f, g, h)
       = Entry(x, y, z, w, l, 0, 1) * f + Entry(x, y, z, w, l, 1, 1) * g + Entry(x, y, z, w, l, 2, 1) * h
  /\ TurnedZ(x, y, z, w, l, f, g, h)
       = Entry(x, y, z, w, l, 0, 2) * f + Entry(x, y, z, w, l, 1, 2) * g + Entry(x, y, z, w, l, 2, 2) * h

\* The entries of a rotation at a point are the geometry's, in integers.
LEMMA TurnedEntries ==
    ASSUME NEW x \in Int, NEW y \in Int, NEW z \in Int, NEW w \in Int, NEW l \in Int,
           NEW f \in Int, NEW g \in Int, NEW h \in Int
    PROVE  EntriesTurn(x, y, z, w, l, f, g, h)
<1>1. TurnedX(x, y, z, w, l, f, g, h)
        = Entry(x, y, z, w, l, 0, 0) * f + Entry(x, y, z, w, l, 1, 0) * g + Entry(x, y, z, w, l, 2, 0) * h
  BY DEF TurnedX, CrossX, CrossY, CrossZ, Entry
<1>2. TurnedY(x, y, z, w, l, f, g, h)
        = Entry(x, y, z, w, l, 0, 1) * f + Entry(x, y, z, w, l, 1, 1) * g + Entry(x, y, z, w, l, 2, 1) * h
  BY DEF TurnedY, CrossX, CrossY, CrossZ, Entry
<1>3. TurnedZ(x, y, z, w, l, f, g, h)
        = Entry(x, y, z, w, l, 0, 2) * f + Entry(x, y, z, w, l, 1, 2) * g + Entry(x, y, z, w, l, 2, 2) * h
  BY DEF TurnedZ, CrossX, CrossY, CrossZ, Entry
<1> QED
  BY <1>1, <1>2, <1>3 DEF EntriesTurn

\* One coordinate of TurnPoint.
LEMMA TurnedCoordinate ==
    ASSUME NEW p, NEW w, NEW o, NEW t, NEW len, NEW f, NEW e, NEW s, NEW k, NEW on, NEW tn, NEW l,
           Is(p, f, e), Is(w, s, k), Is(o, on, k * e), Is(t, tn, k * (k * e)), Is(len, l, k * k), l # 0
    PROVE  Is(Plus(p, Over(Times(Int2Q(2), Plus(Times(w, o), t)), len)), f * l + 2 * (s * on + tn), l * e)
<1>1. f \in Int /\ e \in Int /\ e # 0 /\ s \in Int /\ k \in Int /\ k # 0 /\ on \in Int /\ tn \in Int /\ l \in Int
  BY IsInts
<1>2. Is(Times(w, o), s * on, k * (k * e))
  BY TimesIs
<1>3. Is(Plus(Times(w, o), t), s * on + tn, k * (k * e))
  BY <1>2, PlusSame
<1>4. PICK a : a = Plus(Times(w, o), t)
  OBVIOUS
<1>5. PICK n \in Int : n = s * on + tn
  BY <1>1
<1>6. PICK d \in Int : d = k * (k * e)
  BY <1>1
<1>7. Is(a, n, d)
  BY <1>3, <1>4, <1>5, <1>6
<1>8. Is(Int2Q(2), 2, 1)
  BY IntIs
<1>9. Is(Times(Int2Q(2), a), 2 * n, 1 * d)
  BY <1>7, <1>8, TimesIs
<1>10. Is(Over(Times(Int2Q(2), a), len), (2 * n) * (k * k), (1 * d) * l)
  BY <1>9, OverIs
<1>11. PICK b : b = Over(Times(Int2Q(2), a), len)
  OBVIOUS
<1>12. PICK c \in Int : c = k * k
  BY <1>1
<1>13. c # 0 /\ l * e # 0 /\ l * e \in Int /\ 2 * n \in Int
  BY <1>1, <1>5, <1>12
<1>14. (1 * d) * l = (l * e) * c
  BY <1>1, <1>6, <1>12
<1>15. Is(b, (2 * n) * c, (l * e) * c)
  BY <1>10, <1>11, <1>12, <1>14
<1>16. ((2 * n) * c) * (l * e) = (2 * n) * ((l * e) * c)
  BY <1>1, <1>5, <1>12
<1>17. Is(b, 2 * n, l * e)
  BY <1>13, <1>15, <1>16, IsSame
<1>18. Is(p, f * l, e * l)
  BY <1>1, IsScaled
<1>19. e * l = l * e
  BY <1>1
<1>20. Is(Plus(p, b), f * l + 2 * n, l * e)
  BY <1>17, <1>18, <1>19, PlusSame
<1> QED
  BY <1>4, <1>5, <1>11, <1>20

\* What the geometry says, over the denominators.
LEMMA TurnPointIs ==
    ASSUME NEW v, NEW w, NEW p, NEW x, NEW y, NEW z, NEW s, NEW k, NEW f, NEW g, NEW h, NEW e,
           Parts(v, x, y, z, k), Is(w, s, k), Parts(p, f, g, h, e),
           NEW l, l = Length2Int(x, y, z, s), l # 0
    PROVE  LET t == TurnPoint(v, w, p)
           IN  /\ t = [i \in Axis |-> t[i]]
               /\ Parts(t, TurnedX(x, y, z, s, l, f, g, h), TurnedY(x, y, z, s, l, f, g, h),
                           TurnedZ(x, y, z, s, l, f, g, h), l * e)
<1>1. /\ x \in Int /\ y \in Int /\ z \in Int /\ s \in Int /\ k \in Int /\ k # 0
      /\ f \in Int /\ g \in Int /\ h \in Int /\ e \in Int /\ e # 0
  BY PartsInts, IsInts
<1>2. PICK once : once = Easy_vector_cross(v, p)
  OBVIOUS
<1>3. PICK on, om, ol \in Int : on = CrossX(x, y, z, f, g, h) /\ om = CrossY(x, y, z, f, g, h) /\ ol = CrossZ(x, y, z, f, g, h)
  BY <1>1 DEF CrossX, CrossY, CrossZ
<1>4. Parts(once, on, om, ol, k * e)
  BY <1>2, <1>3, CrossParts
<1>5. PICK twice : twice = Easy_vector_cross(v, once)
  OBVIOUS
<1>6. PICK tn, tm, tl \in Int : tn = CrossX(x, y, z, on, om, ol) /\ tm = CrossY(x, y, z, on, om, ol) /\ tl = CrossZ(x, y, z, on, om, ol)
  BY <1>1, <1>3 DEF CrossX, CrossY, CrossZ
<1>7. Parts(twice, tn, tm, tl, k * (k * e))
  BY <1>4, <1>5, <1>6, CrossParts
<1>8. PICK len : len = Plus(Easy_vector_dot(v, v), Times(w, w))
  OBVIOUS
<1>9. Is(len, l, k * k)
  <2>1. Is(Dot(v, v), x * x + y * y + z * z, k * k)
    BY DotParts
  <2>2. Is(Times(w, w), s * s, k * k)
    BY TimesIs
  <2>3. Is(Plus(Dot(v, v), Times(w, w)), x * x + y * y + z * z + s * s, k * k)
    BY <2>1, <2>2, PlusSame
  <2> QED
    BY <1>8, <2>3 DEF Length2Int, Dot
<1>10. len # Zero
  <2>1. SUFFICES ASSUME len = Zero PROVE FALSE
    OBVIOUS
  <2>2. Is(Zero, 0, k * k)
    BY <1>1, ZeroIs
  <2>3. l * (k * k) = 0 * (k * k)
    BY <1>9, <2>1, <2>2, IsCross
  <2>4. l \in Int
    BY <1>9, IsInts
  <2> QED
    BY <1>1, <2>3, <2>4
<1>11. PICK t : t = TurnPoint(v, w, p)
  OBVIOUS
<1>12. t = [i \in Axis |-> Plus(p[i], Over(Times(Int2Q(2), Plus(Times(w, once[i]), twice[i])), len))]
  BY <1>2, <1>5, <1>8, <1>10, <1>11 DEF TurnPoint, XYZ
<1>13. /\ t = [i \in Axis |-> t[i]]
       /\ t[0] = Plus(p[0], Over(Times(Int2Q(2), Plus(Times(w, once[0]), twice[0])), len))
       /\ t[1] = Plus(p[1], Over(Times(Int2Q(2), Plus(Times(w, once[1]), twice[1])), len))
       /\ t[2] = Plus(p[2], Over(Times(Int2Q(2), Plus(Times(w, once[2]), twice[2])), len))
  BY <1>12, LaneSet
<1>14. /\ Is(p[0], f, e) /\ Is(p[1], g, e) /\ Is(p[2], h, e)
       /\ Is(once[0], on, k * e) /\ Is(once[1], om, k * e) /\ Is(once[2], ol, k * e)
       /\ Is(twice[0], tn, k * (k * e)) /\ Is(twice[1], tm, k * (k * e)) /\ Is(twice[2], tl, k * (k * e))
  BY <1>4, <1>7 DEF Parts
<1>15. Is(t[0], f * l + 2 * (s * on + tn), l * e)
  BY <1>9, <1>13, <1>14, TurnedCoordinate
<1>16. Is(t[1], g * l + 2 * (s * om + tm), l * e)
  BY <1>9, <1>13, <1>14, TurnedCoordinate
<1>17. Is(t[2], h * l + 2 * (s * ol + tl), l * e)
  BY <1>9, <1>13, <1>14, TurnedCoordinate
<1>18. /\ f * l + 2 * (s * on + tn) = TurnedX(x, y, z, s, l, f, g, h)
       /\ g * l + 2 * (s * om + tm) = TurnedY(x, y, z, s, l, f, g, h)
       /\ h * l + 2 * (s * ol + tl) = TurnedZ(x, y, z, s, l, f, g, h)
  BY <1>3, <1>6 DEF TurnedX, TurnedY, TurnedZ
<1> QED
  BY <1>11, <1>13, <1>15, <1>16, <1>17, <1>18 DEF Parts

ScaledEntry(x, y, z, w, o, n, j, i) ==
  Entry(x, y, z, w, o, j, i) * (n * n) = Entry(n * x, n * y, n * z, n * w, o * (n * n), j, i)

\* A quaternion of any length turns alike, in integers.
LEMMA EntryScaled ==
    ASSUME NEW x \in Int, NEW y \in Int, NEW z \in Int, NEW w \in Int, NEW o \in Int, NEW n \in Int,
           NEW j \in Axis, NEW i \in Axis
    PROVE  ScaledEntry(x, y, z, w, o, n, j, i)
<1>1. j \in {0, 1, 2} /\ i \in {0, 1, 2}
  BY LaneSet
<1>2. CASE j = 0
  BY <1>1, <1>2 DEF ScaledEntry, Entry
<1>3. CASE j = 1
  BY <1>1, <1>3 DEF ScaledEntry, Entry
<1>4. CASE j = 2
  BY <1>1, <1>4 DEF ScaledEntry, Entry
<1> QED
  BY <1>1, <1>2, <1>3, <1>4

\* A matrix of which the block is that of the quaternion (x, y, z, w), at a point.
LEMMA TakenTurned ==
    ASSUME NEW m \in M4, NEW p, NEW x, NEW y, NEW z, NEW w, NEW l, NEW f, NEW g, NEW h, NEW e,
           x \in Int, y \in Int, z \in Int, w \in Int, l \in Int, l # 0, Parts(p, f, g, h, e),
           \A j, i \in Axis : Is(m[j][i], Entry(x, y, z, w, l, j, i), l),
           \A i \in Axis : m[3][i] = Zero
    PROVE  Parts(Taken(m, p), TurnedX(x, y, z, w, l, f, g, h), TurnedY(x, y, z, w, l, f, g, h),
                 TurnedZ(x, y, z, w, l, f, g, h), l * e)
<1>1. Three(p) /\ f \in Int /\ g \in Int /\ h \in Int /\ e \in Int /\ e # 0
  BY PartsInts
<1>2. ASSUME NEW i \in Axis
      PROVE  Is(Taken(m, p)[i], Entry(x, y, z, w, l, 0, i) * f + Entry(x, y, z, w, l, 1, i) * g
                                  + Entry(x, y, z, w, l, 2, i) * h, l * e)
  <2>1. Taken(m, p)[i] = Plus4(Times(m[0][i], p[0]), Times(m[1][i], p[1]), Times(m[2][i], p[2]), m[3][i])
    BY <1>1, <1>2, TakenAt DEF Image
  <2>2. /\ Is(m[0][i], Entry(x, y, z, w, l, 0, i), l) /\ Is(m[1][i], Entry(x, y, z, w, l, 1, i), l)
        /\ Is(m[2][i], Entry(x, y, z, w, l, 2, i), l)
    BY <1>2, LaneSet
  <2>3. Is(p[0], f, e) /\ Is(p[1], g, e) /\ Is(p[2], h, e)
    BY DEF Parts
  <2>4. PICK a, b, c : a = Entry(x, y, z, w, l, 0, i) /\ b = Entry(x, y, z, w, l, 1, i) /\ c = Entry(x, y, z, w, l, 2, i)
    OBVIOUS
  <2>5. Is(m[0][i], a, l) /\ Is(m[1][i], b, l) /\ Is(m[2][i], c, l) /\ a \in Int /\ b \in Int /\ c \in Int
    BY <2>2, <2>4, IsInts
  <2>6. /\ Is(Times(m[0][i], p[0]), a * f, l * e) /\ Is(Times(m[1][i], p[1]), b * g, l * e)
        /\ Is(Times(m[2][i], p[2]), c * h, l * e)
    BY <2>3, <2>5, TimesIs
  <2>7. l * e \in Int /\ l * e # 0
    BY <1>1
  <2>8. Is(m[3][i], 0, l * e)
    BY <1>2, <2>7, ZeroIs
  <2>9. Is(Plus4(Times(m[0][i], p[0]), Times(m[1][i], p[1]), Times(m[2][i], p[2]), m[3][i]),
           a * f + b * g + c * h + 0, l * e)
    BY <2>6, <2>8, Sum4Is
  <2>10. a * f + b * g + c * h + 0 = a * f + b * g + c * h
    BY <1>1, <2>5
  <2> QED
    BY <2>1, <2>4, <2>9, <2>10
<1>3. EntriesTurn(x, y, z, w, l, f, g, h)
  BY <1>1, TurnedEntries
<1>4. /\ Is(Taken(m, p)[0], TurnedX(x, y, z, w, l, f, g, h), l * e)
      /\ Is(Taken(m, p)[1], TurnedY(x, y, z, w, l, f, g, h), l * e)
      /\ Is(Taken(m, p)[2], TurnedZ(x, y, z, w, l, f, g, h), l * e)
  BY <1>2, <1>3, LaneSet DEF EntriesTurn
<1> QED
  BY <1>4 DEF Parts

\* Vectors of equal fractions are equal.
LEMMA PartsSame ==
    ASSUME NEW a, NEW b, NEW x, NEW y, NEW z, NEW d, Parts(a, x, y, z, d), Parts(b, x, y, z, d),
           a = [i \in Axis |-> a[i]], b = [i \in Axis |-> b[i]]
    PROVE  a = b /\ a \in V3
<1>1. Is(a[0], x, d) /\ Is(a[1], y, d) /\ Is(a[2], z, d) /\ Is(b[0], x, d) /\ Is(b[1], y, d) /\ Is(b[2], z, d)
  BY DEF Parts
<1>2. a[0] = b[0] /\ a[1] = b[1] /\ a[2] = b[2]
  BY <1>1, IsEqual
<1>3. \A i \in Axis : a[i] \in Num /\ b[i] \in Num
  BY <1>1, IsInts, LaneSet
<1>4. a \in [Axis -> Num] /\ b \in [Axis -> Num]
  BY <1>3
<1> QED
  BY <1>2, <1>4, SameAxes DEF V3

\* A turn by a quaternion without length is none.
LEMMA NoTurnTaken ==
    ASSUME NEW v \in V3, NEW w \in Num, \A i \in Axis : v[i] = Zero, w = Zero, NEW p \in V3
    PROVE  TurnPoint(v, w, p) = p /\ Taken(RotationOf(NoTurn), p) = p
<1>1. v[0] = Zero /\ v[1] = Zero /\ v[2] = Zero /\ Times(Zero, Zero) = Zero /\ Plus(Zero, Zero) = Zero
  BY LaneSet, Constants, Neutral
<1>2. Easy_vector_dot(v, v) = Zero
  BY <1>1 DEF Easy_vector_dot, Plus3
<1>3. Plus(Easy_vector_dot(v, v), Times(w, w)) = Zero
  BY <1>1, <1>2
<1>4. TurnPoint(v, w, p) = p
  BY <1>3 DEF TurnPoint
<1> QED
  BY <1>4, NoTurnIs, TakenIdentity

\* Turning a point as the geometry says, by a quaternion of any length, is
\* going through the matrix of Easy_matrix_rotate_quat (EasyMatrix.h:533).
THEOREM TurnsAsQuaternion ==
    ASSUME NEW v \in V3, NEW w \in Num, NEW u, IsUnit(u), SameTurn(v, w, u), NEW p \in V3
    PROVE  TurnPoint(v, w, p) = Taken(RotationOf(u), p)
<1>1. CASE (\A i \in Axis : v[i] = Zero) /\ w = Zero /\ u = NoTurn
  BY <1>1, NoTurnTaken
<1>2. ASSUME NEW b \in Num, b # Zero, w = Times(b, u[3]), \A i \in Axis : v[i] = Times(b, u[i])
      PROVE  TurnPoint(v, w, p) = Taken(RotationOf(u), p)
  <2>1. PICK x, y, z, s, d \in Int :
          /\ d > 0 /\ Is(u[0], x, d) /\ Is(u[1], y, d) /\ Is(u[2], z, d) /\ Is(u[3], s, d)
          /\ Length2Int(x, y, z, s) = d * d
    BY UnitParts
  <2>2. PICK n, k \in Int : k > 0 /\ Is(b, n, k)
    BY <1>2, Fraction
  <2>3. n # 0
    <3>1. SUFFICES ASSUME n = 0 PROVE FALSE
      OBVIOUS
    <3>2. Is(Zero, 0, k)
      BY <2>2, ZeroIs
    <3>3. b = Zero
      BY <2>2, <3>1, <3>2, IsEqual
    <3> QED
      BY <1>2, <3>3
  <2>4. PICK f, g, h, e \in Int : e > 0 /\ Parts(p, f, g, h, e)
    BY ThreeParts, ThreeV3
  <2>5. /\ Is(Times(b, u[0]), n * x, k * d) /\ Is(Times(b, u[1]), n * y, k * d)
        /\ Is(Times(b, u[2]), n * z, k * d) /\ Is(w, n * s, k * d)
    BY <1>2, <2>1, <2>2, TimesIs
  <2>6. Parts(v, n * x, n * y, n * z, k * d)
    BY <1>2, <2>5, LaneSet DEF Parts
  <2>7. PICK o \in Int : o = d * d
    BY <2>1
  <2>8. PICK X, Y, Z, S \in Int : X = n * x /\ Y = n * y /\ Z = n * z /\ S = n * s
    BY <2>1, <2>2
  <2>9. PICK l \in Int : l = o * (n * n)
    BY <2>2, <2>7
  <2>10. l = Length2Int(X, Y, Z, S)
    <3>1. x * x + y * y + z * z + s * s = o
      BY <2>1, <2>7 DEF Length2Int
    <3>2. (x * x + y * y + z * z + s * s) * (n * n)
            = (n * x) * (n * x) + (n * y) * (n * y) + (n * z) * (n * z) + (n * s) * (n * s)
      BY <2>1, <2>2
    <3> QED
      BY <2>8, <2>9, <3>1, <3>2 DEF Length2Int
  <2>11. l # 0 /\ o > 0 /\ n * n # 0 /\ n * n \in Int
    BY <2>1, <2>2, <2>3, <2>7, <2>9
  <2>12. PICK K : K = k * d
    OBVIOUS
  <2>13. Parts(v, X, Y, Z, K) /\ Is(w, S, K)
    BY <2>5, <2>6, <2>8, <2>12
  <2>14. PICK t : t = TurnPoint(v, w, p)
    OBVIOUS
  <2>15. /\ t = [i \in Axis |-> t[i]]
         /\ Parts(t, TurnedX(X, Y, Z, S, l, f, g, h), TurnedY(X, Y, Z, S, l, f, g, h),
                     TurnedZ(X, Y, Z, S, l, f, g, h), l * e)
    BY <2>4, <2>10, <2>11, <2>13, <2>14, TurnPointIs
  <2>16. PICK R : R = RotationOf(u)
    OBVIOUS
  <2>17. R \in M4 /\ Turning(R) /\ \A j, i \in Lane : Is(R[j][i], IntRot(x, y, z, s, o)[j][i], o)
    BY <2>1, <2>7, <2>16, RotationInts, UnitTurning DEF IsUnit
  <2>18. \A i \in Axis : R[3][i] = Zero
    BY <2>17, LaneSet DEF Turning, Linear
  <2>19. ASSUME NEW j \in Axis, NEW i \in Axis PROVE Is(R[j][i], Entry(X, Y, Z, S, l, j, i), l)
    <3>1. j \in Lane /\ i \in Lane /\ j # 3 /\ i # 3
      BY <2>19, LaneSet
    <3>2. Is(R[j][i], IntRot(x, y, z, s, o)[j][i], o)
      BY <2>17, <3>1
    <3>3. IntRot(x, y, z, s, o)[j][i] = Entry(x, y, z, s, o, j, i)
      BY <3>1 DEF IntRot
    <3>4. PICK E : E = Entry(x, y, z, s, o, j, i)
      OBVIOUS
    <3>5. Is(R[j][i], E, o)
      BY <3>2, <3>3, <3>4
    <3>6. PICK c \in Int : c = n * n
      BY <2>11
    <3>7. Is(R[j][i], E * c, o * c)
      BY <2>11, <3>5, <3>6, IsScaled
    <3>8. ScaledEntry(x, y, z, s, o, n, j, i)
      BY <2>1, <2>2, <2>19, EntryScaled
    <3> QED
      BY <2>8, <2>9, <3>4, <3>6, <3>7, <3>8 DEF ScaledEntry
  <2>20. Parts(Taken(R, p), TurnedX(X, Y, Z, S, l, f, g, h), TurnedY(X, Y, Z, S, l, f, g, h),
               TurnedZ(X, Y, Z, S, l, f, g, h), l * e)
    BY <2>4, <2>11, <2>17, <2>18, <2>19, TakenTurned
  <2>21. Taken(R, p) = [i \in Axis |-> Taken(R, p)[i]]
    BY <2>17, TakenAt, ThreeV3 DEF V3
  <2>22. t = Taken(R, p)
    BY <2>15, <2>20, <2>21, PartsSame
  <2> QED
    BY <2>14, <2>16, <2>22
<1> QED
  BY <1>1, <1>2 DEF SameTurn

(***************************************************************************)
(* Moves and scalings at a point.                                          *)
(***************************************************************************)

\* Sums of sums, put together lane by lane.
Regrouped(a, b, c, f, g, h, z) ==
  Plus4(a, b, c, Plus4(f, g, h, z)) = Plus4(Plus(a, f), Plus(b, g), Plus(c, h), z)

\* Sums of products, grouped as the calls group them.
LEMMA Regroup ==
    ASSUME NEW a \in Num, NEW b \in Num, NEW c \in Num, NEW f \in Num, NEW g \in Num, NEW h \in Num, NEW z \in Num
    PROVE  Regrouped(a, b, c, f, g, h, z)
<1>1. PICK n, k, j, d \in Int : d > 0 /\ Is(a, n, d) /\ Is(b, k, d) /\ Is(c, j, d)
  BY Common3
<1>2. PICK x, y, w, e \in Int : e > 0 /\ Is(f, x, e) /\ Is(g, y, e) /\ Is(h, w, e)
  BY Common3
<1>3. PICK l, o \in Int : o > 0 /\ Is(z, l, o)
  BY Fraction
<1>4. PICK D, F, G, H \in Int : D = (d * e) * o /\ F = e * o /\ G = d * o /\ H = d * e
  BY <1>1, <1>2, <1>3
<1>5. F # 0 /\ G # 0 /\ H # 0 /\ D = d * F /\ D = e * G /\ D = o * H
  BY <1>1, <1>2, <1>3, <1>4
<1>6. Is(a, n * F, D) /\ Is(b, k * F, D) /\ Is(c, j * F, D)
  BY <1>1, <1>5, IsScaled
<1>7. Is(f, x * G, D) /\ Is(g, y * G, D) /\ Is(h, w * G, D)
  BY <1>2, <1>5, IsScaled
<1>8. Is(z, l * H, D)
  BY <1>3, <1>5, IsScaled
<1>9. PICK A, B, C, X, Y, W, Z \in Int : /\ A = n * F /\ B = k * F /\ C = j * F
                                       /\ X = x * G /\ Y = y * G /\ W = w * G /\ Z = l * H
  BY <1>1, <1>2, <1>3, <1>4
<1>10. /\ Is(a, A, D) /\ Is(b, B, D) /\ Is(c, C, D)
       /\ Is(f, X, D) /\ Is(g, Y, D) /\ Is(h, W, D) /\ Is(z, Z, D)
  BY <1>6, <1>7, <1>8, <1>9
<1>11. Is(Plus4(f, g, h, z), X + Y + W + Z, D)
  BY <1>10, Sum4Is
<1>12. Is(Plus4(a, b, c, Plus4(f, g, h, z)), A + B + C + (X + Y + W + Z), D)
  BY <1>10, <1>11, Sum4Is
<1>13. Is(Plus(a, f), A + X, D) /\ Is(Plus(b, g), B + Y, D) /\ Is(Plus(c, h), C + W, D)
  BY <1>10, PlusSame
<1>14. Is(Plus4(Plus(a, f), Plus(b, g), Plus(c, h), z), (A + X) + (B + Y) + (C + W) + Z, D)
  BY <1>10, <1>13, Sum4Is
<1>15. A + B + C + (X + Y + W + Z) = (A + X) + (B + Y) + (C + W) + Z
  OBVIOUS
<1> QED
  BY <1>12, <1>14, <1>15, IsEqual DEF Regrouped

\* Sums and products of vectors, entry by entry.
LEMMA Add3At ==
    ASSUME NEW p \in V3, NEW v \in V3
    PROVE  /\ Add3(p, v) \in V3 /\ Times3(p, v) \in V3
           /\ \A i \in Axis : Add3(p, v)[i] = Plus(p[i], v[i]) /\ Times3(p, v)[i] = Times(p[i], v[i])
<1>1. \A i \in Axis : p[i] \in Num /\ v[i] \in Num
  BY ThreeV3
<1>2. Add3(p, v) = [i \in Axis |-> Plus(p[i], v[i])] /\ Times3(p, v) = [i \in Axis |-> Times(p[i], v[i])]
  BY DEF Add3, Times3, XYZ
<1>3. \A i \in Axis : Plus(p[i], v[i]) \in Num /\ Times(p[i], v[i]) \in Num
  BY <1>1, NumClosed
<1> QED
  BY <1>2, <1>3 DEF V3

\* Points that go to the same place.
LEMMA SameTaken ==
    ASSUME NEW m \in M4, NEW p \in V3, NEW q, q \in V3, \A i \in Axis : Image(m, p, i) = q[i]
    PROVE  Taken(m, p) = q
<1>1. Taken(m, p) \in V3 /\ \A i \in Axis : Taken(m, p)[i] = Image(m, p, i)
  BY TakenAt, ThreeV3
<1>2. Taken(m, p)[0] = q[0] /\ Taken(m, p)[1] = q[1] /\ Taken(m, p)[2] = q[2]
  BY <1>1, LaneSet
<1> QED
  BY <1>1, <1>2, SameAxes DEF V3

\* A move before the rest, and one after it.
LEMMA MovedBefore ==
    ASSUME NEW m, Affine(m), NEW v \in V3, NEW n, n = Easy_matrix_translate_Internal(m, v), NEW p \in V3
    PROVE  Taken(n, p) = Taken(m, Add3(p, v))
<1>1. Three(v) /\ Three(p) /\ \A i \in Axis : p[i] \in Num /\ v[i] \in Num
  BY ThreeV3
<1>2. Affine(n) /\ Block(n, m) /\ n[3] = TranslatedRow(m, v)
  BY <1>1, TranslatedFrame
<1>3. m \in M4 /\ n \in M4 /\ \A j, i \in Lane : m[j][i] \in Num
  BY <1>2, AffineNum
<1>4. \A i \in {0, 1, 2} : TranslatedRow(m, v)[i] = Image(m, v, i)
  BY <1>1, <1>3, TranslatedRowIs DEF Three
<1>5. PICK q : q = Add3(p, v)
  OBVIOUS
<1>6. q \in V3 /\ Three(q) /\ q[0] = Plus(p[0], v[0]) /\ q[1] = Plus(p[1], v[1]) /\ q[2] = Plus(p[2], v[2])
  BY <1>5, Add3At, ThreeV3, LaneSet
<1>7. ASSUME NEW i \in Axis PROVE Image(n, p, i) = Taken(m, q)[i]
  <2>1. i \in Lane /\ i \in {0, 1, 2}
    BY <1>7, LaneSet
  <2>2. PICK a, b, c, z : a = m[0][i] /\ b = m[1][i] /\ c = m[2][i] /\ z = m[3][i]
    OBVIOUS
  <2>3. a \in Num /\ b \in Num /\ c \in Num /\ z \in Num
    BY <1>3, <2>1, <2>2, LaneSet
  <2>4. n[0][i] = a /\ n[1][i] = b /\ n[2][i] = c
    BY <1>2, <1>7, <2>2, LaneSet DEF Block
  <2>5. n[3][i] = Plus4(Times(a, v[0]), Times(b, v[1]), Times(c, v[2]), z)
    BY <1>2, <1>4, <2>1, <2>2 DEF Image
  <2>6. Image(n, p, i) = Plus4(Times(a, p[0]), Times(b, p[1]), Times(c, p[2]),
                            Plus4(Times(a, v[0]), Times(b, v[1]), Times(c, v[2]), z))
    BY <2>4, <2>5 DEF Image
  <2>7. p[0] \in Num /\ p[1] \in Num /\ p[2] \in Num /\ v[0] \in Num /\ v[1] \in Num /\ v[2] \in Num
    BY <1>1 DEF Three
  <2>8. /\ Times(a, p[0]) \in Num /\ Times(b, p[1]) \in Num /\ Times(c, p[2]) \in Num
        /\ Times(a, v[0]) \in Num /\ Times(b, v[1]) \in Num /\ Times(c, v[2]) \in Num
    BY <2>3, <2>7, NumClosed
  <2>9. Image(n, p, i) = Plus4(Plus(Times(a, p[0]), Times(a, v[0])), Plus(Times(b, p[1]), Times(b, v[1])),
                            Plus(Times(c, p[2]), Times(c, v[2])), z)
    <3>1. PICK A, B, C, F, G, H : /\ A = Times(a, p[0]) /\ B = Times(b, p[1]) /\ C = Times(c, p[2])
                                  /\ F = Times(a, v[0]) /\ G = Times(b, v[1]) /\ H = Times(c, v[2])
      OBVIOUS
    <3>2. A \in Num /\ B \in Num /\ C \in Num /\ F \in Num /\ G \in Num /\ H \in Num
      BY <2>8, <3>1
    <3>3. Regrouped(A, B, C, F, G, H, z)
      BY <2>3, <3>2, Regroup
    <3> QED
      BY <2>6, <3>1, <3>3 DEF Regrouped
  <2>10. /\ Times(a, q[0]) = Plus(Times(a, p[0]), Times(a, v[0]))
         /\ Times(b, q[1]) = Plus(Times(b, p[1]), Times(b, v[1]))
         /\ Times(c, q[2]) = Plus(Times(c, p[2]), Times(c, v[2]))
    BY <1>6, <2>3, <2>7, Distributes
  <2>11. Image(m, q, i) = Plus4(Times(a, q[0]), Times(b, q[1]), Times(c, q[2]), z)
    BY <2>2 DEF Image
  <2>12. Taken(m, q)[i] = Image(m, q, i)
    BY <1>3, <1>6, <1>7, TakenAt
  <2> QED
    BY <2>9, <2>10, <2>11, <2>12
<1>8. Taken(m, q) \in V3
  BY <1>3, <1>6, TakenAt
<1> QED
  BY <1>3, <1>5, <1>7, <1>8, SameTaken

\* A move after the rest adds to where the matrix takes a point.
LEMMA MovedAfter ==
    ASSUME NEW m, Affine(m), NEW v \in V3, NEW n, n = Easy_matrix_translate_External(m, v), NEW p \in V3
    PROVE  Taken(n, p) = Add3(Taken(m, p), v)
<1>1. Three(v) /\ Three(p) /\ \A i \in Axis : p[i] \in Num /\ v[i] \in Num
  BY ThreeV3
<1>2. Affine(n) /\ Block(n, m) /\ \A i \in Axis : n[3][i] = Plus(m[3][i], v[i])
  BY <1>1, MovedFrame
<1>3. m \in M4 /\ n \in M4 /\ \A j, i \in Lane : m[j][i] \in Num
  BY <1>2, AffineNum
<1>4. PICK q : q = Taken(m, p)
  OBVIOUS
<1>5. q \in V3 /\ \A i \in Axis : q[i] = Image(m, p, i)
  BY <1>1, <1>3, <1>4, TakenAt
<1>6. Add3(q, v) \in V3 /\ \A i \in Axis : Add3(q, v)[i] = Plus(q[i], v[i])
  BY <1>5, Add3At
<1>7. ASSUME NEW i \in Axis PROVE Image(n, p, i) = Add3(q, v)[i]
  <2>1. PICK a, b, c, z : a = m[0][i] /\ b = m[1][i] /\ c = m[2][i] /\ z = m[3][i]
    OBVIOUS
  <2>2. a \in Num /\ b \in Num /\ c \in Num /\ z \in Num /\ v[i] \in Num
    BY <1>1, <1>3, <1>7, <2>1, LaneSet
  <2>3. n[0][i] = a /\ n[1][i] = b /\ n[2][i] = c /\ n[3][i] = Plus(z, v[i])
    BY <1>2, <1>7, <2>1, LaneSet DEF Block
  <2>4. PICK s : s = Plus3(Times(a, p[0]), Times(b, p[1]), Times(c, p[2]))
    OBVIOUS
  <2>5. s \in Num
    <3>1. Times(a, p[0]) \in Num /\ Times(b, p[1]) \in Num /\ Times(c, p[2]) \in Num
      BY <1>1, <2>2, NumClosed DEF Three
    <3> QED
      BY <2>4, <3>1, NumClosed DEF Plus3
  <2>6. Image(n, p, i) = Plus(s, Plus(z, v[i]))
    BY <2>3, <2>4 DEF Image, Plus4
  <2>7. Image(m, p, i) = Plus(s, z)
    BY <2>1, <2>4 DEF Image, Plus4
  <2>8. Plus(Plus(s, z), v[i]) = Plus(s, Plus(z, v[i]))
    BY <2>2, <2>5, PlusAssociates
  <2> QED
    BY <1>5, <1>6, <1>7, <2>6, <2>7, <2>8
<1> QED
  BY <1>3, <1>4, <1>6, <1>7, SameTaken

\* A scaling before the rest multiplies the point.
LEMMA ScaledBefore ==
    ASSUME NEW m, Affine(m), NEW v \in V3, NEW n, n = Easy_matrix_scale(m, v), NEW p \in V3
    PROVE  Taken(n, p) = Taken(m, Times3(p, v))
<1>1. Three(v) /\ Three(p) /\ \A i \in Axis : p[i] \in Num /\ v[i] \in Num
  BY ThreeV3
<1>2. m \in M4 /\ \A j, i \in Lane : m[j][i] \in Num
  BY AffineNum
<1>3. n \in M4 /\ \A j, i \in Lane : n[j][i] = IF j = 3 THEN m[j][i] ELSE Times(m[j][i], v[j])
  BY <1>2, ScaleIs
<1>4. PICK q : q = Times3(p, v)
  OBVIOUS
<1>5. q \in V3 /\ Three(q) /\ q[0] = Times(p[0], v[0]) /\ q[1] = Times(p[1], v[1]) /\ q[2] = Times(p[2], v[2])
  BY <1>4, Add3At, ThreeV3, LaneSet
<1>6. ASSUME NEW a \in Num, NEW x \in Num, NEW y \in Num PROVE Times(Times(a, y), x) = Times(a, Times(x, y))
  BY TimesAssociates, TimesCommutes
<1>7. ASSUME NEW i \in Axis PROVE Image(n, p, i) = Taken(m, q)[i]
  <2>1. m[0][i] \in Num /\ m[1][i] \in Num /\ m[2][i] \in Num
    BY <1>2, <1>7, LaneSet
  <2>2. /\ n[0][i] = Times(m[0][i], v[0]) /\ n[1][i] = Times(m[1][i], v[1]) /\ n[2][i] = Times(m[2][i], v[2])
        /\ n[3][i] = m[3][i]
    BY <1>3, <1>7, LaneSet
  <2>3. p[0] \in Num /\ p[1] \in Num /\ p[2] \in Num /\ v[0] \in Num /\ v[1] \in Num /\ v[2] \in Num
    BY <1>1 DEF Three
  <2>4. /\ Times(n[0][i], p[0]) = Times(m[0][i], q[0]) /\ Times(n[1][i], p[1]) = Times(m[1][i], q[1])
        /\ Times(n[2][i], p[2]) = Times(m[2][i], q[2])
    BY <1>5, <1>6, <2>1, <2>2, <2>3
  <2>5. Image(n, p, i) = Image(m, q, i)
    BY <2>2, <2>4 DEF Image
  <2> QED
    BY <1>2, <1>5, <1>7, <2>5, TakenAt
<1>8. Taken(m, q) \in V3
  BY <1>2, <1>5, TakenAt
<1> QED
  BY <1>3, <1>4, <1>7, <1>8, SameTaken

(***************************************************************************)
(* A motion undone leads back, whichever kind it is.                       *)
(***************************************************************************)
UndoneLeadsBack(c) == \A p \in V3 : Move(c, p) \in V3 /\ Move(Undone(c), Move(c, p)) = p

\* Adding back what was taken away.
LEMMA NegPlus ==
    ASSUME NEW a \in Num, NEW b \in Num
    PROVE  Plus(Plus(a, b), Neg(b)) = a /\ Plus(Minus(a, b), b) = a /\ Minus(a, b) \in Num
<1>1. Neg(b) \in Num /\ Minus(b, b) = Zero /\ Plus(a, Zero) = a /\ Minus(a, b) \in Num
  BY NumClosed, Neutral
<1>2. Plus(b, Neg(b)) = Zero /\ Minus(a, b) = Plus(a, Neg(b))
  BY <1>1 DEF Minus
<1>3. Plus(Plus(a, b), Neg(b)) = Plus(a, Plus(b, Neg(b)))
  BY <1>1, PlusAssociates
<1>4. Plus(Neg(b), b) = Plus(b, Neg(b))
  BY <1>1, PlusCommutes
<1>5. Plus(Plus(a, Neg(b)), b) = Plus(a, Plus(Neg(b), b))
  BY <1>1, PlusAssociates
<1> QED
  BY <1>1, <1>2, <1>3, <1>4, <1>5

\* A move the other way leads back.
LEMMA MoveBack ==
    ASSUME NEW c \in MoveMotions
    PROVE  UndoneLeadsBack(c)
<1>1. PICK v \in V3 : c = [kind |-> "move", v |-> v]
  BY DEF MoveMotions
<1>2. PICK w : w = [i \in Axis |-> Neg(v[i])]
  OBVIOUS
<1>3. \A i \in Axis : v[i] \in Num /\ Neg(v[i]) \in Num
  BY ThreeV3, NumClosed
<1>4. w \in V3 /\ \A i \in Axis : w[i] = Neg(v[i])
  BY <1>2, <1>3 DEF V3
<1>5. Undone(c) = [kind |-> "move", v |-> w]
  BY <1>1, <1>2 DEF Undone
<1>6. ASSUME NEW p \in V3 PROVE Move(c, p) \in V3 /\ Move(Undone(c), Move(c, p)) = p
  <2>1. PICK q : q = Add3(p, v)
    OBVIOUS
  <2>2. Move(c, p) = q
    BY <1>1, <2>1 DEF Move
  <2>3. q \in V3 /\ \A i \in Axis : q[i] = Plus(p[i], v[i])
    BY <2>1, Add3At
  <2>4. Move(Undone(c), q) = Add3(q, w)
    BY <1>5 DEF Move
  <2>5. Add3(q, w) \in V3 /\ \A i \in Axis : Add3(q, w)[i] = Plus(q[i], w[i])
    BY <1>4, <2>3, Add3At
  <2>6. ASSUME NEW i \in Axis PROVE Add3(q, w)[i] = p[i]
    <3>1. p[i] \in Num /\ v[i] \in Num
      BY <1>3, <2>6, ThreeV3
    <3>2. Plus(Plus(p[i], v[i]), Neg(v[i])) = p[i]
      BY <3>1, NegPlus
    <3> QED
      BY <1>4, <2>3, <2>5, <2>6, <3>2
  <2>7. Add3(q, w) = p
    BY <2>5, <2>6, LaneSet, SameAxes DEF V3
  <2> QED
    BY <2>2, <2>3, <2>4, <2>7
<1> QED
  BY <1>6 DEF UndoneLeadsBack

\* A scaling by the inverse factors leads back.
LEMMA ScaleBack ==
    ASSUME NEW c \in ScaleMotions
    PROVE  UndoneLeadsBack(c)
<1>1. PICK v \in Factors : c = [kind |-> "scale", v |-> v]
  BY DEF ScaleMotions
<1>2. PICK w : w = [i \in Axis |-> Over(One, v[i])]
  OBVIOUS
<1>3. v \in V3 /\ \A i \in Axis : v[i] \in Num /\ v[i] # Zero
  BY ThreeV3, LaneSet DEF Factors
<1>4. \A i \in Axis : Over(One, v[i]) \in Num /\ Times(v[i], Over(One, v[i])) = One
  BY <1>3, InverseNumber
<1>5. w \in V3 /\ \A i \in Axis : w[i] \in Num /\ Times(v[i], w[i]) = One
  BY <1>2, <1>4 DEF V3
<1>6. Undone(c) = [kind |-> "scale", v |-> w]
  BY <1>1, <1>2 DEF Undone
<1>7. ASSUME NEW p \in V3 PROVE Move(c, p) \in V3 /\ Move(Undone(c), Move(c, p)) = p
  <2>1. PICK q : q = Times3(p, v)
    OBVIOUS
  <2>2. Move(c, p) = q
    BY <1>1, <2>1 DEF Move
  <2>3. q \in V3 /\ \A i \in Axis : q[i] = Times(p[i], v[i])
    BY <1>3, <2>1, Add3At
  <2>4. Move(Undone(c), q) = Times3(q, w)
    BY <1>6 DEF Move
  <2>5. Times3(q, w) \in V3 /\ \A i \in Axis : Times3(q, w)[i] = Times(q[i], w[i])
    BY <1>5, <2>3, Add3At
  <2>6. ASSUME NEW i \in Axis PROVE Times3(q, w)[i] = p[i]
    <3>1. p[i] \in Num /\ v[i] \in Num /\ w[i] \in Num /\ Times(v[i], w[i]) = One
      BY <1>3, <1>5, <2>6, ThreeV3
    <3>2. Times(Times(p[i], v[i]), w[i]) = Times(p[i], Times(v[i], w[i])) /\ Times(p[i], One) = p[i]
      BY <3>1, TimesAssociates, Neutral
    <3> QED
      BY <2>3, <2>5, <2>6, <3>1, <3>2
  <2>7. Times3(q, w) = p
    BY <2>5, <2>6, LaneSet, SameAxes DEF V3
  <2> QED
    BY <2>2, <2>3, <2>4, <2>7
<1> QED
  BY <1>7 DEF UndoneLeadsBack

\* A turn by the opposite angle leads back.
LEMMA TurnsAround ==
    ASSUME NEW c \in TurnMotions
    PROVE  UndoneLeadsBack(c)
<1>1. PICK v \in V3, w \in Num : c = [kind |-> "turn", v |-> v, w |-> w]
  BY DEF TurnMotions
<1>2. PICK u : IsUnit(u) /\ SameTurn(c.v, c.w, u)
  BY DEF TurnMotions
<1>3. IsUnit(u) /\ SameTurn(v, w, u)
  BY <1>1, <1>2
<1>4. PICK t : IsUnit(t) /\ SameTurn(v, Neg(w), t) /\ RotationOf(t) = T4(RotationOf(u))
  BY <1>3, TurnBack
<1>5. Undone(c) = [kind |-> "turn", v |-> v, w |-> Neg(w)] /\ Neg(w) \in Num
  BY <1>1, NumClosed DEF Undone
<1>6. PICK R, S : R = RotationOf(u) /\ S = RotationOf(t)
  OBVIOUS
<1>7. Affine(R) /\ Affine(S) /\ Mul(R, S) = IdentityMatrix
  <2>1. Turning(R) /\ Turning(S)
    BY <1>3, <1>4, <1>6, UnitTurning
  <2> QED
    BY <1>4, <1>6, <2>1 DEF Turning, Linear
<1>8. ASSUME NEW p \in V3 PROVE Move(c, p) \in V3 /\ Move(Undone(c), Move(c, p)) = p
  <2>1. PICK q : q = Taken(R, p)
    OBVIOUS
  <2>2. TurnPoint(v, w, p) = q
    BY <1>3, <1>6, <2>1, TurnsAsQuaternion
  <2>3. Move(c, p) = q
    BY <1>1, <2>2 DEF Move
  <2>4. q \in V3
    BY <1>7, <2>1, TakenAt, ThreeV3, AffineNum
  <2>5. TurnPoint(v, Neg(w), q) = Taken(S, q)
    BY <1>4, <1>5, <1>6, <2>4, TurnsAsQuaternion
  <2>6. Move(Undone(c), q) = Taken(S, q)
    BY <1>5, <2>5 DEF Move
  <2>7. Taken(S, q) = Taken(IdentityMatrix, p)
    BY <1>7, <2>1, TakenProduct, ThreeV3
  <2> QED
    BY <2>3, <2>4, <2>6, <2>7, TakenIdentity
<1> QED
  BY <1>8 DEF UndoneLeadsBack

\* A vector put together from three numbers.
LEMMA V3QAt ==
    ASSUME NEW x \in Num, NEW y \in Num, NEW z \in Num
    PROVE  /\ V3Q(x, y, z) \in V3
           /\ V3Q(x, y, z)[0] = x /\ V3Q(x, y, z)[1] = y /\ V3Q(x, y, z)[2] = z
  BY LaneSet DEF V3Q, V3

\* The quarter turns about x undo each other.
LEMMA SwapBack ==
    ASSUME NEW c \in SwapMotions
    PROVE  UndoneLeadsBack(c)
<1>1. c = [kind |-> "swap"] \/ c = [kind |-> "unswap"]
  BY DEF SwapMotions
<1>2. ASSUME NEW p \in V3 PROVE Move(c, p) \in V3 /\ Move(Undone(c), Move(c, p)) = p
  <2>1. p[0] \in Num /\ p[1] \in Num /\ p[2] \in Num
    BY ThreeV3 DEF Three
  <2>2. /\ Neg(p[1]) \in Num /\ Neg(p[2]) \in Num /\ Neg(Neg(p[1])) = p[1] /\ Neg(Neg(p[2])) = p[2]
    BY <2>1, NumClosed, Neutral
  <2>3. CASE c = [kind |-> "swap"]
    <3>1. PICK q : q = V3Q(p[0], p[2], Neg(p[1]))
      OBVIOUS
    <3>2. Move(c, p) = q /\ Undone(c) = [kind |-> "unswap"]
      BY <2>3, <3>1 DEF Move, Undone
    <3>3. q \in V3 /\ q[0] = p[0] /\ q[1] = p[2] /\ q[2] = Neg(p[1])
      BY <2>1, <2>2, <3>1, V3QAt
    <3>4. Move(Undone(c), q) = V3Q(q[0], Neg(q[2]), q[1])
      BY <3>2 DEF Move
    <3>5. PICK r : r = V3Q(q[0], Neg(q[2]), q[1])
      OBVIOUS
    <3>6. r \in V3 /\ r[0] = p[0] /\ r[1] = p[1] /\ r[2] = p[2]
      BY <2>1, <2>2, <3>3, <3>5, V3QAt
    <3>7. r = p
      BY <3>6, SameAxes DEF V3
    <3> QED
      BY <3>2, <3>3, <3>4, <3>5, <3>7
  <2>4. CASE c = [kind |-> "unswap"]
    <3>1. PICK q : q = V3Q(p[0], Neg(p[2]), p[1])
      OBVIOUS
    <3>2. Move(c, p) = q /\ Undone(c) = [kind |-> "swap"]
      BY <2>4, <3>1 DEF Move, Undone
    <3>3. q \in V3 /\ q[0] = p[0] /\ q[1] = Neg(p[2]) /\ q[2] = p[1]
      BY <2>1, <2>2, <3>1, V3QAt
    <3>4. Move(Undone(c), q) = V3Q(q[0], q[2], Neg(q[1]))
      BY <3>2 DEF Move
    <3>5. PICK r : r = V3Q(q[0], q[2], Neg(q[1]))
      OBVIOUS
    <3>6. r \in V3 /\ r[0] = p[0] /\ r[1] = p[1] /\ r[2] = p[2]
      BY <2>1, <2>2, <3>3, <3>5, V3QAt
    <3>7. r = p
      BY <3>6, SameAxes DEF V3
    <3> QED
      BY <3>2, <3>3, <3>4, <3>5, <3>7
  <2> QED
    BY <1>1, <2>3, <2>4
<1> QED
  BY <1>2 DEF UndoneLeadsBack

Unlooked(m, p) == [i \in Axis |-> Dot(m[i], Easy_vector_sub(p, m[3]))]

\* A point from the position of a frame, along its axes.
LEMMA Away ==
    ASSUME NEW m, Affine(m), NEW p \in V3, NEW d, d = Easy_vector_sub(p, m[3])
    PROVE  /\ Three(d) /\ \A i \in Axis : d[i] = Minus(p[i], m[3][i]) /\ d[i] \in Num
           /\ Unlooked(m, p) \in V3
           /\ \A i \in Axis : Unlooked(m, p)[i] =
                Plus3(Times(d[0], m[i][0]), Times(d[1], m[i][1]), Times(d[2], m[i][2]))
<1>1. d = [i \in Axis |-> Minus(p[i], m[3][i])]
  BY DEF Easy_vector_sub, XYZ
<1>2. \A j, i \in Lane : m[j][i] \in Num
  BY AffineNum
<1>3. \A i \in Axis : p[i] \in Num /\ m[3][i] \in Num
  BY <1>2, ThreeV3, LaneSet
<1>4. \A i \in Axis : d[i] = Minus(p[i], m[3][i]) /\ d[i] \in Num
  BY <1>1, <1>3, NumClosed
<1>5. Three(d)
  BY <1>4, LaneSet DEF Three
<1>6. Unlooked(m, p) = [i \in Axis |-> Dot(m[i], d)]
  BY DEF Unlooked
<1>7. ASSUME NEW i \in Axis
      PROVE  /\ Dot(m[i], d) = Plus3(Times(d[0], m[i][0]), Times(d[1], m[i][1]), Times(d[2], m[i][2]))
             /\ Dot(m[i], d) \in Num
  <2>1. m[i][0] \in Num /\ m[i][1] \in Num /\ m[i][2] \in Num
    BY <1>2, <1>7, LaneSet
  <2>2. d[0] \in Num /\ d[1] \in Num /\ d[2] \in Num
    BY <1>5 DEF Three
  <2>3. /\ Times(m[i][0], d[0]) = Times(d[0], m[i][0]) /\ Times(m[i][1], d[1]) = Times(d[1], m[i][1])
        /\ Times(m[i][2], d[2]) = Times(d[2], m[i][2])
    BY <2>1, <2>2, TimesCommutes
  <2>4. Three(m[i])
    BY <2>1 DEF Three
  <2>5. Dot(m[i], d) \in Num
    BY <1>5, <2>4, DotCommutes
  <2> QED
    BY <2>3, <2>5 DEF Dot, Easy_vector_dot
<1> QED
  BY <1>4, <1>5, <1>6, <1>7 DEF V3

\* A frame turns and moves a point; taken off again, first its position and then
\* its axes, the point is back.
LEMMA UnlookedBack ==
    ASSUME NEW m, Affine(m), NEW R, Turning(R), Block(m, R), NEW p \in V3
    PROVE  Taken(m, p) \in V3 /\ Unlooked(m, Taken(m, p)) = p
<1>1. m \in M4 /\ Three(p) /\ \A j, i \in Lane : m[j][i] \in Num
  BY AffineNum, ThreeV3
<1>2. PICK q : q = Taken(m, p)
  OBVIOUS
<1>3. q \in V3 /\ \A i \in Axis : q[i] = Image(m, p, i)
  BY <1>1, <1>2, TakenAt
<1>4. PICK d : d = Easy_vector_sub(q, m[3])
  OBVIOUS
<1>5. /\ Three(d) /\ \A i \in Axis : d[i] = Minus(q[i], m[3][i]) /\ d[i] \in Num
      /\ Unlooked(m, q) \in V3
      /\ \A i \in Axis : Unlooked(m, q)[i] =
           Plus3(Times(d[0], m[i][0]), Times(d[1], m[i][1]), Times(d[2], m[i][2]))
  BY <1>3, <1>4, Away
<1>6. p[0] \in Num /\ p[1] \in Num /\ p[2] \in Num
  BY <1>1 DEF Three
<1>7. ASSUME NEW i \in Axis
      PROVE  d[i] = Plus3(Times(p[0], R[0][i]), Times(p[1], R[1][i]), Times(p[2], R[2][i]))
  <2>1. m[0][i] \in Num /\ m[1][i] \in Num /\ m[2][i] \in Num /\ m[3][i] \in Num
    BY <1>1, <1>7, LaneSet
  <2>2. m[0][i] = R[0][i] /\ m[1][i] = R[1][i] /\ m[2][i] = R[2][i]
    BY <1>7, LaneSet DEF Block
  <2>3. PICK s : s = Plus3(Times(m[0][i], p[0]), Times(m[1][i], p[1]), Times(m[2][i], p[2]))
    OBVIOUS
  <2>4. /\ Times(m[0][i], p[0]) \in Num /\ Times(m[1][i], p[1]) \in Num /\ Times(m[2][i], p[2]) \in Num
        /\ Times(m[0][i], p[0]) = Times(p[0], m[0][i]) /\ Times(m[1][i], p[1]) = Times(p[1], m[1][i])
        /\ Times(m[2][i], p[2]) = Times(p[2], m[2][i])
    BY <1>6, <2>1, NumClosed, TimesCommutes
  <2>5. s \in Num
    BY <2>3, <2>4, NumClosed DEF Plus3
  <2>6. q[i] = Plus(s, m[3][i])
    BY <1>3, <1>7, <2>3 DEF Image, Plus4
  <2>7. d[i] = s
    <3>1. Plus(Plus(s, m[3][i]), Neg(m[3][i])) = s
      BY <2>1, <2>5, NegPlus
    <3> QED
      BY <1>5, <1>7, <2>6, <3>1 DEF Minus
  <2> QED
    BY <2>2, <2>3, <2>4, <2>7
<1>8. \A j \in Axis : Plus3(Times(d[0], R[j][0]), Times(d[1], R[j][1]), Times(d[2], R[j][2])) = p[j]
  BY <1>1, <1>7, TurnsBack
<1>9. \A j \in Axis : m[j][0] = R[j][0] /\ m[j][1] = R[j][1] /\ m[j][2] = R[j][2]
  BY LaneSet DEF Block
<1>10. \A j \in Axis : Unlooked(m, q)[j] = p[j]
  BY <1>5, <1>8, <1>9
<1>11. Unlooked(m, q) = p
  BY <1>5, <1>10, LaneSet, SameAxes DEF V3
<1> QED
  BY <1>2, <1>3, <1>11

\* Taken to a rigid frame and back.
LEMMA LookedBack ==
    ASSUME NEW m, Affine(m), NEW R, Turning(R), Block(m, R), NEW p \in V3
    PROVE  Unlooked(m, p) \in V3 /\ Taken(m, Unlooked(m, p)) = p
<1>1. m \in M4 /\ \A j, i \in Lane : m[j][i] \in Num
  BY AffineNum
<1>2. PICK d : d = Easy_vector_sub(p, m[3])
  OBVIOUS
<1>3. PICK u : u = Unlooked(m, p)
  OBVIOUS
<1>4. /\ Three(d) /\ \A i \in Axis : d[i] = Minus(p[i], m[3][i]) /\ d[i] \in Num
      /\ u \in V3
      /\ \A i \in Axis : u[i] = Plus3(Times(d[0], m[i][0]), Times(d[1], m[i][1]), Times(d[2], m[i][2]))
  BY <1>2, <1>3, Away
<1>5. PICK S : S = T4(R)
  OBVIOUS
<1>6. Turning(S) /\ \A j, i \in Axis : S[j][i] = m[i][j]
  <2>1. Turning(S)
    BY <1>5, TransposeTurning
  <2>2. \A j, i \in Lane : S[j][i] = R[i][j]
    BY <1>5, T4Mat
  <2> QED
    BY <2>1, <2>2, LaneSet DEF Block
<1>7. \A i \in Axis : S[0][i] = m[i][0] /\ S[1][i] = m[i][1] /\ S[2][i] = m[i][2]
  BY <1>6, LaneSet
<1>8. \A i \in Axis : u[i] = Plus3(Times(d[0], S[0][i]), Times(d[1], S[1][i]), Times(d[2], S[2][i]))
  BY <1>4, <1>7
<1>9. \A j \in Axis : Plus3(Times(u[0], S[j][0]), Times(u[1], S[j][1]), Times(u[2], S[j][2])) = d[j]
  BY <1>4, <1>6, <1>8, TurnsBack
<1>10. u[0] \in Num /\ u[1] \in Num /\ u[2] \in Num /\ Three(u)
  BY <1>4, ThreeV3 DEF Three
<1>11. ASSUME NEW j \in Axis PROVE Image(m, u, j) = p[j]
  <2>1. m[0][j] \in Num /\ m[1][j] \in Num /\ m[2][j] \in Num /\ m[3][j] \in Num /\ p[j] \in Num
    BY <1>1, <1>11, ThreeV3, LaneSet
  <2>2. S[j][0] = m[0][j] /\ S[j][1] = m[1][j] /\ S[j][2] = m[2][j]
    BY <1>6, <1>11, LaneSet
  <2>3. /\ Times(m[0][j], u[0]) = Times(u[0], m[0][j]) /\ Times(m[1][j], u[1]) = Times(u[1], m[1][j])
        /\ Times(m[2][j], u[2]) = Times(u[2], m[2][j])
    BY <1>10, <2>1, TimesCommutes
  <2>4. Plus3(Times(m[0][j], u[0]), Times(m[1][j], u[1]), Times(m[2][j], u[2])) = d[j]
    BY <1>9, <1>11, <2>2, <2>3
  <2>5. Image(m, u, j) = Plus(d[j], m[3][j])
    BY <2>4 DEF Image, Plus4
  <2>6. Plus(Minus(p[j], m[3][j]), m[3][j]) = p[j]
    BY <2>1, NegPlus
  <2> QED
    BY <1>4, <1>11, <2>5, <2>6
<1>12. Taken(m, u) = p
  BY <1>1, <1>4, <1>11, SameTaken
<1> QED
  BY <1>3, <1>4, <1>12

\* Looking and looking away undo each other.
LEMMA LookBack ==
    ASSUME NEW c \in LookMotions
    PROVE  UndoneLeadsBack(c)
<1>1. PICK m \in Frames, look \in Looks :
        c = [kind |-> "look", m |-> m, look |-> look] \/ c = [kind |-> "unlook", m |-> m, look |-> look]
  BY DEF LookMotions
<1>2. PICK R : Affine(m) /\ Turning(R) /\ Block(m, R)
  BY <1>1 DEF Frames, IsFrame
<1>3. ASSUME NEW p \in V3 PROVE Move(c, p) \in V3 /\ Move(Undone(c), Move(c, p)) = p
  <2>1. /\ Taken(m, p) \in V3 /\ Unlooked(m, Taken(m, p)) = p
        /\ Unlooked(m, p) \in V3 /\ Taken(m, Unlooked(m, p)) = p
    BY <1>2, UnlookedBack, LookedBack
  <2>2. \A q : Unlooked(m, q) = XYZ(LAMBDA i : Easy_vector_dot(m[i], Easy_vector_sub(q, m[3])))
    BY DEF Unlooked, XYZ, Dot
  <2>3. CASE c = [kind |-> "look", m |-> m, look |-> look]
    <3>1. Undone(c) = [kind |-> "unlook", m |-> m, look |-> look]
      BY <2>3 DEF Undone
    <3>2. Move(c, p) = Taken(m, p)
      BY <2>3 DEF Move, Taken
    <3>3. \A q : Move(Undone(c), q) = Unlooked(m, q)
      BY <3>1 DEF Move, Unlooked, XYZ, Dot
    <3> QED
      BY <2>1, <3>2, <3>3
  <2>4. CASE c = [kind |-> "unlook", m |-> m, look |-> look]
    <3>1. Undone(c) = [kind |-> "look", m |-> m, look |-> look]
      BY <2>4 DEF Undone
    <3>2. Move(c, p) = Unlooked(m, p)
      BY <2>4 DEF Move, Unlooked, XYZ, Dot
    <3>3. \A q : Move(Undone(c), q) = Taken(m, q)
      BY <3>1 DEF Move, Taken
    <3> QED
      BY <2>1, <3>2, <3>3
  <2> QED
    BY <1>1, <2>3, <2>4
<1> QED
  BY <1>3 DEF UndoneLeadsBack

\* Every motion that the calls record, followed by the one that Undone makes of
\* it, leads each point back: what Reversed says of Invert and Transpose
\* (EasyMatrix.h:138, 1074, 1435) is the inverse motion.
THEOREM UndoneMotionsLeadBack ==
    ASSUME NEW c \in Motions
    PROVE  UndoneLeadsBack(c)
  BY MoveBack, ScaleBack, TurnsAround, SwapBack, LookBack DEF Motions

\* The constant matrices at a point.
LEMMA QuarterAre ==
    /\ Affine(TurnYZ)
    /\ TurnYZ[0][0] = One /\ TurnYZ[0][1] = Zero /\ TurnYZ[0][2] = Zero
    /\ TurnYZ[1][0] = Zero /\ TurnYZ[1][1] = Zero /\ TurnYZ[1][2] = Neg(One)
    /\ TurnYZ[2][0] = Zero /\ TurnYZ[2][1] = One /\ TurnYZ[2][2] = Zero
    /\ TurnYZ[3][0] = Zero /\ TurnYZ[3][1] = Zero /\ TurnYZ[3][2] = Zero
<1>1. IdentityMatrix[3] = Vec(0, 0, 0, 1)
  BY PsAt DEF IdentityMatrix, Rows
<1>2. Turning(TurnYZ)
  BY <1>1, QuartersTurning DEF TurnYZ
<1>3. PICK a, b, c, d : /\ a = Vec(1, 0, 0, 0) /\ b = Vec(0, 0, -1, 0)
                        /\ c = Vec(0, 1, 0, 0) /\ d = Vec(0, 0, 0, 1)
  OBVIOUS
<1>4. TurnYZ[0] = a /\ TurnYZ[1] = b /\ TurnYZ[2] = c /\ TurnYZ[3] = d
  BY <1>3, PsAt DEF TurnYZ, Rows
<1>5. /\ a[0] = One /\ a[1] = Zero /\ a[2] = Zero /\ b[0] = Zero /\ b[1] = Zero /\ b[2] = Neg(One)
      /\ c[0] = Zero /\ c[1] = One /\ c[2] = Zero /\ d[0] = Zero /\ d[1] = Zero /\ d[2] = Zero
  BY <1>3, VecIs, Signs
<1> QED
  BY <1>2, <1>4, <1>5 DEF Turning, Linear

\* A sum with one term.
LEMMA OneSummand ==
    ASSUME NEW x \in Num
    PROVE  /\ Plus4(x, Zero, Zero, Zero) = x /\ Plus4(Zero, x, Zero, Zero) = x /\ Plus4(Zero, Zero, x, Zero) = x
           /\ Times(Zero, x) = Zero /\ Times(One, x) = x /\ Times(Neg(One), x) = Neg(x)
           /\ Times(x, One) = x /\ Times(x, Neg(One)) = Neg(x)
<1>1. Zero \in Num /\ Plus(Zero, Zero) = Zero /\ Plus(x, Zero) = x /\ Plus(Zero, x) = x
  BY Constants, Neutral
<1> QED
  BY <1>1, Neutral, NegTimes DEF Plus4, Plus3

\* Where TurnYZ takes a point.
LEMMA QuarterTaken ==
    ASSUME NEW p \in V3
    PROVE  Taken(TurnYZ, p) = V3Q(p[0], p[2], Neg(p[1]))
<1>1. p[0] \in Num /\ p[1] \in Num /\ p[2] \in Num /\ Neg(p[1]) \in Num
  BY ThreeV3, NumClosed DEF Three
<1>2. PICK m : m = TurnYZ
  OBVIOUS
<1>3. /\ m \in M4
      /\ m[0][0] = One /\ m[0][1] = Zero /\ m[0][2] = Zero
      /\ m[1][0] = Zero /\ m[1][1] = Zero /\ m[1][2] = Neg(One)
      /\ m[2][0] = Zero /\ m[2][1] = One /\ m[2][2] = Zero
      /\ m[3][0] = Zero /\ m[3][1] = Zero /\ m[3][2] = Zero
  BY <1>2, QuarterAre DEF Affine
<1>4. Image(m, p, 0) = Plus4(Times(One, p[0]), Times(Zero, p[1]), Times(Zero, p[2]), Zero)
  BY <1>3 DEF Image
<1>5. Image(m, p, 1) = Plus4(Times(Zero, p[0]), Times(Zero, p[1]), Times(One, p[2]), Zero)
  BY <1>3 DEF Image
<1>6. Image(m, p, 2) = Plus4(Times(Zero, p[0]), Times(Neg(One), p[1]), Times(Zero, p[2]), Zero)
  BY <1>3 DEF Image
<1>7. /\ Times(One, p[0]) = p[0] /\ Times(One, p[2]) = p[2] /\ Times(Neg(One), p[1]) = Neg(p[1])
      /\ Times(Zero, p[0]) = Zero /\ Times(Zero, p[1]) = Zero /\ Times(Zero, p[2]) = Zero
  BY <1>1, OneSummand
<1>8. Image(m, p, 0) = p[0] /\ Image(m, p, 1) = p[2] /\ Image(m, p, 2) = Neg(p[1])
  BY <1>1, <1>4, <1>5, <1>6, <1>7, OneSummand
<1>9. PICK q : q = V3Q(p[0], p[2], Neg(p[1]))
  OBVIOUS
<1>10. q \in V3 /\ q[0] = p[0] /\ q[1] = p[2] /\ q[2] = Neg(p[1])
  BY <1>1, <1>9, V3QAt
<1>11. \A i \in Axis : Image(m, p, i) = q[i]
  BY <1>8, <1>10, LaneSet
<1>12. Taken(m, p) = q
  BY <1>3, <1>10, <1>11, SameTaken
<1> QED
  BY <1>2, <1>9, <1>12

\* Where TurnY takes it.
LEMMA MirrorTaken ==
    ASSUME NEW p \in V3
    PROVE  Taken(TurnY, p) = Times3(p, Mirrored)
<1>1. p[0] \in Num /\ p[1] \in Num /\ p[2] \in Num /\ Neg(p[1]) \in Num
  BY ThreeV3, NumClosed DEF Three
<1>2. PICK m : m = TurnY
  OBVIOUS
<1>3. /\ m \in M4
      /\ m[0][0] = One /\ m[0][1] = Zero /\ m[0][2] = Zero
      /\ m[1][0] = Zero /\ m[1][1] = Neg(One) /\ m[1][2] = Zero
      /\ m[2][0] = Zero /\ m[2][1] = Zero /\ m[2][2] = One
      /\ m[3][0] = Zero /\ m[3][1] = Zero /\ m[3][2] = Zero
  BY <1>2, MirrorAre, LaneSet DEF Affine
<1>4. Image(m, p, 0) = Plus4(Times(One, p[0]), Times(Zero, p[1]), Times(Zero, p[2]), Zero)
  BY <1>3 DEF Image
<1>5. Image(m, p, 1) = Plus4(Times(Zero, p[0]), Times(Neg(One), p[1]), Times(Zero, p[2]), Zero)
  BY <1>3 DEF Image
<1>6. Image(m, p, 2) = Plus4(Times(Zero, p[0]), Times(Zero, p[1]), Times(One, p[2]), Zero)
  BY <1>3 DEF Image
<1>7. /\ Times(One, p[0]) = p[0] /\ Times(One, p[2]) = p[2] /\ Times(Neg(One), p[1]) = Neg(p[1])
      /\ Times(Zero, p[0]) = Zero /\ Times(Zero, p[1]) = Zero /\ Times(Zero, p[2]) = Zero
  BY <1>1, OneSummand
<1>8. Image(m, p, 0) = p[0] /\ Image(m, p, 1) = Neg(p[1]) /\ Image(m, p, 2) = p[2]
  BY <1>1, <1>4, <1>5, <1>6, <1>7, OneSummand
<1>9. Mirrored \in V3 /\ Mirrored[0] = One /\ Mirrored[1] = Neg(One) /\ Mirrored[2] = One
  BY MirrorAre DEF Factors
<1>10. PICK q : q = Times3(p, Mirrored)
  OBVIOUS
<1>11. q \in V3 /\ \A i \in Axis : q[i] = Times(p[i], Mirrored[i])
  BY <1>9, <1>10, Add3At
<1>12. Times(p[0], One) = p[0] /\ Times(p[1], Neg(One)) = Neg(p[1]) /\ Times(p[2], One) = p[2]
  BY <1>1, OneSummand
<1>13. \A i \in Axis : Image(m, p, i) = q[i]
  BY <1>8, <1>9, <1>11, <1>12, LaneSet
<1>14. Taken(m, p) = q
  BY <1>3, <1>11, <1>13, SameTaken
<1> QED
  BY <1>2, <1>10, <1>14

(***************************************************************************)
(* The matrix takes every point where the motions take it.                 *)
(***************************************************************************)
Gives == \A p \in V3 : Taken(mat, p) = Follow(calls, p)

\* A call that moves points before the rest keeps the matrix true to the
\* motions.
LEMMA GivesBefore ==
    ASSUME Recorded, Gives, NEW c \in Motions, Before(c),
           \A p \in V3 : Taken(mat', p) = Taken(mat, Move(c, p))
    PROVE  Gives'
<1>1. calls \in Seq(Motions) /\ calls' = <<c>> \o calls
  BY DEF Recorded, Before
<1>2. ASSUME NEW p \in V3 PROVE Taken(mat', p) = Follow(calls', p)
  <2>1. PICK q : q = Move(c, p)
    OBVIOUS
  <2>2. q \in V3
    BY <2>1, UndoneMotionsLeadBack DEF UndoneLeadsBack
  <2>3. Follow(calls', p) = Follow(calls, q)
    BY <1>1, <2>1, FollowBefore
  <2> QED
    BY <2>1, <2>2, <2>3 DEF Gives
<1> QED
  BY <1>2 DEF Gives, Taken

\* So does one that moves them after the rest.
LEMMA GivesAfter ==
    ASSUME Recorded, Gives, NEW c \in Motions, After(c),
           \A p \in V3 : Taken(mat', p) = Move(c, Taken(mat, p))
    PROVE  Gives'
<1>1. calls \in Seq(Motions) /\ calls' = Append(calls, c)
  BY DEF Recorded, After
<1>2. ASSUME NEW p \in V3 PROVE Taken(mat', p) = Follow(calls', p)
  <2>1. Follow(calls', p) = Move(c, Follow(calls, p))
    BY <1>1, FollowAfter
  <2> QED
    BY <2>1 DEF Gives
<1> QED
  BY <1>2 DEF Gives, Taken

\* Translations do, on their sides.
LEMMA MovesGive ==
    ASSUME Kept, Recorded, Placed, Gives, NEW v \in Moves, TranslateInternal(v) \/ TranslateExternal(v)
    PROVE  Gives'
<1>1. v \in V3 /\ Affine(mat)
  BY MovesAssumption, NumberNum DEF Placed
<1>2. PICK c : c = [kind |-> "move", v |-> v]
  OBVIOUS
<1>3. c \in Motions /\ \A p : Move(c, p) = Add3(p, v)
  BY <1>1, <1>2 DEF Motions, MoveMotions, Move
<1>4. CASE TranslateInternal(v)
  <2>1. Before(c) /\ mat' = Easy_matrix_translate_Internal(mat, v)
    BY <1>2, <1>4 DEF TranslateInternal
  <2>2. \A p \in V3 : Taken(mat', p) = Taken(mat, Add3(p, v))
    BY <1>1, <2>1, MovedBefore
  <2> QED
    BY <1>3, <2>1, <2>2, GivesBefore
<1>5. CASE TranslateExternal(v)
  <2>1. After(c) /\ mat' = Easy_matrix_translate_External(mat, v)
    BY <1>2, <1>5 DEF TranslateExternal
  <2>2. \A p \in V3 : Taken(mat', p) = Add3(Taken(mat, p), v)
    BY <1>1, <2>1, MovedAfter
  <2> QED
    BY <1>3, <2>1, <2>2, GivesAfter
<1> QED
  BY <1>4, <1>5

\* Turns do, before the rest.
LEMMA TurnsGive ==
    ASSUME Recorded, Placed, Gives, NEW u, IsUnit(u), mat' = Mul(RotationOf(u), mat),
           NEW c \in TurnMotions, SameTurn(c.v, c.w, u), Before(c)
    PROVE  Gives'
<1>1. PICK v \in V3, w \in Num : c = [kind |-> "turn", v |-> v, w |-> w]
  BY DEF TurnMotions
<1>2. SameTurn(v, w, u) /\ c \in Motions
  BY <1>1 DEF Motions
<1>3. \A p : Move(c, p) = TurnPoint(v, w, p)
  BY <1>1 DEF Move
<1>4. Affine(RotationOf(u)) /\ Affine(mat)
  BY UnitTurning DEF Turning, Linear, Placed
<1>5. ASSUME NEW p \in V3 PROVE Taken(mat', p) = Taken(mat, Move(c, p))
  <2>1. TurnPoint(v, w, p) = Taken(RotationOf(u), p)
    BY <1>2, TurnsAsQuaternion
  <2>2. Taken(mat', p) = Taken(mat, Taken(RotationOf(u), p))
    BY <1>4, TakenProduct, ThreeV3
  <2> QED
    BY <1>3, <2>1, <2>2
<1> QED
  BY <1>2, <1>5, GivesBefore

\* Both kinds of rotations do.
LEMMA RotateGives ==
    ASSUME Kept, Recorded, Placed, Gives,
           (\E turn \in Turns : Rotate(turn)) \/ (\E r \in Quats : RotateQuat(r))
    PROVE  Gives'
<1>1. ASSUME NEW turn \in Turns, Rotate(turn) PROVE Gives'
  <2>1. PICK r, c : r = Easy_quat_axis_angle(turn.axis, turn.half) /\ c = TurnAbout(turn)
    OBVIOUS
  <2>2. IsUnit(r) /\ c \in TurnMotions /\ SameTurn(c.v, c.w, r)
    BY <2>1, TurnsAre
  <2>3. mat' = Mul(RotationOf(r), mat)
    BY <1>1, <2>1, <2>2, RotateQuatIs, UnitOne DEF Rotate, Easy_matrix_rotate, Kept, IsUnit
  <2>4. Before(c)
    BY <1>1, <2>1 DEF Rotate, TurnAbout
  <2> QED
    BY <2>2, <2>3, <2>4, TurnsGive
<1>2. ASSUME NEW r \in Quats, RotateQuat(r) PROVE Gives'
  <2>1. PICK u, c : u = Easy_quat_normalize_sse(r) /\ c = [kind |-> "turn", v |-> Easy_vector_copy_out(r), w |-> r[3]]
    OBVIOUS
  <2>2. IsUnit(u) /\ RotationOf(u) = RotationOf(r) /\ c \in TurnMotions /\ SameTurn(c.v, c.w, u)
    BY <2>1, QuatsAre
  <2>3. mat' = Mul(RotationOf(u), mat)
    BY <1>2, <2>2, QuatsAre, RotateQuatIs DEF RotateQuat, Kept
  <2>4. Before(c)
    BY <1>2, <2>1 DEF RotateQuat
  <2> QED
    BY <2>2, <2>3, <2>4, TurnsGive
<1> QED
  BY <1>1, <1>2

\* Scalings do.
LEMMA ScaleGives ==
    ASSUME Kept, Recorded, Placed, Gives, NEW v \in Scales, Scale(v)
    PROVE  Gives'
<1>1. v \in Factors /\ v \in V3 /\ Affine(mat)
  <2>1. v \in V3 /\ \A i \in Axis : v[i] # Zero
    BY ScalesAssumption, NumberNum
  <2> QED
    BY <2>1, LaneSet DEF Factors, Placed
<1>2. PICK c : c = [kind |-> "scale", v |-> v]
  OBVIOUS
<1>3. c \in Motions /\ \A p : Move(c, p) = Times3(p, v)
  BY <1>1, <1>2 DEF Motions, ScaleMotions, Move
<1>4. Before(c) /\ mat' = Easy_matrix_scale(mat, v)
  BY <1>2 DEF Scale
<1>5. \A p \in V3 : Taken(mat', p) = Taken(mat, Times3(p, v))
  BY <1>1, <1>4, ScaledBefore
<1> QED
  BY <1>3, <1>4, <1>5, GivesBefore

\* Mirrorings do, after the rest.
LEMMA MirrorGives ==
    ASSUME Kept, Recorded, Placed, Gives, Mirror
    PROVE  Gives'
<1>1. PICK c : c = [kind |-> "scale", v |-> Mirrored]
  OBVIOUS
<1>2. c \in Motions /\ \A p : Move(c, p) = Times3(p, Mirrored)
  BY <1>1, MirrorAre DEF Motions, ScaleMotions, Move
<1>3. After(c)
  BY <1>1 DEF Mirror, Mirrored
<1>4. mat' = Mul(mat, TurnY) /\ Affine(mat) /\ Affine(TurnY) /\ mat \in M4
  BY MirrorIs, MirrorAre DEF Mirror, Kept, Placed
<1>5. ASSUME NEW p \in V3 PROVE Taken(mat', p) = Move(c, Taken(mat, p))
  <2>1. Taken(mat', p) = Taken(TurnY, Taken(mat, p))
    BY <1>4, TakenProduct, ThreeV3
  <2>2. Taken(mat, p) \in V3
    BY <1>4, TakenAt, ThreeV3
  <2> QED
    BY <1>2, <2>1, <2>2, MirrorTaken
<1> QED
  BY <1>2, <1>3, <1>5, GivesAfter

\* Quarter turns do, before the rest.
LEMMA SwapYZGives ==
    ASSUME Kept, Recorded, Placed, Gives, SwapYZ
    PROVE  Gives'
<1>1. PICK c : c = [kind |-> "swap"]
  OBVIOUS
<1>2. c \in Motions /\ \A p : Move(c, p) = V3Q(p[0], p[2], Neg(p[1]))
  BY <1>1 DEF Motions, SwapMotions, Move
<1>3. Before(c)
  BY <1>1 DEF SwapYZ
<1>4. mat' = Mul(TurnYZ, mat) /\ Affine(mat) /\ Affine(TurnYZ)
  BY SwapYZIs, QuarterAre DEF SwapYZ, Kept, Placed
<1>5. ASSUME NEW p \in V3 PROVE Taken(mat', p) = Taken(mat, Move(c, p))
  BY <1>2, <1>4, TakenProduct, ThreeV3, QuarterTaken
<1> QED
  BY <1>2, <1>3, <1>5, GivesBefore

\* The inverse takes every point where the motions, undone, take it.
LEMMA UndoneGives ==
    ASSUME Recorded, Gives, Affine(mat), Affine(mat'), Mul(mat', mat) = IdentityMatrix, calls' = Backwards(calls)
    PROVE  Gives'
<1>1. ASSUME NEW p \in V3 PROVE Taken(mat', p) = Follow(calls', p)
  <2>1. PICK q : q = Taken(mat', p)
    OBVIOUS
  <2>2. q \in V3
    BY <2>1, TakenAt, ThreeV3, AffineNum
  <2>3. Taken(mat, q) = p
    BY <2>1, TakenProduct, TakenIdentity, ThreeV3
  <2>4. Follow(calls, q) = p
    BY <2>2, <2>3 DEF Gives
  <2>5. Follow(Backwards(calls), Follow(calls, q)) = q
    <3>1. \A c \in Motions : \A r \in V3 : Move(c, r) \in V3 /\ Move(Undone(c), Move(c, r)) = r
      BY UndoneMotionsLeadBack DEF UndoneLeadsBack
    <3> QED
      BY <2>2, <3>1, FollowTurned DEF Recorded
  <2> QED
    BY <2>1, <2>4, <2>5
<1> QED
  BY <1>1 DEF Gives, Taken

\* And so do inversions and transpositions.
LEMMA InvertGives ==
    ASSUME Kept, Recorded, Placed, Gives, Invertible, Invert \/ Transpose
    PROVE  Gives'
<1>1. Affine(mat) /\ mat \in M4
  BY DEF Placed, Kept
<1>2. calls' = Backwards(calls)
  BY DEF Invert, Transpose, Reversed, Backwards
<1>3. CASE Invert
  <2>1. mat' \in M4 /\ Mul(mat', mat) = IdentityMatrix
    BY <1>1, <1>3, InversesAgree DEF Invertible, Invert
  <2>2. Affine(mat')
    BY <1>1, <2>1, InverseAffine
  <2> QED
    BY <1>1, <1>2, <2>1, <2>2, UndoneGives
<1>4. CASE Transpose
  <2>1. Turning(mat)
    BY <1>4, OnlyIs DEF Transpose, Placed
  <2>2. mat' = T4(mat)
    BY <1>1, <1>4, M4Mat, TransposeIs DEF Transpose
  <2>3. Affine(mat') /\ Mul(mat', mat) = IdentityMatrix
    BY <2>1, <2>2, TransposeTurning DEF Turning, Linear
  <2> QED
    BY <1>1, <1>2, <2>3, UndoneGives
<1> QED
  BY <1>3, <1>4

\* The object starts where it looks from.
LEMMA InitGives == Init => Gives
<1> SUFFICES ASSUME Init, NEW p \in V3 PROVE Taken(mat, p) = Follow(calls, p)
  BY DEF Gives
<1>1. CASE mat = IdentityMatrix /\ calls = <<>>
  BY <1>1, TakenIdentity, FollowNone
<1>2. ASSUME NEW look \in Looks, mat = LookMatrix(look),
             calls = << [kind |-> "look", m |-> mat, look |-> look] >>
      PROVE  Taken(mat, p) = Follow(calls, p)
  <2>1. PICK c : c = [kind |-> "look", m |-> mat, look |-> look]
    OBVIOUS
  <2>2. IsFrame(mat)
    BY <1>2, LooksAreFrames
  <2>3. mat \in Frames
    BY <2>2 DEF IsFrame, Frames, Affine
  <2>4. c \in Motions
    BY <1>2, <2>1, <2>3 DEF Motions, LookMotions
  <2>5. Move(c, p) = Taken(mat, p)
    BY <2>1 DEF Move, Taken
  <2> QED
    BY <1>2, <2>1, <2>4, <2>5, FollowOne
<1> QED
  BY <1>1, <1>2 DEF Init

\* Whatever calls were made, the matrix takes every point where they take it.
LEMMA AlwaysGives == Spec /\ []Invertible => []Gives
<1>1. Init => Gives
  BY InitGives
<1>2. (Kept /\ Recorded /\ Placed) /\ Gives /\ Invertible /\ [Next]_vars => Gives'
  <2> SUFFICES ASSUME Kept, Recorded, Placed, Gives, Invertible, [Next]_vars PROVE Gives'
    OBVIOUS
  <2>1. CASE Next
    BY <2>1, MovesGive, RotateGives, ScaleGives, MirrorGives, SwapYZGives, InvertGives DEF Next
  <2>2. CASE UNCHANGED vars
    BY <2>2 DEF vars, Gives, Taken
  <2> QED
    BY <2>1, <2>2
<1> QED
  BY <1>1, <1>2, ObjectConsistent, PTL DEF Spec

\* Whatever calls were made, the matrix takes every point where the motions
\* asked for take it: internal calls (EasyMatrix.h:181, 461-740) before all
\* earlier ones, external calls (EasyMatrix.h:246) and mirrorings after them,
\* inversions (EasyMatrix.h:1074, 1435) and transpositions (EasyMatrix.h:138)
\* undoing them all in reverse.
THEOREM CallsAlwaysGiveMatrix == Spec /\ []Invertible => []CallsGiveMatrix
<1>1. Gives => CallsGiveMatrix
  <2> SUFFICES ASSUME Gives, NEW p \in Probes PROVE Easy_matrix_mult_vector3X3(mat, p) = Asked(p)
    BY DEF CallsGiveMatrix
  <2>1. p \in V3
    BY ProbesAssumption, NumberNum
  <2> QED
    BY <2>1 DEF Gives, Taken, Easy_matrix_mult_vector3X3, Asked
<1> QED
  BY <1>1, AlwaysGives, PTL

(***************************************************************************)
(* Directions through a matrix.                                            *)
(***************************************************************************)

\* A direction along the axes of a matrix: what Easy_matrix_mult_Normal3X3 makes of it.
Along(m, v, i) == Plus3(Times(v[0], m[0][i]), Times(v[1], m[1][i]), Times(v[2], m[2][i]))

\* Over common denominators it is a sum of products of integers.
LEMMA AlongParts ==
    ASSUME NEW m, NEW v, NEW i, NEW x, NEW y, NEW z, NEW d, Parts(v, x, y, z, d),
           NEW a, NEW b, NEW c, NEW k, Is(m[0][i], a, k), Is(m[1][i], b, k), Is(m[2][i], c, k)
    PROVE  Is(Along(m, v, i), x * a + y * b + z * c, d * k)
<1>1. Is(v[0], x, d) /\ Is(v[1], y, d) /\ Is(v[2], z, d)
  BY DEF Parts
<1>2. /\ Is(Times(v[0], m[0][i]), x * a, d * k) /\ Is(Times(v[1], m[1][i]), y * b, d * k)
      /\ Is(Times(v[2], m[2][i]), z * c, d * k)
  BY <1>1, TimesIs
<1>3. PICK f, g, h, n, o, p, q :
        /\ f = Times(v[0], m[0][i]) /\ g = Times(v[1], m[1][i]) /\ h = Times(v[2], m[2][i])
        /\ n = x * a /\ o = y * b /\ p = z * c /\ q = d * k
  OBVIOUS
<1>4. Is(f, n, q) /\ Is(g, o, q) /\ Is(h, p, q)
  BY <1>2, <1>3
<1>5. Is(Plus(f, g), n + o, q)
  BY <1>4, PlusSame
<1>6. Is(Plus(Plus(f, g), h), n + o + p, q)
  BY <1>4, <1>5, PlusSame
<1> QED
  BY <1>3, <1>6 DEF Along, Plus3

\* The first three entries of a column over one denominator.
LEMMA ColumnParts ==
    ASSUME NEW m \in M4, NEW i \in Axis
    PROVE  \E a, b, c, k \in Int : k > 0 /\ Is(m[0][i], a, k) /\ Is(m[1][i], b, k) /\ Is(m[2][i], c, k)
<1>1. m[0][i] \in Num /\ m[1][i] \in Num /\ m[2][i] \in Num
  BY M4Mat, LaneSet
<1> QED
  BY <1>1, Common3

\* It is a number.
LEMMA AlongNum ==
    ASSUME NEW m \in M4, NEW i \in Axis, NEW v, Three(v)
    PROVE  Along(m, v, i) \in Num
<1>1. PICK a, b, c, k \in Int : k > 0 /\ Is(m[0][i], a, k) /\ Is(m[1][i], b, k) /\ Is(m[2][i], c, k)
  BY ColumnParts
<1>2. PICK x, y, z, d \in Int : d > 0 /\ Parts(v, x, y, z, d)
  BY ThreeParts
<1> QED
  BY <1>1, <1>2, AlongParts, IsInts

\* Factors, differences and quotients go through it.
LEMMA AlongTimes ==
    ASSUME NEW m \in M4, NEW i \in Axis, NEW v, Three(v), NEW s \in Num,
           NEW u, \A j \in Axis : u[j] = Times(s, v[j])
    PROVE  Three(u) /\ Along(m, u, i) = Times(s, Along(m, v, i))
<1>1. PICK a, b, c, k \in Int : k > 0 /\ Is(m[0][i], a, k) /\ Is(m[1][i], b, k) /\ Is(m[2][i], c, k)
  BY ColumnParts
<1>2. PICK x, y, z, d \in Int : d > 0 /\ Parts(v, x, y, z, d)
  BY ThreeParts
<1>3. PICK n, e \in Int : e > 0 /\ Is(s, n, e)
  BY Fraction
<1>4. Is(v[0], x, d) /\ Is(v[1], y, d) /\ Is(v[2], z, d)
  BY <1>2 DEF Parts
<1>5. u[0] = Times(s, v[0]) /\ u[1] = Times(s, v[1]) /\ u[2] = Times(s, v[2])
  BY LaneSet
<1>6. PICK f, g, h, l : f = n * x /\ g = n * y /\ h = n * z /\ l = e * d
  OBVIOUS
<1>7. Parts(u, f, g, h, l)
  BY <1>3, <1>4, <1>5, <1>6, TimesIs DEF Parts
<1>8. Is(Along(m, u, i), f * a + g * b + h * c, l * k)
  BY <1>1, <1>7, AlongParts
<1>9. Is(Along(m, v, i), x * a + y * b + z * c, d * k)
  BY <1>1, <1>2, AlongParts
<1>10. Is(Times(s, Along(m, v, i)), n * (x * a + y * b + z * c), e * (d * k))
  BY <1>3, <1>9, TimesIs
<1>11. f * a + g * b + h * c = n * (x * a + y * b + z * c) /\ l * k = e * (d * k)
  BY <1>1, <1>2, <1>3, <1>6
<1> QED
  BY <1>7, <1>8, <1>10, <1>11, PartsInts, IsEqual

\* The direction of a difference is the difference of the directions.
LEMMA AlongMinus ==
    ASSUME NEW m \in M4, NEW i \in Axis, NEW v, Three(v), NEW w, Three(w),
           NEW u, \A j \in Axis : u[j] = Minus(v[j], w[j])
    PROVE  Three(u) /\ Along(m, u, i) = Minus(Along(m, v, i), Along(m, w, i))
<1>1. PICK a, b, c, k \in Int : k > 0 /\ Is(m[0][i], a, k) /\ Is(m[1][i], b, k) /\ Is(m[2][i], c, k)
  BY ColumnParts
<1>2. PICK x, y, z, d \in Int : d > 0 /\ Parts(v, x, y, z, d)
  BY ThreeParts
<1>3. PICK n, o, p, e \in Int : e > 0 /\ Parts(w, n, o, p, e)
  BY ThreeParts
<1>4. Is(v[0], x, d) /\ Is(v[1], y, d) /\ Is(v[2], z, d) /\ Is(w[0], n, e) /\ Is(w[1], o, e) /\ Is(w[2], p, e)
  BY <1>2, <1>3 DEF Parts
<1>5. u[0] = Minus(v[0], w[0]) /\ u[1] = Minus(v[1], w[1]) /\ u[2] = Minus(v[2], w[2])
  BY LaneSet
<1>6. PICK f, g, h, l : f = x * e - n * d /\ g = y * e - o * d /\ h = z * e - p * d /\ l = d * e
  OBVIOUS
<1>7. Parts(u, f, g, h, l)
  <2>1. Is(u[0], x * e - n * d, d * e)
    BY <1>4, <1>5, MinusIs
  <2>2. Is(u[1], y * e - o * d, d * e)
    BY <1>4, <1>5, MinusIs
  <2>3. Is(u[2], z * e - p * d, d * e)
    BY <1>4, <1>5, MinusIs
  <2> QED
    BY <1>6, <2>1, <2>2, <2>3 DEF Parts
<1>8. Is(Along(m, u, i), f * a + g * b + h * c, l * k)
  BY <1>1, <1>7, AlongParts
<1>9. Is(Along(m, v, i), x * a + y * b + z * c, d * k) /\ Is(Along(m, w, i), n * a + o * b + p * c, e * k)
  BY <1>1, <1>2, <1>3, AlongParts
<1>10. PICK q, r, s, t : q = x * a + y * b + z * c /\ r = n * a + o * b + p * c /\ s = d * k /\ t = e * k
  OBVIOUS
<1>11. Is(Minus(Along(m, v, i), Along(m, w, i)), q * t - r * s, s * t)
  BY <1>9, <1>10, MinusIs
<1>12. (f * a + g * b + h * c) * k = q * t - r * s /\ (l * k) * k = s * t
  BY <1>1, <1>2, <1>3, <1>6, <1>10
<1>13. Is(Along(m, u, i), (f * a + g * b + h * c) * k, (l * k) * k)
  BY <1>1, <1>8, IsScaled
<1> QED
  BY <1>7, <1>11, <1>12, <1>13, PartsInts, IsEqual

\* The direction of a quotient is the quotient of the direction.
LEMMA AlongOver ==
    ASSUME NEW m \in M4, NEW i \in Axis, NEW v, Three(v), NEW r \in Num, r # Zero,
           NEW u, \A j \in Axis : u[j] = Over(v[j], r)
    PROVE  Three(u) /\ Along(m, u, i) = Over(Along(m, v, i), r)
<1>1. \A j \in Axis : u[j] = Times(Over(One, r), v[j])
  BY OverTimes, LaneSet DEF Three
<1>2. Over(One, r) \in Num
  BY OverTimes, Constants
<1>3. Three(u) /\ Along(m, u, i) = Times(Over(One, r), Along(m, v, i))
  BY <1>1, <1>2, AlongTimes
<1>4. Along(m, v, i) \in Num
  BY AlongNum
<1> QED
  BY <1>3, <1>4, OverTimes

\* Lengths and angles stay: x R and y R have the scalar product of x and y.
LEMMA TurnedDot ==
    ASSUME NEW R, Turning(R), NEW a, NEW b, Three(a), Three(b), NEW v, NEW w,
           \A i \in Axis : v[i] = Along(R, a, i) /\ w[i] = Along(R, b, i)
    PROVE  Three(v) /\ Three(w) /\ Dot(v, w) = Dot(a, b)
<1>1. R \in M4 /\ \A j, i \in Axis : R[j][i] \in Num
  BY M4Mat, LaneSet DEF Turning, Linear, Affine
<1>2. Three(v) /\ Three(w)
  BY <1>1, AlongNum, LaneSet DEF Three
<1>3. PICK f, g, h, e \in Int : e > 0 /\ Parts(v, f, g, h, e)
  BY <1>2, ThreeParts
<1>4. PICK x, y, z, d \in Int : d > 0 /\ Parts(b, x, y, z, d)
  BY ThreeParts
<1>5. PICK k \in Int : \E n \in [Lane -> [Lane -> Int]] :
        k > 0 /\ \A j, i \in Lane : Is(R[j][i], n[j][i], k)
  BY <1>1, CommonM4
<1>6. PICK n \in [Lane -> [Lane -> Int]] : k > 0 /\ \A j, i \in Lane : Is(R[j][i], n[j][i], k)
  BY <1>5
<1>7. PICK a0, a1, a2, b0, b1, b2, c0, c1, c2 :
        /\ a0 = n[0][0] /\ a1 = n[0][1] /\ a2 = n[0][2] /\ b0 = n[1][0] /\ b1 = n[1][1] /\ b2 = n[1][2]
        /\ c0 = n[2][0] /\ c1 = n[2][1] /\ c2 = n[2][2]
  OBVIOUS
<1>8. /\ a0 \in Int /\ a1 \in Int /\ a2 \in Int /\ b0 \in Int /\ b1 \in Int /\ b2 \in Int
      /\ c0 \in Int /\ c1 \in Int /\ c2 \in Int
  BY <1>7, LaneSet
<1>9. /\ Is(R[0][0], a0, k) /\ Is(R[0][1], a1, k) /\ Is(R[0][2], a2, k)
      /\ Is(R[1][0], b0, k) /\ Is(R[1][1], b1, k) /\ Is(R[1][2], b2, k)
      /\ Is(R[2][0], c0, k) /\ Is(R[2][1], c1, k) /\ Is(R[2][2], c2, k)
  BY <1>6, <1>7, LaneSet
<1>10. PICK p, q, r : /\ p = f * a0 + g * a1 + h * a2 /\ q = f * b0 + g * b1 + h * b2
                      /\ r = f * c0 + g * c1 + h * c2
  OBVIOUS
<1>11. Parts(a, p, q, r, e * k)
  <2>1. \A j \in Axis : Plus3(Times(v[0], R[j][0]), Times(v[1], R[j][1]), Times(v[2], R[j][2])) = a[j]
    BY TurnsBack DEF Along
  <2>2. \A j \in Axis : Dot(v, R[j]) = a[j]
    BY <2>1 DEF Dot, Easy_vector_dot
  <2>3. Parts(R[0], a0, a1, a2, k) /\ Parts(R[1], b0, b1, b2, k) /\ Parts(R[2], c0, c1, c2, k)
    BY <1>9 DEF Parts
  <2>4. Is(Dot(v, R[0]), p, e * k) /\ Is(Dot(v, R[1]), q, e * k) /\ Is(Dot(v, R[2]), r, e * k)
    BY <1>3, <1>10, <2>3, DotParts
  <2> QED
    BY <2>2, <2>4, LaneSet DEF Parts
<1>12. Is(Dot(a, b), p * x + q * y + r * z, (e * k) * d)
  BY <1>4, <1>11, DotParts
<1>13. PICK s, t, u : /\ s = x * a0 + y * b0 + z * c0 /\ t = x * a1 + y * b1 + z * c1
                      /\ u = x * a2 + y * b2 + z * c2
  OBVIOUS
<1>14. Parts(w, s, t, u, d * k)
  <2>1. /\ Is(Along(R, b, 0), s, d * k) /\ Is(Along(R, b, 1), t, d * k) /\ Is(Along(R, b, 2), u, d * k)
    BY <1>4, <1>9, <1>13, AlongParts
  <2> QED
    BY <2>1, LaneSet DEF Parts
<1>15. Is(Dot(v, w), f * s + g * t + h * u, e * (d * k))
  BY <1>3, <1>14, DotParts
<1>16. f * s + g * t + h * u = p * x + q * y + r * z /\ e * (d * k) = (e * k) * d
  BY <1>3, <1>4, <1>6, <1>8, <1>10, <1>13
<1> QED
  BY <1>2, <1>12, <1>15, <1>16, IsEqual

\* A block that turns, instead of the matrix that does.
LEMMA BlockDot ==
    ASSUME NEW m, NEW R, Turning(R), Block(m, R), NEW a, NEW b, Three(a), Three(b), NEW v, NEW w,
           \A i \in Axis : v[i] = Along(m, a, i) /\ w[i] = Along(m, b, i)
    PROVE  Three(v) /\ Three(w) /\ Dot(v, w) = Dot(a, b)
<1>1. \A i \in Axis : v[i] = Along(R, a, i) /\ w[i] = Along(R, b, i)
  BY LaneSet DEF Along, Block
<1> QED
  BY <1>1, TurnedDot

(***************************************************************************)
(* Tangents.                                                               *)
(***************************************************************************)
\* The scalar product of two registers, in lane 0.
LEMMA DotSse ==
    ASSUME NEW a, NEW b
    PROVE  Easy_vector_dot_sse(a, b) = Dot(a, b)
<1>1. PICK x, y, z, w : x = mulps(a, b) /\ y = pshufd(x, Imm(0)) /\ z = pshufd(x, Imm(85)) /\ w = pshufd(x, Imm(170))
  OBVIOUS
<1>2. x[0] = Times(a[0], b[0]) /\ x[1] = Times(a[1], b[1]) /\ x[2] = Times(a[2], b[2])
  BY <1>1, Lanewise, LaneSet
<1>3. y[0] = x[0] /\ z[0] = x[1] /\ w[0] = x[2]
  BY <1>1, Splat, LaneSet
<1>4. addps(addps(y, z), w)[0] = Plus(Plus(y[0], z[0]), w[0])
  BY Lanewise, LaneSet
<1>5. Easy_vector_dot_sse(a, b) = addps(addps(y, z), w)[0]
  BY <1>1 DEF Easy_vector_dot_sse
<1> QED
  BY <1>2, <1>3, <1>4, <1>5 DEF Dot, Easy_vector_dot, Plus3

\* What is left of a direction T beside n.
Beside(u, T, n) == \A i \in Axis : u[i] = Minus(T[i], Times(n[i], Dot(T, n)))

\* What CreateTangent takes away from its first direction, in shuffles, leaves
\* what is beside the normal.
LEMMA AsideIs ==
    ASSUME NEW T, NEW n
    PROVE  Beside(Aside(T, n), T, n) /\ Aside(T, n) = [i \in Axis |-> Aside(T, n)[i]]
<1>1. PICK d, s, p, r : d = Dot(T, n) /\ s = set_ps1(d) /\ p = mulps(n, s) /\ r = subps(T, p)
  OBVIOUS
<1>2. s[0] = d /\ s[1] = d /\ s[2] = d
  BY <1>1, PsAt DEF set_ps1
<1>3. \A i \in Axis : p[i] = Times(n[i], d)
  BY <1>1, <1>2, Lanewise, LaneSet
<1>4. \A i \in Axis : r[i] = Minus(T[i], Times(n[i], d))
  BY <1>1, <1>3, Lanewise, LaneSet
<1>5. Aside(T, n) = Easy_vector_copy_out(r)
  BY <1>1, DotSse DEF Aside, Easy_vector_scalar_mul_sse
<1>6. PICK c : c = Easy_vector_copy_out(r)
  OBVIOUS
<1>7. c = [i \in Axis |-> r[i]]
  BY <1>6, XYZAt
<1>8. c = [i \in Axis |-> c[i]] /\ \A i \in Axis : c[i] = r[i]
  BY <1>7
<1> QED
  BY <1>1, <1>4, <1>5, <1>6, <1>8 DEF Beside

\* It is at right angles to n, if n has length 1.
LEMMA BesideUpright ==
    ASSUME NEW T, Three(T), NEW n, Three(n), Dot(n, n) = One, NEW u, Beside(u, T, n)
    PROVE  Three(u) /\ Dot(n, u) = Zero
<1>1. PICK x, y, z, d \in Int : d > 0 /\ Parts(T, x, y, z, d)
  BY ThreeParts
<1>2. PICK f, g, h, e \in Int : e > 0 /\ Parts(n, f, g, h, e)
  BY ThreeParts
<1>3. PICK s, t, l : s = f * f + g * g + h * h /\ t = x * f + y * g + z * h /\ l = e * e
  OBVIOUS
<1>4. s \in Int /\ t \in Int /\ l \in Int /\ l # 0
  BY <1>2, <1>1, <1>3
<1>5. s = l
  <2>1. Is(Dot(n, n), s, l) /\ Is(One, l, l)
    BY <1>2, <1>3, <1>4, DotParts, ZeroIs
  <2>2. s * l = l * l
    BY <2>1, IsCross
  <2> QED
    BY <1>4, <2>2, Cancel
<1>6. Is(Dot(T, n), t, d * e)
  BY <1>1, <1>2, <1>3, DotParts
<1>7. PICK D, k, m : D = Dot(T, n) /\ k = d * e /\ m = e * k
  OBVIOUS
<1>8. k \in Int /\ m \in Int /\ k # 0 /\ m # 0
  BY <1>1, <1>2, <1>7
<1>9. Is(n[0], f, e) /\ Is(n[1], g, e) /\ Is(n[2], h, e) /\ Is(T[0], x, d) /\ Is(T[1], y, d) /\ Is(T[2], z, d)
  BY <1>1, <1>2 DEF Parts
<1>10. Is(Times(n[0], D), f * t, m) /\ Is(Times(n[1], D), g * t, m) /\ Is(Times(n[2], D), h * t, m)
  BY <1>6, <1>7, <1>9, TimesIs
<1>11. u[0] = Minus(T[0], Times(n[0], D)) /\ u[1] = Minus(T[1], Times(n[1], D)) /\ u[2] = Minus(T[2], Times(n[2], D))
  BY <1>7, LaneSet DEF Beside
<1>12. PICK a, b, c, o : a = x * m - (f * t) * d /\ b = y * m - (g * t) * d /\ c = z * m - (h * t) * d /\ o = d * m
  OBVIOUS
<1>13. Parts(u, a, b, c, o)
  <2>1. Is(u[0], a, o)
    BY <1>9, <1>10, <1>11, <1>12, MinusIs
  <2>2. Is(u[1], b, o)
    BY <1>9, <1>10, <1>11, <1>12, MinusIs
  <2>3. Is(u[2], c, o)
    BY <1>9, <1>10, <1>11, <1>12, MinusIs
  <2> QED
    BY <2>1, <2>2, <2>3 DEF Parts
<1>14. Is(Dot(n, u), f * a + g * b + h * c, e * o)
  BY <1>2, <1>13, DotParts
<1>15. f * a + g * b + h * c = 0
  <2>1. f * a + g * b + h * c = (x * f + y * g + z * h) * m - (f * f + g * g + h * h) * (t * d)
    BY <1>1, <1>2, <1>4, <1>8, <1>12
  <2>2. f * a + g * b + h * c = t * m - l * (t * d)
    BY <1>3, <1>5, <2>1
  <2>3. m = e * (d * e)
    BY <1>7
  <2>4. m = l * d
    BY <1>1, <1>2, <1>3, <2>3
  <2>5. f * a + g * b + h * c = t * (l * d) - l * (t * d)
    BY <2>2, <2>4
  <2>6. t * (l * d) = l * (t * d) /\ t * (l * d) \in Int
    BY <1>1, <1>4
  <2> QED
    BY <2>5, <2>6
<1>16. e * o # 0 /\ e * o \in Int
  BY <1>1, <1>2, <1>8, <1>12
<1>17. Is(Zero, 0, e * o)
  BY <1>16, ZeroIs
<1> QED
  BY <1>13, <1>14, <1>15, <1>17, PartsInts, IsEqual

\* Turned with its direction and with n, it is turned along.
LEMMA BesideAlong ==
    ASSUME NEW m, Affine(m), NEW R, Turning(R), Block(m, R), NEW T, Three(T), NEW n, Three(n),
           NEW u, Beside(u, T, n),
           NEW S, NEW q, NEW v, \A i \in Axis : S[i] = Along(m, T, i) /\ q[i] = Along(m, n, i), Beside(v, S, q)
    PROVE  Three(u) /\ \A i \in Axis : v[i] = Along(m, u, i)
<1>1. Three(S) /\ Three(q) /\ Dot(S, q) = Dot(T, n)
  BY BlockDot
<1>2. PICK D : D = Dot(T, n)
  OBVIOUS
<1>3. D \in Num
  BY <1>2, DotCommutes
<1>4. PICK w : w = [i \in Axis |-> Times(D, n[i])]
  OBVIOUS
<1>5. m \in M4
  BY DEF Affine
<1>6. \A j \in Axis : w[j] = Times(D, n[j])
  BY <1>4
<1>7. Three(w) /\ \A i \in Axis : Along(m, w, i) = Times(D, Along(m, n, i))
  BY <1>3, <1>5, <1>6, AlongTimes, LaneSet
<1>8. \A j \in Axis : n[j] \in Num /\ T[j] \in Num /\ q[j] \in Num
  BY <1>1, LaneSet DEF Three
<1>9. \A j \in Axis : u[j] = Minus(T[j], w[j])
  BY <1>2, <1>3, <1>6, <1>8, TimesCommutes DEF Beside
<1>10. Three(u) /\ \A i \in Axis : Along(m, u, i) = Minus(Along(m, T, i), Along(m, w, i))
  BY <1>5, <1>7, <1>9, AlongMinus, LaneSet
<1>11. ASSUME NEW i \in Axis PROVE v[i] = Along(m, u, i)
  <2>1. v[i] = Minus(S[i], Times(q[i], D))
    BY <1>1, <1>2, <1>11 DEF Beside
  <2>2. Times(q[i], D) = Times(D, q[i])
    BY <1>3, <1>8, <1>11, TimesCommutes
  <2>3. Times(D, q[i]) = Along(m, w, i) /\ S[i] = Along(m, T, i)
    BY <1>7, <1>11
  <2> QED
    BY <1>10, <1>11, <2>1, <2>2, <2>3
<1> QED
  BY <1>10, <1>11

\* A direction and the direction divided by its length are turned alike.
LEMMA NormalAlong ==
    ASSUME NEW m, Affine(m), NEW R, Turning(R), Block(m, R), NEW c, Three(c), Rooted(c),
           NEW k, \A i \in Axis : k[i] = Along(m, c, i),
           NEW n, n = Easy_vector_normalize_sse(c), NEW q, q = Easy_vector_normalize_sse(k)
    PROVE  /\ Three(n) /\ Dot(n, n) = One /\ \A i \in Axis : q[i] = Along(m, n, i)
           /\ \A w : Three(w) /\ Dot(n, w) = Zero => Dot(c, w) = Zero
<1>1. PICK D, r : D = Dot(c, c) /\ r = SqrtQ(D)
  OBVIOUS
<1>2. D \in Num /\ IsNumber(r) /\ r # Zero
  BY <1>1, DotCommutes DEF Rooted
<1>3. r \in Num
  BY <1>1, <1>2, SqrtSquares
<1>4. \A i \in Axis : n[i] = Over(c[i], r)
  BY <1>1, NormalLanes
<1>5. Three(n)
  BY <1>1, <1>4, NormalNumbers
<1>6. Dot(n, n) = One
  BY <1>5, UnitVector
<1>7. Three(k) /\ Dot(k, k) = D
  BY <1>1, BlockDot
<1>8. \A i \in Axis : q[i] = Over(k[i], r)
  BY <1>1, <1>7, NormalLanes
<1>9. m \in M4
  BY DEF Affine
<1>10. \A i \in Axis : q[i] = Along(m, n, i)
  BY <1>2, <1>3, <1>4, <1>8, <1>9, AlongOver
<1>11. ASSUME NEW w, Three(w), Dot(n, w) = Zero PROVE Dot(c, w) = Zero
  <2>1. Dot(n, w) = Over(Dot(c, w), r) /\ Dot(c, w) \in Num
    BY <1>2, <1>3, <1>4, <1>11, DotOver, DotCommutes
  <2>2. Times(r, Zero) = Dot(c, w)
    BY <1>2, <1>3, <1>11, <2>1, Quotients3
  <2> QED
    BY <1>3, <2>2, Neutral
<1> QED
  BY <1>5, <1>6, <1>10, <1>11

\* A common summand leaves a difference as it is.
LEMMA MinusShifted ==
    ASSUME NEW a \in Num, NEW b \in Num, NEW t \in Num
    PROVE  Minus(Plus(a, t), Plus(b, t)) = Minus(a, b)
<1>1. PICK x, y, z, d \in Int : d > 0 /\ Is(a, x, d) /\ Is(b, y, d) /\ Is(t, z, d)
  BY Common3
<1>2. Is(Plus(a, t), x + z, d) /\ Is(Plus(b, t), y + z, d)
  BY <1>1, PlusSame
<1>3. Is(Minus(Plus(a, t), Plus(b, t)), (x + z) - (y + z), d) /\ Is(Minus(a, b), x - y, d)
  BY <1>1, <1>2, MinusSame
<1>4. (x + z) - (y + z) = x - y
  BY <1>1
<1> QED
  BY <1>3, <1>4, IsEqual

\* A point is moved like a direction, and then by the last row.
LEMMA ImageAlong ==
    ASSUME NEW m, Affine(m), NEW v, Three(v), NEW i \in Axis
    PROVE  Image(m, v, i) = Plus(Along(m, v, i), m[3][i]) /\ Along(m, v, i) \in Num /\ m[3][i] \in Num
<1>1. m \in M4 /\ m[0][i] \in Num /\ m[1][i] \in Num /\ m[2][i] \in Num /\ m[3][i] \in Num
  BY M4Mat, LaneSet DEF Affine
<1>2. /\ Times(m[0][i], v[0]) = Times(v[0], m[0][i]) /\ Times(m[1][i], v[1]) = Times(v[1], m[1][i])
      /\ Times(m[2][i], v[2]) = Times(v[2], m[2][i])
  BY <1>1, TimesCommutes DEF Three
<1>3. Along(m, v, i) \in Num
  BY <1>1, AlongNum
<1> QED
  BY <1>1, <1>2, <1>3 DEF Image, Along, Plus4

\* Edges of a moved triangle are turned.
LEMMA EdgeAlong ==
    ASSUME NEW m, Affine(m), NEW V, \A k \in Axis : Three(V[k]),
           NEW W, \A k, i \in Axis : W[k][i] = Image(m, V[k], i), NEW k \in Axis
    PROVE  /\ Three(Edge(V, k)) /\ \A i \in Axis : Edge(W, k)[i] = Along(m, Edge(V, k), i)
<1>1. PICK u, v : u = Edge(V, k) /\ v = Edge(W, k)
  OBVIOUS
<1>2. \A i \in Axis : u[i] = Minus(V[k][i], V[0][i]) /\ v[i] = Minus(W[k][i], W[0][i])
  BY <1>1 DEF Edge, Easy_vector_sub, XYZ
<1>3. PICK p, o, P, O : p = V[k] /\ o = V[0] /\ P = W[k] /\ O = W[0]
  OBVIOUS
<1>4. Three(p) /\ Three(o) /\ \A i \in Axis : P[i] = Image(m, p, i) /\ O[i] = Image(m, o, i)
  BY <1>3, LaneSet
<1>5. m \in M4
  BY DEF Affine
<1>6. \A i \in Axis : u[i] = Minus(p[i], o[i])
  BY <1>2, <1>3
<1>7. Three(u) /\ \A i \in Axis : Along(m, u, i) = Minus(Along(m, p, i), Along(m, o, i))
  BY <1>4, <1>5, <1>6, AlongMinus, LaneSet
<1>8. ASSUME NEW i \in Axis PROVE v[i] = Along(m, u, i)
  <2>1. v[i] = Minus(P[i], O[i])
    BY <1>2, <1>3, <1>8
  <2>2. PICK a, b, t : a = Along(m, p, i) /\ b = Along(m, o, i) /\ t = m[3][i]
    OBVIOUS
  <2>3. P[i] = Plus(a, t) /\ O[i] = Plus(b, t) /\ a \in Num /\ b \in Num /\ t \in Num
    BY <1>4, <1>8, <2>2, ImageAlong
  <2>4. v[i] = Minus(a, b)
    BY <2>1, <2>3, MinusShifted
  <2> QED
    BY <1>7, <1>8, <2>2, <2>4
<1> QED
  BY <1>1, <1>7, <1>8

\* The texture of a triangle: numbers, and an area.
Textured(tex) ==
  /\ \A k \in Axis : \A c \in {1, 2} : tex[k][c] \in Num
  /\ TexArea(tex) # Zero

\* Differences of texture coordinates, and their area, are numbers.
LEMMA TextureNum ==
    ASSUME NEW tex, \A k \in Axis : \A c \in {1, 2} : tex[k][c] \in Num
    PROVE  /\ \A k \in Axis : \A c \in {1, 2} : TexEdge(tex, k, c) \in Num
           /\ TexArea(tex) \in Num
<1>1. \A k \in Axis : \A c \in {1, 2} : TexEdge(tex, k, c) \in Num
  BY NumClosed, LaneSet DEF TexEdge
<1>2. PICK a, b, c, d : a = TexEdge(tex, 1, 1) /\ b = TexEdge(tex, 2, 2) /\ c = TexEdge(tex, 2, 1) /\ d = TexEdge(tex, 1, 2)
  OBVIOUS
<1>3. a \in Num /\ b \in Num /\ c \in Num /\ d \in Num
  BY <1>1, <1>2, LaneSet
<1>4. Minus(Times(a, b), Times(c, d)) \in Num
  BY <1>3, NumClosed
<1> QED
  BY <1>1, <1>2, <1>4 DEF TexArea

\* The direction in which the texture runs is turned, too.
LEMMA DirectionAlong ==
    ASSUME NEW m, Affine(m), NEW V, \A k \in Axis : Three(V[k]),
           NEW W, \A k, i \in Axis : W[k][i] = Image(m, V[k], i), NEW tex, Textured(tex)
    PROVE  /\ Three(TexDirection(V, tex))
           /\ \A i \in Axis : TexDirection(W, tex)[i] = Along(m, TexDirection(V, tex), i)
<1>1. PICK a, b, s : a = TexEdge(tex, 2, 2) /\ b = TexEdge(tex, 1, 2) /\ s = Over(One, TexArea(tex))
  OBVIOUS
<1>2. a \in Num /\ b \in Num /\ s \in Num
  BY <1>1, TextureNum, NumClosed, Constants, LaneSet DEF Textured
<1>3. PICK p, q, P, Q1 : p = Edge(V, 1) /\ q = Edge(V, 2) /\ P = Edge(W, 1) /\ Q1 = Edge(W, 2)
  OBVIOUS
<1>4. Three(p) /\ Three(q) /\ \A i \in Axis : P[i] = Along(m, p, i) /\ Q1[i] = Along(m, q, i)
  BY <1>3, EdgeAlong, LaneSet
<1>5. m \in M4
  BY DEF Affine
<1>6. PICK u, v, w, x : /\ u = [i \in Axis |-> Times(a, p[i])] /\ v = [i \in Axis |-> Times(b, q[i])]
                        /\ w = [i \in Axis |-> Minus(u[i], v[i])] /\ x = [i \in Axis |-> Times(s, w[i])]
  OBVIOUS
<1>7. /\ \A i \in Axis : u[i] = Times(a, p[i]) /\ v[i] = Times(b, q[i])
      /\ \A i \in Axis : w[i] = Minus(u[i], v[i]) /\ x[i] = Times(s, w[i])
  BY <1>6
<1>8. Three(u) /\ \A i \in Axis : Along(m, u, i) = Times(a, Along(m, p, i))
  BY <1>2, <1>4, <1>5, <1>7, AlongTimes, LaneSet
<1>9. Three(v) /\ \A i \in Axis : Along(m, v, i) = Times(b, Along(m, q, i))
  BY <1>2, <1>4, <1>5, <1>7, AlongTimes, LaneSet
<1>10. Three(w) /\ \A i \in Axis : Along(m, w, i) = Minus(Along(m, u, i), Along(m, v, i))
  BY <1>5, <1>7, <1>8, <1>9, AlongMinus, LaneSet
<1>11. Three(x) /\ \A i \in Axis : Along(m, x, i) = Times(s, Along(m, w, i))
  BY <1>2, <1>5, <1>7, <1>10, AlongTimes, LaneSet
<1>12. PICK t, T : t = TexDirection(V, tex) /\ T = TexDirection(W, tex)
  OBVIOUS
<1>13. \A i \in Axis : t[i] = Times(Minus(Times(a, p[i]), Times(b, q[i])), s)
  <2>1. t = Ps(Times(Minus(Times(a, p[0]), Times(b, q[0])), s), Times(Minus(Times(a, p[1]), Times(b, q[1])), s),
               Times(Minus(Times(a, p[2]), Times(b, q[2])), s), Zero)
    BY <1>1, <1>3, <1>12 DEF TexDirection
  <2> QED
    BY <2>1, PsAt, LaneSet
<1>14. \A i \in Axis : T[i] = Times(Minus(Times(a, P[i]), Times(b, Q1[i])), s)
  <2>1. T = Ps(Times(Minus(Times(a, P[0]), Times(b, Q1[0])), s), Times(Minus(Times(a, P[1]), Times(b, Q1[1])), s),
               Times(Minus(Times(a, P[2]), Times(b, Q1[2])), s), Zero)
    BY <1>1, <1>3, <1>12 DEF TexDirection
  <2> QED
    BY <2>1, PsAt, LaneSet
<1>15. \A i \in Axis : w[i] \in Num /\ Along(m, w, i) \in Num
  BY <1>5, <1>10, AlongNum, LaneSet DEF Three
<1>16. \A i \in Axis : t[i] = x[i]
  BY <1>2, <1>7, <1>13, <1>15, TimesCommutes
<1>17. Three(t)
  BY <1>11, <1>16, LaneSet DEF Three
<1>18. \A i \in Axis : Along(m, t, i) = Along(m, x, i)
  BY <1>16, LaneSet DEF Along
<1>19. \A i \in Axis : T[i] = Times(Along(m, w, i), s)
  BY <1>4, <1>8, <1>9, <1>10, <1>14
<1>20. \A i \in Axis : T[i] = Along(m, x, i)
  BY <1>2, <1>11, <1>15, <1>19, TimesCommutes
<1> QED
  BY <1>12, <1>17, <1>18, <1>20

\* Turning a direction by the SSE overload.
Veer(m, v) == Easy_vector_copy_out(Easy_matrix_mult_Normal3X3(m, Easy_vector_copy(v, Zero)))

\* Easy_matrix_mult_Normal3X3 of the SSE overload turns a direction along the
\* axes.
LEMMA VeerIs ==
    ASSUME NEW m, NEW v
    PROVE  Veer(m, v) = [i \in Axis |-> Along(m, v, i)] /\ \A i \in Axis : Veer(m, v)[i] = Along(m, v, i)
<1>1. PICK c, u, w : c = Easy_vector_copy(v, Zero) /\ u = Easy_matrix_mult_Normal3X3(m, c) /\ w = Veer(m, v)
  OBVIOUS
<1>2. c[0] = v[0] /\ c[1] = v[1] /\ c[2] = v[2]
  BY <1>1, PsAt DEF Easy_vector_copy
<1>3. \A i \in Axis : u[i] = Along(m, v, i)
  BY <1>1, <1>2, NormalIs, LaneSet DEF Along
<1>4. w = [i \in Axis |-> u[i]]
  BY <1>1, XYZAt DEF Veer
<1> QED
  BY <1>1, <1>3, <1>4

\* The tangent at a corner.
LEMMA TangentIs ==
    ASSUME NEW V, NEW N, NEW tex, ~Negligible(TexArea(tex)), NEW k \in Axis
    PROVE  CreateTangent(V, N, tex)[k] =
             Aside(Easy_vector_normalize_sse(TexDirection(V, tex)),
                   Easy_vector_normalize_sse(Easy_vector_copy(N[k], Zero)))
  BY SMT DEF CreateTangent, XYZ

\* Zero is less than any fraction that is positive.
LEMMA ZeroLess ==
    ASSUME NEW d \in Int, d > 0
    PROVE  Less(AbsQ(Zero), Q(1, d))
<1>1. PICK n, o, t : n = 0 /\ o = 1 /\ t = AbsQ(Zero)
  OBVIOUS
<1>2. n \in Int /\ o \in Int /\ o > 0 /\ Magnitude(n) = n
  BY <1>1 DEF Magnitude
<1>3. Is(Zero, n, o)
  BY <1>1, <1>2, ZeroIs
<1>4. Is(t, n, o)
  BY <1>1, <1>2, <1>3, AbsIs
<1>5. Is(Q(o, d), o, d)
  BY <1>2, QIs
<1>6. PICK q : q = Q(o, d)
  OBVIOUS
<1>7. Is(q, o, d)
  BY <1>5, <1>6
<1>8. Less(t, q) <=> n * d < o * o
  BY <1>2, <1>4, <1>7, LessIs
<1>9. n * d < o * o
  BY <1>1
<1> QED
  BY <1>1, <1>6, <1>8, <1>9

\* A triangle with an area in its texture has one that is not zero.
LEMMA AreaThere ==
    ASSUME NEW a, ~Negligible(a)
    PROVE  a # Zero
<1>1. PICK d : d = 10000000
  BY SMT
<1>2. d \in Int /\ d > 0
  BY <1>1, SMT
<1>3. Less(AbsQ(Zero), Q(1, d))
  BY <1>2, ZeroLess, SMT
<1> QED
  BY <1>1, <1>3, SMT DEF Negligible

\* The triangles to carry along, with numbers for their parts.
LEMMA TrianglesAre ==
    ASSUME NEW tri \in Triangles
    PROVE  /\ \A k \in Axis : Three(tri.corners[k]) /\ Three(tri.normals[k]) /\ Rooted(tri.normals[k])
           /\ Textured(tri.tex) /\ Rooted(TexDirection(tri.corners, tri.tex))
           /\ ~Negligible(TexArea(tri.tex))
<1>1. /\ tri.corners \in [Axis -> Vectors] /\ tri.normals \in [Axis -> Vectors]
      /\ \A k \in Axis : \A c \in {1, 2} : tri.tex[k][c] \in Number
      /\ ~Negligible(TexArea(tri.tex))
      /\ Rooted(TexDirection(tri.corners, tri.tex))
      /\ \A k \in Axis : Rooted(tri.normals[k])
  BY TrianglesAssumption, SMT DEF Rooted, Dot, Negligible
<1>2. \A k \in Axis : tri.corners[k] \in V3 /\ tri.normals[k] \in V3
  BY <1>1, NumberNum
<1>3. \A k \in Axis : Three(tri.corners[k]) /\ Three(tri.normals[k])
  BY <1>2, ThreeV3
<1>4. \A k \in Axis : \A c \in {1, 2} : tri.tex[k][c] \in Num
  BY <1>1, NumberNum
<1>5. TexArea(tri.tex) # Zero
  BY <1>1, <1>4, TextureNum, AreaThere
<1> QED
  BY <1>1, <1>3, <1>4, <1>5 DEF Textured

\* The tangents of a moved triangle, and of the triangle.
LEMMA TangentTurned ==
    ASSUME NEW tri \in Triangles, NEW m, Affine(m), NEW R, Turning(R), Block(m, R), NEW k \in Axis,
           NEW W, \A j \in Axis : W[j] = Taken(m, tri.corners[j]),
           NEW M, \A j \in Axis : M[j] = Veer(m, tri.normals[j])
    PROVE  /\ CreateTangent(W, M, tri.tex)[k] = Veer(m, CreateTangent(tri.corners, tri.normals, tri.tex)[k])
           /\ Dot(CreateTangent(W, M, tri.tex)[k], M[k]) = Zero
<1>1. PICK V, N, tex : V = tri.corners /\ N = tri.normals /\ tex = tri.tex
  OBVIOUS
<1>2. /\ \A j \in Axis : Three(V[j]) /\ Three(N[j]) /\ Rooted(N[j])
      /\ Textured(tex) /\ Rooted(TexDirection(V, tex)) /\ ~Negligible(TexArea(tex))
  BY <1>1, TrianglesAre
<1>3. m \in M4
  BY DEF Affine
<1>4. \A j, i \in Axis : W[j][i] = Image(m, V[j], i)
  BY <1>1, <1>2, <1>3, TakenAt
<1>5. PICK d, D, T, S : /\ d = TexDirection(V, tex) /\ D = TexDirection(W, tex)
                        /\ T = Easy_vector_normalize_sse(d) /\ S = Easy_vector_normalize_sse(D)
  OBVIOUS
<1>6. Three(d) /\ \A i \in Axis : D[i] = Along(m, d, i)
  BY <1>2, <1>4, <1>5, DirectionAlong
<1>7. Three(T) /\ \A i \in Axis : S[i] = Along(m, T, i)
  BY <1>2, <1>5, <1>6, NormalAlong
<1>8. PICK c, e, n, q : /\ c = Easy_vector_copy(N[k], Zero) /\ e = Easy_vector_copy(M[k], Zero)
                        /\ n = Easy_vector_normalize_sse(c) /\ q = Easy_vector_normalize_sse(e)
  OBVIOUS
<1>9. c[0] = N[k][0] /\ c[1] = N[k][1] /\ c[2] = N[k][2] /\ e[0] = M[k][0] /\ e[1] = M[k][1] /\ e[2] = M[k][2]
  BY <1>8, PsAt DEF Easy_vector_copy
<1>10. Three(c) /\ Rooted(c)
  BY <1>2, <1>9 DEF Three, Rooted, Dot, Easy_vector_dot
<1>11. \A i \in Axis : M[k][i] = Along(m, N[k], i)
  BY <1>1, VeerIs
<1>12. \A i \in Axis : e[i] = Along(m, c, i)
  BY <1>9, <1>11, LaneSet DEF Along
<1>13. Three(n) /\ Dot(n, n) = One /\ \A i \in Axis : q[i] = Along(m, n, i)
  BY <1>8, <1>10, <1>12, NormalAlong
<1>14. PICK u, v : u = Aside(T, n) /\ v = Aside(S, q)
  OBVIOUS
<1>15. Beside(u, T, n) /\ Beside(v, S, q) /\ v = [i \in Axis |-> v[i]]
  BY <1>14, AsideIs
<1>16. Three(u) /\ \A i \in Axis : v[i] = Along(m, u, i)
  BY <1>7, <1>13, <1>15, BesideAlong
<1>17. Three(u) /\ Dot(n, u) = Zero
  BY <1>7, <1>13, <1>15, BesideUpright
<1>18. Dot(c, u) = Zero
  BY <1>8, <1>10, <1>12, <1>17, NormalAlong
<1>19. v = Veer(m, u)
  <2>1. PICK x : x = Veer(m, u)
    OBVIOUS
  <2>2. x = [i \in Axis |-> Along(m, u, i)]
    BY <2>1, VeerIs
  <2>3. v = [i \in Axis |-> Along(m, u, i)]
    BY <1>15, <1>16
  <2> QED
    BY <2>1, <2>2, <2>3
<1>20. Dot(v, e) = Zero
  <2>1. Dot(v, e) = Dot(u, c)
    BY <1>10, <1>12, <1>16, BlockDot
  <2> QED
    BY <1>10, <1>16, <1>18, <2>1, DotCommutes
<1>21. Dot(v, M[k]) = Dot(v, e)
  BY <1>9 DEF Dot, Easy_vector_dot
<1>22. CreateTangent(V, N, tex)[k] = u /\ CreateTangent(W, M, tex)[k] = v
  BY <1>2, <1>5, <1>8, <1>14, TangentIs
<1> QED
  BY <1>1, <1>19, <1>20, <1>21, <1>22

\* The tangents of a triangle (EasyMatrix.h:1873) move with it, and stay at right
\* angles to its normals, for all triangles and all rigid motions.
THEOREM TangentsAlwaysFollow == Spec /\ []Invertible => []TangentsFollow
<1>1. Kept /\ Placed => TangentsFollow
  <2> SUFFICES ASSUME Kept, Placed, Rigid PROVE TangentsFollow
    BY DEF TangentsFollow
  <2>1. IsUnit(quat) /\ Block(mat, RotationOf(quat)) /\ Affine(mat)
    BY OnlyIs DEF Placed, Rotated
  <2>2. PICK R : R = RotationOf(quat)
    OBVIOUS
  <2>3. Turning(R) /\ Block(mat, R)
    BY <2>1, <2>2, UnitTurning
  <2>4. ASSUME NEW tri \in Triangles, NEW k \in Axis,
               NEW W, \A j \in Axis : W[j] = Taken(mat, tri.corners[j]),
               NEW M, \A j \in Axis : M[j] = Veer(mat, tri.normals[j])
        PROVE  /\ CreateTangent(W, M, tri.tex)[k] = Veer(mat, CreateTangent(tri.corners, tri.normals, tri.tex)[k])
               /\ Dot(CreateTangent(W, M, tri.tex)[k], Veer(mat, tri.normals[k])) = Zero
    <3>1. M[k] = Veer(mat, tri.normals[k])
      BY <2>4
    <3>2. /\ CreateTangent(W, M, tri.tex)[k] = Veer(mat, CreateTangent(tri.corners, tri.normals, tri.tex)[k])
          /\ Dot(CreateTangent(W, M, tri.tex)[k], M[k]) = Zero
      BY <2>1, <2>3, <2>4, TangentTurned
    <3> QED
      BY <3>1, <3>2
  <2>5. sse = mat
    BY DEF Kept
  <2>6. ASSUME NEW tri \in Triangles, NEW k \in Axis,
               NEW W, W = [j \in Axis |-> Easy_matrix_mult_vector3X3(mat, tri.corners[j])],
               NEW M, M = [j \in Axis |-> Veer(sse, tri.normals[j])]
        PROVE  /\ CreateTangent(W, M, tri.tex)[k] = Veer(sse, CreateTangent(tri.corners, tri.normals, tri.tex)[k])
               /\ Dot(CreateTangent(W, M, tri.tex)[k], Veer(sse, tri.normals[k])) = Zero
    <3>1. \A j \in Axis : W[j] = Taken(mat, tri.corners[j])
      BY <2>6 DEF Taken, Easy_matrix_mult_vector3X3
    <3>2. \A j \in Axis : M[j] = Veer(mat, tri.normals[j])
      BY <2>5, <2>6
    <3> QED
      BY <2>4, <2>5, <2>6, <3>1, <3>2
  <2> QED
    BY <2>6 DEF TangentsFollow, XYZ, Veer, Dot
<1> QED
  BY <1>1, ObjectConsistent, PTL

(***************************************************************************)
(* Window coordinates.                                                     *)
(***************************************************************************)
\* A point moved by a matrix, as a register with 1 in the last lane.
LEMMA EyeIs ==
    ASSUME NEW m, Affine(m), NEW p \in V3, NEW e, e = Taken(m, p)
    PROVE  /\ Easy_matrix_mult_vector4X4(m, Easy_vector_copy(p, One)) = Easy_vector_copy(e, One)
           /\ e \in V3 /\ Three(e)
<1>1. PICK v, u, w : /\ v = Easy_vector_copy(p, One) /\ u = Easy_matrix_mult_vector4X4(m, v)
                     /\ w = Easy_vector_copy(e, One)
  OBVIOUS
<1>2. m \in M4 /\ \A j, i \in Lane : m[j][i] \in Num
  BY AffineNum
<1>3. e \in V3 /\ Three(e) /\ \A i \in Axis : e[i] = Image(m, p, i)
  BY <1>2, ThreeV3, TakenAt
<1>4. v \in V4 /\ v[0] = p[0] /\ v[1] = p[1] /\ v[2] = p[2] /\ v[3] = One /\ p[0] \in Num /\ p[1] \in Num /\ p[2] \in Num
  BY <1>1, CopyAt, Constants
<1>5. IsReg(u) /\ \A i \in Lane : u[i] = Through(m, v, i)
  BY <1>1, <1>2, <1>4, ThroughIs
<1>6. IsReg(w) /\ w[0] = e[0] /\ w[1] = e[1] /\ w[2] = e[2] /\ w[3] = One
  BY <1>1, PsAt, PsReg DEF Easy_vector_copy
<1>7. \A i \in Lane : Times(m[3][i], One) = m[3][i]
  BY <1>2, Neutral, LaneSet
<1>8. \A i \in Lane : Through(m, v, i) = Image(m, p, i)
  BY <1>4, <1>7 DEF Through, Image
<1>9. u[0] = e[0] /\ u[1] = e[1] /\ u[2] = e[2]
  BY <1>3, <1>5, <1>8, LaneSet
<1>10. u[3] = One
  <2>1. m[0][3] = Zero /\ m[1][3] = Zero /\ m[2][3] = Zero /\ m[3][3] = One
    BY AffineNum
  <2>2. u[3] = Plus4(Times(m[0][3], p[0]), Times(m[1][3], p[1]), Times(m[2][3], p[2]), m[3][3])
    BY <1>5, <1>8, LaneSet DEF Image
  <2>3. u[3] = Plus4(Zero, Zero, Zero, One)
    BY <1>4, <2>1, <2>2, Neutral
  <2> QED
    BY <2>3, Neutral, Constants DEF Plus4, Plus3
<1>11. u = w
  BY <1>5, <1>6, <1>9, <1>10, SameReg
<1> QED
  BY <1>1, <1>3, <1>11

\* A projection of the form of EastPerspective, and one of that of EasyOrtho.
Wedge(A, B, C, D) ==
  Rows(Ps(A, Zero, Zero, Zero), Ps(Zero, B, Zero, Zero), Ps(Zero, Zero, C, Int2Q(-1)), Ps(Zero, Zero, D, Zero))
\* A matrix that scales and moves, as EasyOrtho builds it.
Box(A, B, C, x, y, z) ==
  Rows(Ps(A, Zero, Zero, Zero), Ps(Zero, B, Zero, Zero), Ps(Zero, Zero, C, Zero), Ps(x, y, z, One))

\* Four registers stored are the rows of a matrix.
LEMMA RowsM4 ==
    ASSUME NEW a \in V4, NEW b \in V4, NEW c \in V4, NEW d \in V4
    PROVE  /\ Rows(a, b, c, d) \in M4
           /\ Rows(a, b, c, d)[0] = a /\ Rows(a, b, c, d)[1] = b
           /\ Rows(a, b, c, d)[2] = c /\ Rows(a, b, c, d)[3] = d
<1>1. IsReg(a) /\ IsReg(b) /\ IsReg(c) /\ IsReg(d)
  BY V4Reg
<1>2. PICK m : m = Rows(a, b, c, d)
  OBVIOUS
<1>3. IsMat(m) /\ m[0] = a /\ m[1] = b /\ m[2] = c /\ m[3] = d
  BY <1>1, <1>2, RowsMat
<1>4. \A i \in Lane : m[0][i] \in Num /\ m[1][i] \in Num /\ m[2][i] \in Num /\ m[3][i] \in Num
  BY <1>3, V4Reg
<1>5. \A j, i \in Lane : m[j][i] \in Num
  BY <1>4, LaneSet
<1>6. m \in M4
  BY <1>3, <1>5, MatM4
<1> QED
  BY <1>2, <1>3, <1>6

\* A register of four numbers, lane by lane.
LEMMA PsV4 ==
    ASSUME NEW x \in Num, NEW y \in Num, NEW z \in Num, NEW w \in Num
    PROVE  /\ Ps(x, y, z, w) \in V4
           /\ Ps(x, y, z, w)[0] = x /\ Ps(x, y, z, w)[1] = y
           /\ Ps(x, y, z, w)[2] = z /\ Ps(x, y, z, w)[3] = w
<1>1. Ps(x, y, z, w) \in V4
  BY PsType DEF V4
<1> QED
  BY <1>1, PsAt

\* r has these lanes, and m these rows.
LanesAre(r, x, y, z, w) == r \in V4 /\ r[0] = x /\ r[1] = y /\ r[2] = z /\ r[3] = w
RowsAre(m, a, b, c, d) == m \in M4 /\ m[0] = a /\ m[1] = b /\ m[2] = c /\ m[3] = d

\* The same as one predicate.
LEMMA PsAre ==
    ASSUME NEW x \in Num, NEW y \in Num, NEW z \in Num, NEW w \in Num
    PROVE  LanesAre(Ps(x, y, z, w), x, y, z, w)
BY PsV4 DEF LanesAre

\* The rows of four registers as one predicate.
LEMMA FourRowsAre ==
    ASSUME NEW a \in V4, NEW b \in V4, NEW c \in V4, NEW d \in V4
    PROVE  RowsAre(Rows(a, b, c, d), a, b, c, d)
BY RowsM4 DEF RowsAre

\* Sums with terms that are zero.
LEMMA FewTerms ==
    ASSUME NEW x \in Num, NEW y \in Num
    PROVE  /\ Plus4(x, Zero, Zero, y) = Plus(x, y) /\ Plus4(Zero, x, Zero, y) = Plus(x, y)
           /\ Plus4(Zero, Zero, x, y) = Plus(x, y) /\ Plus(x, y) \in Num
<1>1. Plus(x, Zero) = x /\ Plus(Zero, x) = x /\ Plus(Zero, Zero) = Zero
  BY Neutral, Constants
<1> QED
  BY <1>1, NumClosed DEF Plus4, Plus3

\* What a perspective matrix makes of a point: z goes to the fourth lane.
LEMMA WedgeIs ==
    ASSUME NEW A \in Num, NEW B \in Num, NEW C \in Num, NEW D \in Num, NEW P, P = Wedge(A, B, C, D),
           NEW v \in V4, v[3] = One, NEW c, c = Easy_matrix_mult_vector4X4(P, v)
    PROVE  /\ P \in M4 /\ c \in V4
           /\ c[0] = Times(A, v[0]) /\ c[1] = Times(B, v[1])
           /\ c[2] = Plus(Times(C, v[2]), D) /\ c[3] = Neg(v[2])
<1>1. PICK o, n : o = Zero /\ n = Int2Q(-1)
  OBVIOUS
<1>2. o \in Num /\ n \in Num /\ n = Neg(One)
  BY <1>1, Constants, Signs
<1>3. PICK a, b, d, e : a = Ps(A, o, o, o) /\ b = Ps(o, B, o, o) /\ d = Ps(o, o, C, n) /\ e = Ps(o, o, D, o)
  OBVIOUS
<1>4. LanesAre(a, A, o, o, o) /\ LanesAre(b, o, B, o, o) /\ LanesAre(d, o, o, C, n) /\ LanesAre(e, o, o, D, o)
  <2>1. LanesAre(Ps(A, o, o, o), A, o, o, o)
    BY <1>2, PsAre, Zenon
  <2>2. LanesAre(Ps(o, B, o, o), o, B, o, o)
    BY <1>2, PsAre, Zenon
  <2>3. LanesAre(Ps(o, o, C, n), o, o, C, n)
    BY <1>2, PsAre, Zenon
  <2>4. LanesAre(Ps(o, o, D, o), o, o, D, o)
    BY <1>2, PsAre, Zenon
  <2> QED
    BY <1>3, <2>1, <2>2, <2>3, <2>4, Zenon
<1>5. RowsAre(P, a, b, d, e)
  <2>1. a \in V4 /\ b \in V4 /\ d \in V4 /\ e \in V4
    BY <1>4 DEF LanesAre
  <2>2. RowsAre(Rows(a, b, d, e), a, b, d, e)
    BY <2>1, FourRowsAre, Zenon
  <2> QED
    BY <1>1, <1>3, <2>2, Zenon DEF Wedge
<1>6. c \in V4 /\ \A i \in Lane : c[i] = Through(P, v, i)
  BY <1>5, ThroughIs DEF RowsAre
<1>7. \A i \in Lane : v[i] \in Num
  BY V4Reg
<1>8. v[0] \in Num /\ v[1] \in Num /\ v[2] \in Num
  BY <1>7, LaneSet
<1>9. /\ c[0] = Plus4(Times(A, v[0]), Times(o, v[1]), Times(o, v[2]), Times(o, v[3]))
      /\ c[1] = Plus4(Times(o, v[0]), Times(B, v[1]), Times(o, v[2]), Times(o, v[3]))
      /\ c[2] = Plus4(Times(o, v[0]), Times(o, v[1]), Times(C, v[2]), Times(D, v[3]))
      /\ c[3] = Plus4(Times(o, v[0]), Times(o, v[1]), Times(n, v[2]), Times(o, v[3]))
  BY <1>4, <1>5, <1>6, LaneSet DEF Through, LanesAre, RowsAre
<1>10. /\ Times(o, v[0]) = o /\ Times(o, v[1]) = o /\ Times(o, v[2]) = o /\ Times(o, v[3]) = o
       /\ Times(D, v[3]) = D
  BY <1>1, <1>8, Neutral, Constants
<1>11. Times(n, v[2]) = Neg(v[2]) /\ Neg(v[2]) \in Num
  BY <1>2, <1>8, NegTimes, NumClosed
<1>12. Times(A, v[0]) \in Num /\ Times(B, v[1]) \in Num /\ Times(C, v[2]) \in Num
  BY <1>8, NumClosed
<1>13. c[0] = Times(A, v[0]) /\ c[1] = Times(B, v[1]) /\ c[3] = Neg(v[2])
  BY <1>1, <1>2, <1>9, <1>10, <1>11, <1>12, FewTerms, Neutral
<1>14. c[2] = Plus(Times(C, v[2]), D)
  BY <1>1, <1>9, <1>10, <1>12, FewTerms
<1> QED
  BY <1>5, <1>6, <1>13, <1>14 DEF RowsAre

\* What an orthographic matrix makes of a point: the fourth lane stays one.
LEMMA BoxIs ==
    ASSUME NEW A \in Num, NEW B \in Num, NEW C \in Num, NEW x \in Num, NEW y \in Num, NEW z \in Num,
           NEW P, P = Box(A, B, C, x, y, z),
           NEW v \in V4, v[3] = One, NEW c, c = Easy_matrix_mult_vector4X4(P, v)
    PROVE  /\ P \in M4 /\ c \in V4
           /\ c[0] = Plus(Times(A, v[0]), x) /\ c[1] = Plus(Times(B, v[1]), y)
           /\ c[2] = Plus(Times(C, v[2]), z) /\ c[3] = One
<1>1. PICK o, n : o = Zero /\ n = One
  OBVIOUS
<1>2. o \in Num /\ n \in Num
  BY <1>1, Constants
<1>3. PICK a, b, d, e : a = Ps(A, o, o, o) /\ b = Ps(o, B, o, o) /\ d = Ps(o, o, C, o) /\ e = Ps(x, y, z, n)
  OBVIOUS
<1>4. LanesAre(a, A, o, o, o) /\ LanesAre(b, o, B, o, o) /\ LanesAre(d, o, o, C, o) /\ LanesAre(e, x, y, z, n)
  <2>1. LanesAre(Ps(A, o, o, o), A, o, o, o)
    BY <1>2, PsAre, Zenon
  <2>2. LanesAre(Ps(o, B, o, o), o, B, o, o)
    BY <1>2, PsAre, Zenon
  <2>3. LanesAre(Ps(o, o, C, o), o, o, C, o)
    BY <1>2, PsAre, Zenon
  <2>4. LanesAre(Ps(x, y, z, n), x, y, z, n)
    BY <1>2, PsAre, Zenon
  <2> QED
    BY <1>3, <2>1, <2>2, <2>3, <2>4, Zenon
<1>5. RowsAre(P, a, b, d, e)
  <2>1. a \in V4 /\ b \in V4 /\ d \in V4 /\ e \in V4
    BY <1>4 DEF LanesAre
  <2>2. RowsAre(Rows(a, b, d, e), a, b, d, e)
    BY <2>1, FourRowsAre, Zenon
  <2> QED
    BY <1>1, <1>3, <2>2, Zenon DEF Box
<1>6. c \in V4 /\ \A i \in Lane : c[i] = Through(P, v, i)
  BY <1>5, ThroughIs DEF RowsAre
<1>7. \A i \in Lane : v[i] \in Num
  BY V4Reg
<1>8. v[0] \in Num /\ v[1] \in Num /\ v[2] \in Num
  BY <1>7, LaneSet
<1>9. /\ c[0] = Plus4(Times(A, v[0]), Times(o, v[1]), Times(o, v[2]), Times(x, v[3]))
      /\ c[1] = Plus4(Times(o, v[0]), Times(B, v[1]), Times(o, v[2]), Times(y, v[3]))
      /\ c[2] = Plus4(Times(o, v[0]), Times(o, v[1]), Times(C, v[2]), Times(z, v[3]))
      /\ c[3] = Plus4(Times(o, v[0]), Times(o, v[1]), Times(o, v[2]), Times(n, v[3]))
  BY <1>4, <1>5, <1>6, LaneSet DEF Through, LanesAre, RowsAre
<1>10. /\ Times(o, v[0]) = o /\ Times(o, v[1]) = o /\ Times(o, v[2]) = o /\ Times(n, v[3]) = n
       /\ Times(x, v[3]) = x /\ Times(y, v[3]) = y /\ Times(z, v[3]) = z
  BY <1>1, <1>8, Neutral, Constants
<1>11. Times(A, v[0]) \in Num /\ Times(B, v[1]) \in Num /\ Times(C, v[2]) \in Num
  BY <1>8, NumClosed
<1>12. c[0] = Plus(Times(A, v[0]), x) /\ c[1] = Plus(Times(B, v[1]), y) /\ c[2] = Plus(Times(C, v[2]), z)
  BY <1>1, <1>9, <1>10, <1>11, FewTerms
<1>13. c[3] = n
  BY <1>1, <1>2, <1>9, <1>10, FewTerms, Neutral
<1> QED
  BY <1>1, <1>5, <1>6, <1>12, <1>13 DEF RowsAre

\* A number that is positive, and not negligible, and one that is larger.
LEMMA LargeEnough ==
    ASSUME NEW a \in Num, NEW b \in Num, Less(Zero, a), Less(a, b) \/ a = b, ~Negligible(a)
    PROVE  Less(Zero, b) /\ ~Negligible(b)
<1>1. PICK n, k, d \in Int : d > 0 /\ Is(a, n, d) /\ Is(b, k, d)
  BY Common2
<1>2. Is(Zero, 0, d)
  BY <1>1, ZeroIs
<1>3. PICK z, o : z = 0 /\ o = Zero
  OBVIOUS
<1>4. Is(o, z, d)
  BY <1>2, <1>3
<1>5. Less(o, a) <=> z * d < n * d
  BY <1>1, <1>4, LessIs
<1>6. n > 0
  BY <1>1, <1>3, <1>5
<1>7. Less(a, b) => n * d < k * d
  BY <1>1, LessIs
<1>8. n <= k
  <2>1. CASE Less(a, b)
    BY <1>1, <1>7, <2>1
  <2>2. CASE a = b
    <3>1. Is(a, n, d) /\ Is(a, k, d)
      BY <1>1, <2>2
    <3>2. a[1] * d = n * a[2] /\ a[1] * d = k * a[2] /\ a[2] # 0 /\ a[2] \in Int
      BY <3>1, NumParts DEF Is
    <3> QED
      BY <1>1, <3>2
  <2> QED
    BY <2>1, <2>2
<1>9. k > 0 /\ Magnitude(n) = n /\ Magnitude(k) = k
  BY <1>1, <1>6, <1>8 DEF Magnitude
<1>10. Is(AbsQ(a), n, d) /\ Is(AbsQ(b), k, d)
  BY <1>1, <1>9, AbsIs
<1>11. PICK M : M = 10000000
  BY SMT
<1>12. M \in Int /\ M > 0
  BY <1>11, SMT
<1>13. PICK u : u = 1
  OBVIOUS
<1>14. PICK q : q = Q(u, M)
  OBVIOUS
<1>15. Is(q, u, M)
  BY <1>12, <1>13, <1>14, QIs, SMT
<1>16. Less(AbsQ(a), q) <=> n * M < u * d
  BY <1>1, <1>10, <1>12, <1>15, LessIs
<1>17. Less(AbsQ(b), q) <=> k * M < u * d
  BY <1>1, <1>10, <1>12, <1>15, LessIs
<1>18. ~(n * M < u * d)
  BY <1>11, <1>13, <1>14, <1>16, SMT DEF Negligible
<1>19. n * M <= k * M
  BY <1>1, <1>8, <1>12
<1>20. ~(k * M < u * d)
  BY <1>1, <1>12, <1>13, <1>18, <1>19
<1>21. ~Negligible(b)
  BY <1>11, <1>13, <1>14, <1>17, <1>20, SMT DEF Negligible
<1>22. Less(o, b) <=> z * d < k * d
  BY <1>1, <1>4, LessIs
<1>23. z * d < k * d
  BY <1>1, <1>3, <1>9
<1> QED
  BY <1>3, <1>21, <1>22, <1>23

\* What is less than something differs from it.
LEMMA LessApart ==
    ASSUME NEW a \in Num, NEW b \in Num, Less(a, b)
    PROVE  Minus(b, a) # Zero /\ Minus(b, a) \in Num
<1>1. PICK n, k, d \in Int : d > 0 /\ Is(a, n, d) /\ Is(b, k, d)
  BY Common2
<1>2. n * d < k * d
  BY <1>1, LessIs
<1>3. k - n # 0
  BY <1>1, <1>2
<1>4. Is(Minus(b, a), k - n, d)
  BY <1>1, MinusSame
<1>5. PICK m, j : m = Minus(b, a) /\ j = k - n
  OBVIOUS
<1>6. m \in Num /\ m[1] * d = j * m[2] /\ j # 0 /\ j \in Int
  BY <1>1, <1>3, <1>4, <1>5 DEF Is
<1>7. m[2] \in Int /\ m[2] # 0 /\ m[1] \in Int
  BY <1>6, NumParts
<1>8. m[1] # 0
  BY <1>1, <1>6, <1>7
<1> QED
  BY <1>5, <1>6, <1>8 DEF Zero, Int2Q

\* A number that is not zero has a numerator that is not.
LEMMA NonZeroIs ==
    ASSUME NEW a, NEW n, NEW d, Is(a, n, d), a # Zero
    PROVE  n # 0
<1>1. ASSUME n = 0 PROVE FALSE
  <2>1. d \in Int /\ d # 0
    BY DEF Is
  <2>2. PICK z, o : z = 0 /\ o = Zero
    OBVIOUS
  <2>3. Is(o, z, d) /\ Is(a, z, d)
    BY <1>1, <2>1, <2>2, ZeroIs
  <2>4. a = o
    BY <2>3, IsEqual
  <2> QED
    BY <2>2, <2>4
<1> QED
  BY <1>1

\* A number over a multiple of itself.
LEMMA OverShare ==
    ASSUME NEW a \in Num, a # Zero, NEW b \in Num, b # Zero
    PROVE  /\ Times(a, b) # Zero /\ Over(a, Times(a, b)) \in Num
           /\ Times(Over(a, Times(a, b)), b) = One
<1>1. PICK n, k, d \in Int : d > 0 /\ Is(a, n, d) /\ Is(b, k, d)
  BY Common2
<1>2. n # 0 /\ k # 0
  BY <1>1, NonZeroIs
<1>3. PICK m, p, e : m = Times(a, b) /\ p = n * k /\ e = d * d
  OBVIOUS
<1>4. Is(m, p, e) /\ p \in Int /\ e \in Int /\ p # 0 /\ e # 0
  BY <1>1, <1>2, <1>3, TimesIs
<1>5. m # Zero
  <2>1. PICK z, o : z = 0 /\ o = Zero
    OBVIOUS
  <2>2. ASSUME m = o PROVE FALSE
    <3>1. Is(o, z, e) /\ Is(o, p, e)
      BY <1>4, <2>1, <2>2, ZeroIs
    <3>2. o[1] * e = z * o[2] /\ o[1] * e = p * o[2] /\ o \in Num
      BY <3>1 DEF Is
    <3>3. o[2] # 0 /\ o[2] \in Int
      BY <3>2, NumParts
    <3> QED
      BY <1>4, <2>1, <3>2, <3>3
  <2> QED
    BY <2>1, <2>2
<1>6. PICK q, u, w : q = Over(a, m) /\ u = n * e /\ w = d * p
  OBVIOUS
<1>7. Is(q, u, w) /\ u \in Int /\ w \in Int /\ w # 0
  BY <1>1, <1>4, <1>6, OverIs, IsInts
<1>8. Is(Times(q, b), u * k, w * d)
  BY <1>1, <1>7, TimesIs
<1>9. u * k = w * d
  BY <1>1, <1>3, <1>6
<1>10. w * d \in Int /\ w * d # 0
  BY <1>1, <1>7
<1>11. PICK x, y : x = w * d /\ y = Times(q, b)
  OBVIOUS
<1>12. Is(y, x, x) /\ Is(One, x, x)
  BY <1>8, <1>9, <1>10, <1>11, ZeroIs
<1>13. y = One
  BY <1>12, IsEqual
<1> QED
  BY <1>3, <1>5, <1>6, <1>7, <1>11, <1>13 DEF Is

\* The third row and column of a perspective: the near plane goes to -1 and the
\* far plane to 1, once divided by the distance.
LEMMA DepthIs ==
    ASSUME NEW near \in Num, NEW far \in Num, Minus(far, near) # Zero,
           NEW C, C = Over(Neg(Plus(far, near)), Minus(far, near)),
           NEW D, D = Over(Times(Int2Q(-2), Times(near, far)), Minus(far, near))
    PROVE  /\ C \in Num /\ D \in Num
           /\ Plus(Times(C, Neg(near)), D) = Neg(near)
           /\ Plus(Times(C, Neg(far)), D) = far
<1>1. PICK f, n, k \in Int : k > 0 /\ Is(far, f, k) /\ Is(near, n, k)
  BY Common2
<1>2. PICK depth, sum, two, g, h : /\ depth = Minus(far, near) /\ sum = Neg(Plus(far, near)) /\ two = Int2Q(-2)
                                   /\ g = f - n /\ h = -(f + n)
  OBVIOUS
<1>3. Is(depth, g, k) /\ g \in Int /\ h \in Int
  BY <1>1, <1>2, MinusSame
<1>4. g # 0
  BY <1>2, <1>3, NonZeroIs
<1>5. Is(Plus(far, near), f + n, k)
  BY <1>1, PlusSame
<1>6. Is(sum, h, k)
  BY <1>2, <1>5, NegIs
<1>7. PICK v, o : v = -2 /\ o = 1
  OBVIOUS
<1>8. Is(two, v, o)
  BY <1>2, <1>7, IntIs
<1>9. PICK z, p, q : z = Times(near, far) /\ p = n * f /\ q = k * k
  OBVIOUS
<1>10. Is(z, p, q)
  BY <1>1, <1>9, TimesIs
<1>11. PICK t, r, x : t = Times(two, z) /\ r = v * p /\ x = o * q
  OBVIOUS
<1>12. Is(t, r, x)
  BY <1>8, <1>10, <1>11, TimesIs
<1>13. C = Over(sum, depth) /\ D = Over(t, depth)
  BY <1>2, <1>9, <1>11
<1>14. Is(C, h * k, k * g) /\ Is(D, r * k, x * g)
  BY <1>3, <1>4, <1>6, <1>12, <1>13, OverIs
<1>15. (h * k) * g = h * (k * g)
  BY <1>1, <1>3
<1>16. Is(C, h, g)
  BY <1>3, <1>4, <1>14, <1>15, IsSame
<1>17. PICK w : w = r * (k * g)
  OBVIOUS
<1>18. (r * k) * (k * g) = r * (x * g) /\ r \in Int /\ k * g \in Int /\ k * g # 0
  BY <1>1, <1>3, <1>4, <1>7, <1>9, <1>11
<1>19. Is(D, r, k * g)
  BY <1>14, <1>18, IsSame
<1>20. r = -2 * (n * f)
  BY <1>7, <1>9, <1>11
<1>21. Is(Neg(near), -n, k) /\ Is(Neg(far), -f, k)
  BY <1>1, NegIs
<1>22. PICK a, b, i, j : a = Neg(near) /\ b = Neg(far) /\ i = -n /\ j = -f
  OBVIOUS
<1>23. Is(a, i, k) /\ Is(b, j, k)
  BY <1>21, <1>22
<1>24. Is(Times(C, a), h * i, g * k) /\ Is(Times(C, b), h * j, g * k)
  BY <1>16, <1>23, TimesIs
<1>25. PICK e : e = k * g
  OBVIOUS
<1>26. g * k = e /\ e \in Int /\ e # 0
  BY <1>1, <1>3, <1>18, <1>25
<1>27. Is(Times(C, a), h * i, e) /\ Is(Times(C, b), h * j, e) /\ Is(D, r, e)
  BY <1>19, <1>24, <1>25, <1>26
<1>28. Is(Plus(Times(C, a), D), h * i + r, e) /\ Is(Plus(Times(C, b), D), h * j + r, e)
  BY <1>27, PlusSame
<1>29. (h * i + r) * k = i * e /\ (h * j + r) * k = f * e /\ i \in Int
  <2>1. h * i + r = i * g
    BY <1>1, <1>2, <1>20, <1>22
  <2>2. h * j + r = f * g
    BY <1>1, <1>2, <1>20, <1>22
  <2>3. i \in Int
    BY <1>1, <1>22
  <2> QED
    BY <1>1, <1>3, <1>25, <2>1, <2>2, <2>3
<1>30. Is(Plus(Times(C, a), D), i, k) /\ Is(Plus(Times(C, b), D), f, k)
  BY <1>1, <1>28, <1>29, IsSame
<1>31. Plus(Times(C, a), D) = a /\ Plus(Times(C, b), D) = far
  BY <1>1, <1>23, <1>30, IsEqual
<1> QED
  BY <1>22, <1>31, <1>14 DEF Is

\* A number, and the terms of the matrices to window coordinates, in halves.
LEMMA HalvesIs ==
    ASSUME NEW c \in Num, NEW w \in Nat
    PROVE  LET half == Plus(Times(c, Q(1, 2)), Q(1, 2))
           IN  /\ half \in Num
               /\ Plus(Times(half, Int2Q(w)), Zero) = Plus(Times(Q(w, 2), c), Q(w, 2))
               /\ Plus(Times(half, Int2Q(w)), Zero) =
                    Minus(Int2Q(w), Plus(Times(Q(-w, 2), c), Q(w, 2)))
               /\ half = Times(Plus(Plus(Times(One, c), Zero), One), Q(1, 2))
<1>1. PICK n, d \in Int : d > 0 /\ Is(c, n, d)
  BY Fraction
<1>2. PICK e, t, u, v : e = Q(1, 2) /\ t = Q(w, 2) /\ u = Q(-w, 2) /\ v = -w
  OBVIOUS
<1>3. v \in Int /\ w \in Int
  BY <1>2
<1>4. PICK o, p : o = 1 /\ p = 2
  OBVIOUS
<1>5. Is(e, o, p) /\ Is(t, w, p) /\ Is(u, v, p)
  BY <1>2, <1>3, <1>4, QIs
<1>6. Is(Times(c, e), n * o, d * p) /\ Is(Times(t, c), w * n, p * d) /\ Is(Times(u, c), v * n, p * d)
  BY <1>1, <1>5, TimesIs
<1>7. PICK f : f = d * p
  OBVIOUS
<1>8. f \in Int /\ f # 0 /\ p * d = f /\ n * o = n /\ o * f = d * p
  BY <1>1, <1>4, <1>7
<1>9. Is(Times(c, e), n, f) /\ Is(Times(t, c), w * n, f) /\ Is(Times(u, c), v * n, f)
  BY <1>6, <1>7, <1>8
<1>10. Is(e, d, f) /\ Is(t, w * d, f)
  <2>0. d \in Int /\ d # 0
    BY <1>1
  <2>1. Is(e, o * d, p * d) /\ Is(t, w * d, p * d)
    <3>1. Is(e, o * d, p * d)
      BY <1>5, <2>0, IsScaled
    <3>2. Is(t, w * d, p * d)
      BY <1>5, <2>0, IsScaled
    <3> QED
      BY <3>1, <3>2
  <2>2. o * d = d
    BY <1>1, <1>4
  <2> QED
    BY <1>8, <2>1, <2>2
<1>11. PICK half, a, g : half = Plus(Times(c, e), e) /\ a = Int2Q(w) /\ g = n + d
  OBVIOUS
<1>12. Is(half, g, f)
  BY <1>9, <1>10, <1>11, PlusSame
<1>13. Is(a, w, o)
  BY <1>3, <1>4, <1>11, IntIs
<1>14. Is(Times(half, a), g * w, f * o)
  BY <1>12, <1>13, TimesIs
<1>15. f * o = f /\ g * w = w * n + w * d /\ g * w \in Int
  BY <1>1, <1>3, <1>4, <1>8, <1>11
<1>16. Is(Times(half, a), g * w, f)
  BY <1>14, <1>15
<1>17. Times(half, a) \in Num
  BY <1>16, IsInts
<1>18. Plus(Times(half, a), Zero) = Times(half, a)
  BY <1>17, Neutral
<1>19. Is(Plus(Times(t, c), t), w * n + w * d, f)
  BY <1>9, <1>10, PlusSame
<1>20. Times(half, a) = Plus(Times(t, c), t)
  BY <1>15, <1>16, <1>19, IsEqual
<1>21. PICK s, x : s = Plus(Times(u, c), t) /\ x = v * n + w * d
  OBVIOUS
<1>22. Is(s, x, f)
  BY <1>9, <1>10, <1>21, PlusSame
<1>23. Is(a, w * f, o * f)
  BY <1>8, <1>13, IsScaled
<1>24. o * f = f
  BY <1>4, <1>8
<1>25. Is(Minus(a, s), w * f - x, f)
  BY <1>22, <1>23, <1>24, MinusSame
<1>26. w * f - x = g * w
  BY <1>1, <1>2, <1>3, <1>4, <1>7, <1>11, <1>21
<1>27. Times(half, a) = Minus(a, s)
  BY <1>16, <1>25, <1>26, IsEqual
<1>28. half = Times(Plus(Plus(Times(One, c), Zero), One), e)
  <2>1. c \in Num
    OBVIOUS
  <2>2. Plus(Times(One, c), Zero) = c
    BY <2>1, Neutral
  <2>3. Is(One, d, d)
    BY <1>1, ZeroIs
  <2>4. Is(Plus(c, One), g, d)
    BY <1>1, <1>11, <2>3, PlusSame
  <2>5. PICK y : y = Plus(c, One)
    OBVIOUS
  <2>6. Is(Times(y, e), g * o, d * p)
    BY <1>5, <2>4, <2>5, TimesIs
  <2>7. g * o = g
    BY <1>1, <1>4, <1>11
  <2>8. Is(Times(y, e), g, f)
    BY <1>7, <2>6, <2>7
  <2>9. half = Times(y, e)
    BY <1>12, <2>8, IsEqual
  <2> QED
    BY <2>2, <2>5, <2>9
<1>29. half \in Num
  BY <1>12, IsInts
<1> QED
  BY <1>2, <1>11, <1>18, <1>20, <1>21, <1>27, <1>28, <1>29

\* What takes the edges lo and hi to -1 and 1.
LEMMA EdgesIs ==
    ASSUME NEW lo \in Num, NEW hi \in Num, Minus(hi, lo) # Zero,
           NEW A, A = Over(Int2Q(2), Minus(hi, lo)),
           NEW x, x = Neg(Over(Plus(hi, lo), Minus(hi, lo)))
    PROVE  /\ A \in Num /\ x \in Num
           /\ Plus(Times(A, hi), x) = One /\ Plus(Times(A, lo), x) = Neg(One)
<1>1. PICK h, l, k \in Int : k > 0 /\ Is(hi, h, k) /\ Is(lo, l, k)
  BY Common2
<1>2. PICK w, s, two, g, i : /\ w = Minus(hi, lo) /\ s = Plus(hi, lo) /\ two = Int2Q(2)
                             /\ g = h - l /\ i = h + l
  OBVIOUS
<1>3. Is(w, g, k) /\ Is(s, i, k) /\ g \in Int /\ i \in Int
  <2>1. Is(Minus(hi, lo), h - l, k)
    BY <1>1, MinusSame
  <2>2. Is(Plus(hi, lo), h + l, k)
    BY <1>1, PlusSame
  <2> QED
    BY <1>2, <2>1, <2>2, IsInts
<1>4. g # 0
  BY <1>2, <1>3, NonZeroIs
<1>5. PICK v, o : v = 2 /\ o = 1
  OBVIOUS
<1>6. Is(two, v, o)
  BY <1>2, <1>5, IntIs
<1>7. PICK q : q = Over(s, w)
  OBVIOUS
<1>8. A = Over(two, w) /\ x = Neg(q)
  BY <1>2, <1>7
<1>9. Is(A, v * k, o * g) /\ Is(q, i * k, k * g)
  BY <1>3, <1>4, <1>6, <1>7, <1>8, OverIs
<1>10. (i * k) * g = i * (k * g)
  BY <1>1, <1>3
<1>11. Is(q, i, g)
  BY <1>3, <1>4, <1>9, <1>10, IsSame
<1>12. Is(x, -i, g)
  BY <1>8, <1>11, NegIs
<1>13. o * g = g
  BY <1>3, <1>5
<1>14. PICK u : u = v * k
  OBVIOUS
<1>15. Is(A, u, g)
  BY <1>9, <1>13, <1>14
<1>16. Is(Times(A, hi), u * h, g * k) /\ Is(Times(A, lo), u * l, g * k)
  BY <1>1, <1>15, TimesIs
<1>17. PICK j : j = -i
  OBVIOUS
<1>18. Is(x, j * k, g * k)
  BY <1>1, <1>12, <1>17, IsScaled
<1>19. Is(Plus(Times(A, hi), x), u * h + j * k, g * k) /\ Is(Plus(Times(A, lo), x), u * l + j * k, g * k)
  BY <1>16, <1>18, PlusSame
<1>20. PICK e, f : e = g * k /\ f = -(g * k)
  OBVIOUS
<1>21. u * h + j * k = e /\ u * l + j * k = f
  BY <1>1, <1>2, <1>5, <1>14, <1>17, <1>20
<1>22. e \in Int /\ e # 0 /\ f = -e
  BY <1>1, <1>3, <1>4, <1>20
<1>23. Is(Plus(Times(A, hi), x), e, e) /\ Is(Plus(Times(A, lo), x), f, e)
  BY <1>19, <1>20, <1>21
<1>24. Is(One, e, e)
  BY <1>22, ZeroIs
<1>25. Is(Neg(One), f, e)
  BY <1>22, <1>24, NegIs
<1> QED
  BY <1>12, <1>15, <1>23, <1>24, <1>25, IsEqual, IsInts

\* The same for depth, which grows against the third axis.
LEMMA EndsIs ==
    ASSUME NEW near \in Num, NEW far \in Num, Minus(far, near) # Zero,
           NEW C, C = Over(Int2Q(-2), Minus(far, near)),
           NEW z, z = Neg(Over(Plus(far, near), Minus(far, near)))
    PROVE  /\ C \in Num /\ z \in Num
           /\ Plus(Times(C, Neg(near)), z) = Neg(One) /\ Plus(Times(C, Neg(far)), z) = One
<1>1. PICK A : A = Over(Int2Q(2), Minus(far, near))
  OBVIOUS
<1>2. /\ A \in Num /\ z \in Num
      /\ Plus(Times(A, far), z) = One /\ Plus(Times(A, near), z) = Neg(One)
  BY <1>1, EdgesIs
<1>3. PICK g, k \in Int : k > 0 /\ Is(Minus(far, near), g, k)
  <2>1. Minus(far, near) \in Num
    BY NumClosed
  <2> QED
    BY <2>1, Fraction
<1>4. PICK w : w = Minus(far, near)
  OBVIOUS
<1>5. g # 0 /\ Is(w, g, k)
  BY <1>3, <1>4, NonZeroIs
<1>6. PICK a, b, v, m, o : a = Int2Q(2) /\ b = Int2Q(-2) /\ v = 2 /\ m = -2 /\ o = 1
  OBVIOUS
<1>7. Is(a, v, o) /\ Is(b, m, o)
  BY <1>6, IntIs
<1>8. A = Over(a, w) /\ C = Over(b, w)
  BY <1>1, <1>4, <1>6
<1>9. Is(A, v * k, o * g) /\ Is(C, m * k, o * g)
  BY <1>5, <1>7, <1>8, OverIs
<1>10. Is(Neg(A), -(v * k), o * g)
  BY <1>9, NegIs
<1>11. -(v * k) = m * k
  BY <1>3, <1>6
<1>12. C = Neg(A)
  BY <1>9, <1>10, <1>11, IsEqual
<1>13. \A r \in Num : Times(C, Neg(r)) = Times(A, r)
  <2> SUFFICES ASSUME NEW r \in Num PROVE Times(C, Neg(r)) = Times(A, r)
    OBVIOUS
  <2>1. Neg(A) \in Num /\ Neg(r) \in Num
    BY <1>2, NumClosed
  <2>2. Times(Neg(A), Neg(r)) = Neg(Times(Neg(A), r))
    BY <2>1, TimesNeg
  <2>3. Times(Neg(A), r) = Times(r, Neg(A))
    BY <2>1, TimesCommutes
  <2>4. Times(r, Neg(A)) = Neg(Times(r, A))
    BY <1>2, TimesNeg
  <2>5. Times(r, A) = Times(A, r) /\ Times(A, r) \in Num
    BY <1>2, TimesCommutes, NumClosed
  <2>6. Neg(Neg(Times(A, r))) = Times(A, r)
    BY <2>5, Neutral
  <2> QED
    BY <1>12, <2>2, <2>3, <2>4, <2>5, <2>6
<1> QED
  BY <1>2, <1>9, <1>13, IsInts

\* A perspective, by what its entries do to the edges and ends of its volume.
Frustum(P, A, B, C, D, tan, aspect, near, far) ==
  /\ P = Wedge(A, B, C, D)
  /\ Times(A, Times(tan, aspect)) = One /\ Times(B, tan) = One
  /\ Plus(Times(C, Neg(near)), D) = Neg(near) /\ Plus(Times(C, Neg(far)), D) = far

\* EastPerspective takes the sides of the view volume to -w and w, the near
\* plane to -w and the far one to w.
LEMMA PerspectiveIs ==
    ASSUME NEW tan \in Num, tan # Zero, NEW aspect \in Num, aspect # Zero, NEW near \in Num, near # Zero,
           NEW far \in Num, Minus(far, near) # Zero
    PROVE  \E A, B, C, D \in Num :
             Frustum(EastPerspective(tan, aspect, near, far), A, B, C, D, tan, aspect, near, far)
<1>1. PICK y, ymax, xmax, depth : /\ y = Times(tan, aspect) /\ ymax = Times(near, tan)
                                  /\ xmax = Times(ymax, aspect) /\ depth = Minus(far, near)
  OBVIOUS
<1>2. y # Zero /\ y \in Num
  BY <1>1, OverShare, NumClosed
<1>3. xmax = Times(near, y)
  BY <1>1, TimesAssociates
<1>4. PICK A, B, C, D : /\ A = Over(near, xmax) /\ B = Over(near, ymax)
                        /\ C = Over(Neg(Plus(far, near)), depth)
                        /\ D = Over(Times(Int2Q(-2), Times(near, far)), depth)
  OBVIOUS
<1>5. A \in Num /\ Times(A, y) = One
  BY <1>2, <1>3, <1>4, OverShare
<1>6. B \in Num /\ Times(B, tan) = One
  BY <1>1, <1>4, OverShare
<1>7. C \in Num /\ D \in Num /\ Plus(Times(C, Neg(near)), D) = Neg(near) /\ Plus(Times(C, Neg(far)), D) = far
  BY <1>1, <1>4, DepthIs
<1>8. EastPerspective(tan, aspect, near, far) = Wedge(A, B, C, D)
  BY <1>1, <1>4, Zenon DEF EastPerspective, Wedge
<1>9. Times(A, Times(tan, aspect)) = One
  BY <1>1, <1>5
<1>10. Frustum(EastPerspective(tan, aspect, near, far), A, B, C, D, tan, aspect, near, far)
  BY <1>6, <1>7, <1>8, <1>9 DEF Frustum
<1> QED
  BY <1>5, <1>6, <1>7, <1>10

\* The same for a box.
BoxFits(P, A, B, C, x, y, z, left, right, bottom, top, near, far) ==
  /\ P = Box(A, B, C, x, y, z)
  /\ Plus(Times(A, right), x) = One /\ Plus(Times(A, left), x) = Neg(One)
  /\ Plus(Times(B, top), y) = One /\ Plus(Times(B, bottom), y) = Neg(One)
  /\ Plus(Times(C, Neg(near)), z) = Neg(One) /\ Plus(Times(C, Neg(far)), z) = One

\* EasyOrtho takes the sides of its box to -1 and 1.
LEMMA OrthoIs ==
    ASSUME NEW left \in Num, NEW right \in Num, Minus(right, left) # Zero,
           NEW bottom \in Num, NEW top \in Num, Minus(top, bottom) # Zero,
           NEW near \in Num, NEW far \in Num, Minus(far, near) # Zero
    PROVE  \E A, B, C, x, y, z \in Num :
             BoxFits(EasyOrtho(left, right, bottom, top, near, far),
                  A, B, C, x, y, z, left, right, bottom, top, near, far)
<1>1. PICK a, b, c, u, v, w :
        /\ a = Over(Int2Q(2), Minus(right, left)) /\ u = Neg(Over(Plus(right, left), Minus(right, left)))
        /\ b = Over(Int2Q(2), Minus(top, bottom)) /\ v = Neg(Over(Plus(top, bottom), Minus(top, bottom)))
        /\ c = Over(Int2Q(-2), Minus(far, near)) /\ w = Neg(Over(Plus(far, near), Minus(far, near)))
  OBVIOUS
<1>2. a \in Num /\ u \in Num /\ Plus(Times(a, right), u) = One /\ Plus(Times(a, left), u) = Neg(One)
  BY <1>1, EdgesIs
<1>3. b \in Num /\ v \in Num /\ Plus(Times(b, top), v) = One /\ Plus(Times(b, bottom), v) = Neg(One)
  BY <1>1, EdgesIs
<1>4. c \in Num /\ w \in Num /\ Plus(Times(c, Neg(near)), w) = Neg(One) /\ Plus(Times(c, Neg(far)), w) = One
  BY <1>1, EndsIs
<1>5. EasyOrtho(left, right, bottom, top, near, far) = Box(a, b, c, u, v, w)
  BY <1>1, Zenon DEF EasyOrtho, Box
<1>6. a \in Num /\ b \in Num /\ c \in Num /\ u \in Num /\ v \in Num /\ w \in Num
  BY <1>2, <1>3, <1>4
<1>7. BoxFits(EasyOrtho(left, right, bottom, top, near, far), a, b, c, u, v, w, left, right, bottom, top, near, far)
  BY <1>2, <1>3, <1>4, <1>5 DEF BoxFits
<1> QED
  BY <1>6, <1>7

\* The matrix to window coordinates scales and moves.
LEMMA WindowIs ==
    ASSUME NEW width, NEW height
    PROVE  matVP(width, height) = Box(Q(width, 2), Q(-height, 2), One, Q(width, 2), Q(height, 2), Zero)
<1>1. PICK I, a, b, d, e : /\ I = IdentityMatrix
                           /\ a = [I[0] EXCEPT ![0] = Q(width, 2)] /\ b = [I[1] EXCEPT ![1] = Q(-height, 2)]
                           /\ d = I[2] /\ e = [I[3] EXCEPT ![0] = Q(width, 2), ![1] = Q(height, 2)]
  OBVIOUS
<1>2. matVP(width, height) = Rows(a, b, d, e)
  BY <1>1, Zenon DEF matVP
<1>3. I \in M4 /\ \A j, i \in Lane : I[j][i] = IF j = i THEN One ELSE Zero
  BY <1>1, IdentityIs
<1>4. IsReg(I[0]) /\ IsReg(I[1]) /\ IsReg(I[2]) /\ IsReg(I[3])
  BY <1>3, M4Rows, V4Reg, LaneSet
<1>5. PICK f, g, h : f = Q(width, 2) /\ g = Q(-height, 2) /\ h = Q(height, 2)
  OBVIOUS
<1>6. a = Ps(f, Zero, Zero, Zero)
  <2>0. a = Put(I[0], 0, f)
    BY <1>1, <1>5 DEF Put
  <2>1. IsReg(a) /\ a[0] = f /\ a[1] = Zero /\ a[2] = Zero /\ a[3] = Zero
    BY <1>3, <1>4, <2>0, PutIs, LaneSet
  <2> QED
    BY <2>1, PsAt, PsReg, SameReg
<1>7. b = Ps(Zero, g, Zero, Zero)
  <2>0. b = Put(I[1], 1, g)
    BY <1>1, <1>5 DEF Put
  <2>1. IsReg(b) /\ b[0] = Zero /\ b[1] = g /\ b[2] = Zero /\ b[3] = Zero
    BY <1>3, <1>4, <2>0, PutIs, LaneSet
  <2> QED
    BY <2>1, PsAt, PsReg, SameReg
<1>8. d = Ps(Zero, Zero, One, Zero)
  <2>1. IsReg(d) /\ d[0] = Zero /\ d[1] = Zero /\ d[2] = One /\ d[3] = Zero
    BY <1>1, <1>3, <1>4, LaneSet
  <2> QED
    BY <2>1, PsAt, PsReg, SameReg
<1>9. e = Ps(f, h, Zero, One)
  <2>1. PICK r : r = Put(I[3], 0, f)
    OBVIOUS
  <2>2. IsReg(r) /\ r[0] = f /\ r[1] = Zero /\ r[2] = Zero /\ r[3] = One
    BY <1>3, <1>4, <2>1, PutIs, LaneSet
  <2>3. e = Put(r, 1, h)
    BY <1>1, <1>5, <2>1 DEF Put
  <2>4. IsReg(e) /\ e[0] = f /\ e[1] = h /\ e[2] = Zero /\ e[3] = One
    BY <2>2, <2>3, PutIs, LaneSet
  <2> QED
    BY <2>4, PsAt, PsReg, SameReg
<1> QED
  BY <1>2, <1>5, <1>6, <1>7, <1>8, <1>9 DEF Box

\* From -1 .. 1 to 0 .. 1.
HalfOf(c) == Plus(Times(c, Q(1, 2)), Q(1, 2))

\* What the matrices of the form of EasyOrtho do to a point.
Boxed(c, v, A, B, C, x, y, z) ==
  /\ c \in V4
  /\ c[0] = Plus(Times(A, v[0]), x) /\ c[1] = Plus(Times(B, v[1]), y)
  /\ c[2] = Plus(Times(C, v[2]), z) /\ c[3] = One

\* BoxIs for the literal product.
LEMMA BoxTakes ==
    ASSUME NEW A \in Num, NEW B \in Num, NEW C \in Num, NEW x \in Num, NEW y \in Num, NEW z \in Num,
           NEW v \in V4, v[3] = One
    PROVE  /\ Box(A, B, C, x, y, z) \in M4
           /\ Boxed(Easy_matrix_mult_vector4X4(Box(A, B, C, x, y, z), v), v, A, B, C, x, y, z)
<1>1. PICK P, c : P = Box(A, B, C, x, y, z) /\ c = Easy_matrix_mult_vector4X4(P, v)
  OBVIOUS
<1>2. /\ P \in M4 /\ c \in V4
      /\ c[0] = Plus(Times(A, v[0]), x) /\ c[1] = Plus(Times(B, v[1]), y)
      /\ c[2] = Plus(Times(C, v[2]), z) /\ c[3] = One
  BY <1>1, BoxIs
<1> QED
  BY <1>1, <1>2 DEF Boxed

\* What is not negligible can be divided by.
LEMMA Divisible ==
    ASSUME NEW a \in Num, ~Negligible(a), NEW r, r = Over(One, a)
    PROVE  r \in Num /\ Times(a, r) = One /\ a # Zero
BY AreaThere, InverseNumber

\* A point in eye space on its way through a perspective to a window.
LEMMA ProjectedIs ==
    ASSUME NEW A \in Num, NEW B \in Num, NEW C \in Num, NEW D \in Num, NEW P, P = Wedge(A, B, C, D),
           NEW e \in V3, ~Negligible(Neg(e[2])), NEW v, v = Easy_vector_copy(e, One),
           NEW W \in Num, NEW H \in Num, NEW r, r = Over(One, Neg(e[2])),
           NEW q, q = PointProject(v, P, <<Zero, Zero, W, H>>)
    PROVE  /\ r \in Num /\ Times(Neg(e[2]), r) = One
           /\ q = V3Q(Plus(Times(HalfOf(Times(Times(A, e[0]), r)), W), Zero),
                      Plus(Times(HalfOf(Times(Times(B, e[1]), r)), H), Zero),
                      HalfOf(Times(Plus(Times(C, e[2]), D), r)))
<1>1. v \in V4 /\ v[0] = e[0] /\ v[1] = e[1] /\ v[2] = e[2] /\ v[3] = One /\ e[2] \in Num
  BY CopyAt, Constants
<1>2. PICK c, w : c = Easy_matrix_mult_vector4X4(P, v) /\ w = Neg(e[2])
  OBVIOUS
<1>3. /\ c[0] = Times(A, v[0]) /\ c[1] = Times(B, v[1])
      /\ c[2] = Plus(Times(C, v[2]), D) /\ c[3] = Neg(v[2])
  BY <1>1, <1>2, WedgeIs
<1>4. w \in Num
  BY <1>1, <1>2, NumClosed
<1>5. r \in Num /\ Times(w, r) = One
  BY <1>2, <1>4, Divisible
<1>6. PICK u : u = <<Zero, Zero, W, H>>
  OBVIOUS
<1>7. u[1] = Zero /\ u[2] = Zero /\ u[3] = W /\ u[4] = H
  BY <1>6
<1>8. Neg(v[2]) = w /\ ~Negligible(w)
  BY <1>1, <1>2
<1>9. q = V3Q(Plus(Times(HalfOf(Times(c[0], r)), u[3]), u[1]),
              Plus(Times(HalfOf(Times(c[1], r)), u[4]), u[2]),
              HalfOf(Times(c[2], r)))
  BY <1>2, <1>6, <1>8, Zenon DEF PointProject, HalfOf
<1> QED
  BY <1>1, <1>2, <1>3, <1>5, <1>7, <1>9

\* Where the rasterizer draws a light.
Drawn(l, A, B, C, D, e, r, w, h) ==
  /\ l.x = Plus(Times(Q(w, 2), Times(Times(A, e[0]), r)), Q(w, 2))
  /\ l.y = Plus(Times(Q(-h, 2), Times(Times(B, e[1]), r)), Q(h, 2))
  /\ l.z = Plus(Times(One, Times(Plus(Times(C, e[2]), D), r)), Zero)
  /\ l.radius = Times(Times(r, One), Int2Q(h))

\* What DrawLight makes of a light in front of the eye, under a perspective
\* matrix.
LEMMA DrawnIs ==
    ASSUME NEW A \in Num, NEW B \in Num, NEW C \in Num, NEW D \in Num,
           NEW e \in V3, ~Negligible(Neg(e[2])), NEW w \in Nat, NEW h \in Nat
    PROVE  Drawn(DrawLight(e, One, Wedge(A, B, C, D), w, h), A, B, C, D, e, Over(One, Neg(e[2])), w, h)
<1>0. PICK P, r, l : P = Wedge(A, B, C, D) /\ r = Over(One, Neg(e[2])) /\ l = DrawLight(e, One, P, w, h)
  OBVIOUS
<1>1. PICK v : v = Easy_vector_copy(e, One)
  OBVIOUS
<1>2. v \in V4 /\ v[0] = e[0] /\ v[1] = e[1] /\ v[2] = e[2] /\ v[3] = One /\ e[2] \in Num
  BY <1>1, CopyAt, Constants
<1>3. PICK c : c = Easy_matrix_mult_vector4X4(P, v)
  OBVIOUS
<1>4. /\ P \in M4 /\ c \in V4
      /\ c[0] = Times(A, v[0]) /\ c[1] = Times(B, v[1])
      /\ c[2] = Plus(Times(C, v[2]), D) /\ c[3] = Neg(v[2])
  BY <1>0, <1>2, <1>3, WedgeIs
<1>5. Easy_matrix_mult_vector4X4_sse(P, v) = c
  BY <1>2, <1>3, <1>4, AppliedAlike
<1>6. Neg(e[2]) \in Num
  BY <1>2, NumClosed
<1>7. r \in Num /\ Times(Neg(e[2]), r) = One
  BY <1>0, <1>6, Divisible
<1>8. PICK s : s = Easy_vector_scalar_mul_sse(c, r)
  OBVIOUS
<1>9. IsReg(s) /\ \A i \in Lane : s[i] = Times(c[i], r)
  BY <1>8, Lanewise, PsAt, LaneSet DEF Easy_vector_scalar_mul_sse, set_ps1
<1>10. \A i \in Lane : c[i] \in Num
  BY <1>4, V4Reg
<1>11. \A i \in Lane : s[i] \in Num
  BY <1>7, <1>9, <1>10, NumClosed
<1>12. s \in V4 /\ s[3] = One
  BY <1>2, <1>4, <1>7, <1>9, <1>11, V4Reg, LaneSet
<1>13. PICK M, dst : M = matVP(w, h) /\ dst = Easy_matrix_mult_vector4X4(M, s)
  OBVIOUS
<1>14. PICK f, g, k : f = Q(w, 2) /\ g = Q(-h, 2) /\ k = Q(h, 2)
  OBVIOUS
<1>15. f \in Num /\ g \in Num /\ k \in Num /\ One \in Num /\ Zero \in Num
  <2>1. PICK t, m : t = 2 /\ m = -h
    OBVIOUS
  <2>2. t \in Int /\ t # 0 /\ w \in Int /\ h \in Int /\ m \in Int
    BY <2>1
  <2>3. Is(f, w, t) /\ Is(k, h, t)
    BY <1>14, <2>1, <2>2, QIs
  <2>4. Is(g, m, t)
    BY <1>14, <2>1, <2>2, QIs
  <2> QED
    BY <2>3, <2>4, IsInts, Constants
<1>16. PICK o, z : o = One /\ z = Zero
  OBVIOUS
<1>17. M = Box(f, g, o, f, k, z)
  BY <1>13, <1>14, <1>16, WindowIs
<1>18. /\ M \in M4
       /\ dst[0] = Plus(Times(f, s[0]), f) /\ dst[1] = Plus(Times(g, s[1]), k)
       /\ dst[2] = Plus(Times(o, s[2]), z)
  <2>1. o \in Num /\ z \in Num
    BY <1>15, <1>16
  <2>2. Box(f, g, o, f, k, z) \in M4 /\ Boxed(Easy_matrix_mult_vector4X4(Box(f, g, o, f, k, z), s), s, f, g, o, f, k, z)
    BY <1>12, <1>15, <2>1, BoxTakes, Zenon
  <2> QED
    BY <1>13, <1>17, <2>2 DEF Boxed
<1>19. Easy_matrix_mult_vector4X4_sse(M, s) = dst
  BY <1>12, <1>13, <1>18, AppliedAlike
<1>20. r = Over(One, c[3])
  BY <1>0, <1>2, <1>4
<1>21. /\ l.x = dst[0] /\ l.y = dst[1] /\ l.z = dst[2]
       /\ l.radius = Times(Times(r, One), Int2Q(h))
  BY <1>0, <1>1, <1>5, <1>8, <1>13, <1>19, <1>20 DEF DrawLight
<1>22. /\ s[0] = Times(Times(A, e[0]), r) /\ s[1] = Times(Times(B, e[1]), r)
       /\ s[2] = Times(Plus(Times(C, e[2]), D), r)
  BY <1>2, <1>4, <1>9, LaneSet
<1>23. Drawn(l, A, B, C, D, e, r, w, h)
  BY <1>14, <1>16, <1>18, <1>21, <1>22 DEF Drawn
<1> QED
  BY <1>0, <1>23

\* Two positive numbers, and what keeps them apart.
LEMMA BothPositive ==
    ASSUME NEW a \in Num, NEW b \in Num, Less(Zero, a), Less(Zero, b)
    PROVE  a # Zero /\ Minus(a, Neg(b)) # Zero
<1>1. PICK n, k, d \in Int : d > 0 /\ Is(a, n, d) /\ Is(b, k, d)
  BY Common2
<1>2. PICK z, o, m : z = 0 /\ o = Zero /\ m = -k
  OBVIOUS
<1>3. Is(o, z, d)
  BY <1>1, <1>2, ZeroIs
<1>4. z * d < n * d /\ z * d < k * d
  BY <1>1, <1>2, <1>3, LessIs
<1>5. Is(Neg(b), m, d)
  BY <1>1, <1>2, NegIs
<1>6. m * d < n * d
  BY <1>1, <1>2, <1>4
<1>7. Less(Neg(b), a)
  BY <1>1, <1>5, <1>6, LessIs
<1>8. Neg(b) \in Num /\ Minus(a, Zero) = a /\ Zero \in Num
  BY NumClosed, Neutral, Constants
<1> QED
  BY <1>7, <1>8, LessApart

\* What a view is made of.
LEMMA ViewIs ==
    ASSUME NEW view \in Views
    PROVE  /\ view.tan \in Num /\ view.aspect \in Num /\ view.near \in Num /\ view.far \in Num
           /\ view.tan # Zero /\ view.aspect # Zero /\ view.near # Zero /\ view.far # Zero
           /\ Minus(view.far, view.near) # Zero /\ Minus(view.far, Neg(view.near)) # Zero
           /\ Minus(view.tan, Neg(view.aspect)) # Zero
           /\ ~Negligible(view.near) /\ ~Negligible(view.far)
           /\ view.width \in Nat /\ view.height \in Nat
<1>1. PICK t, a, n, f : t = view.tan /\ a = view.aspect /\ n = view.near /\ f = view.far
  OBVIOUS
<1>2. /\ t \in Num /\ a \in Num /\ n \in Num /\ f \in Num
      /\ Less(Zero, t) /\ Less(Zero, a) /\ Less(Zero, n) /\ ~Negligible(n) /\ Less(n, f)
      /\ view.width \in Nat /\ view.height \in Nat
  BY <1>1, ViewsAssumption, NumberNum
<1>3. Less(Zero, f) /\ ~Negligible(f)
  BY <1>2, LargeEnough
<1>4. t # Zero /\ Minus(t, Neg(a)) # Zero
  BY <1>2, BothPositive
<1>5. a # Zero /\ n # Zero
  BY <1>2, BothPositive
<1>6. f # Zero /\ Minus(f, Neg(n)) # Zero
  BY <1>2, <1>3, BothPositive
<1>7. Minus(f, n) # Zero
  BY <1>2, LessApart
<1> QED
  BY <1>1, <1>2, <1>3, <1>4, <1>5, <1>6, <1>7

\* The radius shrinks with the distance.
LEMMA RadiusIs ==
    ASSUME NEW w \in Num, NEW r \in Num, Times(w, r) = One, NEW h \in Num
    PROVE  Times(Times(Times(r, One), h), w) = h
<1>1. Times(r, One) = r /\ Times(h, One) = h
  BY Neutral
<1>2. Times(r, h) = Times(h, r) /\ Times(r, w) = Times(w, r)
  BY TimesCommutes
<1>3. Times(Times(h, r), w) = Times(h, Times(r, w))
  BY TimesAssociates
<1> QED
  BY <1>1, <1>2, <1>3

\* Both ways to window coordinates agree.
LEMMA WaysAgree ==
    ASSUME Affine(mat), NEW view \in Views, NEW p \in V3
    PROVE  ProjectionsAgree(view, p)
<1>1. PICK P, e, l, w, h, q :
        /\ P = EastPerspective(view.tan, view.aspect, view.near, view.far)
        /\ e = Easy_matrix_mult_vector3X3(mat, p)
        /\ w = view.width /\ h = view.height
        /\ l = DrawLight(e, One, P, w, h)
        /\ q = PointProjectD(p, mat, P, <<Zero, Zero, Int2Q(w), Int2Q(h)>>)
  OBVIOUS
<1>2. SUFFICES ASSUME ~Negligible(Neg(e[2]))
               PROVE  /\ q[0] = l.x /\ q[1] = Minus(Int2Q(h), l.y)
                      /\ q[2] = Times(Plus(l.z, One), Q(1, 2))
                      /\ Times(l.radius, Neg(e[2])) = Int2Q(h)
  BY <1>1, Zenon DEF ProjectionsAgree
<1>3. e = Taken(mat, p)
  BY <1>1 DEF Taken, Easy_matrix_mult_vector3X3
<1>4. PICK v : v = Easy_vector_copy(e, One)
  OBVIOUS
<1>5. Easy_matrix_mult_vector4X4(mat, Easy_vector_copy(p, One)) = v /\ e \in V3
  BY <1>3, <1>4, EyeIs
<1>6. PICK W, H : W = Int2Q(w) /\ H = Int2Q(h)
  OBVIOUS
<1>7. q = PointProject(v, P, <<Zero, Zero, W, H>>)
  BY <1>1, <1>5, <1>6, Zenon DEF PointProjectD
<1>8. w \in Nat /\ h \in Nat /\ W \in Num /\ H \in Num
  BY <1>1, <1>6, ViewIs, Constants
<1>9. PICK A, B, C, D \in Num : P = Wedge(A, B, C, D)
  <2>1. PICK t, a, n, f : t = view.tan /\ a = view.aspect /\ n = view.near /\ f = view.far
    OBVIOUS
  <2>2. /\ t \in Num /\ a \in Num /\ n \in Num /\ f \in Num
        /\ t # Zero /\ a # Zero /\ n # Zero /\ Minus(f, n) # Zero
    BY <2>1, ViewIs
  <2>3. P = EastPerspective(t, a, n, f)
    BY <1>1, <2>1
  <2>4. PICK A, B, C, D \in Num : Frustum(EastPerspective(t, a, n, f), A, B, C, D, t, a, n, f)
    BY <2>2, PerspectiveIs
  <2> QED
    BY <2>3, <2>4 DEF Frustum
<1>10. PICK r : r = Over(One, Neg(e[2]))
  OBVIOUS
<1>11. PICK x, y, z : /\ x = Times(Times(A, e[0]), r) /\ y = Times(Times(B, e[1]), r)
                      /\ z = Times(Plus(Times(C, e[2]), D), r)
  OBVIOUS
<1>12. /\ r \in Num /\ Times(Neg(e[2]), r) = One
       /\ q = V3Q(Plus(Times(HalfOf(x), W), Zero), Plus(Times(HalfOf(y), H), Zero), HalfOf(z))
  BY <1>2, <1>4, <1>5, <1>7, <1>8, <1>9, <1>10, <1>11, ProjectedIs
<1>13. /\ l.x = Plus(Times(Q(w, 2), x), Q(w, 2)) /\ l.y = Plus(Times(Q(-h, 2), y), Q(h, 2))
       /\ l.z = Plus(Times(One, z), Zero) /\ l.radius = Times(Times(r, One), H)
  <2>1. l = DrawLight(e, One, P, w, h) /\ ~Negligible(Neg(e[2]))
    BY <1>1, <1>2
  <2>2. Drawn(DrawLight(e, One, Wedge(A, B, C, D), w, h), A, B, C, D, e, Over(One, Neg(e[2])), w, h)
    BY <1>5, <1>8, <2>1, DrawnIs, Zenon
  <2>3. Drawn(l, A, B, C, D, e, r, w, h)
    BY <1>9, <1>10, <2>1, <2>2, Zenon
  <2> QED
    BY <1>6, <1>11, <2>3 DEF Drawn
<1>14. x \in Num /\ y \in Num /\ z \in Num /\ Neg(e[2]) \in Num
  <2>1. e[0] \in Num /\ e[1] \in Num /\ e[2] \in Num
    BY <1>5, ThreeV3, LaneSet
  <2>2. Times(A, e[0]) \in Num /\ Times(B, e[1]) \in Num /\ Times(C, e[2]) \in Num /\ Neg(e[2]) \in Num
    BY <1>9, <2>1, NumClosed
  <2>3. Plus(Times(C, e[2]), D) \in Num
    BY <1>9, <2>2, NumClosed
  <2> QED
    BY <1>11, <1>12, <2>2, <2>3, NumClosed
<1>15. HalfOf(x) \in Num /\ Plus(Times(HalfOf(x), W), Zero) = l.x
  BY <1>6, <1>8, <1>13, <1>14, HalvesIs DEF HalfOf
<1>16. HalfOf(y) \in Num /\ Plus(Times(HalfOf(y), H), Zero) = Minus(H, l.y)
  BY <1>6, <1>8, <1>13, <1>14, HalvesIs DEF HalfOf
<1>17. HalfOf(z) \in Num /\ HalfOf(z) = Times(Plus(l.z, One), Q(1, 2))
  BY <1>8, <1>13, <1>14, HalvesIs DEF HalfOf
<1>18. Plus(Times(HalfOf(x), W), Zero) \in Num /\ Plus(Times(HalfOf(y), H), Zero) \in Num
  <2>1. Times(HalfOf(x), W) \in Num /\ Times(HalfOf(y), H) \in Num /\ Zero \in Num
    BY <1>8, <1>15, <1>16, NumClosed, Constants
  <2> QED
    BY <2>1, NumClosed
<1>19. q[0] = l.x /\ q[1] = Minus(H, l.y) /\ q[2] = Times(Plus(l.z, One), Q(1, 2))
  <2>1. PICK a, b, c : /\ a = Plus(Times(HalfOf(x), W), Zero) /\ b = Plus(Times(HalfOf(y), H), Zero)
                       /\ c = HalfOf(z)
    OBVIOUS
  <2>2. a \in Num /\ b \in Num /\ c \in Num /\ q = V3Q(a, b, c)
    BY <1>12, <1>17, <1>18, <2>1
  <2>3. q[0] = a /\ q[1] = b /\ q[2] = c
    BY <2>2, V3QAt
  <2> QED
    BY <1>15, <1>16, <1>17, <2>1, <2>3
<1>20. Times(l.radius, Neg(e[2])) = H
  BY <1>8, <1>12, <1>13, <1>14, RadiusIs
<1> QED
  BY <1>6, <1>19, <1>20

\* A corner of the volume is divided down to a corner of the window.
LEMMA CornerCancels ==
    ASSUME NEW A \in Num, NEW u \in Num, NEW d \in Num, NEW i \in Num, NEW r \in Num,
           Times(A, u) = One, Times(d, r) = One
    PROVE  Times(Times(A, Times(Times(d, u), i)), r) = i
<1>1. Times(d, u) = Times(u, d) /\ Times(d, i) = Times(i, d) /\ Times(d, i) \in Num
  BY TimesCommutes, NumClosed
<1>2. Times(Times(u, d), i) = Times(u, Times(d, i))
  BY TimesAssociates
<1>3. Times(A, Times(u, Times(d, i))) = Times(Times(A, u), Times(d, i))
  BY <1>1, TimesAssociates
<1>4. Times(One, Times(d, i)) = Times(d, i)
  BY <1>1, Neutral
<1>5. Times(Times(i, d), r) = Times(i, Times(d, r))
  BY TimesAssociates
<1>6. Times(i, One) = i
  BY Neutral
<1> QED
  BY <1>1, <1>2, <1>3, <1>4, <1>5, <1>6

\* Halves of integers, and on a window of two by two.
LEMMA HalfOfInt ==
    ASSUME NEW j \in Int
    PROVE  /\ HalfOf(Int2Q(j)) = Q(j + 1, 2)
           /\ Plus(Times(HalfOf(Int2Q(j)), Int2Q(2)), Zero) = Int2Q(j + 1)
<1>1. PICK c, h, o, p, k : c = Int2Q(j) /\ h = Q(1, 2) /\ o = 1 /\ p = 2 /\ k = j + 1
  OBVIOUS
<1>2. o \in Int /\ p \in Int /\ p # 0 /\ k \in Int
  BY <1>1
<1>3. Is(h, o, p) /\ Is(Q(k, p), k, p)
  BY <1>1, <1>2, QIs
<1>4. Is(c, j, o)
  BY <1>1, IntIs
<1>5. Is(Times(c, h), j * o, o * p)
  BY <1>3, <1>4, TimesIs
<1>6. j * o = j /\ o * p = p /\ j + o = k
  BY <1>1
<1>7. Is(Times(c, h), j, p)
  BY <1>5, <1>6
<1>8. Is(Plus(Times(c, h), h), j + o, p)
  BY <1>3, <1>7, PlusSame
<1>9. Is(HalfOf(c), k, p)
  BY <1>1, <1>6, <1>8 DEF HalfOf
<1>10. HalfOf(c) = Q(k, p)
  BY <1>3, <1>9, IsEqual
<1>11. PICK t, m : t = Int2Q(p) /\ m = Int2Q(k)
  OBVIOUS
<1>12. Is(t, p, o) /\ Is(m, k, o)
  BY <1>1, <1>2, <1>11, IntIs
<1>13. PICK q : q = HalfOf(c)
  OBVIOUS
<1>14. Is(Times(q, t), k * p, p * o)
  BY <1>9, <1>12, <1>13, TimesIs
<1>15. (k * p) * o = k * (p * o) /\ o # 0
  BY <1>1, <1>2
<1>16. Is(Times(q, t), k, o)
  BY <1>2, <1>14, <1>15, IsSame
<1>17. Times(q, t) = m /\ m \in Num
  BY <1>12, <1>16, IsEqual, IsInts
<1>18. Plus(m, Zero) = m
  BY <1>17, Neutral
<1> QED
  BY <1>1, <1>10, <1>11, <1>13, <1>17, <1>18

\* Points put back by the inverse come to where they were.
LEMMA HomeIs ==
    ASSUME Kept, Affine(mat), Invertible, NEW p \in V3,
           NEW h, h = Easy_matrix_mult_vector3X3(Easy_matrix_inv_sse(sse), p)
    PROVE  h \in V3 /\ Taken(mat, h) = p
<1>1. PICK back : back = Easy_matrix_inv_sse(sse)
  OBVIOUS
<1>2. mat \in M4 /\ sse = mat
  BY DEF Kept
<1>3. back \in M4 /\ Mul(back, mat) = IdentityMatrix
  BY <1>1, <1>2, InversesAgree DEF Invertible
<1>4. Affine(back)
  BY <1>3, InverseAffine
<1>5. h = Taken(back, p) /\ Three(p)
  BY <1>1, ThreeV3 DEF Taken, Easy_matrix_mult_vector3X3
<1>6. h \in V3
  BY <1>3, <1>5, TakenAt
<1>7. Taken(Mul(back, mat), p) = Taken(mat, h)
  BY <1>4, <1>5, TakenProduct
<1> QED
  BY <1>3, <1>6, <1>7, TakenIdentity

\* The corners of the perspective's volume appear at those of the window.
LEMMA CornersShown ==
    ASSUME Kept, Affine(mat), Invertible, NEW view \in Views,
           NEW a \in {-1, 1}, NEW b \in {-1, 1}, NEW d \in {view.near, view.far},
           NEW x, x = Times(Times(Times(d, view.tan), view.aspect), Int2Q(a)),
           NEW y, y = Times(Times(d, view.tan), Int2Q(b)),
           NEW h, h = Easy_matrix_mult_vector3X3(Easy_matrix_inv_sse(sse), V3Q(x, y, Neg(d))),
           NEW end, end = IF d = view.near THEN -1 ELSE 1,
           NEW P, P = EastPerspective(view.tan, view.aspect, view.near, view.far)
    PROVE  PointProjectD(h, mat, P, <<Zero, Zero, Int2Q(2), Int2Q(2)>>)
             = V3Q(Int2Q(a + 1), Int2Q(b + 1), Q(end + 1, 2))
<1>1. PICK t, s, n, f : t = view.tan /\ s = view.aspect /\ n = view.near /\ f = view.far
  OBVIOUS
<1>2. /\ t \in Num /\ s \in Num /\ n \in Num /\ f \in Num
      /\ t # Zero /\ s # Zero /\ n # Zero /\ f # Zero /\ Minus(f, n) # Zero
      /\ ~Negligible(n) /\ ~Negligible(f)
  BY <1>1, ViewIs
<1>3. d \in Num /\ ~Negligible(d) /\ Neg(d) \in Num /\ Neg(Neg(d)) = d
  BY <1>1, <1>2, NumClosed, Neutral
<1>4. PICK i, j : i = Int2Q(a) /\ j = Int2Q(b)
  OBVIOUS
<1>5. i \in Num /\ j \in Num /\ a \in Int /\ b \in Int
  BY <1>4, Constants
<1>6. PICK u, v : u = Times(t, s) /\ v = Times(d, t)
  OBVIOUS
<1>7. u \in Num /\ v \in Num
  BY <1>2, <1>3, <1>6, NumClosed
<1>8. x = Times(Times(d, u), i) /\ y = Times(Times(d, t), j)
  BY <1>1, <1>2, <1>3, <1>4, <1>6, TimesAssociates
<1>9. x \in Num /\ y \in Num
  <2>1. Times(d, u) \in Num
    BY <1>3, <1>7, NumClosed
  <2> QED
    BY <1>5, <1>6, <1>7, <1>8, <2>1, NumClosed
<1>10. PICK e : e = V3Q(x, y, Neg(d))
  OBVIOUS
<1>11. e \in V3 /\ e[0] = x /\ e[1] = y /\ e[2] = Neg(d)
  BY <1>3, <1>9, <1>10, V3QAt
<1>12. h \in V3 /\ e = Taken(mat, h)
  BY <1>10, <1>11, HomeIs
<1>13. PICK w : w = Easy_vector_copy(e, One)
  OBVIOUS
<1>14. Easy_matrix_mult_vector4X4(mat, Easy_vector_copy(h, One)) = w
  BY <1>12, <1>13, EyeIs
<1>15. PICK k, q : k = Int2Q(2) /\ q = PointProjectD(h, mat, P, <<Zero, Zero, k, k>>)
  OBVIOUS
<1>16. q = PointProject(w, P, <<Zero, Zero, k, k>>)
  BY <1>14, <1>15, Zenon DEF PointProjectD
<1>17. PICK A, B, C, D \in Num : Frustum(P, A, B, C, D, t, s, n, f)
  <2>1. P = EastPerspective(t, s, n, f)
    BY <1>1
  <2>2. PICK A, B, C, D \in Num : Frustum(EastPerspective(t, s, n, f), A, B, C, D, t, s, n, f)
    BY <1>2, PerspectiveIs
  <2> QED
    BY <2>1, <2>2
<1>18. /\ P = Wedge(A, B, C, D) /\ Times(A, u) = One /\ Times(B, t) = One
       /\ Plus(Times(C, Neg(n)), D) = Neg(n) /\ Plus(Times(C, Neg(f)), D) = f
  BY <1>6, <1>17 DEF Frustum
<1>19. PICK r : r = Over(One, Neg(e[2]))
  OBVIOUS
<1>20. k \in Num /\ ~Negligible(Neg(e[2]))
  BY <1>3, <1>11, <1>15, Constants
<1>21. /\ r \in Num /\ Times(Neg(e[2]), r) = One
       /\ q = V3Q(Plus(Times(HalfOf(Times(Times(A, e[0]), r)), k), Zero),
                  Plus(Times(HalfOf(Times(Times(B, e[1]), r)), k), Zero),
                  HalfOf(Times(Plus(Times(C, e[2]), D), r)))
  BY <1>11, <1>13, <1>16, <1>17, <1>18, <1>19, <1>20, ProjectedIs
<1>22. Times(d, r) = One
  BY <1>3, <1>11, <1>21
<1>23. Times(Times(A, e[0]), r) = i
  BY <1>3, <1>5, <1>7, <1>8, <1>11, <1>17, <1>18, <1>21, <1>22, CornerCancels
<1>24. Times(Times(B, e[1]), r) = j
  BY <1>2, <1>3, <1>5, <1>8, <1>11, <1>17, <1>18, <1>21, <1>22, CornerCancels
<1>25. PICK g : g = Int2Q(end)
  OBVIOUS
<1>26. Times(Plus(Times(C, e[2]), D), r) = g /\ end \in Int
  <2>1. CASE d = n
    <3>1. Plus(Times(C, e[2]), D) = Neg(d)
      BY <1>11, <1>18, <2>1
    <3>2. Times(Neg(d), r) = Times(r, Neg(d)) /\ Times(r, Neg(d)) = Neg(Times(r, d)) /\ Times(r, d) = Times(d, r)
      BY <1>3, <1>21, TimesCommutes, TimesNeg
    <3>3. end = -1
      BY <1>1, <2>1
    <3>4. g = Neg(One)
      BY <1>25, <3>3, Signs
    <3> QED
      BY <1>22, <3>1, <3>2, <3>3, <3>4
  <2>2. CASE d # n
    <3>1. d = f /\ end = 1
      BY <1>1, <2>2
    <3>2. Plus(Times(C, e[2]), D) = d
      BY <1>11, <1>18, <3>1
    <3>3. g = One
      BY <1>25, <3>1, Signs
    <3> QED
      BY <1>22, <3>1, <3>2, <3>3
  <2> QED
    BY <2>1, <2>2
<1>27. /\ Plus(Times(HalfOf(i), k), Zero) = Int2Q(a + 1)
       /\ Plus(Times(HalfOf(j), k), Zero) = Int2Q(b + 1)
       /\ HalfOf(g) = Q(end + 1, 2)
  BY <1>4, <1>5, <1>15, <1>25, <1>26, HalfOfInt
<1>28. q = V3Q(Plus(Times(HalfOf(i), k), Zero), Plus(Times(HalfOf(j), k), Zero), HalfOf(g))
  BY <1>21, <1>23, <1>24, <1>26
<1> QED
  BY <1>15, <1>27, <1>28

\* The corners of the box are taken to 1 and -1.
LEMMA BoxesShown ==
    ASSUME Kept, Affine(mat), Invertible, NEW view \in Views,
           NEW a \in {-1, 1}, NEW b \in {-1, 1}, NEW d \in {view.near, view.far},
           NEW x, x = IF a = 1 THEN view.tan ELSE Neg(view.aspect),
           NEW y, y = IF b = 1 THEN view.far ELSE Neg(view.near),
           NEW h, h = Easy_matrix_mult_vector3X3(Easy_matrix_inv_sse(sse), V3Q(x, y, Neg(d))),
           NEW end, end = IF d = view.near THEN -1 ELSE 1,
           NEW P, P = EasyOrtho(Neg(view.aspect), view.tan, Neg(view.near), view.far, view.near, view.far)
    PROVE  Easy_matrix_mult_vector4X4(P, Easy_matrix_mult_vector4X4(mat, Easy_vector_copy(h, One)))
             = Vec(a, b, end, 1)
<1>1. PICK t, s, n, f : t = view.tan /\ s = Neg(view.aspect) /\ n = view.near /\ f = view.far
  OBVIOUS
<1>2. PICK m : m = Neg(n)
  OBVIOUS
<1>3. /\ t \in Num /\ s \in Num /\ n \in Num /\ f \in Num /\ m \in Num
      /\ Minus(t, s) # Zero /\ Minus(f, m) # Zero /\ Minus(f, n) # Zero
  <2>1. view.aspect \in Num /\ n \in Num
    BY <1>1, ViewIs
  <2>2. s \in Num /\ m \in Num
    BY <1>1, <1>2, <2>1, NumClosed
  <2> QED
    BY <1>1, <1>2, <2>2, ViewIs
<1>4. /\ d \in Num /\ Neg(d) \in Num /\ x \in Num /\ y \in Num
      /\ x = (IF a = 1 THEN t ELSE s) /\ y = (IF b = 1 THEN f ELSE m)
  BY <1>1, <1>2, <1>3, NumClosed
<1>5. PICK e : e = V3Q(x, y, Neg(d))
  OBVIOUS
<1>6. e \in V3 /\ e[0] = x /\ e[1] = y /\ e[2] = Neg(d)
  BY <1>4, <1>5, V3QAt
<1>7. h \in V3 /\ e = Taken(mat, h)
  BY <1>5, <1>6, HomeIs
<1>8. PICK v : v = Easy_vector_copy(e, One)
  OBVIOUS
<1>9. Easy_matrix_mult_vector4X4(mat, Easy_vector_copy(h, One)) = v
  BY <1>7, <1>8, EyeIs
<1>10. v \in V4 /\ v[0] = x /\ v[1] = y /\ v[2] = Neg(d) /\ v[3] = One
  BY <1>6, <1>8, CopyAt, Constants
<1>11. P = EasyOrtho(s, t, m, f, n, f)
  BY <1>1, <1>2
<1>12. PICK A, B, C, i, j, k \in Num : BoxFits(EasyOrtho(s, t, m, f, n, f), A, B, C, i, j, k, s, t, m, f, n, f)
  BY <1>3, OrthoIs
<1>13. /\ P = Box(A, B, C, i, j, k)
       /\ Plus(Times(A, t), i) = One /\ Plus(Times(A, s), i) = Neg(One)
       /\ Plus(Times(B, f), j) = One /\ Plus(Times(B, m), j) = Neg(One)
       /\ Plus(Times(C, Neg(n)), k) = Neg(One) /\ Plus(Times(C, Neg(f)), k) = One
  BY <1>11, <1>12 DEF BoxFits
<1>14. PICK c : c = Easy_matrix_mult_vector4X4(P, v)
  OBVIOUS
<1>15. Boxed(Easy_matrix_mult_vector4X4(Box(A, B, C, i, j, k), v), v, A, B, C, i, j, k)
  BY <1>10, <1>12, BoxTakes, Zenon
<1>16. /\ c \in V4
       /\ c[0] = Plus(Times(A, x), i) /\ c[1] = Plus(Times(B, y), j)
       /\ c[2] = Plus(Times(C, Neg(d)), k) /\ c[3] = One
  BY <1>10, <1>13, <1>14, <1>15 DEF Boxed
<1>17. c[0] = Int2Q(a)
  <2>1. CASE a = 1
    BY <1>4, <1>13, <1>16, <2>1, Signs
  <2>2. CASE a = -1
    <3>1. x = s
      BY <1>4, <2>2
    <3> QED
      BY <1>13, <1>16, <2>2, <3>1, Signs
  <2> QED
    BY <2>1, <2>2
<1>18. c[1] = Int2Q(b)
  <2>1. CASE b = 1
    BY <1>4, <1>13, <1>16, <2>1, Signs
  <2>2. CASE b = -1
    <3>1. y = m
      BY <1>4, <2>2
    <3> QED
      BY <1>13, <1>16, <2>2, <3>1, Signs
  <2> QED
    BY <2>1, <2>2
<1>19. c[2] = Int2Q(end)
  <2>1. CASE d = n
    <3>1. end = -1
      BY <1>1, <2>1
    <3> QED
      BY <1>13, <1>16, <2>1, <3>1, Signs
  <2>2. CASE d # n
    <3>1. end = 1 /\ d = f
      BY <1>1, <2>2
    <3> QED
      BY <1>13, <1>16, <3>1, Signs
  <2> QED
    BY <2>1, <2>2
<1>20. c[3] = Int2Q(1)
  BY <1>16, Signs
<1>21. IsReg(c)
  BY <1>16, V4Reg
<1>22. c = Vec(a, b, end, 1)
  BY <1>17, <1>18, <1>19, <1>20, <1>21, VecIs, SameReg
<1> QED
  BY <1>9, <1>14, <1>22

\* The two ways to window coordinates (STLLRasterizer.cpp:155, EasyMatrix.h:1691)
\* agree on every point of every view, and the corners of every view volume
\* appear at those of the window, after any sequence of calls.
THEOREM WindowCoordinatesAlways == Spec /\ []Invertible => []WindowCoordinates
<1>1. Kept /\ Placed /\ Invertible => WindowCoordinates
  <2> SUFFICES ASSUME Kept, Placed, Invertible PROVE WindowCoordinates
    OBVIOUS
  <2>1. Affine(mat)
    BY DEF Placed
  <2>2. ASSUME NEW view \in Views, NEW p \in Probes PROVE ProjectionsAgree(view, p)
    <3>1. p \in V3
      BY <2>2, ProbesAssumption, NumberNum
    <3> QED
      BY <2>1, <2>2, <3>1, WaysAgree
  <2>3. ASSUME NEW view \in Views
        PROVE  ViewVolumeFillsWindow(view.tan, view.aspect, view.near, view.far)
    <3>1. ASSUME NEW a \in {-1, 1}, NEW b \in {-1, 1}, NEW d \in {view.near, view.far},
                 NEW y, y = Times(Times(d, view.tan), Int2Q(b)),
                 NEW x, x = Times(Times(Times(d, view.tan), view.aspect), Int2Q(a)),
                 NEW bx, bx = IF a = 1 THEN view.tan ELSE Neg(view.aspect),
                 NEW by, by = IF b = 1 THEN view.far ELSE Neg(view.near),
                 NEW end, end = IF d = view.near THEN -1 ELSE 1
          PROVE  /\ PointProjectD(Easy_matrix_mult_vector3X3(Easy_matrix_inv_sse(sse), V3Q(x, y, Neg(d))),
                                  mat, EastPerspective(view.tan, view.aspect, view.near, view.far),
                                  <<Zero, Zero, Int2Q(2), Int2Q(2)>>)
                      = V3Q(Int2Q(a + 1), Int2Q(b + 1), Q(end + 1, 2))
                 /\ Easy_matrix_mult_vector4X4(
                        EasyOrtho(Neg(view.aspect), view.tan, Neg(view.near), view.far, view.near, view.far),
                        Easy_matrix_mult_vector4X4(mat, Easy_vector_copy(
                            Easy_matrix_mult_vector3X3(Easy_matrix_inv_sse(sse), V3Q(bx, by, Neg(d))), One)))
                      = Vec(a, b, end, 1)
      <4>1. PICK g, h, P, R :
              /\ g = Easy_matrix_mult_vector3X3(Easy_matrix_inv_sse(sse), V3Q(x, y, Neg(d)))
              /\ h = Easy_matrix_mult_vector3X3(Easy_matrix_inv_sse(sse), V3Q(bx, by, Neg(d)))
              /\ P = EastPerspective(view.tan, view.aspect, view.near, view.far)
              /\ R = EasyOrtho(Neg(view.aspect), view.tan, Neg(view.near), view.far, view.near, view.far)
        OBVIOUS
      <4>2. PointProjectD(g, mat, P, <<Zero, Zero, Int2Q(2), Int2Q(2)>>)
              = V3Q(Int2Q(a + 1), Int2Q(b + 1), Q(end + 1, 2))
        BY <2>1, <2>3, <3>1, <4>1, CornersShown
      <4>3. Easy_matrix_mult_vector4X4(R, Easy_matrix_mult_vector4X4(mat, Easy_vector_copy(h, One)))
              = Vec(a, b, end, 1)
        BY <2>1, <2>3, <3>1, <4>1, BoxesShown
      <4> QED
        BY <4>1, <4>2, <4>3
    <3> QED
      BY <3>1 DEF ViewVolumeFillsWindow
  <2> QED
    BY <2>2, <2>3 DEF WindowCoordinates
<1> QED
  BY <1>1, ObjectConsistent, PTL

(***************************************************************************)
(* Where cameras, views and frames look.                                   *)
(***************************************************************************)

\* The vector products of the rows of a quaternion's matrix, in integers.
RowsHanded(x, y, z, w, o) ==
  LET e(j, i) == Entry(x, y, z, w, o, j, i)
  IN  /\ CrossX(e(0, 0), e(0, 1), e(0, 2), e(1, 0), e(1, 1), e(1, 2)) = o * e(2, 0)
      /\ CrossY(e(0, 0), e(0, 1), e(0, 2), e(1, 0), e(1, 1), e(1, 2)) = o * e(2, 1)
      /\ CrossZ(e(0, 0), e(0, 1), e(0, 2), e(1, 0), e(1, 1), e(1, 2)) = o * e(2, 2)

\* The product of the first two is the third.
LEMMA RowsHandedInts ==
    ASSUME NEW x \in Int, NEW y \in Int, NEW z \in Int, NEW w \in Int, NEW o, o = Length2Int(x, y, z, w)
    PROVE  RowsHanded(x, y, z, w, o)
  BY DEF RowsHanded, Length2Int, Entry, CrossX, CrossY, CrossZ

\* Rows of a turn are at right angles and of length one.
LEMMA TurningRows ==
    ASSUME NEW m, Turning(m)
    PROVE  Upright(m[0], m[1], m[2])
<1>1. m \in M4 /\ m[0][3] = Zero /\ m[1][3] = Zero /\ m[2][3] = Zero
  BY LaneSet DEF Turning, Linear, Affine
<1>2. \A j, i \in Lane : m[j][i] \in Num
  BY <1>1, M4Mat
<1>3. ASSUME NEW j \in Axis, NEW i \in Axis PROVE Dot(m[j], m[i]) = IF j = i THEN One ELSE Zero
  <2>1. j \in Lane /\ i \in Lane /\ m[j][3] = Zero /\ m[i][3] = Zero
    BY <1>1, <1>3, LaneSet
  <2>2. Mul(m, T4(m))[j][i] = Plus4(Times(m[j][0], m[i][0]), Times(m[j][1], m[i][1]),
                                    Times(m[j][2], m[i][2]), Times(m[j][3], m[i][3]))
    BY <2>1, T4Mat, LaneSet DEF Mul
  <2>3. Dot(m[j], m[i]) \in Num
    BY <1>2, <2>1, DotCommutes, LaneSet DEF Three
  <2>4. Mul(m, T4(m))[j][i] = Plus(Dot(m[j], m[i]), Zero)
    BY <2>1, <2>2, Neutral, Constants DEF Plus4, Plus3, Dot, Easy_vector_dot
  <2> QED
    BY <2>1, <2>3, <2>4, Neutral, IdentityIs DEF Turning
<1> QED
  BY <1>2, <1>3, LaneSet DEF Upright, Three

\* A quaternion's rotation is right-handed: it mirrors nothing.
LEMMA RotationHanded ==
    ASSUME NEW q, IsUnit(q)
    PROVE  Handed(RotationOf(q))
<1>1. PICK x, y, z, w, d \in Int :
        /\ d > 0 /\ Is(q[0], x, d) /\ Is(q[1], y, d) /\ Is(q[2], z, d) /\ Is(q[3], w, d)
        /\ Length2Int(x, y, z, w) = d * d
  BY UnitParts
<1>2. PICK l : l = d * d
  OBVIOUS
<1>3. l \in Int /\ l # 0 /\ l = Length2Int(x, y, z, w)
  BY <1>1, <1>2
<1>4. PICK M : M = RotationOf(q)
  OBVIOUS
<1>5. \A j, i \in Axis : Is(M[j][i], Entry(x, y, z, w, l, j, i), l)
  <2> SUFFICES ASSUME NEW j \in Axis, NEW i \in Axis PROVE Is(M[j][i], Entry(x, y, z, w, l, j, i), l)
    OBVIOUS
  <2>1. Is(M[j][i], IntRot(x, y, z, w, l)[j][i], l)
    BY <1>1, <1>2, <1>4, RotationInts, LaneSet DEF IsUnit
  <2>2. IntRot(x, y, z, w, l)[j][i] = Entry(x, y, z, w, l, j, i)
    BY LaneSet DEF IntRot
  <2> QED
    BY <2>1, <2>2
<1>6. PICK a, b, c, f, g, h, m, n, o :
        /\ a = Entry(x, y, z, w, l, 0, 0) /\ b = Entry(x, y, z, w, l, 0, 1) /\ c = Entry(x, y, z, w, l, 0, 2)
        /\ f = Entry(x, y, z, w, l, 1, 0) /\ g = Entry(x, y, z, w, l, 1, 1) /\ h = Entry(x, y, z, w, l, 1, 2)
        /\ m = Entry(x, y, z, w, l, 2, 0) /\ n = Entry(x, y, z, w, l, 2, 1) /\ o = Entry(x, y, z, w, l, 2, 2)
  OBVIOUS
<1>7. Parts(M[0], a, b, c, l) /\ Parts(M[1], f, g, h, l) /\ Parts(M[2], m, n, o, l)
  BY <1>5, <1>6, LaneSet DEF Parts
<1>8. CrossX(a, b, c, f, g, h) = l * m /\ CrossY(a, b, c, f, g, h) = l * n /\ CrossZ(a, b, c, f, g, h) = l * o
  <2>1. RowsHanded(x, y, z, w, l)
    BY <1>3, RowsHandedInts
  <2> QED
    BY <1>6, <2>1 DEF RowsHanded
<1>9. PICK v : v = Easy_vector_cross(M[0], M[1])
  OBVIOUS
<1>10. Parts(v, l * m, l * n, l * o, l * l)
  BY <1>7, <1>8, <1>9, CrossParts
<1>11. m \in Int /\ n \in Int /\ o \in Int
  BY <1>7, PartsInts
<1>12. Is(M[2][0], m * l, l * l) /\ Is(M[2][1], n * l, l * l) /\ Is(M[2][2], o * l, l * l)
  <2>1. Is(M[2][0], m, l) /\ Is(M[2][1], n, l) /\ Is(M[2][2], o, l)
    BY <1>7 DEF Parts
  <2> QED
    BY <1>3, <2>1, IsScaled, Zenon
<1>13. m * l = l * m /\ n * l = l * n /\ o * l = l * o
  BY <1>3, <1>11
<1>14. M[2][0] = v[0] /\ M[2][1] = v[1] /\ M[2][2] = v[2]
  BY <1>10, <1>12, <1>13, IsEqual DEF Parts
<1> QED
  BY <1>4, <1>9, <1>14, LaneSet DEF Handed, Crossed

\* The determinant of a product of two rows with two columns (Lagrange).
Across(x, y, z, f, g, h, a, b, c, i, j, k) ==
  (x * a + y * b + z * c) * (f * i + g * j + h * k) - (x * i + y * j + z * k) * (f * a + g * b + h * c)
    = CrossZ(x, y, z, f, g, h) * (a * j - i * b) + CrossX(x, y, z, f, g, h) * (b * k - j * c)
        + CrossY(x, y, z, f, g, h) * (c * i - k * a)

\* A coordinate of the vector product of two combinations of three vectors.
LEMMA AcrossInts ==
    ASSUME NEW x \in Int, NEW y \in Int, NEW z \in Int, NEW f \in Int, NEW g \in Int, NEW h \in Int,
           NEW a \in Int, NEW b \in Int, NEW c \in Int, NEW i \in Int, NEW j \in Int, NEW k \in Int
    PROVE  Across(x, y, z, f, g, h, a, b, c, i, j, k)
  BY DEF Across, CrossX, CrossY, CrossZ

\* Vectors over one denominator whose product is another one.
LEMMA CrossedInts ==
    ASSUME NEW a, NEW b, NEW c, Crossed(c, a, b), NEW x, NEW y, NEW z, NEW f, NEW g, NEW h, NEW m, NEW n, NEW o,
           NEW k, Parts(a, x, y, z, k), Parts(b, f, g, h, k), Parts(c, m, n, o, k)
    PROVE  y * h - z * g = k * m /\ z * f - x * h = k * n /\ x * g - y * f = k * o
<1>1. PICK p, q, r, s : /\ p = CrossX(x, y, z, f, g, h) /\ q = CrossY(x, y, z, f, g, h)
                        /\ r = CrossZ(x, y, z, f, g, h) /\ s = k * k
  OBVIOUS
<1>2. Parts(c, p, q, r, s)
  BY <1>1, CrossParts DEF Crossed
<1>3. /\ Is(c[0], p, s) /\ Is(c[1], q, s) /\ Is(c[2], r, s)
      /\ Is(c[0], m, k) /\ Is(c[1], n, k) /\ Is(c[2], o, k)
  BY <1>2 DEF Parts
<1>4. p * k = m * s /\ q * k = n * s /\ r * k = o * s
  BY <1>3, IsCross
<1>5. p \in Int /\ q \in Int /\ r \in Int /\ m \in Int /\ n \in Int /\ o \in Int /\ k \in Int /\ k # 0
  BY <1>3, IsInts
<1>6. ASSUME NEW i \in Int, NEW j \in Int, i * k = j * s PROVE i = k * j
  <2>1. k * i = k * (k * j)
    BY <1>1, <1>5, <1>6
  <2>2. k * j \in Int
    BY <1>5
  <2> QED
    BY <1>5, <2>1, <2>2
<1>7. p = k * m /\ q = k * n /\ r = k * o
  BY <1>4, <1>5, <1>6
<1> QED
  BY <1>1, <1>7 DEF CrossX, CrossY, CrossZ

\* A common factor.
LEMMA Gathered ==
    ASSUME NEW p \in Int, NEW q \in Int, NEW r \in Int, NEW k \in Int,
           NEW i \in Int, NEW j \in Int, NEW l \in Int
    PROVE  r * (k * l) + p * (k * i) + q * (k * j) = (p * i + q * j + r * l) * k
  OBVIOUS

\* A right-handed turn takes vector products along.
LEMMA TurnedCross ==
    ASSUME NEW R, Turning(R), Handed(R), NEW a, NEW b, NEW c, Three(a), Three(b), Crossed(c, a, b),
           NEW v, NEW w, NEW u, \A i \in Axis : v[i] = Along(R, a, i) /\ w[i] = Along(R, b, i) /\ u[i] = Along(R, c, i)
    PROVE  Crossed(u, v, w)
<1>1. PICK x, y, z, d \in Int : d > 0 /\ Parts(a, x, y, z, d)
  BY ThreeParts
<1>2. PICK f, g, h, e \in Int : e > 0 /\ Parts(b, f, g, h, e)
  BY ThreeParts
<1>3. R \in M4
  BY DEF Turning, Linear, Affine
<1>4. PICK k \in Int, n \in IntMat : k > 0 /\ \A j, i \in Lane : Is(R[j][i], n[j][i], k)
  BY <1>3, CommonM4 DEF IntMat
<1>5. PICK A, B, C : A = n[0] /\ B = n[1] /\ C = n[2]
  OBVIOUS
<1>6. /\ A[0] \in Int /\ A[1] \in Int /\ A[2] \in Int /\ B[0] \in Int /\ B[1] \in Int /\ B[2] \in Int
      /\ C[0] \in Int /\ C[1] \in Int /\ C[2] \in Int
  BY <1>5, IntMatAt, LaneSet
<1>7. Parts(R[0], A[0], A[1], A[2], k) /\ Parts(R[1], B[0], B[1], B[2], k) /\ Parts(R[2], C[0], C[1], C[2], k)
  BY <1>4, <1>5, LaneSet DEF Parts
<1>8. Crossed(R[2], R[0], R[1]) /\ Crossed(R[0], R[1], R[2]) /\ Crossed(R[1], R[2], R[0])
  BY TurningRows, CrossBack, CrossOrder DEF Handed, Upright
<1>9. /\ A[1] * B[2] - A[2] * B[1] = k * C[0] /\ A[2] * B[0] - A[0] * B[2] = k * C[1]
      /\ A[0] * B[1] - A[1] * B[0] = k * C[2]
  BY <1>7, <1>8, CrossedInts
<1>10. /\ B[1] * C[2] - B[2] * C[1] = k * A[0] /\ B[2] * C[0] - B[0] * C[2] = k * A[1]
       /\ B[0] * C[1] - B[1] * C[0] = k * A[2]
  BY <1>7, <1>8, CrossedInts
<1>11. /\ C[1] * A[2] - C[2] * A[1] = k * B[0] /\ C[2] * A[0] - C[0] * A[2] = k * B[1]
       /\ C[0] * A[1] - C[1] * A[0] = k * B[2]
  BY <1>7, <1>8, CrossedInts
<1>12. PICK p, q, r, s : /\ p = CrossX(x, y, z, f, g, h) /\ q = CrossY(x, y, z, f, g, h)
                         /\ r = CrossZ(x, y, z, f, g, h) /\ s = d * e
  OBVIOUS
<1>13. Parts(c, p, q, r, s)
  BY <1>1, <1>2, <1>12, CrossParts DEF Crossed
<1>14. p \in Int /\ q \in Int /\ r \in Int /\ s \in Int /\ s # 0
  BY <1>13, PartsInts
<1>15. ASSUME NEW i \in Axis
       PROVE  /\ Is(v[i], x * A[i] + y * B[i] + z * C[i], d * k) /\ Is(w[i], f * A[i] + g * B[i] + h * C[i], e * k)
              /\ Is(u[i], p * A[i] + q * B[i] + r * C[i], s * k)
  <2>1. Is(R[0][i], A[i], k) /\ Is(R[1][i], B[i], k) /\ Is(R[2][i], C[i], k)
    BY <1>4, <1>5, <1>15, LaneSet
  <2>2. Is(Along(R, a, i), x * A[i] + y * B[i] + z * C[i], d * k)
    BY <1>1, <2>1, AlongParts
  <2>3. Is(Along(R, b, i), f * A[i] + g * B[i] + h * C[i], e * k)
    BY <1>2, <2>1, AlongParts
  <2>4. Is(Along(R, c, i), p * A[i] + q * B[i] + r * C[i], s * k)
    BY <1>13, <2>1, AlongParts
  <2> QED
    BY <1>15, <2>2, <2>3, <2>4
<1>16. PICK v0, v1, v2, w0, w1, w2 :
         /\ v0 = x * A[0] + y * B[0] + z * C[0] /\ v1 = x * A[1] + y * B[1] + z * C[1]
         /\ v2 = x * A[2] + y * B[2] + z * C[2]
         /\ w0 = f * A[0] + g * B[0] + h * C[0] /\ w1 = f * A[1] + g * B[1] + h * C[1]
         /\ w2 = f * A[2] + g * B[2] + h * C[2]
  OBVIOUS
<1>17. PICK dk, ek : dk = d * k /\ ek = e * k
  OBVIOUS
<1>18. Parts(v, v0, v1, v2, dk) /\ Parts(w, w0, w1, w2, ek)
  BY <1>15, <1>16, <1>17, LaneSet DEF Parts
<1>19. PICK t : t = Easy_vector_cross(v, w)
  OBVIOUS
<1>20. Parts(t, v1 * w2 - v2 * w1, v2 * w0 - v0 * w2, v0 * w1 - v1 * w0, dk * ek)
  BY <1>18, <1>19, CrossParts DEF CrossX, CrossY, CrossZ
<1>21. /\ v1 * w2 - v2 * w1 = r * (A[1] * B[2] - A[2] * B[1]) + p * (B[1] * C[2] - B[2] * C[1])
                                + q * (C[1] * A[2] - C[2] * A[1])
       /\ v2 * w0 - v0 * w2 = r * (A[2] * B[0] - A[0] * B[2]) + p * (B[2] * C[0] - B[0] * C[2])
                                + q * (C[2] * A[0] - C[0] * A[2])
       /\ v0 * w1 - v1 * w0 = r * (A[0] * B[1] - A[1] * B[0]) + p * (B[0] * C[1] - B[1] * C[0])
                                + q * (C[0] * A[1] - C[1] * A[0])
  <2>1. /\ Across(x, y, z, f, g, h, A[1], B[1], C[1], A[2], B[2], C[2])
        /\ Across(x, y, z, f, g, h, A[2], B[2], C[2], A[0], B[0], C[0])
        /\ Across(x, y, z, f, g, h, A[0], B[0], C[0], A[1], B[1], C[1])
    BY <1>1, <1>2, <1>6, AcrossInts
  <2> QED
    BY <1>12, <1>16, <2>1 DEF Across
<1>22. PICK i0, i1, i2 : /\ i0 = p * A[0] + q * B[0] + r * C[0] /\ i1 = p * A[1] + q * B[1] + r * C[1]
                         /\ i2 = p * A[2] + q * B[2] + r * C[2]
  OBVIOUS
<1>23. i0 \in Int /\ i1 \in Int /\ i2 \in Int
  BY <1>6, <1>14, <1>22
<1>24. /\ v1 * w2 - v2 * w1 = i0 * k /\ v2 * w0 - v0 * w2 = i1 * k /\ v0 * w1 - v1 * w0 = i2 * k
  <2>1. /\ v1 * w2 - v2 * w1 = r * (k * C[0]) + p * (k * A[0]) + q * (k * B[0])
        /\ v2 * w0 - v0 * w2 = r * (k * C[1]) + p * (k * A[1]) + q * (k * B[1])
        /\ v0 * w1 - v1 * w0 = r * (k * C[2]) + p * (k * A[2]) + q * (k * B[2])
    BY <1>9, <1>10, <1>11, <1>21
  <2>2. /\ r * (k * C[0]) + p * (k * A[0]) + q * (k * B[0]) = (p * A[0] + q * B[0] + r * C[0]) * k
        /\ r * (k * C[1]) + p * (k * A[1]) + q * (k * B[1]) = (p * A[1] + q * B[1] + r * C[1]) * k
        /\ r * (k * C[2]) + p * (k * A[2]) + q * (k * B[2]) = (p * A[2] + q * B[2] + r * C[2]) * k
    <3>1. PICK a0, a1, a2, b0, b1, b2, c0, c1, c2 \in Int :
            /\ a0 = A[0] /\ a1 = A[1] /\ a2 = A[2] /\ b0 = B[0] /\ b1 = B[1] /\ b2 = B[2]
            /\ c0 = C[0] /\ c1 = C[1] /\ c2 = C[2]
      BY <1>6
    <3>2. r * (k * c0) + p * (k * a0) + q * (k * b0) = (p * a0 + q * b0 + r * c0) * k
      BY <1>4, <1>14, Gathered
    <3>3. r * (k * c1) + p * (k * a1) + q * (k * b1) = (p * a1 + q * b1 + r * c1) * k
      BY <1>4, <1>14, Gathered
    <3>4. r * (k * c2) + p * (k * a2) + q * (k * b2) = (p * a2 + q * b2 + r * c2) * k
      BY <1>4, <1>14, Gathered
    <3> QED
      BY <3>1, <3>2, <3>3, <3>4
  <2> QED
    BY <1>22, <2>1, <2>2
<1>25. dk * ek = (s * k) * k
  BY <1>1, <1>2, <1>4, <1>12, <1>17
<1>26. Is(t[0], i0 * k, (s * k) * k) /\ Is(t[1], i1 * k, (s * k) * k) /\ Is(t[2], i2 * k, (s * k) * k)
  BY <1>20, <1>24, <1>25 DEF Parts
<1>27. PICK sk : sk = s * k
  OBVIOUS
<1>28. Is(u[0], i0, sk) /\ Is(u[1], i1, sk) /\ Is(u[2], i2, sk)
  BY <1>15, <1>22, <1>27, LaneSet
<1>29. Is(u[0], i0 * k, sk * k) /\ Is(u[1], i1 * k, sk * k) /\ Is(u[2], i2 * k, sk * k)
  <2>1. k # 0
    BY <1>4
  <2> QED
    BY <1>28, <2>1, IsScaled, Zenon
<1>30. u[0] = t[0] /\ u[1] = t[1] /\ u[2] = t[2]
  BY <1>26, <1>27, <1>29, IsEqual
<1> QED
  BY <1>19, <1>30, LaneSet DEF Crossed

\* The product of right-handed turns is right-handed.
LEMMA HandedProduct ==
    ASSUME NEW x, Affine(x), Handed(x), NEW R, Turning(R), Handed(R)
    PROVE  Handed(Mul(x, R))
<1>1. x \in M4 /\ R \in M4 /\ x[0][3] = Zero /\ x[1][3] = Zero /\ x[2][3] = Zero
  BY LaneSet DEF Turning, Linear, Affine
<1>2. (\A j, i \in Lane : x[j][i] \in Num) /\ \A j, i \in Lane : R[j][i] \in Num
  BY <1>1, M4Mat
<1>3. ASSUME NEW j \in Axis, NEW i \in Axis PROVE Mul(x, R)[j][i] = Along(R, x[j], i)
  <2>1. j \in Lane /\ i \in Lane /\ x[j][3] = Zero /\ R[3][i] \in Num
    BY <1>1, <1>2, <1>3, LaneSet
  <2>2. Mul(x, R)[j][i] = Plus4(Times(x[j][0], R[0][i]), Times(x[j][1], R[1][i]),
                                Times(x[j][2], R[2][i]), Times(x[j][3], R[3][i]))
    BY <2>1 DEF Mul
  <2>3. Times(x[j][3], R[3][i]) = Zero
    BY <2>1, Neutral
  <2>4. Mul(x, R)[j][i] = Plus(Along(R, x[j], i), Zero)
    BY <2>2, <2>3 DEF Plus4, Along
  <2>5. Three(x[j])
    BY <1>2, <2>1, LaneSet DEF Three
  <2>6. Along(R, x[j], i) \in Num
    BY <1>1, <1>3, <2>5, AlongNum
  <2> QED
    BY <2>4, <2>6, Neutral
<1>4. PICK u, v, w : u = Mul(x, R)[2] /\ v = Mul(x, R)[0] /\ w = Mul(x, R)[1]
  OBVIOUS
<1>5. \A i \in Axis : v[i] = Along(R, x[0], i) /\ w[i] = Along(R, x[1], i) /\ u[i] = Along(R, x[2], i)
  BY <1>3, <1>4, LaneSet
<1>6. Three(x[0]) /\ Three(x[1]) /\ Crossed(x[2], x[0], x[1])
  BY <1>2, LaneSet DEF Three, Handed
<1>7. Crossed(u, v, w)
  BY <1>5, <1>6, TurnedCross
<1> QED
  BY <1>4, <1>7 DEF Handed

\* Only the upper left block counts.
LEMMA HandedBlock ==
    ASSUME NEW m, NEW R, Block(m, R), Handed(R)
    PROVE  Handed(m)
<1>1. Crossed(R[2], R[0], R[1])
  BY DEF Handed
<1>2. /\ m[0][0] = R[0][0] /\ m[0][1] = R[0][1] /\ m[0][2] = R[0][2]
      /\ m[1][0] = R[1][0] /\ m[1][1] = R[1][1] /\ m[1][2] = R[1][2]
      /\ m[2][0] = R[2][0] /\ m[2][1] = R[2][1] /\ m[2][2] = R[2][2]
  BY LaneSet DEF Block
<1>3. /\ R[2][0] = Minus(Times(R[0][1], R[1][2]), Times(R[0][2], R[1][1]))
      /\ R[2][1] = Minus(Times(R[0][2], R[1][0]), Times(R[0][0], R[1][2]))
      /\ R[2][2] = Minus(Times(R[0][0], R[1][1]), Times(R[0][1], R[1][0]))
  BY <1>1, CrossIs, LaneSet DEF Crossed
<1>4. PICK c : c = Easy_vector_cross(m[0], m[1])
  OBVIOUS
<1>5. m[2][0] = c[0] /\ m[2][1] = c[1] /\ m[2][2] = c[2]
  BY <1>2, <1>3, <1>4, CrossIs
<1> QED
  BY <1>4, <1>5, LaneSet DEF Handed, Crossed

\* The rows of a rigid motion have length one.
LEMMA FrameRows ==
    ASSUME NEW m, IsFrame(m)
    PROVE  \A j \in Axis : Dot(m[j], m[j]) = One
<1>1. PICK R : Turning(R) /\ Block(m, R)
  BY DEF IsFrame
<1>2. Upright(R[0], R[1], R[2])
  BY <1>1, TurningRows
<1>3. ASSUME NEW j \in Axis PROVE Dot(m[j], m[j]) = One
  <2>1. m[j][0] = R[j][0] /\ m[j][1] = R[j][1] /\ m[j][2] = R[j][2]
    BY <1>1, <1>3, LaneSet DEF Block
  <2>2. Dot(m[j], m[j]) = Dot(R[j], R[j])
    BY <2>1 DEF Dot, Easy_vector_dot
  <2> QED
    BY <1>2, <1>3, <2>2, LaneSet DEF Upright
<1> QED
  BY <1>3

\* A camera is right-handed.
LEMMA CameraHanded ==
    ASSUME NEW pos \in V3, NEW tgt \in V3, NEW C, C = CameraAxes(pos, tgt), Turning(C), Handed(C),
           NEW half, IsHalf(half)
    PROVE  Handed(Easy_matrix_camera_roll(pos, tgt, half))
<1>1. PICK r, v : /\ IsUnit(r) /\ v \in V3
                  /\ Easy_matrix_camera_roll(pos, tgt, half)
                       = Easy_matrix_translate_Internal(Mul(C, RotationOf(r)), v)
  BY CameraIs
<1>2. PICK R, m : R = RotationOf(r) /\ m = Mul(C, R)
  OBVIOUS
<1>3. Turning(R) /\ Handed(R)
  BY <1>1, <1>2, UnitTurning, RotationHanded
<1>4. Handed(m) /\ Turning(m)
  BY <1>2, <1>3, HandedProduct, MulTurning DEF Turning, Linear
<1>5. Affine(m) /\ Three(v)
  BY <1>1, <1>4, LaneSet DEF Three, V3, Turning, Linear
<1> QED
  BY <1>1, <1>2, <1>4, <1>5, TranslatedFrame, HandedBlock

\* The vector along an axis.
LEMMA OnIs ==
    ASSUME NEW k \in Axis, NEW d \in Num
    PROVE  On(k, d) \in V3 /\ Three(On(k, d)) /\ \A i \in Axis : On(k, d)[i] = IF i = k THEN d ELSE Zero
  BY Constants, LaneSet DEF On, V3, Three

\* Where a matrix takes it.
LEMMA OnTaken ==
    ASSUME NEW m, Affine(m), NEW k \in Axis, NEW d \in Num, NEW i \in Axis
    PROVE  Image(m, On(k, d), i) = Plus(Times(m[k][i], d), m[3][i])
<1>1. PICK a, b, c, e : a = m[0][i] /\ b = m[1][i] /\ c = m[2][i] /\ e = m[3][i]
  OBVIOUS
<1>2. a \in Num /\ b \in Num /\ c \in Num /\ e \in Num
  BY <1>1, AffineNum, LaneSet
<1>3. PICK v : v = On(k, d)
  OBVIOUS
<1>4. \A j \in Axis : v[j] = IF j = k THEN d ELSE Zero
  BY <1>3, OnIs
<1>5. Image(m, v, i) = Plus(Plus(Plus(Times(a, v[0]), Times(b, v[1])), Times(c, v[2])), e)
  BY <1>1 DEF Image, Plus4, Plus3
<1>6. /\ Times(a, Zero) = Zero /\ Times(b, Zero) = Zero /\ Times(c, Zero) = Zero
      /\ Times(a, d) \in Num /\ Times(b, d) \in Num /\ Times(c, d) \in Num
  BY <1>2, Neutral, NumClosed
<1>7. Plus(Plus(Times(a, v[0]), Times(b, v[1])), Times(c, v[2])) = Times(m[k][i], d)
  <2>1. CASE k = 0
    BY <1>1, <1>4, <1>6, <2>1, Neutral, Constants, LaneSet
  <2>2. CASE k = 1
    BY <1>1, <1>4, <1>6, <2>2, Neutral, Constants, LaneSet
  <2>3. CASE k = 2
    BY <1>1, <1>4, <1>6, <2>3, Neutral, Constants, LaneSet
  <2> QED
    BY <2>1, <2>2, <2>3, LaneSet
<1> QED
  BY <1>1, <1>3, <1>5, <1>7

\* Where one takes it that does not move the origin.
LEMMA OnTurned ==
    ASSUME NEW m, Linear(m), NEW k \in Axis, NEW d \in Num
    PROVE  \A i \in Axis : Image(m, On(k, d), i) = Times(m[k][i], d)
<1>1. ASSUME NEW i \in Axis PROVE Image(m, On(k, d), i) = Times(m[k][i], d)
  <2>1. Image(m, On(k, d), i) = Plus(Times(m[k][i], d), m[3][i])
    BY <1>1, OnTaken DEF Linear
  <2>2. m[3][i] = Zero /\ m[k][i] \in Num
    BY <1>1, AffineNum, LaneSet DEF Linear
  <2> QED
    BY <2>1, <2>2, NumClosed, Neutral
<1> QED
  BY <1>1

\* Matrices that take all points to the same places are the same.
LEMMA SameMatrix ==
    ASSUME NEW m, Affine(m), NEW n, Affine(n), \A p \in V3 : Taken(m, p) = Taken(n, p)
    PROVE  m = n
<1>1. m \in M4 /\ n \in M4 /\ (\A j, i \in Lane : m[j][i] \in Num) /\ \A j, i \in Lane : n[j][i] \in Num
  BY AffineNum
<1>2. ASSUME NEW k \in Axis, NEW d \in Num, NEW i \in Axis
      PROVE  Plus(Times(m[k][i], d), m[3][i]) = Plus(Times(n[k][i], d), n[3][i])
  <2>1. Taken(m, On(k, d)) = Taken(n, On(k, d)) /\ Three(On(k, d))
    BY <1>2, OnIs
  <2>2. Taken(m, On(k, d))[i] = Image(m, On(k, d), i) /\ Taken(n, On(k, d))[i] = Image(n, On(k, d), i)
    BY <1>1, <1>2, <2>1, TakenAt
  <2> QED
    BY <1>2, <2>1, <2>2, OnTaken
<1>3. ASSUME NEW i \in Axis PROVE m[3][i] = n[3][i]
  <2>1. Plus(Times(m[0][i], Zero), m[3][i]) = Plus(Times(n[0][i], Zero), n[3][i])
    BY <1>2, <1>3, Constants, LaneSet
  <2>2. m[0][i] \in Num /\ n[0][i] \in Num /\ m[3][i] \in Num /\ n[3][i] \in Num
    BY <1>1, <1>3, LaneSet
  <2> QED
    BY <2>1, <2>2, Neutral
<1>4. ASSUME NEW k \in Axis, NEW i \in Axis PROVE m[k][i] = n[k][i]
  <2>1. Plus(Times(m[k][i], One), m[3][i]) = Plus(Times(n[k][i], One), n[3][i])
    BY <1>2, <1>4, Constants
  <2>2. m[k][i] \in Num /\ n[k][i] \in Num /\ m[3][i] \in Num /\ m[3][i] = n[3][i]
    BY <1>1, <1>3, <1>4, LaneSet
  <2>3. Plus(m[k][i], m[3][i]) = Plus(n[k][i], m[3][i])
    BY <2>1, <2>2, Neutral
  <2> QED
    BY <2>2, <2>3, NegPlus
<1>5. ASSUME NEW j \in Lane, NEW i \in Lane PROVE m[j][i] = n[j][i]
  <2>1. CASE i = 3
    BY <1>5, <2>1 DEF Affine
  <2>2. CASE i # 3
    BY <1>3, <1>4, <1>5, <2>2, LaneSet
  <2> QED
    BY <2>1, <2>2
<1> QED
  BY <1>1, <1>5, M4Mat, SameMat

\* The turn of a camera about the y axis leaves that axis where it is.
LEMMA RollAxis ==
    ASSUME NEW r, IsUnit(r), r[0] = Zero, r[2] = Zero, NEW R, R = RotationOf(r)
    PROVE  R[1][0] = Zero /\ R[1][1] = One /\ R[1][2] = Zero
<1>1. PICK s : \A l : l = Length2(r) => s = IF Less(l, Q(1, 100000)) THEN One ELSE Over(Int2Q(2), l)
  OBVIOUS
<1>2. s \in Num
  <2>1. s = IF Less(One, Q(1, 100000)) THEN One ELSE Over(Int2Q(2), One)
    BY <1>1 DEF IsUnit
  <2> QED
    BY <2>1, Constants, OverOne
<1>3. PICK a, b : a = r[1] /\ b = r[3]
  OBVIOUS
<1>4. a \in Num /\ b \in Num
  BY <1>3, LaneSet DEF IsUnit, V4
<1>5. PICK e : e = Ps(Minus(Times(Zero, Times(a, s)), Times(b, Times(Zero, s))),
                      Minus(One, Plus(Times(Zero, Times(Zero, s)), Times(Zero, Times(Zero, s)))),
                      Plus(Times(a, Times(Zero, s)), Times(b, Times(Zero, s))), Zero)
  OBVIOUS
<1>6. R[1] = e
  BY <1>1, <1>3, <1>5, PsAt DEF RotationOf, Rows, Length2
<1>7. /\ Times(Zero, s) = Zero /\ Times(a, Zero) = Zero /\ Times(b, Zero) = Zero /\ Times(Zero, Zero) = Zero
      /\ Times(Zero, Times(a, s)) = Zero
      /\ Minus(Zero, Zero) = Zero /\ Plus(Zero, Zero) = Zero /\ Minus(One, Zero) = One
  BY <1>2, <1>4, Constants, NumClosed, Neutral
<1> QED
  BY <1>5, <1>6, <1>7, PsAt

\* The difference of two points.
LEMMA SubIs ==
    ASSUME NEW p \in V3, NEW q \in V3, NEW d, d = Easy_vector_sub(p, q)
    PROVE  d \in V3 /\ Three(d) /\ \A i \in Axis : d[i] = Minus(p[i], q[i])
<1>1. d = [i \in Axis |-> Minus(p[i], q[i])]
  BY DEF Easy_vector_sub, XYZ
<1>2. \A i \in Axis : Minus(p[i], q[i]) \in Num
  BY NumClosed DEF V3
<1>3. d \in V3 /\ \A i \in Axis : d[i] = Minus(p[i], q[i])
  BY <1>1, <1>2 DEF V3
<1> QED
  BY <1>3, ThreeV3

\* The axes of a camera take the way from its position to its target onto the
\* y axis, and its roll leaves it there.
LEMMA CameraSight ==
    ASSUME NEW d \in V3, Rooted(d), NEW y, y = Unit(d), NEW x, NEW z, Upright(x, y, z),
           NEW C, C = Columns(x, y, z), Linear(C), NEW R, Linear(R), R[1][0] = Zero, R[1][1] = One, R[1][2] = Zero
    PROVE  /\ Taken(R, Taken(C, d)) = On(1, SqrtQ(Dot(d, d)))
           /\ Taken(R, Taken(C, On(0, Zero))) = On(0, Zero)
<1>1. PICK r : r = SqrtQ(Dot(d, d))
  OBVIOUS
<1>2. Three(d) /\ Three(x) /\ Three(y) /\ Three(z)
  BY ThreeV3 DEF Upright
<1>3. /\ r \in Num /\ Dot(y, d) = r /\ \A w : Three(w) /\ Dot(y, w) = Zero => Dot(d, w) = Zero
  BY <1>1, <1>2, UnitLanes, SightLength
<1>4. Dot(x, d) = Zero /\ Dot(z, d) = Zero
  <2>1. Dot(y, x) = Zero /\ Dot(y, z) = Zero
    BY <1>2, DotCommutes DEF Upright
  <2>2. Dot(d, x) = Zero /\ Dot(d, z) = Zero
    BY <1>2, <1>3, <2>1
  <2> QED
    BY <1>2, <2>2, DotCommutes
<1>5. Image(C, d, 0) = Zero /\ Image(C, d, 1) = r /\ Image(C, d, 2) = Zero
  BY <1>2, <1>3, <1>4, ColumnsTake
<1>6. On(1, r) \in V3 /\ \A i \in Axis : On(1, r)[i] = IF i = 1 THEN r ELSE Zero
  BY <1>3, OnIs, LaneSet
<1>7. On(0, Zero) \in V3 /\ \A i \in Axis : On(0, Zero)[i] = Zero
  BY Constants, OnIs, LaneSet
<1>8. C \in M4 /\ R \in M4
  BY DEF Affine, Linear
<1>9. Taken(C, d) = On(1, r)
  <2>1. \A i \in Axis : Image(C, d, i) = On(1, r)[i]
    BY <1>5, <1>6, LaneSet
  <2> QED
    BY <1>6, <1>8, <2>1, SameTaken
<1>10. Taken(R, On(1, r)) = On(1, r)
  <2>1. \A i \in Axis : Image(R, On(1, r), i) = Times(R[1][i], r)
    BY <1>3, OnTurned, LaneSet
  <2>2. \A i \in Axis : Image(R, On(1, r), i) = On(1, r)[i]
    BY <1>3, <1>6, <2>1, Neutral, LaneSet
  <2> QED
    BY <1>6, <1>8, <2>2, SameTaken
<1>11. ASSUME NEW m, Linear(m) PROVE Taken(m, On(0, Zero)) = On(0, Zero)
  <2>1. \A i \in Axis : Image(m, On(0, Zero), i) = Times(m[0][i], Zero)
    BY <1>11, Constants, OnTurned, LaneSet
  <2>2. m \in M4 /\ \A i \in Axis : m[0][i] \in Num
    BY <1>11, AffineNum, LaneSet DEF Linear
  <2>3. \A i \in Axis : Image(m, On(0, Zero), i) = On(0, Zero)[i]
    BY <1>7, <2>1, <2>2, Neutral
  <2> QED
    BY <1>7, <2>2, <2>3, SameTaken
<1> QED
  BY <1>1, <1>9, <1>10, <1>11

\* A camera takes its position to the origin and its target onto the y axis.
LEMMA CameraAims ==
    ASSUME NEW pos \in V3, NEW tgt \in V3, Rooted(Easy_vector_sub(tgt, pos)),
           NEW dir, dir = Unit(Easy_vector_sub(tgt, pos)), IsNumber(Side(dir[0], dir[1])),
           NEW half, IsHalf(half), NEW n, n = Easy_matrix_camera_roll(pos, tgt, half)
    PROVE  Taken(n, pos) = On(0, Zero) /\ Taken(n, tgt) = On(1, Distance(pos, tgt))
<1>1. PICK C : C = CameraAxes(pos, tgt)
  OBVIOUS
<1>2. Turning(C) /\ Linear(C)
  BY <1>1, CameraTurning DEF Turning
<1>3. PICK d : d = Easy_vector_sub(tgt, pos)
  OBVIOUS
<1>4. PICK x, z : C = Columns(x, dir, z) /\ Upright(x, dir, z)
  BY <1>1, CameraAxesAre
<1>5. PICK r, v : /\ IsUnit(r) /\ r[0] = Zero /\ r[2] = Zero
                  /\ v \in V3 /\ \A i \in Axis : v[i] = Neg(pos[i])
                  /\ n = Easy_matrix_translate_Internal(Mul(C, RotationOf(r)), v)
  BY <1>1, <1>2, CameraIs
<1>6. PICK R, m : R = RotationOf(r) /\ m = Mul(C, R)
  OBVIOUS
<1>7. Linear(R) /\ R[1][0] = Zero /\ R[1][1] = One /\ R[1][2] = Zero
  BY <1>5, <1>6, UnitTurning, RollAxis DEF Turning
<1>8. Affine(C) /\ Affine(R) /\ Affine(m)
  BY <1>2, <1>6, <1>7, MulAffine DEF Linear
<1>9. d \in V3 /\ \A i \in Axis : d[i] = Minus(tgt[i], pos[i])
  BY <1>3, SubIs
<1>10. ASSUME NEW p \in V3 PROVE Taken(n, p) = Taken(R, Taken(C, Add3(p, v)))
  <2>1. Taken(n, p) = Taken(m, Add3(p, v))
    BY <1>5, <1>6, <1>8, <1>10, MovedBefore
  <2>2. Three(Add3(p, v))
    BY <1>5, <1>10, Add3At, ThreeV3
  <2> QED
    BY <1>6, <1>8, <2>1, <2>2, TakenProduct
<1>11. Add3(pos, v) = On(0, Zero)
  <2>1. Add3(pos, v) \in V3 /\ \A i \in Axis : Add3(pos, v)[i] = Minus(pos[i], pos[i])
    BY <1>5, Add3At DEF Minus
  <2>2. \A i \in Axis : Add3(pos, v)[i] = Zero
    BY <2>1, Neutral DEF V3
  <2>3. On(0, Zero) \in V3 /\ \A i \in Axis : On(0, Zero)[i] = Zero
    BY Constants, OnIs, LaneSet
  <2> QED
    BY <2>1, <2>2, <2>3 DEF V3
<1>12. Add3(tgt, v) = d
  <2>1. Add3(tgt, v) \in V3 /\ \A i \in Axis : Add3(tgt, v)[i] = Minus(tgt[i], pos[i])
    BY <1>5, Add3At DEF Minus
  <2> QED
    BY <1>9, <2>1 DEF V3
<1>13. /\ Taken(R, Taken(C, d)) = On(1, SqrtQ(Dot(d, d)))
       /\ Taken(R, Taken(C, On(0, Zero))) = On(0, Zero)
  BY <1>2, <1>3, <1>4, <1>7, <1>9, CameraSight
<1>14. Distance(pos, tgt) = SqrtQ(Dot(d, d))
  BY <1>3 DEF Distance, Dot
<1> QED
  BY <1>10, <1>11, <1>12, <1>13, <1>14

\* The way back is the way there, negated.
LEMMA MinusBack ==
    ASSUME NEW a \in Num, NEW b \in Num
    PROVE  Minus(b, a) = Neg(Minus(a, b))
<1>1. PICK x, y, d \in Int : d > 0 /\ Is(a, x, d) /\ Is(b, y, d)
  BY Common2
<1>2. Is(Minus(b, a), y - x, d) /\ Is(Minus(a, b), x - y, d)
  BY <1>1, MinusSame
<1>3. Is(Neg(Minus(a, b)), -(x - y), d)
  BY <1>2, NegIs
<1>4. -(x - y) = y - x
  OBVIOUS
<1> QED
  BY <1>2, <1>3, <1>4, IsEqual

\* So are its parts along others, and it is as long.
LEMMA DotBack ==
    ASSUME NEW e, Three(e), NEW w, \A i \in Axis : w[i] = Neg(e[i])
    PROVE  /\ Three(w) /\ Dot(w, w) = Dot(e, e)
           /\ \A x : Three(x) => Dot(x, w) = Neg(Dot(x, e))
<1>1. PICK x, y, z, d \in Int : d > 0 /\ Parts(e, x, y, z, d)
  BY ThreeParts
<1>2. Is(w[0], -x, d) /\ Is(w[1], -y, d) /\ Is(w[2], -z, d)
  BY <1>1, NegIs, LaneSet DEF Parts
<1>3. Parts(w, -x, -y, -z, d)
  BY <1>2 DEF Parts
<1>4. Three(w)
  BY NumClosed, LaneSet, Constants DEF Three
<1>5. Dot(w, w) = Dot(e, e)
  <2>1. Is(Dot(e, e), x * x + y * y + z * z, d * d)
    BY <1>1, DotParts
  <2>2. Is(Dot(w, w), (-x) * (-x) + (-y) * (-y) + (-z) * (-z), d * d)
    BY <1>3, DotParts
  <2>3. (-x) * (-x) + (-y) * (-y) + (-z) * (-z) = x * x + y * y + z * z
    OBVIOUS
  <2> QED
    BY <2>1, <2>2, <2>3, IsEqual
<1>6. ASSUME NEW u, Three(u) PROVE Dot(u, w) = Neg(Dot(u, e))
  <2>1. PICK f, g, h, k \in Int : k > 0 /\ Parts(u, f, g, h, k)
    BY <1>6, ThreeParts
  <2>2. Is(Dot(u, e), f * x + g * y + h * z, k * d)
    BY <1>1, <2>1, DotParts
  <2>3. Is(Dot(u, w), f * (-x) + g * (-y) + h * (-z), k * d)
    BY <1>3, <2>1, DotParts
  <2>4. Is(Neg(Dot(u, e)), -(f * x + g * y + h * z), k * d)
    BY <2>2, NegIs
  <2>5. f * (-x) + g * (-y) + h * (-z) = -(f * x + g * y + h * z)
    OBVIOUS
  <2> QED
    BY <2>3, <2>4, <2>5, IsEqual
<1> QED
  BY <1>4, <1>5, <1>6

\* A view takes the way to its target onto the negative z axis.
LEMMA ViewAims ==
    ASSUME NEW from \in V3, NEW to \in V3, Rooted(Easy_vector_sub(from, to)),
           NEW dir, dir = Unit(Easy_vector_sub(from, to)), IsNumber(Side(dir[0], dir[2])),
           Side(dir[0], dir[2]) # Zero,
           NEW src, src = Easy_vector_copy(from, One), NEW tgt, tgt = Easy_vector_copy(to, One),
           NEW n, n = Easy_ViewTo(src, tgt)
    PROVE  Taken(n, Easy_vector_sub(to, from)) = On(2, Neg(Distance(from, to)))
<1>1. PICK e, w : e = Easy_vector_sub(from, to) /\ w = Easy_vector_sub(to, from)
  OBVIOUS
<1>2. Linear(n) /\ n \in M4
  BY ViewTurning DEF Turning, Linear, Affine
<1>3. PICK x, y, z : n = Columns(x, y, z) /\ Upright(x, y, z) /\ \A i \in Axis : z[i] = dir[i]
  BY ViewAxesAre
<1>4. /\ e \in V3 /\ Three(e) /\ w \in V3 /\ Three(w)
      /\ \A i \in Axis : e[i] = Minus(from[i], to[i]) /\ w[i] = Minus(to[i], from[i])
  BY <1>1, SubIs
<1>5. \A i \in Axis : w[i] = Neg(e[i])
  BY <1>4, MinusBack DEF V3
<1>6. Three(x) /\ Three(y) /\ Three(z)
  BY <1>3 DEF Upright
<1>7. Dot(w, w) = Dot(e, e) /\ Dot(x, w) = Neg(Dot(x, e)) /\ Dot(y, w) = Neg(Dot(y, e)) /\ Dot(z, w) = Neg(Dot(z, e))
  BY <1>4, <1>5, <1>6, DotBack
<1>8. PICK r : r = SqrtQ(Dot(e, e))
  OBVIOUS
<1>9. \A i \in Axis : z[i] = Over(e[i], r)
  BY <1>1, <1>3, <1>4, <1>8, UnitLanes
<1>10. r \in Num /\ Dot(z, e) = r /\ \A u : Three(u) /\ Dot(z, u) = Zero => Dot(e, u) = Zero
  BY <1>1, <1>4, <1>8, <1>9, SightLength
<1>11. Dot(x, e) = Zero /\ Dot(y, e) = Zero
  <2>1. Dot(z, x) = Zero /\ Dot(z, y) = Zero
    BY <1>3, <1>6, DotCommutes DEF Upright
  <2>2. Dot(e, x) = Zero /\ Dot(e, y) = Zero
    BY <1>6, <1>10, <2>1
  <2> QED
    BY <1>4, <1>6, <2>2, DotCommutes
<1>12. Image(n, w, 0) = Zero /\ Image(n, w, 1) = Zero /\ Image(n, w, 2) = Neg(r)
  BY <1>3, <1>4, <1>6, <1>7, <1>10, <1>11, ColumnsTake, NegZero
<1>13. Neg(r) \in Num
  BY <1>10, NumClosed
<1>14. On(2, Neg(r)) \in V3 /\ \A i \in Axis : Image(n, w, i) = On(2, Neg(r))[i]
  BY <1>12, <1>13, OnIs, LaneSet
<1>15. Taken(n, w) = On(2, Neg(r))
  BY <1>2, <1>4, <1>14, SameTaken
<1>16. Distance(from, to) = r
  BY <1>1, <1>7, <1>8 DEF Distance, Dot
<1> QED
  BY <1>1, <1>15, <1>16

\* A frame points its z axis, straight up or down if it does not tell the
\* direction from that.
LEMMA PosAims ==
    ASSUME NEW to \in V3, Easy_vector_dot(to, to) = One, IsNumber(Side(to[0], to[2])),
           NEW a, a = Easy_vector_copy(to, One), NEW f, f = Easy_PosTo(a),
           NEW m, m = Rows(f[1], f[2], f[3], IdentityMatrix[3])
    PROVE  \/ Taken(m, On(2, One)) = to
           \/ /\ Taken(m, On(2, One)) \in {On(1, One), On(1, Neg(One))}
              /\ Less(Easy_vector_Getlenth_2(to, Taken(m, On(2, One))), Q(1, 100000))
<1>1. IsReg(a) /\ a[0] = to[0] /\ a[1] = to[1] /\ a[2] = to[2]
  BY PsReg, PsAt DEF Easy_vector_copy
<1>2. Three(a) /\ Dot(a, a) = One
  BY <1>1, ThreeV3 DEF Three, Dot, Easy_vector_dot
<1>3. Turning(m) /\ ((\A i \in Axis : m[2][i] = a[i]) \/ Upwards(a, m[2]))
  BY <1>1, <1>2, PosTurning
<1>4. Linear(m) /\ m \in M4
  BY <1>3 DEF Turning, Linear, Affine
<1>5. PICK g : g = Taken(m, On(2, One))
  OBVIOUS
<1>6. g \in V3 /\ \A i \in Axis : g[i] = m[2][i]
  <2>1. Three(On(2, One)) /\ \A i \in Axis : Image(m, On(2, One), i) = Times(m[2][i], One)
    BY <1>4, OnIs, OnTurned, Constants, LaneSet
  <2>2. g \in V3 /\ \A i \in Axis : g[i] = Times(m[2][i], One)
    BY <1>4, <1>5, <2>1, TakenAt
  <2>3. \A i \in Axis : m[2][i] \in Num
    BY <1>4, M4Mat, LaneSet
  <2> QED
    BY <2>2, <2>3, Neutral
<1>7. CASE \A i \in Axis : m[2][i] = a[i]
  <2>1. g[0] = to[0] /\ g[1] = to[1] /\ g[2] = to[2]
    BY <1>1, <1>6, <1>7, LaneSet
  <2>2. g = to
    BY <1>6, <2>1, SameAxes DEF V3
  <2> QED
    BY <1>5, <2>2
<1>8. CASE Upwards(a, m[2])
  <2>1. PICK s \in {-1, 1} : /\ m[2][0] = Zero /\ m[2][1] = Int2Q(s) /\ m[2][2] = Zero
                             /\ Less(Easy_vector_Getlenth_2(a, Vec(0, s, 0, 1)), Q(1, 100000))
    BY <1>8 DEF Upwards
  <2>2. PICK k \in Num : k = Int2Q(s) /\ k \in {One, Neg(One)}
    BY <2>1, Signs, Constants
  <2>3. On(1, k) \in V3 /\ \A i \in Axis : On(1, k)[i] = IF i = 1 THEN k ELSE Zero
    BY <2>2, OnIs, LaneSet
  <2>4. g[0] = Zero /\ g[1] = k /\ g[2] = Zero
    BY <1>6, <2>1, <2>2, LaneSet
  <2>5. g = On(1, k)
    BY <1>6, <2>3, <2>4, SameAxes, LaneSet DEF V3
  <2>6. Easy_vector_Getlenth_2(a, Vec(0, s, 0, 1)) = Easy_vector_Getlenth_2(to, g)
    <3>1. PICK v : v = Vec(0, s, 0, 1)
      OBVIOUS
    <3>2. v[0] = Zero /\ v[1] = k /\ v[2] = Zero
      BY <2>2, <3>1, VecIs, Signs
    <3> QED
      BY <1>1, <2>4, <3>1, <3>2 DEF Easy_vector_Getlenth_2
  <2> QED
    BY <1>5, <2>1, <2>2, <2>5, <2>6
<1> QED
  BY <1>3, <1>7, <1>8

\* Every camera, view and frame aims where it was asked to, and is right-handed.
LEMMA LooksAim ==
    ASSUME NEW look \in Looks, NEW m, m = LookMatrix(look)
    PROVE  Aims(look, m) /\ Handed(m)
<1>1. look.from \in V3 /\ look.to \in V3
  BY LooksAssumption, NumberNum
<1>2. CASE look.how = "camera"
  <2>1. IsHalf(look.half)
    BY <1>2, LooksAssumption, NumberNum DEF HalfAngle, IsHalf
  <2>2. PICK d, y : d = Easy_vector_sub(look.to, look.from) /\ y = Unit(d)
    OBVIOUS
  <2>3. Rooted(d) /\ IsNumber(Side(y[0], y[1]))
    BY <1>2, <2>2, LooksAssumption DEF Rooted, Dot, Distance, Sight
  <2>4. m = Easy_matrix_camera_roll(look.from, look.to, look.half)
    BY <1>2 DEF LookMatrix
  <2>5. Taken(m, look.from) = On(0, Zero) /\ Taken(m, look.to) = On(1, Distance(look.from, look.to))
    BY <1>1, <2>1, <2>2, <2>3, <2>4, CameraAims
  <2>6. Handed(m)
    BY <1>1, <2>1, <2>2, <2>3, <2>4, CameraTurning, CameraHanded
  <2> QED
    BY <1>2, <2>5, <2>6 DEF Aims, Taken
<1>3. CASE look.how = "view"
  <2>1. PICK d, z : d = Easy_vector_sub(look.from, look.to) /\ z = Unit(d)
    OBVIOUS
  <2>2. Rooted(d) /\ IsNumber(Side(z[0], z[2])) /\ Side(z[0], z[2]) # Zero
    BY <1>3, <2>1, LooksAssumption DEF Rooted, Dot, Distance, Sight
  <2>3. PICK a, b : a = Easy_vector_copy(look.from, One) /\ b = Easy_vector_copy(look.to, One)
    OBVIOUS
  <2>4. m = Easy_ViewTo(a, b)
    BY <1>3, <2>3 DEF LookMatrix
  <2>5. Taken(m, Easy_vector_sub(look.to, look.from)) = On(2, Neg(Distance(look.from, look.to)))
    BY <1>1, <2>1, <2>2, <2>3, <2>4, ViewAims
  <2>6. Handed(m)
    BY <1>1, <2>1, <2>2, <2>3, <2>4, ViewTurning
  <2> QED
    BY <1>3, <2>5, <2>6 DEF Aims, Taken
<1>4. CASE look.how = "pos"
  <2>1. PICK to : to = look.to
    OBVIOUS
  <2>2. to \in V3 /\ Easy_vector_dot(to, to) = One /\ IsNumber(Side(to[0], to[2]))
    BY <1>1, <1>4, <2>1, LooksAssumption
  <2>3. PICK a, f : a = Easy_vector_copy(to, One) /\ f = Easy_PosTo(a)
    OBVIOUS
  <2>4. m = Rows(f[1], f[2], f[3], IdentityMatrix[3])
    BY <1>4, <2>1, <2>3 DEF LookMatrix
  <2>5. \/ Taken(m, On(2, One)) = to
        \/ /\ Taken(m, On(2, One)) \in {On(1, One), On(1, Neg(One))}
           /\ Less(Easy_vector_Getlenth_2(to, Taken(m, On(2, One))), Q(1, 100000))
    BY <2>2, <2>3, <2>4, PosAims
  <2>6. Handed(m)
    <3>1. IsReg(a) /\ a[0] = to[0] /\ a[1] = to[1] /\ a[2] = to[2]
      BY <2>3, PsReg, PsAt DEF Easy_vector_copy
    <3>2. Three(a) /\ Dot(a, a) = One /\ IsNumber(Side(a[0], a[2]))
      BY <2>2, <3>1, ThreeV3 DEF Three, Dot, Easy_vector_dot
    <3> QED
      BY <2>3, <2>4, <3>1, <3>2, PosTurning
  <2> QED
    BY <1>4, <2>1, <2>5, <2>6 DEF Aims, Taken
<1> QED
  BY <1>2, <1>3, <1>4, LooksAssumption

\* After one look, the matrix is the one of that look.
LEMMA StillLooking ==
    ASSUME Recorded, Placed, Gives, Len(calls) = 1, NEW c, c = calls[1], c.kind = "look"
    PROVE  c.look \in Looks /\ mat = LookMatrix(c.look) /\ IsFrame(mat)
<1>1. calls \in Seq(Motions) /\ calls = <<c>> /\ c \in Motions
  BY DEF Recorded
<1>2. c \in LookMotions
  BY <1>1 DEF Motions, MoveMotions, ScaleMotions, TurnMotions, SwapMotions
<1>3. c.look \in Looks /\ c.m = LookMatrix(c.look) /\ IsFrame(c.m)
  BY <1>2 DEF LookMotions, Frames
<1>4. ASSUME NEW p \in V3 PROVE Taken(mat, p) = Taken(c.m, p)
  <2>1. Taken(mat, p) = Move(c, p)
    BY <1>1, <1>4, FollowOne DEF Gives
  <2> QED
    BY <2>1 DEF Move, Taken
<1>5. Affine(mat) /\ Affine(c.m)
  BY <1>3 DEF Placed, IsFrame
<1>6. mat = c.m
  BY <1>4, <1>5, SameMatrix
<1> QED
  BY <1>3, <1>6

\* After a camera, a view or a frame, however often it was inverted, the matrix
\* looks where it was asked to, by axes that are at right angles, right-handed
\* and of length one (EasyMatrix.h:1531, 1936, 1969), straight up and down
\* included.
THEOREM LooksAlwaysAim == Spec /\ []Invertible => []LooksAtTarget
<1>1. (Kept /\ Recorded /\ Placed) /\ Gives => LooksAtTarget
  <2> SUFFICES ASSUME Recorded, Placed, Gives, Len(calls) = 1, calls[1].kind = "look"
               PROVE  Aims(calls[1].look, mat) /\ RightHanded(mat)
    BY DEF LooksAtTarget
  <2>1. PICK look : look = calls[1].look
    OBVIOUS
  <2>2. look \in Looks /\ mat = LookMatrix(look) /\ IsFrame(mat)
    BY <2>1, StillLooking
  <2>3. Aims(look, mat) /\ Handed(mat)
    BY <2>2, LooksAim
  <2>4. RightHanded(mat)
    BY <2>2, <2>3, FrameRows, HandedRows DEF RightHanded, Handed, Dot
  <2> QED
    BY <2>1, <2>3, <2>4
<1> QED
  BY <1>1, ObjectConsistent, AlwaysGives, PTL
=============================================================================
