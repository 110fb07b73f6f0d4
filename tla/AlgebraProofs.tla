---------------------------- MODULE AlgebraProofs ----------------------------
(***************************************************************************)
(* Theorems about the numbers, vectors, matrices and quaternions that      *)
(* Transforms calls, for all arguments that are numbers.                   *)
(***************************************************************************)
EXTENDS Projection, FiniteSetTheorems, TLAPS

(***************************************************************************)
(* Numbers.  Induction is used in the form that a set of naturals has a    *)
(* least element; the recursive functions of Rational are shown to satisfy *)
(* their equations, and to compute what they should.                       *)
(***************************************************************************)

\* A set of naturals that is not empty has a least element.
LEMMA Least ==
    ASSUME NEW S \in SUBSET Nat, S # {}
    PROVE  \E n \in S : \A k \in S : n <= k
<1>1. PICK n \in S : TRUE
  OBVIOUS
<1>2. n \in Nat
  OBVIOUS
<1> DEFINE A == {i \in 0 .. n : \A k \in S : i <= k}
<1>3. IsFiniteSet(0 .. n) /\ Cardinality(0 .. n) = n + 1
  BY <1>2, FS_Interval
<1>4. IsFiniteSet(A) /\ Cardinality(A) \in Nat
  BY <1>3, FS_Subset, FS_CardinalityType
<1>5. PICK c \in Nat : c = Cardinality(A)
  BY <1>4
<1>6. c \notin A
  <2> SUFFICES ASSUME c \in A PROVE FALSE
    OBVIOUS
  <2>1. 0 .. c \subseteq A
    OBVIOUS
  <2>2. Cardinality(0 .. c) = c + 1
    BY FS_Interval
  <2>3. Cardinality(0 .. c) <= c
    BY <1>4, <1>5, <2>1, FS_Subset
  <2> QED
    BY <2>2, <2>3
<1>7. c - 1 \in A
  <2> SUFFICES ASSUME c - 1 \notin A PROVE FALSE
    OBVIOUS
  <2>1. A \subseteq 0 .. c - 2
    <3> SUFFICES ASSUME NEW i \in A, i >= c - 1 PROVE FALSE
      OBVIOUS
    <3>1. 0 \in A
      OBVIOUS
    <3>2. c # 0
      BY <1>4, <1>5, <3>1, FS_EmptySet
    <3>3. c - 1 \in A
      BY <3>2
    <3> QED
      BY <3>3
  <2>2. IsFiniteSet(0 .. c - 2) /\ Cardinality(0 .. c - 2) = IF 0 > c - 2 THEN 0 ELSE c - 1
    BY FS_Interval
  <2>3. c <= Cardinality(0 .. c - 2)
    BY <1>5, <2>1, <2>2, FS_Subset
  <2>4. A = {}
    BY <2>1, <2>2, <2>3
  <2>5. 0 \in A
    OBVIOUS
  <2> QED
    BY <2>4, <2>5
<1> QED
  BY <1>6, <1>7, <1>2

Divides(a, b) == \E k \in Int : b = a * k

\* Division by a positive number leaves a remainder smaller than that.
LEMMA Quotient ==
    ASSUME NEW a \in Int, NEW s \in Nat \ {0}
    PROVE  \E q \in Int : a = s * q + (a % s) /\ a % s \in 0 .. s - 1
<1>1. PICK q \in Int : q = a \div s
  OBVIOUS
<1>2. a = s * (a \div s) + (a % s)
  OBVIOUS
<1>3. a % s \in 0 .. s - 1
  OBVIOUS
<1>4. PICK r \in Int : r = a % s
  OBVIOUS
<1>5. a = s * q + r
  BY <1>1, <1>2, <1>4
<1> QED
  BY <1>3, <1>4, <1>5

\* g is the greatest common divisor of a and b.
IsGcd(g, a, b) ==
    /\ g \in Nat /\ Divides(g, a) /\ Divides(g, b)
    /\ \E x, y \in Int : g = a * x + b * y

Combination(s, a, b) == \E x, y \in Int : s = a * x + b * y

\* The least positive combination of two numbers divides all of them.
LEMMA LeastCombination ==
    ASSUME NEW a \in Nat, NEW b \in Nat, NEW g \in Nat \ {0}, Combination(g, a, b),
           \A s \in Nat \ {0} : Combination(s, a, b) => g <= s,
           NEW c \in Nat, Combination(c, a, b)
    PROVE  Divides(g, c)
<1>1. PICK x, y \in Int : g = a * x + b * y
  BY DEF Combination
<1>2. PICK u, v \in Int : c = a * u + b * v
  BY DEF Combination
<1>3. c \in Int
  OBVIOUS
<1>4. PICK q \in Int : c = g * q + (c % g) /\ c % g \in 0 .. g - 1
  BY <1>3, Quotient
<1>5. PICK r \in 0 .. g - 1 : r = c % g
  BY <1>4
<1>6. r = a * (u - x * q) + b * (v - y * q)
  BY <1>1, <1>2, <1>4, <1>5
<1>7. u - x * q \in Int /\ v - y * q \in Int
  BY <1>1, <1>2, <1>4
<1>8. Combination(r, a, b)
  BY <1>6, <1>7 DEF Combination
<1>9. r = 0
  BY <1>8
<1>10. c = g * q
  BY <1>4, <1>5, <1>9
<1> QED
  BY <1>10 DEF Divides

\* Two numbers, not both zero, have a greatest common divisor that combines
\* them.
LEMMA Bezout ==
    ASSUME NEW a \in Nat, NEW b \in Nat, a # 0 \/ b # 0
    PROVE  \E g \in Nat \ {0} : IsGcd(g, a, b)
<1> DEFINE S == {s \in Nat \ {0} : Combination(s, a, b)}
<1>1. Combination(a, a, b) /\ Combination(b, a, b)
  <2>1. a = a * 1 + b * 0 /\ b = a * 0 + b * 1
    OBVIOUS
  <2> QED
    BY <2>1 DEF Combination
<1>2. S # {} /\ S \subseteq Nat
  BY <1>1
<1>3. PICK g \in S : \A s \in S : g <= s
  BY <1>2, Least
<1>4. Divides(g, a) /\ Divides(g, b)
  BY <1>1, <1>3, LeastCombination
<1> QED
  BY <1>3, <1>4 DEF IsGcd, Combination

\* A common factor that is not zero can be canceled.
LEMMA Cancel ==
    ASSUME NEW c \in Int, c # 0, NEW x \in Int, NEW y \in Int, c * x = c * y
    PROVE  x = y
<1>1. c * (x - y) = 0
  OBVIOUS
<1>2. PICK d \in Int : d = x - y
  OBVIOUS
<1>3. c * d = 0
  BY <1>1, <1>2
<1>4. d = 0
  BY <1>3
<1> QED
  BY <1>2, <1>4

\* A divisor of a positive number is at most as large.
LEMMA DividesLess ==
    ASSUME NEW a \in Nat, NEW b \in Nat, b # 0, Divides(a, b)
    PROVE  a <= b /\ a # 0
<1>1. PICK k \in Int : b = a * k
  BY DEF Divides
<1>2. a # 0
  BY <1>1
<1>3. k > 0
  <2>1. CASE k <= 0
    <3>1. a * k <= 0
      BY <1>2, <2>1
    <3> QED
      BY <1>1, <3>1
  <2> QED
    BY <2>1
<1>4. PICK j \in Nat : k = j + 1
  BY <1>3
<1>5. b = a * j + a /\ a * j >= 0
  BY <1>1, <1>4
<1> QED
  BY <1>2, <1>5

\* There is only one greatest common divisor.
LEMMA GcdUnique ==
    ASSUME NEW a \in Nat, NEW b \in Nat, NEW g, NEW h, IsGcd(g, a, b), IsGcd(h, a, b)
    PROVE  g = h
<1>1. \A c, d : IsGcd(c, a, b) /\ IsGcd(d, a, b) => Divides(c, d)
  <2> SUFFICES ASSUME NEW c, NEW d, IsGcd(c, a, b), IsGcd(d, a, b) PROVE Divides(c, d)
    OBVIOUS
  <2>1. PICK x, y \in Int : d = a * x + b * y
    BY DEF IsGcd
  <2>2. c \in Nat /\ d \in Nat
    BY DEF IsGcd
  <2>3. PICK k \in Int : a = c * k
    BY DEF IsGcd, Divides
  <2>4. PICK l \in Int : b = c * l
    BY DEF IsGcd, Divides
  <2>5. d = c * (k * x + l * y) /\ k * x + l * y \in Int
    BY <2>1, <2>2, <2>3, <2>4
  <2> QED
    BY <2>5 DEF Divides
<1>2. g \in Nat /\ h \in Nat /\ Divides(g, h) /\ Divides(h, g)
  BY <1>1 DEF IsGcd
<1>3. CASE g = 0 \/ h = 0
  BY <1>2, <1>3 DEF Divides
<1>4. CASE g # 0 /\ h # 0
  BY <1>2, <1>4, DividesLess
<1> QED
  BY <1>3, <1>4

\* Every number divides zero.
LEMMA GcdOfZero == ASSUME NEW a \in Nat PROVE IsGcd(a, a, 0)
<1>1. a = a * 1 /\ 0 = a * 0 /\ a = a * 1 + 0 * 0
  OBVIOUS
<1> QED
  BY <1>1 DEF IsGcd, Divides

\* A step of Euclid's algorithm.
LEMMA GcdStep ==
    ASSUME NEW a \in Nat, NEW b \in Nat \ {0}, NEW g, IsGcd(g, b, a % b)
    PROVE  IsGcd(g, a, b)
<1>1. PICK q \in Int : a = b * q + (a % b) /\ a % b \in 0 .. b - 1
  <2>1. a \in Int
    OBVIOUS
  <2> QED
    BY <2>1, Quotient
<1>2. PICK r \in 0 .. b - 1 : r = a % b
  BY <1>1
<1>3. a = b * q + r
  BY <1>1, <1>2
<1>4. PICK x, y \in Int : g = b * x + r * y
  BY <1>2 DEF IsGcd
<1>5. PICK k \in Int : b = g * k
  BY DEF IsGcd, Divides
<1>6. PICK l \in Int : r = g * l
  BY <1>2 DEF IsGcd, Divides
<1>7. g \in Nat
  BY DEF IsGcd
<1>8. a = g * (k * q + l) /\ k * q + l \in Int
  BY <1>3, <1>5, <1>6, <1>7
<1>9. g = a * y + b * (x - q * y) /\ x - q * y \in Int
  BY <1>3, <1>4, <1>7
<1> QED
  BY <1>4, <1>5, <1>7, <1>8, <1>9 DEF IsGcd, Divides

GreatestDivisor(a, b) == CHOOSE g : IsGcd(g, a, b)

\* The divisor chosen is a greatest common divisor.
LEMMA GcdExists ==
    ASSUME NEW a \in Nat, NEW b \in Nat
    PROVE  IsGcd(GreatestDivisor(a, b), a, b)
<1>1. \E g : IsGcd(g, a, b)
  BY Bezout, GcdOfZero
<1> QED
  BY <1>1 DEF GreatestDivisor

\* The recursive definition has a solution ...
LEMMA GcdSolution ==
    \E f : f = [p \in Nat \X Nat |-> IF p[2] = 0 THEN p[1] ELSE f[<<p[2], p[1] % p[2]>>]]
<1> DEFINE f == [p \in Nat \X Nat |-> GreatestDivisor(p[1], p[2])]
<1>1. f = [p \in Nat \X Nat |-> IF p[2] = 0 THEN p[1] ELSE f[<<p[2], p[1] % p[2]>>]]
  <2> SUFFICES ASSUME NEW p \in Nat \X Nat
               PROVE  GreatestDivisor(p[1], p[2]) = IF p[2] = 0 THEN p[1] ELSE f[<<p[2], p[1] % p[2]>>]
    OBVIOUS
  <2>1. PICK a \in Nat, b \in Nat : p[1] = a /\ p[2] = b
    OBVIOUS
  <2>2. CASE b = 0
    BY <2>1, <2>2, GcdExists, GcdOfZero, GcdUnique
  <2>3. CASE b # 0
    <3>1. a % b \in Nat
      BY <2>3
    <3>2. IsGcd(GreatestDivisor(b, a % b), b, a % b)
      BY <3>1, GcdExists
    <3>3. IsGcd(GreatestDivisor(b, a % b), a, b)
      BY <2>3, <3>2, GcdStep
    <3>4. GreatestDivisor(a, b) = GreatestDivisor(b, a % b)
      BY <3>3, GcdExists, GcdUnique
    <3>5. f[<<b, a % b>>] = GreatestDivisor(b, a % b)
      BY <3>1
    <3> QED
      BY <2>1, <2>3, <3>4, <3>5
  <2> QED
    BY <2>2, <2>3
<1> QED
  BY <1>1

\* ... so gcd is one ...
LEMMA GcdRecursion ==
    ASSUME NEW a \in Nat, NEW b \in Nat
    PROVE  gcd[<<a, b>>] = IF b = 0 THEN a ELSE gcd[<<b, a % b>>]
<1>1. gcd = [p \in Nat \X Nat |-> IF p[2] = 0 THEN p[1] ELSE gcd[<<p[2], p[1] % p[2]>>]]
  BY GcdSolution DEF gcd
<1> QED
  BY <1>1

\* ... and gives the greatest common divisor: numbers really are in lowest
\* terms, so that equal results are equal pairs.
THEOREM GcdIsGcd ==
    ASSUME NEW a \in Nat, NEW b \in Nat
    PROVE  IsGcd(gcd[<<a, b>>], a, b)
<1> DEFINE S == {d \in Nat : \E c \in Nat : ~ IsGcd(gcd[<<c, d>>], c, d)}
<1>1. S = {}
  <2> SUFFICES ASSUME S # {} PROVE FALSE
    OBVIOUS
  <2>1. PICK d \in S : \A e \in S : d <= e
    BY Least
  <2>2. PICK c \in Nat : ~ IsGcd(gcd[<<c, d>>], c, d)
    OBVIOUS
  <2>3. d # 0
    BY <2>2, GcdRecursion, GcdOfZero
  <2>4. c % d \in 0 .. d - 1
    BY <2>3
  <2>5. c % d \notin S
    BY <2>1, <2>4
  <2>6. IsGcd(gcd[<<d, c % d>>], d, c % d)
    BY <2>4, <2>5
  <2>7. IsGcd(gcd[<<c, d>>], c, d)
    BY <2>3, <2>6, GcdRecursion, GcdStep
  <2> QED
    BY <2>2, <2>7
<1> QED
  BY <1>1

Coprime(n, d) == \E x, y \in Int : n * x + d * y = 1

Num == {r \in Int \X (Nat \ {0}) : Coprime(r[1], r[2])}

\* The number r is the fraction n / d.
Is(r, n, d) ==
    /\ r \in Num /\ n \in Int /\ d \in Int /\ d # 0
    /\ r[1] * d = n * r[2]

\* The two parts of a number.
LEMMA NumParts ==
    ASSUME NEW r \in Num
    PROVE  /\ r = <<r[1], r[2]>> /\ r[1] \in Int /\ r[2] \in Nat /\ r[2] > 0
           /\ IsNumber(r) /\ Is(r, r[1], r[2])
  BY DEF Num, Is, IsNumber

\* The denominator of a fraction in lowest terms divides that of any equal one.
LEMMA Euclid ==
    ASSUME NEW n \in Int, NEW d \in Int, NEW k \in Int, NEW e \in Int,
           Coprime(n, d), n * e = k * d
    PROVE  Divides(d, e)
<1>1. PICK x, y \in Int : n * x + d * y = 1
  BY DEF Coprime
<1>2. e = e * (n * x + d * y)
  BY <1>1
<1>3. e * (n * x + d * y) = (n * e) * x + d * (e * y)
  BY <1>1
<1>4. (n * e) * x = d * (k * x)
  BY <1>1
<1>5. e = d * (k * x) + d * (e * y)
  BY <1>2, <1>3, <1>4
<1>6. e = d * (k * x + e * y)
  BY <1>1, <1>5
<1>7. k * x + e * y \in Int
  BY <1>1
<1> QED
  BY <1>6, <1>7 DEF Divides

\* Equal fractions in lowest terms are the same.
LEMMA NumEqual ==
    ASSUME NEW a \in Num, NEW b \in Num, a[1] * b[2] = b[1] * a[2]
    PROVE  a = b
<1>1. PICK n, k \in Int, d, e \in Nat \ {0} :
        a = <<n, d>> /\ b = <<k, e>> /\ Coprime(n, d) /\ Coprime(k, e)
  BY DEF Num
<1>2. n * e = k * d
  BY <1>1
<1>3. k * d = n * e
  BY <1>2
<1>4. n \in Int /\ k \in Int /\ d \in Int /\ e \in Int
  BY <1>1
<1>5. Divides(d, e)
  BY <1>1, <1>2, <1>4, Euclid
<1>6. Divides(e, d)
  BY <1>1, <1>3, <1>4, Euclid
<1>7. d = e
  BY <1>1, <1>5, <1>6, DividesLess
<1>8. e * n = e * k
  BY <1>1, <1>2, <1>7
<1>9. n = k
  BY <1>1, <1>8, Cancel
<1> QED
  BY <1>1, <1>7, <1>9

\* Two numbers that are the same fraction are the same.
LEMMA IsEqual ==
    ASSUME NEW a, NEW b, NEW n, NEW d, Is(a, n, d), Is(b, n, d)
    PROVE  a = b
<1>1. PICK i, j \in Int, p, q \in Nat \ {0} : a = <<i, p>> /\ b = <<j, q>>
  BY DEF Is, Num
<1>2. n \in Int /\ d \in Int /\ d # 0 /\ i * d = n * p /\ j * d = n * q
  BY <1>1 DEF Is
<1>3. d * (i * q) = d * (j * p)
  BY <1>1, <1>2
<1>4. i * q = j * p
  BY <1>1, <1>2, <1>3, Cancel
<1> QED
  BY <1>1, <1>4, NumEqual DEF Is

\* A fraction may be expanded.
LEMMA IsScaled ==
    ASSUME NEW a, NEW n, NEW d, NEW c \in Int, c # 0, Is(a, n, d)
    PROVE  Is(a, n * c, d * c)
<1>1. PICK i \in Int, p \in Nat \ {0} : a = <<i, p>>
  BY DEF Is, Num
<1>2. n \in Int /\ d \in Int /\ d # 0 /\ i * d = n * p
  BY <1>1 DEF Is
<1>3. i * (d * c) = (n * c) * p /\ d * c # 0
  BY <1>1, <1>2
<1> QED
  BY <1>1, <1>2, <1>3 DEF Is

\* n / d is what any fraction equal to it is.
LEMMA IsSame ==
    ASSUME NEW a, NEW n, NEW d, Is(a, n, d),
           NEW k \in Int, NEW e \in Int, e # 0, n * e = k * d
    PROVE  Is(a, k, e)
<1>1. PICK i \in Int, p \in Nat \ {0} : a = <<i, p>>
  BY DEF Is, Num
<1>2. n \in Int /\ d \in Int /\ d # 0 /\ i * d = n * p
  BY <1>1 DEF Is
<1>3. d * (i * e) = (n * p) * e
  BY <1>1, <1>2
<1>4. (n * p) * e = (k * d) * p
  BY <1>1, <1>2
<1>5. d * (i * e) = d * (k * p)
  BY <1>1, <1>2, <1>3, <1>4
<1>6. i * e = k * p
  BY <1>1, <1>2, <1>5, Cancel
<1> QED
  BY <1>1, <1>6 DEF Is

(***************************************************************************)
(* Each operation on numbers, as one on fractions: Is(r, n, d) says that r *)
(* is n / d, in lowest terms or not.                                       *)
(***************************************************************************)

\* A product divided by its factor.
LEMMA ExactQuotient ==
    ASSUME NEW g \in Nat \ {0}, NEW k \in Int
    PROVE  (g * k) \div g = k
<1>1. PICK a \in Int : a = g * k
  OBVIOUS
<1>2. PICK q \in Int : q = a \div g
  OBVIOUS
<1>3. PICK r \in 0 .. g - 1 : r = a % g
  OBVIOUS
<1>4. a = g * q + r
  BY <1>2, <1>3
<1>5. g * (k - q) = r
  BY <1>1, <1>4
<1>6. PICK d \in Int : d = k - q
  OBVIOUS
<1>7. g * d = r
  BY <1>5, <1>6
<1>8. d = 0
  <2>1. CASE d > 0
    <3>1. PICK c \in Nat : d = c + 1
      BY <2>1
    <3>2. g * d = g * c + g /\ g * c >= 0
      BY <3>1
    <3> QED
      BY <1>3, <1>7, <3>2
  <2>2. CASE d < 0
    <3>1. PICK c \in Nat : d = -c - 1
      BY <2>2
    <3>2. g * d = -(g * c) - g /\ g * c >= 0
      BY <3>1
    <3> QED
      BY <1>3, <1>7, <3>2
  <2> QED
    BY <1>6, <2>1, <2>2
<1> QED
  BY <1>1, <1>2, <1>6, <1>8

\* The fraction in lowest terms is the fraction.
LEMMA DividedIs ==
    ASSUME NEW n \in Int, NEW d \in Int, d # 0, NEW g, IsGcd(g, Magnitude(n), Magnitude(d))
    PROVE  Is(Divided(n, d, g), n, d)
<1>1. PICK x, y \in Int : g = Magnitude(n) * x + Magnitude(d) * y
  BY DEF IsGcd
<1>2. PICK i0 \in Int : Magnitude(n) = g * i0
  BY DEF IsGcd, Divides
<1>3. PICK j0 \in Int : Magnitude(d) = g * j0
  BY DEF IsGcd, Divides
<1>4. g \in Nat /\ g # 0
  BY <1>3 DEF IsGcd, Magnitude
<1>5. PICK i \in Int : n = g * i /\ (i = i0 \/ i = -i0)
  <2>1. n = g * i0 \/ n = g * (-i0)
    BY <1>2, <1>4 DEF Magnitude
  <2> QED
    BY <2>1
<1>6. PICK j \in Int : d = g * j /\ (j = j0 \/ j = -j0)
  <2>1. d = g * j0 \/ d = g * (-j0)
    BY <1>3, <1>4 DEF Magnitude
  <2> QED
    BY <2>1
<1>7. n \div g = i /\ d \div g = j
  BY <1>4, <1>5, <1>6, ExactQuotient
<1>8. i0 * x + j0 * y = 1
  <2>1. g * (i0 * x + j0 * y) = g * 1
    BY <1>1, <1>2, <1>3, <1>4
  <2>2. i0 * x + j0 * y \in Int
    OBVIOUS
  <2> QED
    BY <1>4, <2>1, <2>2, Cancel
<1>9. \A s, t \in Int : (s = i0 \/ s = -i0) /\ (t = j0 \/ t = -j0) => Coprime(s, t)
  <2> SUFFICES ASSUME NEW s \in Int, NEW t \in Int, s = i0 \/ s = -i0, t = j0 \/ t = -j0
               PROVE  Coprime(s, t)
    OBVIOUS
  <2>1. s * x + t * y = 1 \/ s * (-x) + t * y = 1 \/ s * x + t * (-y) = 1 \/ s * (-x) + t * (-y) = 1
    BY <1>8
  <2>2. -x \in Int /\ -y \in Int
    OBVIOUS
  <2> QED
    BY <2>1, <2>2 DEF Coprime
<1>10. j # 0 /\ (d < 0 <=> j < 0)
  <2>1. CASE j > 0
    <3>1. g * j > 0
      BY <1>4, <2>1
    <3> QED
      BY <1>6, <2>1, <3>1
  <2>2. CASE j < 0
    <3>1. g * j < 0
      BY <1>4, <2>2
    <3> QED
      BY <1>6, <2>2, <3>1
  <2>3. j # 0
    BY <1>4, <1>6
  <2> QED
    BY <2>1, <2>2, <2>3
<1>11. i * d = n * j /\ (-i) * d = n * (-j)
  BY <1>4, <1>5, <1>6
<1>12. CASE d < 0
  <2>1. Divided(n, d, g) = <<-i, -j>>
    BY <1>7, <1>12 DEF Divided
  <2>2. Coprime(-i, -j)
    BY <1>5, <1>6, <1>9
  <2>3. -i \in Int /\ -j \in Nat \ {0}
    BY <1>10, <1>12
  <2> QED
    BY <1>11, <2>1, <2>2, <2>3 DEF Is, Num
<1>13. CASE d > 0
  <2>1. Divided(n, d, g) = <<i, j>>
    BY <1>7, <1>13 DEF Divided
  <2>2. Coprime(i, j)
    BY <1>5, <1>6, <1>9
  <2>3. j \in Nat \ {0}
    BY <1>10, <1>13
  <2> QED
    BY <1>11, <2>1, <2>2, <2>3 DEF Is, Num
<1> QED
  BY <1>12, <1>13

\* Q puts a fraction into lowest terms.
LEMMA QIs ==
    ASSUME NEW n \in Int, NEW d \in Int, d # 0
    PROVE  Is(Q(n, d), n, d)
<1>1. Magnitude(n) \in Nat /\ Magnitude(d) \in Nat
  BY DEF Magnitude
<1>2. IsGcd(gcd[<<Magnitude(n), Magnitude(d)>>], Magnitude(n), Magnitude(d))
  BY <1>1, GcdIsGcd
<1> QED
  BY <1>2, DividedIs DEF Q

\* An integer as a fraction.
LEMMA IntIs ==
    ASSUME NEW n \in Int
    PROVE  Is(Int2Q(n), n, 1)
<1>1. Coprime(n, 1)
  <2>1. n * 0 + 1 * 1 = 1
    OBVIOUS
  <2> QED
    BY <2>1 DEF Coprime
<1> QED
  BY <1>1 DEF Int2Q, Is, Num

\* Zero and one as fractions.
LEMMA ZeroIs ==
    ASSUME NEW d \in Int, d # 0
    PROVE  Is(Zero, 0, d) /\ Is(One, d, d)
<1>1. Is(Zero, 0, 1) /\ Is(One, 1, 1)
  BY IntIs DEF Zero, One
<1>2. 0 * d = 0 * 1 /\ 1 * d = d * 1
  OBVIOUS
<1> QED
  BY <1>1, <1>2, IsSame

\* The negative of a fraction.
LEMMA NegIs ==
    ASSUME NEW a, NEW n, NEW d, Is(a, n, d)
    PROVE  Is(Neg(a), -n, d)
<1>1. PICK i \in Int, p \in Nat \ {0} : a = <<i, p>> /\ Coprime(i, p)
  BY DEF Is, Num
<1>2. n \in Int /\ d \in Int /\ d # 0 /\ i * d = n * p
  BY <1>1 DEF Is
<1>3. (-i) * d = (-n) * p
  BY <1>1, <1>2
<1>4. Coprime(-i, p)
  <2>1. PICK x, y \in Int : i * x + p * y = 1
    BY <1>1 DEF Coprime
  <2>2. (-i) * (-x) + p * y = 1 /\ -x \in Int
    BY <1>1, <2>1
  <2> QED
    BY <2>1, <2>2 DEF Coprime
<1> QED
  BY <1>1, <1>2, <1>3, <1>4 DEF Is, Num, Neg

\* The sum of two fractions: taking the common factor out first changes
\* nothing.
LEMMA PlusIs ==
    ASSUME NEW a, NEW n, NEW d, NEW b, NEW k, NEW e, Is(a, n, d), Is(b, k, e)
    PROVE  Is(Plus(a, b), n * e + k * d, d * e)
<1>1. PICK u \in Int, p \in Nat \ {0} : a = <<u, p>>
  BY DEF Is, Num
<1>2. PICK v \in Int, q \in Nat \ {0} : b = <<v, q>>
  BY DEF Is, Num
<1>3. n \in Int /\ d \in Int /\ d # 0 /\ u * d = n * p
  BY <1>1 DEF Is
<1>4. k \in Int /\ e \in Int /\ e # 0 /\ v * e = k * q
  BY <1>2 DEF Is
<1>5. IsGcd(gcd[<<p, q>>], p, q)
  BY GcdIsGcd
<1>6. PICK g \in Nat : g = gcd[<<p, q>>]
  BY <1>5 DEF IsGcd
<1>7. PICK i \in Int : p = g * i
  BY <1>5, <1>6 DEF IsGcd, Divides
<1>8. PICK j \in Int : q = g * j
  BY <1>5, <1>6 DEF IsGcd, Divides
<1>9. g # 0 /\ i # 0 /\ j # 0
  BY <1>7, <1>8
<1>10. p \div g = i /\ q \div g = j
  BY <1>7, <1>8, <1>9, ExactQuotient
<1>11. Plus(a, b) = Q(u * j + v * i, p * j)
  BY <1>1, <1>2, <1>6, <1>10 DEF Plus, PlusBy, IsNumber
<1>12. p * j \in Int /\ p * j # 0 /\ u * j + v * i \in Int
  BY <1>9
<1>13. Is(Plus(a, b), u * j + v * i, p * j)
  BY <1>11, <1>12, QIs
<1>14. (u * j + v * i) * (d * e) = (n * e + k * d) * (p * j)
  <2>1. (u * j) * (d * e) = (u * d) * (j * e)
    BY <1>3, <1>4
  <2>2. (v * i) * (d * e) = (v * e) * (i * d)
    BY <1>3, <1>4
  <2>3. (k * q) * (i * d) = (k * d) * (p * j)
    BY <1>3, <1>4, <1>7, <1>8
  <2>4. (n * p) * (j * e) = (n * e) * (p * j)
    BY <1>3, <1>4
  <2>5. (u * j + v * i) * (d * e) = (u * j) * (d * e) + (v * i) * (d * e)
    BY <1>3, <1>4
  <2>6. (n * e + k * d) * (p * j) = (n * e) * (p * j) + (k * d) * (p * j)
    BY <1>3, <1>4
  <2> QED
    BY <2>1, <2>2, <2>3, <2>4, <2>5, <2>6, <1>3, <1>4
<1>15. d * e \in Int /\ d * e # 0 /\ n * e + k * d \in Int
  BY <1>3, <1>4
<1> QED
  BY <1>13, <1>14, <1>15, IsSame

\* The sum of two fractions with one denominator.
LEMMA PlusSame ==
    ASSUME NEW a, NEW n, NEW d, NEW b, NEW k, Is(a, n, d), Is(b, k, d)
    PROVE  Is(Plus(a, b), n + k, d)
<1>1. Is(Plus(a, b), n * d + k * d, d * d)
  BY PlusIs
<1>2. n \in Int /\ k \in Int /\ d \in Int /\ d # 0
  BY DEF Is
<1>3. (n * d + k * d) * d = (n + k) * (d * d) /\ n + k \in Int
  BY <1>2
<1> QED
  BY <1>1, <1>2, <1>3, IsSame

\* The difference of two fractions.
LEMMA MinusIs ==
    ASSUME NEW a, NEW n, NEW d, NEW b, NEW k, NEW e, Is(a, n, d), Is(b, k, e)
    PROVE  Is(Minus(a, b), n * e - k * d, d * e)
<1>1. n \in Int /\ k \in Int /\ d \in Int /\ e \in Int
  BY DEF Is
<1>2. Is(Neg(b), -k, e)
  BY NegIs
<1>3. Is(Minus(a, b), n * e + (-k) * d, d * e)
  BY <1>2, PlusIs DEF Minus
<1>4. n * e + (-k) * d = n * e - k * d
  BY <1>1
<1> QED
  BY <1>3, <1>4

\* The difference of two fractions with one denominator.
LEMMA MinusSame ==
    ASSUME NEW a, NEW n, NEW d, NEW b, NEW k, Is(a, n, d), Is(b, k, d)
    PROVE  Is(Minus(a, b), n - k, d)
<1>1. n \in Int /\ k \in Int /\ d \in Int
  BY DEF Is
<1>2. Is(Neg(b), -k, d)
  BY NegIs
<1>3. Is(Minus(a, b), n + (-k), d)
  BY <1>2, PlusSame DEF Minus
<1>4. n + (-k) = n - k
  BY <1>1
<1> QED
  BY <1>3, <1>4

\* Divisors of coprime numbers are coprime.
LEMMA CoprimeParts ==
    ASSUME NEW a \in Int, NEW b \in Int, NEW u \in Int, NEW v \in Int,
           Coprime(a, b), Divides(u, a), Divides(v, b)
    PROVE  Coprime(u, v) /\ Coprime(v, u)
<1>1. PICK x, y \in Int : a * x + b * y = 1
  BY DEF Coprime
<1>2. PICK i \in Int : a = u * i
  BY DEF Divides
<1>3. PICK j \in Int : b = v * j
  BY DEF Divides
<1>4. u * (i * x) + v * (j * y) = 1 /\ v * (j * y) + u * (i * x) = 1
  BY <1>1, <1>2, <1>3
<1>5. i * x \in Int /\ j * y \in Int
  BY <1>1, <1>2, <1>3
<1> QED
  BY <1>4, <1>5 DEF Coprime

\* A number coprime to two numbers is coprime to their product.
LEMMA CoprimeProduct ==
    ASSUME NEW a \in Int, NEW b \in Int, NEW c \in Int, Coprime(a, b), Coprime(a, c)
    PROVE  Coprime(a, b * c) /\ Coprime(b * c, a)
<1>1. PICK x, y \in Int : a * x + b * y = 1
  BY DEF Coprime
<1>2. PICK u, v \in Int : a * u + c * v = 1
  BY DEF Coprime
<1>3. (a * x + b * y) * (a * u + c * v) = 1
  BY <1>1, <1>2
<1>4. (a * x + b * y) * (a * u + c * v) = a * (x * (a * u + c * v) + (b * y) * u) + (b * c) * (y * v)
  BY <1>1, <1>2
<1>5. PICK s \in Int : s = x * (a * u + c * v) + (b * y) * u
  BY <1>1, <1>2
<1>6. PICK t \in Int : t = y * v
  BY <1>1, <1>2
<1>7. a * s + (b * c) * t = 1 /\ (b * c) * t + a * s = 1
  BY <1>3, <1>4, <1>5, <1>6
<1> QED
  BY <1>7 DEF Coprime

\* A fraction in lowest terms divides every other form of it.
LEMMA LowestTerms ==
    ASSUME NEW r, NEW n, NEW d, Is(r, n, d)
    PROVE  Divides(r[1], n) /\ Divides(r[2], d)
<1>1. PICK i \in Int, p \in Nat \ {0} : r = <<i, p>> /\ Coprime(i, p)
  BY DEF Is, Num
<1>2. n \in Int /\ d \in Int /\ d # 0 /\ i * d = n * p
  BY <1>1 DEF Is
<1> i \in Int /\ p \in Int
  OBVIOUS
<1>3. Divides(p, d)
  BY <1>1, <1>2, Euclid
<1>4. Coprime(p, i)
  <2>1. Divides(i, i) /\ Divides(p, p)
    <3>1. i = i * 1 /\ p = p * 1
      OBVIOUS
    <3> QED
      BY <3>1 DEF Divides
  <2> QED
    BY <1>1, <2>1, CoprimeParts
<1>5. p * n = d * i
  BY <1>2
<1>6. Divides(i, n)
  BY <1>2, <1>4, <1>5, Euclid
<1> QED
  BY <1>1, <1>3, <1>6

\* The product of two fractions: canceling across first changes nothing.
LEMMA TimesIs ==
    ASSUME NEW a, NEW n, NEW d, NEW b, NEW k, NEW e, Is(a, n, d), Is(b, k, e)
    PROVE  Is(Times(a, b), n * k, d * e)
<1>1. PICK u \in Int, p \in Nat \ {0} : a = <<u, p>> /\ Coprime(u, p)
  BY DEF Is, Num
<1>2. PICK v \in Int, q \in Nat \ {0} : b = <<v, q>> /\ Coprime(v, q)
  BY DEF Is, Num
<1>3. n \in Int /\ d \in Int /\ d # 0 /\ u * d = n * p
  BY <1>1 DEF Is
<1>4. k \in Int /\ e \in Int /\ e # 0 /\ v * e = k * q
  BY <1>2 DEF Is
<1>5. Is(Q(u, q), u, q) /\ Is(Q(v, p), v, p)
  BY QIs
<1>6. PICK i \in Int, r \in Nat \ {0} : Q(u, q) = <<i, r>> /\ Coprime(i, r) /\ i * q = u * r
  BY <1>5 DEF Is, Num
<1>7. PICK j \in Int, s \in Nat \ {0} : Q(v, p) = <<j, s>> /\ Coprime(j, s) /\ j * p = v * s
  BY <1>5 DEF Is, Num
<1>8. Divides(i, u) /\ Divides(r, q) /\ Divides(j, v) /\ Divides(s, p)
  BY <1>5, <1>6, <1>7, LowestTerms
<1>9. Coprime(i, s) /\ Coprime(j, r)
  BY <1>1, <1>2, <1>6, <1>7, <1>8, CoprimeParts
<1>10. Coprime(r * s, i) /\ Coprime(r * s, j)
  <2>1. Divides(j, j) /\ Divides(s, s)
    <3>1. j = j * 1 /\ s = s * 1
      OBVIOUS
    <3> QED
      BY <3>1 DEF Divides
  <2> QED
    BY <1>6, <1>7, <1>9, CoprimeProduct
<1>11. Coprime(i * j, r * s)
  BY <1>10, CoprimeProduct
<1>12. Times(a, b) = <<i * j, r * s>>
  BY <1>1, <1>2, <1>6, <1>7 DEF Times, Product, IsNumber
<1>13. r * s \in Nat \ {0} /\ i * j \in Int
  OBVIOUS
<1>14. Times(a, b) \in Num
  BY <1>11, <1>12, <1>13 DEF Num
<1>15. (i * j) * (d * e) = (n * k) * (r * s)
  <2>1. (i * q) * (j * p) = (u * r) * (v * s)
    BY <1>6, <1>7
  <2>2. (u * d) * (v * e) = (n * p) * (k * q)
    BY <1>3, <1>4
  <2>3. (p * q) * ((i * j) * (d * e)) = ((i * q) * (j * p)) * (d * e)
    BY <1>3, <1>4
  <2>4. ((u * r) * (v * s)) * (d * e) = ((u * d) * (v * e)) * (r * s)
    BY <1>3, <1>4
  <2>5. ((n * p) * (k * q)) * (r * s) = (p * q) * ((n * k) * (r * s))
    BY <1>3, <1>4
  <2>6. (p * q) * ((i * j) * (d * e)) = (p * q) * ((n * k) * (r * s))
    BY <2>1, <2>2, <2>3, <2>4, <2>5
  <2>7. p * q \in Int /\ p * q # 0 /\ (i * j) * (d * e) \in Int /\ (n * k) * (r * s) \in Int
    BY <1>3, <1>4
  <2> QED
    BY <2>6, <2>7, Cancel
<1>16. n * k \in Int /\ d * e \in Int /\ d * e # 0
  BY <1>3, <1>4
<1> QED
  BY <1>12, <1>14, <1>15, <1>16 DEF Is

\* The quotient of two fractions.
LEMMA OverIs ==
    ASSUME NEW a, NEW n, NEW d, NEW b, NEW k, NEW e, Is(a, n, d), Is(b, k, e), k # 0
    PROVE  Is(Over(a, b), n * e, d * k)
<1>1. PICK v \in Int, q \in Nat \ {0} : b = <<v, q>>
  BY DEF Is, Num
<1>2. k \in Int /\ e \in Int /\ e # 0 /\ v * e = k * q
  BY <1>1 DEF Is
<1>3. v # 0
  BY <1>2
<1>4. Is(Q(q, v), q, v)
  BY <1>3, QIs
<1>5. q * k = e * v
  BY <1>2
<1>6. Is(Q(q, v), e, k)
  BY <1>2, <1>4, <1>5, IsSame
<1> QED
  BY <1>1, <1>3, <1>6, TimesIs DEF Over, IsNumber

\* Fractions compare by their cross products.
LEMMA LessIs ==
    ASSUME NEW a, NEW n, NEW d, NEW b, NEW k, NEW e, Is(a, n, d), Is(b, k, e), d > 0, e > 0
    PROVE  Less(a, b) <=> n * e < k * d
<1>1. Is(Minus(a, b), n * e - k * d, d * e)
  BY MinusIs
<1>2. n \in Int /\ k \in Int /\ d \in Int /\ e \in Int
  BY DEF Is
<1>3. PICK x \in Int : x = n * e - k * d
  BY <1>2
<1>4. PICK y \in Int : y = d * e
  BY <1>2
<1>5. y > 0
  BY <1>2, <1>4
<1>6. PICK i \in Int, p \in Nat \ {0} : Minus(a, b) = <<i, p>>
  BY <1>1 DEF Is, Num
<1>7. i * y = x * p
  BY <1>1, <1>3, <1>4, <1>6 DEF Is
<1>8. i < 0 <=> x < 0
  BY <1>5, <1>7
<1>9. Less(a, b) <=> i < 0
  BY <1>6, NumParts DEF Less, Is
<1> QED
  BY <1>2, <1>3, <1>8, <1>9

(***************************************************************************)
(* The laws of arithmetic.                                                 *)
(***************************************************************************)

\* A number is a fraction with a positive denominator.
LEMMA Fraction ==
    ASSUME NEW a \in Num
    PROVE  \E n, d \in Int : d > 0 /\ Is(a, n, d)
<1>1. a[1] \in Int /\ a[2] \in Int /\ a[2] > 0 /\ Is(a, a[1], a[2])
  BY NumParts
<1> QED
  BY <1>1

\* Results of numbers are numbers, unless the code divides by zero.
LEMMA NumClosed ==
    ASSUME NEW a \in Num, NEW b \in Num
    PROVE  /\ Plus(a, b) \in Num /\ Minus(a, b) \in Num /\ Times(a, b) \in Num /\ Neg(a) \in Num
           /\ b # Zero => Over(a, b) \in Num
<1>1. Is(a, a[1], a[2]) /\ Is(b, b[1], b[2])
  BY NumParts
<1>2. Plus(a, b) \in Num /\ Minus(a, b) \in Num /\ Times(a, b) \in Num /\ Neg(a) \in Num
  BY <1>1, PlusIs, MinusIs, TimesIs, NegIs DEF Is
<1>3. ASSUME b # Zero PROVE Over(a, b) \in Num
  <2>1. b[1] # 0
    <3> SUFFICES ASSUME b[1] = 0 PROVE FALSE
      OBVIOUS
    <3>1. Is(Zero, 0, b[2])
      BY NumParts, ZeroIs
    <3> QED
      BY <1>1, <1>3, <3>1, IsEqual
  <2> QED
    BY <1>1, <2>1, OverIs DEF Is
<1> QED
  BY <1>2, <1>3

\* Integers are numbers.
LEMMA Constants == Zero \in Num /\ One \in Num /\ \A n \in Int : Int2Q(n) \in Num
  BY IntIs DEF Zero, One, Is

\* The order of summands does not matter.
LEMMA PlusCommutes ==
    ASSUME NEW a \in Num, NEW b \in Num
    PROVE  Plus(a, b) = Plus(b, a)
<1>1. Is(a, a[1], a[2]) /\ Is(b, b[1], b[2]) /\ a[1] \in Int /\ a[2] \in Int /\ b[1] \in Int /\ b[2] \in Int
  BY NumParts
<1>2. Is(Plus(a, b), a[1] * b[2] + b[1] * a[2], a[2] * b[2])
  BY <1>1, PlusIs
<1>3. Is(Plus(b, a), b[1] * a[2] + a[1] * b[2], b[2] * a[2])
  BY <1>1, PlusIs
<1>4. a[1] * b[2] + b[1] * a[2] = b[1] * a[2] + a[1] * b[2] /\ a[2] * b[2] = b[2] * a[2]
  BY <1>1
<1> QED
  BY <1>2, <1>3, <1>4, IsEqual

\* The order of factors does not matter.
LEMMA TimesCommutes ==
    ASSUME NEW a \in Num, NEW b \in Num
    PROVE  Times(a, b) = Times(b, a)
<1>1. Is(a, a[1], a[2]) /\ Is(b, b[1], b[2]) /\ a[1] \in Int /\ a[2] \in Int /\ b[1] \in Int /\ b[2] \in Int
  BY NumParts
<1>2. Is(Times(a, b), a[1] * b[1], a[2] * b[2])
  BY <1>1, TimesIs
<1>3. Is(Times(b, a), b[1] * a[1], b[2] * a[2])
  BY <1>1, TimesIs
<1>4. a[1] * b[1] = b[1] * a[1] /\ a[2] * b[2] = b[2] * a[2]
  BY <1>1
<1> QED
  BY <1>2, <1>3, <1>4, IsEqual

\* Two or three numbers as fractions with one denominator.
LEMMA Common2 ==
    ASSUME NEW a \in Num, NEW b \in Num
    PROVE  \E n, k, d \in Int : d > 0 /\ Is(a, n, d) /\ Is(b, k, d)
<1>1. PICK n, d \in Int : d > 0 /\ Is(a, n, d)
  BY Fraction
<1>2. PICK k, e \in Int : e > 0 /\ Is(b, k, e)
  BY Fraction
<1> d # 0 /\ e # 0
  BY <1>1, <1>2
<1>3. Is(a, n * e, d * e) /\ Is(b, k * d, e * d)
  BY <1>1, <1>2, IsScaled
<1>4. e * d = d * e /\ d * e \in Int /\ d * e > 0 /\ n * e \in Int /\ k * d \in Int
  BY <1>1, <1>2
<1> QED
  BY <1>3, <1>4

\* Nor does the grouping of factors.
LEMMA TimesAssociates ==
    ASSUME NEW a \in Num, NEW b \in Num, NEW c \in Num
    PROVE  Times(Times(a, b), c) = Times(a, Times(b, c))
<1>1. PICK n, d \in Int : d > 0 /\ Is(a, n, d)
  BY Fraction
<1>2. PICK k, e \in Int : e > 0 /\ Is(b, k, e)
  BY Fraction
<1>3. PICK j, f \in Int : f > 0 /\ Is(c, j, f)
  BY Fraction
<1>4. Is(Times(Times(a, b), c), (n * k) * j, (d * e) * f)
  BY <1>1, <1>2, <1>3, TimesIs
<1>5. Is(Times(a, Times(b, c)), n * (k * j), d * (e * f))
  BY <1>1, <1>2, <1>3, TimesIs
<1>6. (n * k) * j = n * (k * j) /\ (d * e) * f = d * (e * f)
  OBVIOUS
<1> QED
  BY <1>4, <1>5, <1>6, IsEqual

\* Three numbers as fractions with one denominator.
LEMMA Common3 ==
    ASSUME NEW a \in Num, NEW b \in Num, NEW c \in Num
    PROVE  \E n, k, j, d \in Int : d > 0 /\ Is(a, n, d) /\ Is(b, k, d) /\ Is(c, j, d)
<1>1. PICK n, k, d \in Int : d > 0 /\ Is(a, n, d) /\ Is(b, k, d)
  BY Common2
<1>2. PICK j, e \in Int : e > 0 /\ Is(c, j, e)
  BY Fraction
<1> d # 0 /\ e # 0
  BY <1>1, <1>2
<1>3. Is(a, n * e, d * e) /\ Is(b, k * e, d * e) /\ Is(c, j * d, e * d)
  BY <1>1, <1>2, IsScaled
<1>4. e * d = d * e /\ d * e \in Int /\ d * e > 0 /\ n * e \in Int /\ k * e \in Int /\ j * d \in Int
  BY <1>1, <1>2
<1> QED
  BY <1>3, <1>4

\* Nor does the grouping of summands.
LEMMA PlusAssociates ==
    ASSUME NEW a \in Num, NEW b \in Num, NEW c \in Num
    PROVE  Plus(Plus(a, b), c) = Plus(a, Plus(b, c))
<1>1. PICK n, k, j, d \in Int : d > 0 /\ Is(a, n, d) /\ Is(b, k, d) /\ Is(c, j, d)
  BY Common3
<1>2. Is(Plus(Plus(a, b), c), (n + k) + j, d)
  BY <1>1, PlusSame
<1>3. Is(Plus(a, Plus(b, c)), n + (k + j), d)
  BY <1>1, PlusSame
<1>4. (n + k) + j = n + (k + j)
  OBVIOUS
<1> QED
  BY <1>2, <1>3, <1>4, IsEqual

\* A factor goes into a sum.
LEMMA Distributes ==
    ASSUME NEW a \in Num, NEW b \in Num, NEW c \in Num
    PROVE  Times(a, Plus(b, c)) = Plus(Times(a, b), Times(a, c))
<1>1. PICK n, k, j, d \in Int : d > 0 /\ Is(a, n, d) /\ Is(b, k, d) /\ Is(c, j, d)
  BY Common3
<1>2. Is(Times(a, Plus(b, c)), n * (k + j), d * d)
  BY <1>1, PlusSame, TimesIs
<1>3. Is(Plus(Times(a, b), Times(a, c)), n * k + n * j, d * d)
  <2>1. Is(Times(a, b), n * k, d * d) /\ Is(Times(a, c), n * j, d * d)
    BY <1>1, TimesIs
  <2> QED
    BY <2>1, PlusSame
<1>4. n * (k + j) = n * k + n * j
  OBVIOUS
<1> QED
  BY <1>2, <1>3, <1>4, IsEqual

\* Zero, one and signs.
LEMMA Neutral ==
    ASSUME NEW a \in Num
    PROVE  /\ Plus(a, Zero) = a /\ Plus(Zero, a) = a
           /\ Times(a, One) = a /\ Times(One, a) = a
           /\ Times(a, Zero) = Zero /\ Times(Zero, a) = Zero
           /\ Minus(a, a) = Zero /\ Minus(a, Zero) = a /\ Neg(Neg(a)) = a
<1>1. PICK n, d \in Int : d > 0 /\ Is(a, n, d)
  BY Fraction
<1>2. Is(Zero, 0, d) /\ Is(One, d, d) /\ d # 0 /\ d * d # 0 /\ d * d \in Int
  BY <1>1, ZeroIs
<1>3. Is(Plus(a, Zero), n + 0, d) /\ Is(Plus(Zero, a), 0 + n, d)
  BY <1>1, <1>2, PlusSame
<1>4. Is(Times(a, One), n * d, d * d) /\ Is(Times(One, a), d * n, d * d) /\ Is(a, n * d, d * d)
  BY <1>1, <1>2, TimesIs, IsScaled
<1>5. Is(Times(a, Zero), n * 0, d * d) /\ Is(Times(Zero, a), 0 * n, d * d) /\ Is(Zero, 0, d * d)
  BY <1>1, <1>2, TimesIs, ZeroIs
<1>6. Is(Minus(a, a), n - n, d) /\ Is(Minus(a, Zero), n - 0, d) /\ Is(Neg(Neg(a)), -(-n), d)
  BY <1>1, <1>2, MinusSame, NegIs
<1>7. n + 0 = n /\ 0 + n = n /\ d * n = n * d /\ n * 0 = 0 /\ 0 * n = 0 /\ n - n = 0 /\ n - 0 = n /\ -(-n) = n
  OBVIOUS
<1>8. Plus(a, Zero) = a /\ Plus(Zero, a) = a
  BY <1>1, <1>3, <1>7, IsEqual
<1>9. Times(a, One) = a /\ Times(One, a) = a
  BY <1>4, <1>7, IsEqual
<1>10. Times(a, Zero) = Zero /\ Times(Zero, a) = Zero
  BY <1>5, <1>7, IsEqual
<1>11. Minus(a, a) = Zero /\ Minus(a, Zero) = a /\ Neg(Neg(a)) = a
  BY <1>1, <1>2, <1>6, <1>7, IsEqual
<1> QED
  BY <1>8, <1>9, <1>10, <1>11

(***************************************************************************)
(* Roots.                                                                  *)
(***************************************************************************)

\* r is the integer part of the square root of n.
IsFloor(r, n) == r \in Nat /\ r * r <= n /\ n < (r + 1) * (r + 1)

\* The square of the next number is at most that of any larger one.
LEMMA SquaresGrow ==
    ASSUME NEW r \in Nat, NEW s \in Nat, r < s
    PROVE  (r + 1) * (r + 1) <= s * s
<1>1. PICK j \in Nat : s = (r + 1) + j
  BY s - (r + 1) \in Nat
<1>2. s * s = (r + 1) * (r + 1) + 2 * (r + 1) * j + j * j
  BY <1>1
<1>3. 2 * (r + 1) * j >= 0 /\ j * j >= 0
  OBVIOUS
<1>4. 2 * (r + 1) * j \in Int /\ j * j \in Int /\ (r + 1) * (r + 1) \in Int
  OBVIOUS
<1> QED
  BY <1>2, <1>3, <1>4

\* A number has one floor of its root.
LEMMA FloorUnique ==
    ASSUME NEW n \in Nat, NEW r, NEW s, IsFloor(r, n), IsFloor(s, n)
    PROVE  r = s
<1>1. r \in Nat /\ s \in Nat
  BY DEF IsFloor
<1>2. PICK a \in Nat : a = r * r
  BY <1>1
<1>3. PICK b \in Nat : b = s * s
  BY <1>1
<1>4. PICK c \in Nat : c = (r + 1) * (r + 1)
  BY <1>1
<1>5. PICK d \in Nat : d = (s + 1) * (s + 1)
  BY <1>1
<1>6. a <= n /\ n < c /\ b <= n /\ n < d
  BY <1>2, <1>3, <1>4, <1>5 DEF IsFloor
<1>7. CASE r < s
  <2>1. c <= b
    BY <1>1, <1>7, <1>3, <1>4, SquaresGrow
  <2> QED
    BY <1>6, <2>1
<1>8. CASE s < r
  <2>1. d <= a
    BY <1>1, <1>8, <1>2, <1>5, SquaresGrow
  <2> QED
    BY <1>6, <2>1
<1> QED
  BY <1>1, <1>7, <1>8

\* It has one: numbers whose square is larger have a least element.
LEMMA FloorExists ==
    ASSUME NEW n \in Nat
    PROVE  \E r : IsFloor(r, n)
<1> DEFINE S == {k \in Nat : n < (k + 1) * (k + 1)}
<1>1. n \in S
  <2>1. (n + 1) * (n + 1) = n * n + 2 * n + 1 /\ n * n >= 0
    OBVIOUS
  <2> QED
    BY <2>1
<1>2. PICK r \in S : \A k \in S : r <= k
  BY <1>1, Least
<1>3. r * r <= n
  <2>1. CASE r = 0
    BY <2>1
  <2>2. CASE r # 0
    <3>1. r - 1 \in Nat /\ r - 1 \notin S
      BY <1>2, <2>2
    <3>2. ~ (n < ((r - 1) + 1) * ((r - 1) + 1))
      BY <3>1
    <3>3. (r - 1) + 1 = r
      OBVIOUS
    <3>4. ~ (n < r * r)
      BY <3>2, <3>3
    <3> QED
      BY <3>4
  <2> QED
    BY <2>1, <2>2
<1> QED
  BY <1>2, <1>3 DEF IsFloor

Floor(n) == CHOOSE r : IsFloor(r, n)

\* The floor chosen is the floor of the root.
LEMMA FloorIsFloor ==
    ASSUME NEW n \in Nat
    PROVE  IsFloor(Floor(n), n)
  BY FloorExists DEF Floor

\* From the root of a quarter of n to that of n: one more binary digit.
LEMMA FloorStep ==
    ASSUME NEW n \in Nat, NEW m \in Nat, NEW q \in Nat, IsFloor(q, m), 4 * m <= n, n <= 4 * m + 3
    PROVE  IsFloor(IF (2 * q + 1) * (2 * q + 1) <= n THEN 2 * q + 1 ELSE 2 * q, n)
<1>1. q * q <= m /\ m < (q + 1) * (q + 1)
  BY DEF IsFloor
<1>2. PICK s \in Nat : s = q * q
  OBVIOUS
<1>3. (q + 1) * (q + 1) = s + 2 * q + 1 /\ (2 * q) * (2 * q) = 4 * s
      /\ (2 * q + 1) * (2 * q + 1) = 4 * s + 4 * q + 1
      /\ ((2 * q + 1) + 1) * ((2 * q + 1) + 1) = 4 * s + 8 * q + 4
  BY <1>2
<1>4. s <= m /\ m < s + 2 * q + 1
  BY <1>1, <1>2, <1>3
<1>5. 4 * s <= n /\ n < 4 * s + 8 * q + 4
  BY <1>4
<1>6. CASE (2 * q + 1) * (2 * q + 1) <= n
  BY <1>3, <1>5, <1>6 DEF IsFloor
<1>7. CASE ~ ((2 * q + 1) * (2 * q + 1) <= n)
  <2>1. n < (2 * q + 1) * (2 * q + 1)
    BY <1>7
  <2>2. (2 * q) * (2 * q) <= n /\ 2 * q \in Nat
    BY <1>3, <1>5
  <2> QED
    BY <1>7, <2>1, <2>2 DEF IsFloor
<1> QED
  BY <1>6, <1>7

\* The recursive definition of root has a solution ...
LEMMA RootSolution ==
    \E f : f = [n \in Nat |-> IF n = 0 THEN 0
                              ELSE LET r == 2 * f[n \div 4]
                                   IN  IF (r + 1) * (r + 1) <= n THEN r + 1 ELSE r]
<1> DEFINE f == [n \in Nat |-> Floor(n)]
<1>1. ASSUME NEW n \in Nat
      PROVE  Floor(n) = IF n = 0 THEN 0
                        ELSE LET r == 2 * f[n \div 4]
                             IN  IF (r + 1) * (r + 1) <= n THEN r + 1 ELSE r
  <2>1. CASE n = 0
    <3>1. IsFloor(0, 0)
      BY DEF IsFloor
    <3> QED
      BY <2>1, <3>1, FloorIsFloor, FloorUnique
  <2>2. CASE n # 0
    <3>1. PICK m \in Nat : m = n \div 4 /\ 4 * m <= n /\ n <= 4 * m + 3
      BY n \div 4 \in Nat
    <3>2. f[m] = Floor(m)
      OBVIOUS
    <3>3. PICK q \in Nat : q = Floor(m) /\ IsFloor(q, m)
      BY FloorIsFloor DEF IsFloor
    <3>4. IsFloor(IF (2 * q + 1) * (2 * q + 1) <= n THEN 2 * q + 1 ELSE 2 * q, n)
      BY <3>1, <3>3, FloorStep
    <3>5. Floor(n) = IF (2 * q + 1) * (2 * q + 1) <= n THEN 2 * q + 1 ELSE 2 * q
      BY <3>4, FloorIsFloor, FloorUnique
    <3> HIDE DEF f
    <3> QED
      BY <2>2, <3>1, <3>2, <3>3, <3>5
  <2> QED
    BY <2>1, <2>2
<1>2. f = [n \in Nat |-> IF n = 0 THEN 0
                         ELSE LET r == 2 * f[n \div 4]
                              IN  IF (r + 1) * (r + 1) <= n THEN r + 1 ELSE r]
  BY <1>1
<1> QED
  BY <1>2

\* ... so root is one ...
LEMMA RootRecursion ==
    ASSUME NEW n \in Nat
    PROVE  root[n] = IF n = 0 THEN 0
                     ELSE LET r == 2 * root[n \div 4]
                          IN  IF (r + 1) * (r + 1) <= n THEN r + 1 ELSE r
<1>1. root = [k \in Nat |-> IF k = 0 THEN 0
                            ELSE LET r == 2 * root[k \div 4]
                                 IN  IF (r + 1) * (r + 1) <= k THEN r + 1 ELSE r]
  BY RootSolution DEF root
<1> QED
  BY <1>1

\* ... and gives the root without its fraction, digit by digit.
LEMMA RootIsFloor ==
    ASSUME NEW n \in Nat
    PROVE  IsFloor(root[n], n)
<1> DEFINE S == {k \in Nat : ~ IsFloor(root[k], k)}
<1>1. S = {}
  <2> SUFFICES ASSUME S # {} PROVE FALSE
    OBVIOUS
  <2>1. PICK k \in S : \A j \in S : k <= j
    BY Least
  <2>2. CASE k = 0
    <3>1. IsFloor(0, 0)
      BY DEF IsFloor
    <3> QED
      BY <2>1, <2>2, <3>1, RootRecursion
  <2>3. CASE k # 0
    <3>1. PICK m \in Nat : m = k \div 4 /\ 4 * m <= k /\ k <= 4 * m + 3
      BY k \div 4 \in Nat
    <3>2. m \notin S
      BY <2>1, <2>3, <3>1
    <3>3. PICK q \in Nat : q = root[m] /\ IsFloor(q, m)
      BY <3>2 DEF IsFloor
    <3>4. IsFloor(IF (2 * q + 1) * (2 * q + 1) <= k THEN 2 * q + 1 ELSE 2 * q, k)
      BY <3>1, <3>3, FloorStep
    <3>5. root[k] = IF (2 * q + 1) * (2 * q + 1) <= k THEN 2 * q + 1 ELSE 2 * q
      BY <2>3, <3>1, <3>3, RootRecursion
    <3> QED
      BY <3>4, <3>5
  <2> QED
    BY <2>2, <2>3
<1> QED
  BY <1>1

\* The root of a square is exact.
LEMMA RootOfSquare ==
    ASSUME NEW r \in Nat
    PROVE  Root(r * r) = r
<1>1. PICK n \in Nat : n = r * r
  OBVIOUS
<1>2. (r + 1) * (r + 1) = n + 2 * r + 1
  BY <1>1
<1>3. IsFloor(r, n)
  BY <1>1, <1>2 DEF IsFloor
<1>4. root[n] = r
  BY <1>3, RootIsFloor, FloorUnique
<1> QED
  BY <1>1, <1>4 DEF Root

\* A root that is not refused squares to its argument.
LEMMA RootSquares ==
    ASSUME NEW n \in Int, Root(n) >= 0
    PROVE  Root(n) \in Nat /\ Root(n) * Root(n) = n
<1>1. n \in Nat /\ root[n] * root[n] = n /\ Root(n) = root[n]
  BY DEF Root
<1>2. root[n] \in Nat
  BY <1>1, RootIsFloor DEF IsFloor
<1> QED
  BY <1>1, <1>2

\* A fraction is in lowest terms just if its square is.
LEMMA SquareIs ==
    ASSUME NEW n \in Int, NEW d \in Nat \ {0}
    PROVE  /\ Coprime(n, d) => Coprime(n * n, d * d)
           /\ Coprime(n * n, d * d) => Coprime(n, d)
<1>1. ASSUME Coprime(n, d) PROVE Coprime(n * n, d * d)
  <2>1. Coprime(n, d * d)
    BY <1>1, CoprimeProduct
  <2>2. d * d \in Int
    OBVIOUS
  <2>3. Divides(n, n) /\ Divides(d * d, d * d)
    <3>1. n = n * 1 /\ d * d = (d * d) * 1
      OBVIOUS
    <3> QED
      BY <3>1 DEF Divides
  <2>4. Coprime(d * d, n)
    BY <2>1, <2>2, <2>3, CoprimeParts
  <2> QED
    BY <2>2, <2>4, CoprimeProduct
<1>2. ASSUME Coprime(n * n, d * d) PROVE Coprime(n, d)
  <2>1. Divides(n, n * n) /\ Divides(d, d * d) /\ n * n \in Int /\ d * d \in Int
    BY DEF Divides
  <2> QED
    BY <1>2, <2>1, CoprimeParts
<1> QED
  BY <1>1, <1>2

\* A root that is not refused squares to what it was taken of (sqrt and sqrtps,
\* where their results are exact).
THEOREM SqrtSquares ==
    ASSUME NEW a \in Num, IsNumber(SqrtQ(a))
    PROVE  SqrtQ(a) \in Num /\ SqrtQ(a)[1] >= 0 /\ Times(SqrtQ(a), SqrtQ(a)) = a
<1>1. PICK n \in Int, d \in Nat \ {0} : a = <<n, d>> /\ Coprime(n, d)
  BY DEF Num
<1>2. Root(n) >= 0 /\ Root(d) >= 0 /\ SqrtQ(a) = <<Root(n), Root(d)>>
  <2>1. Root(n) \in Int /\ Root(d) \in Int
    <3>1. \A k \in Nat : root[k] \in Nat
      BY RootIsFloor DEF IsFloor
    <3> QED
      BY <1>1, <3>1 DEF Root
  <2> QED
    BY <1>1, <2>1 DEF SqrtQ, IsNumber, NaN
<1>3. PICK i \in Nat : i = Root(n) /\ i * i = n
  BY <1>2, RootSquares
<1>4. PICK j \in Nat : j = Root(d) /\ j * j = d
  BY <1>2, RootSquares
<1>5. j # 0
  BY <1>4
<1>6. Coprime(i, j)
  BY <1>1, <1>3, <1>4, <1>5, SquareIs
<1>7. SqrtQ(a) = <<i, j>> /\ SqrtQ(a) \in Num
  BY <1>2, <1>3, <1>4, <1>5, <1>6 DEF Num
<1>8. Is(SqrtQ(a), i, j) /\ Is(a, i * i, j * j)
  BY <1>1, <1>3, <1>4, <1>7, NumParts
<1>9. Is(Times(SqrtQ(a), SqrtQ(a)), i * i, j * j)
  BY <1>8, TimesIs
<1> QED
  BY <1>7, <1>8, <1>9, IsEqual

\* The absolute value of a fraction.
LEMMA AbsIs ==
    ASSUME NEW a, NEW n, NEW d, Is(a, n, d), d > 0
    PROVE  Is(AbsQ(a), Magnitude(n), d) /\ AbsQ(a) \in {a, Neg(a)} /\ AbsQ(a)[1] >= 0
<1>1. PICK i \in Int, p \in Nat \ {0} : a = <<i, p>>
  BY DEF Is, Num
<1>2. n \in Int /\ d \in Int /\ i * d = n * p
  BY <1>1 DEF Is
<1>3. CASE i >= 0
  <2>1. n >= 0
    BY <1>1, <1>2, <1>3
  <2> QED
    <3>1. AbsQ(a) = a /\ Magnitude(n) = n
      BY <1>1, <1>2, <1>3, <2>1 DEF AbsQ, Magnitude
    <3> QED
      BY <1>1, <1>3, <3>1
<1>4. CASE i < 0
  <2>1. n < 0
    BY <1>1, <1>2, <1>4
  <2> QED
    BY <1>1, <1>4, <2>1, NegIs DEF AbsQ, Magnitude, Neg
<1> QED
  BY <1>1, <1>3, <1>4

\* The root of a square is found, whatever its size.
LEMMA SqrtOfSquare ==
    ASSUME NEW a \in Num
    PROVE  SqrtQ(Times(a, a)) = AbsQ(a)
<1>1. PICK n \in Int, d \in Nat \ {0} : a = <<n, d>> /\ Coprime(n, d)
  BY DEF Num
<1>2. Coprime(n * n, d * d) /\ n * n \in Int /\ d * d \in Nat \ {0}
  BY <1>1, SquareIs
<1>3. <<n * n, d * d>> \in Num
  BY <1>2 DEF Num
<1>4. Is(<<n * n, d * d>>, n * n, d * d)
  BY <1>3, NumParts
<1>5. Is(a, n, d)
  BY <1>1, NumParts
<1>6. Times(a, a) = <<n * n, d * d>>
  <2>1. Is(Times(a, a), n * n, d * d)
    BY <1>5, TimesIs
  <2> QED
    BY <1>4, <2>1, IsEqual
<1>7. Magnitude(n) \in Nat /\ Magnitude(n) * Magnitude(n) = n * n
  BY DEF Magnitude
<1>8. Root(n * n) = Magnitude(n) /\ Root(d * d) = d
  BY <1>7, RootOfSquare
<1> QED
  BY <1>1, <1>2, <1>6, <1>7, <1>8 DEF SqrtQ, AbsQ, IsNumber

(***************************************************************************)
(* Registers, vectors and matrices of numbers, and the product.            *)
(***************************************************************************)

V3 == [Axis -> Num]
V4 == [Lane -> Num]
M4 == [Lane -> V4]

\* The lanes and the axes one by one.
LEMMA LaneSet == Lane = {0, 1, 2, 3} /\ Axis = {0, 1, 2}
  BY DEF Lane, Axis

\* The lanes of a register put together from four values.
LEMMA PsAt ==
    ASSUME NEW x, NEW y, NEW z, NEW w
    PROVE  /\ Ps(x, y, z, w)[0] = x /\ Ps(x, y, z, w)[1] = y
           /\ Ps(x, y, z, w)[2] = z /\ Ps(x, y, z, w)[3] = w
           /\ DOMAIN Ps(x, y, z, w) = Lane
           /\ Ps(x, y, z, w) = [i \in Lane |-> Ps(x, y, z, w)[i]]
  BY DEF Ps, Lane

\* A register of values of one set.
LEMMA PsType ==
    ASSUME NEW S, NEW x \in S, NEW y \in S, NEW z \in S, NEW w \in S
    PROVE  Ps(x, y, z, w) \in [Lane -> S]
  BY DEF Ps, Lane

\* Vectors of three are equal when their entries are.
LEMMA SameAxes ==
    ASSUME NEW S, NEW T, NEW a \in [Axis -> S], NEW b \in [Axis -> T],
           a[0] = b[0], a[1] = b[1], a[2] = b[2]
    PROVE  a = b
<1>1. \A i \in Axis : a[i] = b[i]
  BY LaneSet
<1> QED
  BY <1>1

\* v is a register: it has the four lanes and nothing else.
IsReg(v) == v = [i \in Lane |-> v[i]]

\* Registers are equal when their four lanes are.
LEMMA SameReg ==
    ASSUME NEW a, NEW b, IsReg(a), IsReg(b), a[0] = b[0], a[1] = b[1], a[2] = b[2], a[3] = b[3]
    PROVE  a = b
<1>1. \A i \in Lane : a[i] = b[i]
  BY LaneSet
<1> QED
  BY <1>1 DEF IsReg

\* Ps makes a register.
LEMMA PsReg ==
    ASSUME NEW x, NEW y, NEW z, NEW w
    PROVE  IsReg(Ps(x, y, z, w))
  BY DEF Ps, IsReg

\* The instructions, lane by lane.
LEMMA Lanewise ==
    ASSUME NEW a, NEW b
    PROVE  /\ IsReg(mulps(a, b)) /\ IsReg(addps(a, b)) /\ IsReg(subps(a, b)) /\ IsReg(divps(a, b))
           /\ IsReg(sqrtps(a))
           /\ \A i \in Lane : /\ mulps(a, b)[i] = Times(a[i], b[i])
                              /\ addps(a, b)[i] = Plus(a[i], b[i])
                              /\ subps(a, b)[i] = Minus(a[i], b[i])
                              /\ divps(a, b)[i] = Over(a[i], b[i])
                              /\ sqrtps(a)[i] = SqrtQ(a[i])
<1>1. IsReg(mulps(a, b)) /\ IsReg(addps(a, b)) /\ IsReg(subps(a, b)) /\ IsReg(divps(a, b)) /\ IsReg(sqrtps(a))
  BY PsReg DEF mulps, addps, subps, divps, sqrtps, Lanes
<1>2. /\ \A i \in Lane : mulps(a, b)[i] = Times(a[i], b[i])
      /\ \A i \in Lane : addps(a, b)[i] = Plus(a[i], b[i])
  BY PsAt, LaneSet DEF mulps, addps, Lanes
<1>3. /\ \A i \in Lane : subps(a, b)[i] = Minus(a[i], b[i])
      /\ \A i \in Lane : divps(a, b)[i] = Over(a[i], b[i])
  BY PsAt, LaneSet DEF subps, divps, Lanes
<1>4. \A i \in Lane : sqrtps(a)[i] = SqrtQ(a[i])
  BY PsAt, LaneSet DEF sqrtps, Lanes
<1> QED
  BY <1>1, <1>2, <1>3, <1>4

\* One lane of a register in all of them.
LEMMA Splat ==
    ASSUME NEW a, NEW i \in Lane
    PROVE  /\ pshufd(a, Imm(0))[i] = a[0]
           /\ pshufd(a, Imm(85))[i] = a[1]
           /\ pshufd(a, Imm(170))[i] = a[2]
           /\ pshufd(a, Imm(255))[i] = a[3]
<1>1. Imm(0) = <<0, 0, 0, 0>> /\ Imm(85) = <<1, 1, 1, 1>> /\ Imm(170) = <<2, 2, 2, 2>> /\ Imm(255) = <<3, 3, 3, 3>>
  BY DEF Imm
<1> QED
  BY <1>1, PsAt, LaneSet DEF pshufd, shufps

(***************************************************************************)
(* Matrices.                                                               *)
(***************************************************************************)
\* The product: what x does first and then y.
Mul(x, y) ==
  [j \in Lane |-> [i \in Lane |->
     Plus4(Times(x[j][0], y[0][i]), Times(x[j][1], y[1][i]),
           Times(x[j][2], y[2][i]), Times(x[j][3], y[3][i]))]]

\* A row times a matrix, lane by lane.
LEMMA RowTimesIs ==
    ASSUME NEW row, NEW y
    PROVE  /\ IsReg(RowTimes(row, y))
           /\ \A i \in Lane : RowTimes(row, y)[i] =
                Plus4(Times(row[0], y[0][i]), Times(row[1], y[1][i]),
                      Times(row[2], y[2][i]), Times(row[3], y[3][i]))
<1>1. IsReg(RowTimes(row, y))
  BY Lanewise DEF RowTimes
<1>2. ASSUME NEW i \in Lane
      PROVE  RowTimes(row, y)[i] =
                Plus4(Times(row[0], y[0][i]), Times(row[1], y[1][i]),
                      Times(row[2], y[2][i]), Times(row[3], y[3][i]))
  BY Splat, Lanewise DEF RowTimes, Plus4, Plus3
<1> QED
  BY <1>1, <1>2

\* The loop of the SSE product, unrolled.
LEMMA EachIs ==
    ASSUME NEW mem, NEW out, NEW in1, NEW in2
    PROVE  Easy_matrix_mult_sse(mem, out, in1, in2) =
             MultRowSse(MultRowSse(MultRowSse(MultRowSse(mem, out, mem[in1], in2, 0),
                                              out, mem[in1], in2, 1),
                                   out, mem[in1], in2, 2),
                        out, mem[in1], in2, 3)
  BY DEF Easy_matrix_mult_sse, Each

\* The rows of in2 that are read are those no row was stored on yet.
StoredTo(s, mem, out, in2, in1, n) ==
  /\ DOMAIN s = DOMAIN mem /\ s = [x \in DOMAIN mem |-> s[x]]
  /\ \A x \in DOMAIN mem \ {out} : s[x] = mem[x]
  /\ s[out] \in [Lane -> {s[out][j] : j \in Lane}]
  /\ \A j \in Lane : s[out][j] = IF j < n THEN Mul(mem[in2], in1)[j] ELSE mem[out][j]

\* One round of it stores one row of the product, wherever it is stored.
LEMMA StoreNext ==
    ASSUME NEW D, NEW mem \in [D -> M4], NEW out \in D, NEW in2 \in D, NEW in1 \in M4,
           NEW s, NEW n \in Lane, StoredTo(s, mem, out, in2, in1, n)
    PROVE  StoredTo(MultRowSse(s, out, in1, in2, n), mem, out, in2, in1, n + 1)
<1>1. s[in2][n] = mem[in2][n]
  BY DEF StoredTo, Lane
<1>2. RowTimes(mem[in2][n], in1) = Mul(mem[in2], in1)[n]
  <2>1. PICK row : row = Mul(mem[in2], in1)[n]
    OBVIOUS
  <2>2. IsReg(row)
    BY <2>1 DEF Mul, IsReg
  <2>3. \A i \in Lane : row[i] = RowTimes(mem[in2][n], in1)[i]
    BY <2>1, RowTimesIs DEF Mul
  <2> QED
    BY <2>1, <2>2, <2>3, RowTimesIs, SameReg, LaneSet
<1>3. MultRowSse(s, out, in1, in2, n) = [s EXCEPT ![out] = [s[out] EXCEPT ![n] = Mul(mem[in2], in1)[n]]]
  BY <1>1, <1>2 DEF MultRowSse
<1>4. PICK row : row = Mul(mem[in2], in1)[n]
  OBVIOUS
<1>5. PICK t : t = [s[out] EXCEPT ![n] = row]
  OBVIOUS
<1>6. \A j \in Lane : t[j] = IF j = n THEN row ELSE s[out][j]
  BY <1>5 DEF StoredTo
<1>7. t \in [Lane -> {t[j] : j \in Lane}]
  BY <1>5 DEF StoredTo
<1>8. PICK u : u = [s EXCEPT ![out] = t]
  OBVIOUS
<1>9. DOMAIN u = D /\ u = [x \in D |-> u[x]] /\ u[out] = t /\ \A x \in D \ {out} : u[x] = s[x]
  BY <1>8 DEF StoredTo
<1>10. \A j \in Lane : t[j] = IF j < n + 1 THEN Mul(mem[in2], in1)[j] ELSE mem[out][j]
  BY <1>4, <1>6 DEF StoredTo, Lane
<1>11. MultRowSse(s, out, in1, in2, n) = u
  BY <1>3, <1>4, <1>5, <1>8
<1> QED
  BY <1>7, <1>9, <1>10, <1>11 DEF StoredTo

\* Easy_matrix_mult for __m128 (EasyMatrix.h:365): in1 is loaded first, so the
\* output may be either input.
THEOREM ProductInPlaceSse ==
    ASSUME NEW D, NEW mem \in [D -> M4], NEW out \in D, NEW in1 \in D, NEW in2 \in D
    PROVE  Easy_matrix_mult_sse(mem, out, in1, in2) = [mem EXCEPT ![out] = Mul(mem[in2], mem[in1])]
<1> DEFINE Step(s, j) == MultRowSse(s, out, mem[in1], in2, j)
           To(s, n) == StoredTo(s, mem, out, in2, mem[in1], n)
<1>1. \A s, n : n \in Lane /\ To(s, n) => To(Step(s, n), n + 1)
  BY StoreNext
<1>2. To(mem, 0)
  BY DEF StoredTo, M4, Lane
<1>3. To(Step(Step(Step(Step(mem, 0), 1), 2), 3), 4)
  <2> HIDE DEF Step, To
  <2>1. To(Step(mem, 0), 1)
    BY <1>1, <1>2, LaneSet, 0 + 1 = 1
  <2>2. To(Step(Step(mem, 0), 1), 2)
    BY <1>1, <2>1, LaneSet, 1 + 1 = 2
  <2>3. To(Step(Step(Step(mem, 0), 1), 2), 3)
    BY <1>1, <2>2, LaneSet, 2 + 1 = 3
  <2> QED
    BY <1>1, <2>3, LaneSet, 3 + 1 = 4
<1>4. Easy_matrix_mult_sse(mem, out, in1, in2) = Step(Step(Step(Step(mem, 0), 1), 2), 3)
  BY EachIs
<1>5. PICK r : r = Easy_matrix_mult_sse(mem, out, in1, in2)
  OBVIOUS
<1>6. To(r, 4)
  BY <1>3, <1>4, <1>5
<1>7. \A j \in Lane : r[out][j] = Mul(mem[in2], mem[in1])[j]
  BY <1>6 DEF StoredTo, Lane
<1>8. r[out] = Mul(mem[in2], mem[in1])
  BY <1>6, <1>7 DEF StoredTo, Mul
<1> QED
  BY <1>5, <1>6, <1>8 DEF StoredTo

IsMat(m) == IsReg(m) /\ \A j \in Lane : IsReg(m[j])

\* Matrices are equal when their entries are.
LEMMA SameMat ==
    ASSUME NEW a, NEW b, IsMat(a), IsMat(b), \A j, i \in Lane : a[j][i] = b[j][i]
    PROVE  a = b
<1>1. \A j \in Lane : a[j] = b[j]
  BY SameReg, LaneSet DEF IsMat
<1> QED
  BY <1>1, SameReg, LaneSet DEF IsMat

\* A product is a matrix.
LEMMA MulMat == \A x, y : IsMat(Mul(x, y))
  BY DEF Mul, IsMat, IsReg

\* The entries of a matrix of numbers.
LEMMA M4Mat ==
    ASSUME NEW m \in M4
    PROVE  IsMat(m) /\ \A j, i \in Lane : m[j][i] \in Num
  BY DEF M4, V4, IsMat, IsReg

\* A matrix whose entries are numbers.
LEMMA MatM4 ==
    ASSUME NEW m, IsMat(m), \A j, i \in Lane : m[j][i] \in Num
    PROVE  m \in M4
  BY DEF M4, V4, IsMat, IsReg

\* Storing in one entry of a matrix.
Stored(m, j, i, v) == [m EXCEPT ![j][i] = v]

\* One entry of a matrix replaced.
LEMMA EntryStored ==
    ASSUME NEW m, IsMat(m), NEW j \in Lane, NEW i \in Lane, NEW v,
           NEW n, n = Stored(m, j, i, v)
    PROVE  IsMat(n) /\ \A k, l \in Lane : n[k][l] = IF k = j /\ l = i THEN v ELSE m[k][l]
<1>1. PICK r : r = [m[j] EXCEPT ![i] = v]
  OBVIOUS
<1>2. IsReg(r) /\ \A l \in Lane : r[l] = IF l = i THEN v ELSE m[j][l]
  BY <1>1 DEF IsMat, IsReg
<1>3. n = [m EXCEPT ![j] = r]
  BY <1>1 DEF Stored
<1>4. IsReg(n) /\ \A k \in Lane : n[k] = IF k = j THEN r ELSE m[k]
  BY <1>3 DEF IsMat, IsReg
<1>5. \A k \in Lane : IsReg(n[k])
  BY <1>2, <1>4 DEF IsMat
<1>6. ASSUME NEW k \in Lane, NEW l \in Lane PROVE n[k][l] = IF k = j /\ l = i THEN v ELSE m[k][l]
  <2>1. CASE k = j
    BY <1>2, <1>4, <2>1
  <2>2. CASE k # j
    BY <1>4, <2>2
  <2> QED
    BY <2>1, <2>2
<1> QED
  BY <1>4, <1>5, <1>6 DEF IsMat

\* While the product of y and x is written to out, entry (j, i) is next.
Written(s, mem, out, p, j, i) ==
  /\ DOMAIN s = DOMAIN mem /\ s = [x \in DOMAIN mem |-> s[x]]
  /\ \A x \in DOMAIN mem \ {out} : s[x] = mem[x]
  /\ IsMat(s[out])
  /\ \A k, l \in Lane : s[out][k][l] = IF k < j \/ (k = j /\ l < i) THEN p[k][l] ELSE mem[out][k][l]

\* The innermost loop of the scalar product stores one entry.
LEMMA WriteNext ==
    ASSUME NEW D, NEW mem \in [D -> M4], NEW out \in D, NEW b \in D, NEW tmp \in M4, out # b,
           NEW s, NEW j \in Lane, NEW i \in Lane, Written(s, mem, out, Mul(mem[b], tmp), j, i)
    PROVE  Written(MultEntry(s, out, tmp, b, j, i), mem, out, Mul(mem[b], tmp), j, i + 1)
<1>1. s[b] = mem[b]
  BY DEF Written
<1>2. PICK v : v = Mul(mem[b], tmp)[j][i]
  OBVIOUS
<1>3. ASSUME NEW k \in Lane
      PROVE  Times(tmp[k][i], mem[b][j][k]) = Times(mem[b][j][k], tmp[k][i])
  <2>1. tmp[k][i] \in Num /\ mem[b][j][k] \in Num
    BY DEF M4, V4
  <2> QED
    BY <2>1, TimesCommutes
<1>4. v = Plus4(Times(tmp[0][i], s[b][j][0]), Times(tmp[1][i], s[b][j][1]),
                Times(tmp[2][i], s[b][j][2]), Times(tmp[3][i], s[b][j][3]))
  BY <1>1, <1>2, <1>3, LaneSet DEF Mul
<1>5. PICK m : m = Stored(s[out], j, i, v)
  OBVIOUS
<1>6. PICK t : t = [s EXCEPT ![out] = m]
  OBVIOUS
<1>7. MultEntry(s, out, tmp, b, j, i) = t
  BY <1>4, <1>5, <1>6 DEF MultEntry, Stored
<1>8. IsMat(m) /\ \A k, l \in Lane : m[k][l] = IF k = j /\ l = i THEN v ELSE s[out][k][l]
  <2>1. IsMat(s[out])
    BY DEF Written
  <2> QED
    BY <1>5, <2>1, EntryStored
<1>9. DOMAIN t = D /\ t = [x \in D |-> t[x]] /\ t[out] = m /\ \A x \in D \ {out} : t[x] = s[x]
  BY <1>6 DEF Written
<1>10. \A k, l \in Lane : m[k][l] = IF k < j \/ (k = j /\ l < i + 1) THEN Mul(mem[b], tmp)[k][l]
                                    ELSE mem[out][k][l]
  BY <1>2, <1>8, j \in Int, i \in Int DEF Written, Lane
<1> QED
  BY <1>7, <1>8, <1>9, <1>10 DEF Written

\* The loop over a row stores one row.
LEMMA WriteRow ==
    ASSUME NEW D, NEW mem \in [D -> M4], NEW out \in D, NEW b \in D, NEW tmp \in M4, out # b,
           NEW s, NEW j \in Lane, Written(s, mem, out, Mul(mem[b], tmp), j, 0)
    PROVE  Written(MultRow(s, out, tmp, b, j), mem, out, Mul(mem[b], tmp), j + 1, 0)
<1> DEFINE Step(t, i) == MultEntry(t, out, tmp, b, j, i)
           To(t, i) == Written(t, mem, out, Mul(mem[b], tmp), j, i)
<1>1. \A t, i : i \in Lane /\ To(t, i) => To(Step(t, i), i + 1)
  BY WriteNext
<1>2. To(Step(Step(Step(Step(s, 0), 1), 2), 3), 4)
  <2> HIDE DEF Step
  <2>1. To(s, 0)
    OBVIOUS
  <2> HIDE DEF To
  <2>2. To(Step(s, 0), 1)
    BY <1>1, <2>1, LaneSet, 0 + 1 = 1
  <2>3. To(Step(Step(s, 0), 1), 2)
    BY <1>1, <2>2, LaneSet, 1 + 1 = 2
  <2>4. To(Step(Step(Step(s, 0), 1), 2), 3)
    BY <1>1, <2>3, LaneSet, 2 + 1 = 3
  <2> QED
    BY <1>1, <2>4, LaneSet, 3 + 1 = 4
<1>3. MultRow(s, out, tmp, b, j) = Step(Step(Step(Step(s, 0), 1), 2), 3)
  BY DEF MultRow, Each
<1>4. PICK r : r = MultRow(s, out, tmp, b, j)
  OBVIOUS
<1>5. To(r, 4)
  BY <1>2, <1>3, <1>4
<1>6. \A k, l \in Lane : (k < j \/ (k = j /\ l < 4)) <=> (k < j + 1 \/ (k = j + 1 /\ l < 0))
  BY DEF Lane
<1>7. To(r, 4) => Written(r, mem, out, Mul(mem[b], tmp), j + 1, 0)
  BY <1>6 DEF Written
<1> QED
  BY <1>4, <1>5, <1>7

\* Easy_matrix_mult for float[4][4] (EasyMatrix.h:276) copies the input it
\* reads again: the output may be the first input, in1, but not the second.
THEOREM ProductInPlace ==
    ASSUME NEW D, NEW mem \in [D -> M4], NEW out \in D, NEW a \in D, NEW b \in D, out # b
    PROVE  Easy_matrix_mult(mem, out, a, b) = [mem EXCEPT ![out] = Mul(mem[b], mem[a])]
<1> DEFINE Step(t, j) == MultRow(t, out, mem[a], b, j)
           To(t, j) == Written(t, mem, out, Mul(mem[b], mem[a]), j, 0)
<1>1. \A t, j : j \in Lane /\ To(t, j) => To(Step(t, j), j + 1)
  BY WriteRow
<1>2. To(Step(Step(Step(Step(mem, 0), 1), 2), 3), 4)
  <2>1. To(mem, 0)
    BY M4Mat DEF Written, Lane
  <2> HIDE DEF Step, To
  <2>2. To(Step(mem, 0), 1)
    BY <1>1, <2>1, LaneSet, 0 + 1 = 1
  <2>3. To(Step(Step(mem, 0), 1), 2)
    BY <1>1, <2>2, LaneSet, 1 + 1 = 2
  <2>4. To(Step(Step(Step(mem, 0), 1), 2), 3)
    BY <1>1, <2>3, LaneSet, 2 + 1 = 3
  <2> QED
    BY <1>1, <2>4, LaneSet, 3 + 1 = 4
<1>3. Easy_matrix_mult(mem, out, a, b) = Step(Step(Step(Step(mem, 0), 1), 2), 3)
  BY DEF Easy_matrix_mult, Each
<1>4. PICK r : r = Easy_matrix_mult(mem, out, a, b)
  OBVIOUS
<1>5. To(r, 4)
  BY <1>2, <1>3, <1>4
<1>6. \A k, l \in Lane : r[out][k][l] = Mul(mem[b], mem[a])[k][l]
  BY <1>5 DEF Written, Lane
<1>7. r[out] = Mul(mem[b], mem[a])
  BY <1>5, <1>6, MulMat, SameMat DEF Written
<1> QED
  BY <1>4, <1>5, <1>7 DEF Written

\* _mm_mul_matrix loads in1 again for every row: it must not be written to.
LEMMA MmMul ==
    ASSUME NEW D, NEW mem \in [D -> M4], NEW in1 \in D, NEW in2 \in D, NEW out \in D, out # in1
    PROVE  mm_mul_matrix(mem, in1, in2, out) = [mem EXCEPT ![out] = Mul(mem[in2], mem[in1])]
<1> DEFINE Step(s, j) == MultRowSse(s, out, mem[in1], in2, j)
           Again(s, j) == MultRowSse(s, out, s[in1], in2, j)
           To(s, n) == StoredTo(s, mem, out, in2, mem[in1], n)
<1>1. \A s, n : n \in Lane /\ To(s, n) => To(Step(s, n), n + 1) /\ Again(s, n) = Step(s, n)
  <2>1. \A s, n : To(s, n) => s[in1] = mem[in1]
    BY DEF StoredTo
  <2> QED
    BY <2>1, StoreNext
<1>2. To(mem, 0)
  BY DEF StoredTo, M4, Lane
<1>3. Again(Again(Again(Again(mem, 0), 1), 2), 3) = Step(Step(Step(Step(mem, 0), 1), 2), 3)
  <2> HIDE DEF Step, To, Again
  <2>1. To(Step(mem, 0), 1) /\ Again(mem, 0) = Step(mem, 0)
    BY <1>1, <1>2, LaneSet, 0 + 1 = 1
  <2>2. To(Step(Step(mem, 0), 1), 2) /\ Again(Step(mem, 0), 1) = Step(Step(mem, 0), 1)
    BY <1>1, <2>1, LaneSet, 1 + 1 = 2
  <2>3. /\ To(Step(Step(Step(mem, 0), 1), 2), 3)
        /\ Again(Step(Step(mem, 0), 1), 2) = Step(Step(Step(mem, 0), 1), 2)
    BY <1>1, <2>2, LaneSet, 2 + 1 = 3
  <2>4. Again(Step(Step(Step(mem, 0), 1), 2), 3) = Step(Step(Step(Step(mem, 0), 1), 2), 3)
    BY <1>1, <2>3, LaneSet
  <2> QED
    BY <2>1, <2>2, <2>3, <2>4
<1>4. Easy_matrix_mult_sse(mem, out, in1, in2) = Step(Step(Step(Step(mem, 0), 1), 2), 3)
  BY EachIs
<1>5. mm_mul_matrix(mem, in1, in2, out) = Again(Again(Again(Again(mem, 0), 1), 2), 3)
  BY DEF mm_mul_matrix, Each
<1>6. mm_mul_matrix(mem, in1, in2, out) = Easy_matrix_mult_sse(mem, out, in1, in2)
  BY <1>3, <1>4, <1>5
<1> QED
  BY <1>6, ProductInPlaceSse

(***************************************************************************)
(* The transpose, in place and in shuffles.                                *)
(***************************************************************************)

T4(m) == [j \in Lane |-> [i \in Lane |-> m[i][j]]]

\* The entries of the transposed matrix.
LEMMA T4Mat ==
    ASSUME NEW m
    PROVE  IsMat(T4(m)) /\ \A j, i \in Lane : T4(m)[j][i] = m[i][j]
  BY DEF T4, IsMat, IsReg

\* Two entries change places across the diagonal.
LEMMA SwapIs ==
    ASSUME NEW m, IsMat(m), NEW j \in Lane, NEW i \in Lane, j # i
    PROVE  /\ IsMat(Swap(m, j, i))
           /\ \A k, l \in Lane : Swap(m, j, i)[k][l] =
                IF (k = j /\ l = i) \/ (k = i /\ l = j) THEN m[l][k] ELSE m[k][l]
<1>1. PICK n : n = Stored(m, j, i, m[i][j])
  OBVIOUS
<1>2. IsMat(n) /\ \A k, l \in Lane : n[k][l] = IF k = j /\ l = i THEN m[i][j] ELSE m[k][l]
  BY <1>1, EntryStored
<1>3. PICK o : o = Stored(n, i, j, m[j][i])
  OBVIOUS
<1>4. IsMat(o) /\ \A k, l \in Lane : o[k][l] = IF k = i /\ l = j THEN m[j][i] ELSE n[k][l]
  BY <1>2, <1>3, EntryStored
<1>5. Swap(m, j, i) = o
  BY <1>1, <1>3 DEF Stored, Swap
<1>6. \A k, l \in Lane : o[k][l] = IF (k = j /\ l = i) \/ (k = i /\ l = j) THEN m[l][k] ELSE m[k][l]
  BY <1>2, <1>4
<1> QED
  BY <1>4, <1>5, <1>6

\* Easy_matrix_transpose swaps in place, entry by entry (EasyMatrix.h:138).
LEMMA TransposeIs ==
    ASSUME NEW m, IsMat(m)
    PROVE  Easy_matrix_transpose(m) = T4(m)
<1>1. PICK a : a = Swap(Swap(m, 0, 1), 0, 2)
  OBVIOUS
<1>2. PICK b : b = Swap(Swap(a, 0, 3), 1, 2)
  OBVIOUS
<1>3. PICK c : c = Swap(Swap(b, 1, 3), 2, 3)
  OBVIOUS
<1>4. IsMat(a) /\ \A k, l \in Lane : a[k][l] =
        IF (k = 0 /\ l \in {1, 2}) \/ (l = 0 /\ k \in {1, 2}) THEN m[l][k] ELSE m[k][l]
  <2>1. PICK n : n = Swap(m, 0, 1)
    OBVIOUS
  <2>2. IsMat(n) /\ \A k, l \in Lane : n[k][l] =
          IF (k = 0 /\ l = 1) \/ (k = 1 /\ l = 0) THEN m[l][k] ELSE m[k][l]
    BY <2>1, SwapIs, LaneSet
  <2>3. IsMat(a) /\ \A k, l \in Lane : a[k][l] =
          IF (k = 0 /\ l = 2) \/ (k = 2 /\ l = 0) THEN n[l][k] ELSE n[k][l]
    BY <1>1, <2>1, <2>2, SwapIs, LaneSet
  <2> QED
    BY <2>2, <2>3
<1>5. IsMat(b) /\ \A k, l \in Lane : b[k][l] =
        IF (k = 0 /\ l = 3) \/ (l = 0 /\ k = 3) \/ (k = 1 /\ l = 2) \/ (k = 2 /\ l = 1)
        THEN a[l][k] ELSE a[k][l]
  <2>1. PICK n : n = Swap(a, 0, 3)
    OBVIOUS
  <2>2. IsMat(n) /\ \A k, l \in Lane : n[k][l] =
          IF (k = 0 /\ l = 3) \/ (k = 3 /\ l = 0) THEN a[l][k] ELSE a[k][l]
    BY <1>4, <2>1, SwapIs, LaneSet
  <2>3. IsMat(b) /\ \A k, l \in Lane : b[k][l] =
          IF (k = 1 /\ l = 2) \/ (k = 2 /\ l = 1) THEN n[l][k] ELSE n[k][l]
    BY <1>2, <2>1, <2>2, SwapIs, LaneSet
  <2> QED
    BY <2>2, <2>3
<1>6. IsMat(c) /\ \A k, l \in Lane : c[k][l] =
        IF (k \in {1, 2} /\ l = 3) \/ (l \in {1, 2} /\ k = 3) THEN b[l][k] ELSE b[k][l]
  <2>1. PICK n : n = Swap(b, 1, 3)
    OBVIOUS
  <2>2. IsMat(n) /\ \A k, l \in Lane : n[k][l] =
          IF (k = 1 /\ l = 3) \/ (k = 3 /\ l = 1) THEN b[l][k] ELSE b[k][l]
    BY <1>5, <2>1, SwapIs, LaneSet
  <2>3. IsMat(c) /\ \A k, l \in Lane : c[k][l] =
          IF (k = 2 /\ l = 3) \/ (k = 3 /\ l = 2) THEN n[l][k] ELSE n[k][l]
    BY <1>3, <2>1, <2>2, SwapIs, LaneSet
  <2> QED
    BY <2>2, <2>3
<1>7. \A k, l \in Lane : c[k][l] = m[l][k]
  BY <1>4, <1>5, <1>6, LaneSet
<1>8. Easy_matrix_transpose(m) = c
  BY <1>1, <1>2, <1>3 DEF Easy_matrix_transpose
<1> QED
  BY <1>6, <1>7, <1>8, T4Mat, SameMat

\* The two shuffles, lane by lane.
LEMMA ShufAt ==
    ASSUME NEW a, NEW b, NEW sel
    PROVE  /\ IsReg(shufps(a, b, sel))
           /\ shufps(a, b, sel)[0] = a[sel[1]] /\ shufps(a, b, sel)[1] = a[sel[2]]
           /\ shufps(a, b, sel)[2] = b[sel[3]] /\ shufps(a, b, sel)[3] = b[sel[4]]
           /\ IsReg(pshufd(a, sel))
           /\ pshufd(a, sel)[0] = a[sel[1]] /\ pshufd(a, sel)[1] = a[sel[2]]
           /\ pshufd(a, sel)[2] = a[sel[3]] /\ pshufd(a, sel)[3] = a[sel[4]]
  BY PsAt, PsReg DEF shufps, pshufd

\* A matrix put together from four rows.
LEMMA RowsMat ==
    ASSUME NEW a, NEW b, NEW c, NEW d, IsReg(a), IsReg(b), IsReg(c), IsReg(d)
    PROVE  /\ IsMat(Rows(a, b, c, d))
           /\ Rows(a, b, c, d)[0] = a /\ Rows(a, b, c, d)[1] = b
           /\ Rows(a, b, c, d)[2] = c /\ Rows(a, b, c, d)[3] = d
<1>1. /\ Rows(a, b, c, d)[0] = a /\ Rows(a, b, c, d)[1] = b
      /\ Rows(a, b, c, d)[2] = c /\ Rows(a, b, c, d)[3] = d /\ IsReg(Rows(a, b, c, d))
  BY PsAt, PsReg DEF Rows
<1> QED
  BY <1>1, LaneSet DEF IsMat

\* The transpose in eight shuffles (EasyMatrix.h:177) is the transpose.
THEOREM ShuffledTranspose ==
    ASSUME NEW m
    PROVE  Easy_matrix_transpose_sse(m) = T4(m)
<1>1. /\ Imm(68) = <<0, 1, 0, 1>> /\ Imm(238) = <<2, 3, 2, 3>>
      /\ Imm(136) = <<0, 2, 0, 2>> /\ Imm(221) = <<1, 3, 1, 3>>
  BY DEF Imm
<1>2. PICK a : a = shufps(m[0], m[1], <<0, 1, 0, 1>>)
  OBVIOUS
<1>3. PICK b : b = shufps(m[0], m[1], <<2, 3, 2, 3>>)
  OBVIOUS
<1>4. PICK c : c = shufps(m[2], m[3], <<0, 1, 0, 1>>)
  OBVIOUS
<1>5. PICK d : d = shufps(m[2], m[3], <<2, 3, 2, 3>>)
  OBVIOUS
<1>6. PICK r : r = Easy_matrix_transpose_sse(m)
  OBVIOUS
<1>7. r = Rows(shufps(a, c, <<0, 2, 0, 2>>), shufps(a, c, <<1, 3, 1, 3>>),
               shufps(b, d, <<0, 2, 0, 2>>), shufps(b, d, <<1, 3, 1, 3>>))
  BY <1>1, <1>2, <1>3, <1>4, <1>5, <1>6 DEF Easy_matrix_transpose_sse
<1>8. /\ IsMat(r)
      /\ r[0] = shufps(a, c, <<0, 2, 0, 2>>) /\ r[1] = shufps(a, c, <<1, 3, 1, 3>>)
      /\ r[2] = shufps(b, d, <<0, 2, 0, 2>>) /\ r[3] = shufps(b, d, <<1, 3, 1, 3>>)
  BY <1>7, ShufAt, RowsMat
<1>9. /\ a[0] = m[0][0] /\ a[1] = m[0][1] /\ a[2] = m[1][0] /\ a[3] = m[1][1]
      /\ b[0] = m[0][2] /\ b[1] = m[0][3] /\ b[2] = m[1][2] /\ b[3] = m[1][3]
  BY <1>2, <1>3, ShufAt
<1>10. /\ c[0] = m[2][0] /\ c[1] = m[2][1] /\ c[2] = m[3][0] /\ c[3] = m[3][1]
       /\ d[0] = m[2][2] /\ d[1] = m[2][3] /\ d[2] = m[3][2] /\ d[3] = m[3][3]
  BY <1>4, <1>5, ShufAt
<1>11. /\ r[0][0] = m[0][0] /\ r[0][1] = m[1][0] /\ r[0][2] = m[2][0] /\ r[0][3] = m[3][0]
       /\ r[1][0] = m[0][1] /\ r[1][1] = m[1][1] /\ r[1][2] = m[2][1] /\ r[1][3] = m[3][1]
  BY <1>8, <1>9, <1>10, ShufAt
<1>12. /\ r[2][0] = m[0][2] /\ r[2][1] = m[1][2] /\ r[2][2] = m[2][2] /\ r[2][3] = m[3][2]
       /\ r[3][0] = m[0][3] /\ r[3][1] = m[1][3] /\ r[3][2] = m[2][3] /\ r[3][3] = m[3][3]
  BY <1>8, <1>9, <1>10, ShufAt
<1>13. \A j, i \in Lane : r[j][i] = m[i][j]
  BY <1>11, <1>12, LaneSet
<1> QED
  BY <1>6, <1>8, <1>13, T4Mat, SameMat

(***************************************************************************)
(* Translations and scalings.                                              *)
(***************************************************************************)

\* Sums of three and four numbers are numbers.
LEMMA Plus4Closed ==
    ASSUME NEW a \in Num, NEW b \in Num, NEW c \in Num, NEW d \in Num
    PROVE  Plus3(a, b, c) \in Num /\ Plus4(a, b, c, d) \in Num
  BY NumClosed DEF Plus3, Plus4

\* A register of numbers is one whose lanes are.
LEMMA V4Reg ==
    ASSUME NEW v
    PROVE  v \in V4 <=> IsReg(v) /\ \A i \in Lane : v[i] \in Num
  BY DEF V4, IsReg

\* The rows of a matrix of numbers.
LEMMA M4Rows ==
    ASSUME NEW m \in M4
    PROVE  /\ m[0] \in V4 /\ m[1] \in V4 /\ m[2] \in V4 /\ m[3] \in V4
           /\ IsReg(m) /\ IsReg(m[0]) /\ IsReg(m[1]) /\ IsReg(m[2]) /\ IsReg(m[3])
           /\ \A i \in Lane : m[0][i] \in Num /\ m[1][i] \in Num /\ m[2][i] \in Num /\ m[3][i] \in Num
  BY LaneSet DEF M4, V4, IsReg

\* A product of matrices of numbers consists of numbers.
LEMMA MulClosed ==
    ASSUME NEW x \in M4, NEW y \in M4
    PROVE  Mul(x, y) \in M4
<1>1. ASSUME NEW j \in Lane, NEW i \in Lane PROVE Mul(x, y)[j][i] \in Num
  <2>1. \A k \in Lane : Times(x[j][k], y[k][i]) \in Num
    BY M4Mat, NumClosed
  <2>2. Mul(x, y)[j][i] = Plus4(Times(x[j][0], y[0][i]), Times(x[j][1], y[1][i]),
                                Times(x[j][2], y[2][i]), Times(x[j][3], y[3][i]))
    BY DEF Mul
  <2>3. /\ Times(x[j][0], y[0][i]) \in Num /\ Times(x[j][1], y[1][i]) \in Num
        /\ Times(x[j][2], y[2][i]) \in Num /\ Times(x[j][3], y[3][i]) \in Num
    BY <2>1, LaneSet
  <2>4. Plus4(Times(x[j][0], y[0][i]), Times(x[j][1], y[1][i]),
              Times(x[j][2], y[2][i]), Times(x[j][3], y[3][i])) \in Num
    BY <2>3, Plus4Closed
  <2> QED
    BY <2>2, <2>4
<1> QED
  BY <1>1, MulMat, MatM4

\* A vector with 1 in the last lane.
LEMMA CopyAt ==
    ASSUME NEW v \in V3, NEW w \in Num
    PROVE  /\ Easy_vector_copy(v, w) \in V4
           /\ Easy_vector_copy(v, w)[0] = v[0] /\ Easy_vector_copy(v, w)[1] = v[1]
           /\ Easy_vector_copy(v, w)[2] = v[2] /\ Easy_vector_copy(v, w)[3] = w
           /\ v[0] \in Num /\ v[1] \in Num /\ v[2] \in Num
  BY PsAt, PsReg, V4Reg, LaneSet DEF Easy_vector_copy, V3

\* The lanes of a point moved by the matrix.
Image(m, v, i) == Plus4(Times(m[0][i], v[0]), Times(m[1][i], v[1]), Times(m[2][i], v[2]), m[3][i])

\* A point through a matrix, in SSE, lane by lane.
LEMMA TransformSse ==
    ASSUME NEW m \in M4, NEW v, v[0] \in Num, v[1] \in Num, v[2] \in Num
    PROVE  /\ IsReg(Easy_vector_transform_sse(m, v))
           /\ \A i \in Lane : /\ Easy_vector_transform_sse(m, v)[i] = Image(m, v, i)
                              /\ Image(m, v, i) \in Num
<1>1. IsReg(Easy_vector_transform_sse(m, v))
  BY Lanewise DEF Easy_vector_transform_sse
<1>2. ASSUME NEW i \in Lane
      PROVE  Easy_vector_transform_sse(m, v)[i] =
               Plus(Plus(Plus(Times(v[0], m[0][i]), Times(v[1], m[1][i])), Times(v[2], m[2][i])), m[3][i])
  BY Splat, Lanewise DEF Easy_vector_transform_sse
<1>3. ASSUME NEW i \in Lane
      PROVE  /\ Easy_vector_transform_sse(m, v)[i] = Image(m, v, i)
             /\ Image(m, v, i) \in Num
  <2>1. m[0][i] \in Num /\ m[1][i] \in Num /\ m[2][i] \in Num /\ m[3][i] \in Num
    BY M4Rows
  <2>2. /\ Times(v[0], m[0][i]) = Times(m[0][i], v[0]) /\ Times(v[1], m[1][i]) = Times(m[1][i], v[1])
        /\ Times(v[2], m[2][i]) = Times(m[2][i], v[2])
    BY <2>1, TimesCommutes
  <2>3. Times(m[0][i], v[0]) \in Num /\ Times(m[1][i], v[1]) \in Num /\ Times(m[2][i], v[2]) \in Num
    BY <2>1, NumClosed
  <2> QED
    BY <1>2, <2>1, <2>2, <2>3, Plus4Closed DEF Image, Plus4, Plus3
<1> QED
  BY <1>1, <1>3

\* Row 3 of a matrix replaced.
LEMMA RowReplaced ==
    ASSUME NEW m \in M4, NEW r \in V4, NEW n, n = [m EXCEPT ![3] = r]
    PROVE  n \in M4 /\ n[3] = r /\ \A j \in {0, 1, 2} : n[j] = m[j]
  BY LaneSet DEF M4

TranslatedRow(m, v) ==
  Ps(Plus(m[3][0], Plus3(Times(m[0][0], v[0]), Times(m[1][0], v[1]), Times(m[2][0], v[2]))),
     Plus(m[3][1], Plus3(Times(m[0][1], v[0]), Times(m[1][1], v[1]), Times(m[2][1], v[2]))),
     Plus(m[3][2], Plus3(Times(m[0][2], v[0]), Times(m[1][2], v[1]), Times(m[2][2], v[2]))),
     m[3][3])

\* The last row after an internal translation.
LEMMA TranslatedRowIs ==
    ASSUME NEW m \in M4, NEW v, v[0] \in Num, v[1] \in Num, v[2] \in Num
    PROVE  /\ TranslatedRow(m, v) \in V4 /\ TranslatedRow(m, v)[3] = m[3][3]
           /\ \A i \in {0, 1, 2} : TranslatedRow(m, v)[i] = Image(m, v, i)
<1>1. ASSUME NEW i \in Lane
      PROVE  /\ Plus(m[3][i], Plus3(Times(m[0][i], v[0]), Times(m[1][i], v[1]), Times(m[2][i], v[2])))
                  = Image(m, v, i)
             /\ Image(m, v, i) \in Num
  <2>1. m[0][i] \in Num /\ m[1][i] \in Num /\ m[2][i] \in Num /\ m[3][i] \in Num
    BY M4Rows
  <2>2. Times(m[0][i], v[0]) \in Num /\ Times(m[1][i], v[1]) \in Num /\ Times(m[2][i], v[2]) \in Num
    BY <2>1, NumClosed
  <2>3. PICK p \in Num : p = Plus3(Times(m[0][i], v[0]), Times(m[1][i], v[1]), Times(m[2][i], v[2]))
    BY <2>2, Plus4Closed
  <2>4. Plus(m[3][i], p) = Plus(p, m[3][i]) /\ Plus(p, m[3][i]) \in Num
    BY <2>1, PlusCommutes, NumClosed
  <2> QED
    BY <2>3, <2>4 DEF Image, Plus4
<1>2. /\ TranslatedRow(m, v)[0] = Image(m, v, 0) /\ TranslatedRow(m, v)[1] = Image(m, v, 1)
      /\ TranslatedRow(m, v)[2] = Image(m, v, 2) /\ TranslatedRow(m, v)[3] = m[3][3]
  BY <1>1, PsAt, LaneSet DEF TranslatedRow
<1>3. IsReg(TranslatedRow(m, v))
  BY PsReg DEF TranslatedRow
<1>4. TranslatedRow(m, v) \in V4
  BY <1>1, <1>2, <1>3, V4Reg, LaneSet, M4Rows
<1> QED
  BY <1>2, <1>4

\* Both overloads of the internal translation replace row 3.
LEMMA TranslateInternalIs ==
    ASSUME NEW m \in M4, NEW v, v[0] \in Num, v[1] \in Num, v[2] \in Num
    PROVE  /\ Easy_matrix_translate_Internal(m, v) = [m EXCEPT ![3] = TranslatedRow(m, v)]
           /\ Easy_matrix_translate_Internal_sse(m, v) = [m EXCEPT ![3] = TranslatedRow(m, v)]
<1>1. Easy_matrix_translate_Internal(m, v) = [m EXCEPT ![3] = TranslatedRow(m, v)]
  BY M4Rows DEF Easy_matrix_translate_Internal, TranslatedRow, IsReg
<1> DEFINE s == Easy_vector_transform_sse(m, v)
<1>2. PICK r : r = [s EXCEPT ![3] = m[3][3]]
  OBVIOUS
<1>3. IsReg(r) /\ r[3] = m[3][3] /\ \A i \in {0, 1, 2} : r[i] = Image(m, v, i)
  <2>1. IsReg(s) /\ \A i \in {0, 1, 2} : s[i] = Image(m, v, i)
    BY TransformSse, LaneSet
  <2>2. PICK t : t = s
    OBVIOUS
  <2>3. t = [i \in Lane |-> t[i]] /\ r = [t EXCEPT ![3] = m[3][3]]
    BY <1>2, <2>1, <2>2 DEF IsReg
  <2>4. r = [i \in Lane |-> r[i]] /\ \A i \in Lane : r[i] = IF i = 3 THEN m[3][3] ELSE t[i]
    BY <2>3
  <2> QED
    BY <2>1, <2>2, <2>4, LaneSet DEF IsReg
<1>4. r = TranslatedRow(m, v)
  <2>1. IsReg(TranslatedRow(m, v))
    BY PsReg DEF TranslatedRow
  <2> QED
    BY <1>3, <2>1, TranslatedRowIs, SameReg
<1> QED
  BY <1>1, <1>2, <1>4 DEF Easy_matrix_translate_Internal_sse

\* All overloads of the scaling multiply rows 0 to 2.
LEMMA ScaleIs ==
    ASSUME NEW m \in M4, NEW v \in V3
    PROVE  /\ Easy_matrix_scale_sse(m, Easy_vector_copy(v, One)) = Easy_matrix_scale(m, v)
           /\ Easy_matrix_scale3X3(m, Easy_vector_copy(v, One)) = Easy_matrix_scale(m, v)
           /\ Easy_matrix_scale(m, v) \in M4
           /\ \A j, i \in Lane : Easy_matrix_scale(m, v)[j][i] =
                IF j = 3 THEN m[j][i] ELSE Times(m[j][i], v[j])
<1>1. PICK r0 : r0 = Lanes(LAMBDA i : Times(m[0][i], v[0]))
  OBVIOUS
<1>2. PICK r1 : r1 = Lanes(LAMBDA i : Times(m[1][i], v[1]))
  OBVIOUS
<1>3. PICK r2 : r2 = Lanes(LAMBDA i : Times(m[2][i], v[2]))
  OBVIOUS
<1>4. Easy_matrix_scale(m, v) = Rows(r0, r1, r2, m[3])
  BY <1>1, <1>2, <1>3 DEF Easy_matrix_scale, Rows, Lanes
<1>5. IsReg(r0) /\ IsReg(r1) /\ IsReg(r2) /\ \A i \in Lane :
        r0[i] = Times(m[0][i], v[0]) /\ r1[i] = Times(m[1][i], v[1]) /\ r2[i] = Times(m[2][i], v[2])
  BY <1>1, <1>2, <1>3, PsReg, PsAt, LaneSet DEF Lanes
<1>6. PICK w \in V4 : w = Easy_vector_copy(v, One)
  BY CopyAt, Constants
<1>7. /\ w[0] = v[0] /\ w[1] = v[1] /\ w[2] = v[2] /\ w[3] = One
      /\ v[0] \in Num /\ v[1] \in Num /\ v[2] \in Num
  BY <1>6, CopyAt, Constants
<1>8. ASSUME NEW j \in Lane
      PROVE  /\ IsReg(mulps(m[j], pshufd(w, <<j, j, j, j>>)))
             /\ \A i \in Lane : mulps(m[j], pshufd(w, <<j, j, j, j>>))[i] = Times(m[j][i], w[j])
  <2>1. \A i \in Lane : pshufd(w, <<j, j, j, j>>)[i] = w[j]
    <3>1. /\ pshufd(w, <<j, j, j, j>>)[0] = w[j] /\ pshufd(w, <<j, j, j, j>>)[1] = w[j]
          /\ pshufd(w, <<j, j, j, j>>)[2] = w[j] /\ pshufd(w, <<j, j, j, j>>)[3] = w[j]
      BY PsAt DEF pshufd, shufps
    <3> QED
      BY <3>1, LaneSet
  <2> QED
    BY <2>1, Lanewise
<1>9. /\ mulps(m[0], pshufd(w, <<0, 0, 0, 0>>)) = r0 /\ mulps(m[1], pshufd(w, <<1, 1, 1, 1>>)) = r1
      /\ mulps(m[2], pshufd(w, <<2, 2, 2, 2>>)) = r2
  BY <1>5, <1>7, <1>8, SameReg, LaneSet
<1>10. mulps(m[3], pshufd(w, <<3, 3, 3, 3>>)) = m[3]
  <2>1. \A i \in Lane : mulps(m[3], pshufd(w, <<3, 3, 3, 3>>))[i] = m[3][i]
    BY <1>7, <1>8, M4Rows, Neutral, LaneSet
  <2> QED
    BY <2>1, <1>8, M4Rows, SameReg, LaneSet
<1>11. Easy_matrix_scale_sse(m, w) = Rows(r0, r1, r2, m[3])
  BY <1>9, <1>10 DEF Easy_matrix_scale_sse, Lanes, Rows
<1>12. Easy_matrix_scale3X3(m, w) = Rows(r0, r1, r2, m[3])
  BY <1>9 DEF Easy_matrix_scale3X3, Lanes, Rows
<1>13. PICK n : n = Rows(r0, r1, r2, m[3])
  OBVIOUS
<1>14. IsMat(n) /\ n[0] = r0 /\ n[1] = r1 /\ n[2] = r2 /\ n[3] = m[3]
  BY <1>5, <1>13, M4Rows, RowsMat
<1>15. \A i \in Lane : r0[i] \in Num /\ r1[i] \in Num /\ r2[i] \in Num /\ m[3][i] \in Num
  <2> SUFFICES ASSUME NEW i \in Lane
               PROVE  r0[i] \in Num /\ r1[i] \in Num /\ r2[i] \in Num /\ m[3][i] \in Num
    OBVIOUS
  <2>1. m[0][i] \in Num /\ m[1][i] \in Num /\ m[2][i] \in Num /\ m[3][i] \in Num
    BY M4Rows
  <2>2. Times(m[0][i], v[0]) \in Num /\ Times(m[1][i], v[1]) \in Num /\ Times(m[2][i], v[2]) \in Num
    BY <1>7, <2>1, NumClosed
  <2> QED
    BY <1>5, <2>1, <2>2
<1>16. n \in M4
  BY <1>14, <1>15, MatM4, LaneSet
<1>17. \A j, i \in Lane : n[j][i] = IF j = 3 THEN m[j][i] ELSE Times(m[j][i], v[j])
  BY <1>5, <1>14, LaneSet
<1> QED
  BY <1>4, <1>6, <1>11, <1>12, <1>13, <1>16, <1>17

(***************************************************************************)
(* The product is associative.                                             *)
(***************************************************************************)

\* The sum of four fractions with one denominator.
LEMMA Sum4Is ==
    ASSUME NEW a, NEW b, NEW c, NEW d, NEW n, NEW k, NEW j, NEW l, NEW e,
           Is(a, n, e), Is(b, k, e), Is(c, j, e), Is(d, l, e)
    PROVE  Is(Plus4(a, b, c, d), n + k + j + l, e)
<1>1. Is(Plus(a, b), n + k, e)
  BY PlusSame
<1>2. Is(Plus(Plus(a, b), c), n + k + j, e)
  BY <1>1, PlusSame
<1>3. Is(Plus(Plus(Plus(a, b), c), d), n + k + j + l, e)
  BY <1>2, PlusSame
<1> QED
  BY <1>3 DEF Plus4, Plus3

\* The sum of four products.
LEMMA DotIs ==
    ASSUME NEW a0, NEW a1, NEW a2, NEW a3, NEW b0, NEW b1, NEW b2, NEW b3,
           NEW n0, NEW n1, NEW n2, NEW n3, NEW k0, NEW k1, NEW k2, NEW k3, NEW d, NEW e,
           Is(a0, n0, d), Is(a1, n1, d), Is(a2, n2, d), Is(a3, n3, d),
           Is(b0, k0, e), Is(b1, k1, e), Is(b2, k2, e), Is(b3, k3, e)
    PROVE  Is(Plus4(Times(a0, b0), Times(a1, b1), Times(a2, b2), Times(a3, b3)),
              n0 * k0 + n1 * k1 + n2 * k2 + n3 * k3, d * e)
<1>1. /\ Is(Times(a0, b0), n0 * k0, d * e) /\ Is(Times(a1, b1), n1 * k1, d * e)
      /\ Is(Times(a2, b2), n2 * k2, d * e) /\ Is(Times(a3, b3), n3 * k3, d * e)
  BY TimesIs
<1> QED
  BY <1>1, Sum4Is

\* A fraction over a multiple of its denominator.
LEMMA Rescaled ==
    ASSUME NEW r, NEW x, NEW c, NEW z \in Int, NEW d, Is(r, x, c), z # 0, d = c * z
    PROVE  Is(r, x * z, d)
  BY IsScaled

\* The lanes of a register over one denominator.
LEMMA CommonV4 ==
    ASSUME NEW v \in V4
    PROVE  \E d \in Int : \E n \in [Lane -> Int] : d > 0 /\ \A i \in Lane : Is(v[i], n[i], d)
<1>1. v[0] \in Num /\ v[1] \in Num /\ v[2] \in Num /\ v[3] \in Num
  BY LaneSet DEF V4
<1>2. PICK n0, d0 \in Int : d0 > 0 /\ Is(v[0], n0, d0)
  BY <1>1, Fraction
<1>3. PICK n1, d1 \in Int : d1 > 0 /\ Is(v[1], n1, d1)
  BY <1>1, Fraction
<1>4. PICK n2, d2 \in Int : d2 > 0 /\ Is(v[2], n2, d2)
  BY <1>1, Fraction
<1>5. PICK n3, d3 \in Int : d3 > 0 /\ Is(v[3], n3, d3)
  BY <1>1, Fraction
<1>6. PICK a \in Int : a = d0 * d1 /\ a > 0
  BY <1>2, <1>3
<1>7. PICK b \in Int : b = d2 * d3 /\ b > 0
  BY <1>4, <1>5
<1>8. PICK d \in Int : d = a * b /\ d > 0
  BY <1>6, <1>7
<1>10. /\ d = d0 * (d1 * b) /\ d = d1 * (d0 * b) /\ d = d2 * (a * d3) /\ d = d3 * (a * d2)
       /\ d1 * b # 0 /\ d0 * b # 0 /\ a * d3 # 0 /\ a * d2 # 0
       /\ d1 * b \in Int /\ d0 * b \in Int /\ a * d3 \in Int /\ a * d2 \in Int
  BY <1>2, <1>3, <1>4, <1>5, <1>6, <1>7, <1>8
<1>11. /\ Is(v[0], n0 * (d1 * b), d) /\ Is(v[1], n1 * (d0 * b), d)
       /\ Is(v[2], n2 * (a * d3), d) /\ Is(v[3], n3 * (a * d2), d)
  BY <1>2, <1>3, <1>4, <1>5, <1>10, Rescaled
<1>12. \A i \in Lane : \E x \in Int : Is(v[i], x, d)
  BY <1>10, <1>11, LaneSet DEF Is
<1> DEFINE n == [i \in Lane |-> CHOOSE x \in Int : Is(v[i], x, d)]
<1>13. n \in [Lane -> Int] /\ \A i \in Lane : Is(v[i], n[i], d)
  BY <1>12
<1> HIDE DEF n
<1> QED
  BY <1>8, <1>13

\* The entries of a matrix over one denominator.
LEMMA CommonM4 ==
    ASSUME NEW m \in M4
    PROVE  \E d \in Int : \E n \in [Lane -> [Lane -> Int]] :
              d > 0 /\ \A j, i \in Lane : Is(m[j][i], n[j][i], d)
<1>1. m[0] \in V4 /\ m[1] \in V4 /\ m[2] \in V4 /\ m[3] \in V4
  BY M4Rows
<1>2. PICK d0 \in Int, n0 \in [Lane -> Int] : d0 > 0 /\ \A i \in Lane : Is(m[0][i], n0[i], d0)
  BY <1>1, CommonV4
<1>3. PICK d1 \in Int, n1 \in [Lane -> Int] : d1 > 0 /\ \A i \in Lane : Is(m[1][i], n1[i], d1)
  BY <1>1, CommonV4
<1>4. PICK d2 \in Int, n2 \in [Lane -> Int] : d2 > 0 /\ \A i \in Lane : Is(m[2][i], n2[i], d2)
  BY <1>1, CommonV4
<1>5. PICK d3 \in Int, n3 \in [Lane -> Int] : d3 > 0 /\ \A i \in Lane : Is(m[3][i], n3[i], d3)
  BY <1>1, CommonV4
<1>6. PICK a \in Int : a = d0 * d1 /\ a > 0
  BY <1>2, <1>3
<1>7. PICK b \in Int : b = d2 * d3 /\ b > 0
  BY <1>4, <1>5
<1>8. PICK d \in Int : d = a * b /\ d > 0
  BY <1>6, <1>7
<1>10. /\ d = d0 * (d1 * b) /\ d = d1 * (d0 * b) /\ d = d2 * (a * d3) /\ d = d3 * (a * d2)
       /\ d1 * b # 0 /\ d0 * b # 0 /\ a * d3 # 0 /\ a * d2 # 0
       /\ d1 * b \in Int /\ d0 * b \in Int /\ a * d3 \in Int /\ a * d2 \in Int
  BY <1>2, <1>3, <1>4, <1>5, <1>6, <1>7, <1>8
<1>11. \A i \in Lane : /\ Is(m[0][i], n0[i] * (d1 * b), d) /\ Is(m[1][i], n1[i] * (d0 * b), d)
                       /\ Is(m[2][i], n2[i] * (a * d3), d) /\ Is(m[3][i], n3[i] * (a * d2), d)
  BY <1>2, <1>3, <1>4, <1>5, <1>10, Rescaled
<1>12. \A j, i \in Lane : \E x \in Int : Is(m[j][i], x, d)
  BY <1>10, <1>11, LaneSet DEF Is
<1> DEFINE n == [j \in Lane |-> [i \in Lane |-> CHOOSE x \in Int : Is(m[j][i], x, d)]]
<1>13. n \in [Lane -> [Lane -> Int]] /\ \A j, i \in Lane : Is(m[j][i], n[j][i], d)
  BY <1>12
<1> HIDE DEF n
<1> QED
  BY <1>8, <1>13

IntDot(x, y, j, i) == x[j][0] * y[0][i] + x[j][1] * y[1][i] + x[j][2] * y[2][i] + x[j][3] * y[3][i]

IntMat == [Lane -> [Lane -> Int]]

\* The entries of a matrix of integers.
LEMMA IntMatAt ==
    ASSUME NEW n \in IntMat
    PROVE  \A j, i \in Lane : n[j][i] \in Int
  BY DEF IntMat

\* A product of matrices over their denominators is one of integers.
LEMMA MulIs ==
    ASSUME NEW x, NEW y, NEW a, NEW b, NEW d, NEW e,
           \A j, i \in Lane : Is(x[j][i], a[j][i], d),
           \A j, i \in Lane : Is(y[j][i], b[j][i], e)
    PROVE  \A j, i \in Lane : Is(Mul(x, y)[j][i], IntDot(a, b, j, i), d * e)
<1> SUFFICES ASSUME NEW j \in Lane, NEW i \in Lane
             PROVE  Is(Mul(x, y)[j][i], IntDot(a, b, j, i), d * e)
  OBVIOUS
<1>1. /\ Is(x[j][0], a[j][0], d) /\ Is(x[j][1], a[j][1], d) /\ Is(x[j][2], a[j][2], d) /\ Is(x[j][3], a[j][3], d)
      /\ Is(y[0][i], b[0][i], e) /\ Is(y[1][i], b[1][i], e) /\ Is(y[2][i], b[2][i], e) /\ Is(y[3][i], b[3][i], e)
  BY LaneSet
<1>2. Is(Plus4(Times(x[j][0], y[0][i]), Times(x[j][1], y[1][i]),
               Times(x[j][2], y[2][i]), Times(x[j][3], y[3][i])), IntDot(a, b, j, i), d * e)
  BY <1>1, DotIs DEF IntDot
<1> QED
  BY <1>2 DEF Mul

\* Both ways to form one entry of a product of three, in integers.
LEMMA IntAssociates ==
    ASSUME NEW x0 \in Int, NEW x1 \in Int, NEW x2 \in Int, NEW x3 \in Int,
           NEW z0 \in Int, NEW z1 \in Int, NEW z2 \in Int, NEW z3 \in Int,
           NEW m00 \in Int, NEW m01 \in Int, NEW m02 \in Int, NEW m03 \in Int,
           NEW m10 \in Int, NEW m11 \in Int, NEW m12 \in Int, NEW m13 \in Int,
           NEW m20 \in Int, NEW m21 \in Int, NEW m22 \in Int, NEW m23 \in Int,
           NEW m30 \in Int, NEW m31 \in Int, NEW m32 \in Int, NEW m33 \in Int
    PROVE  (x0 * m00 + x1 * m10 + x2 * m20 + x3 * m30) * z0
             + (x0 * m01 + x1 * m11 + x2 * m21 + x3 * m31) * z1
             + (x0 * m02 + x1 * m12 + x2 * m22 + x3 * m32) * z2
             + (x0 * m03 + x1 * m13 + x2 * m23 + x3 * m33) * z3
           = x0 * (m00 * z0 + m01 * z1 + m02 * z2 + m03 * z3)
             + x1 * (m10 * z0 + m11 * z1 + m12 * z2 + m13 * z3)
             + x2 * (m20 * z0 + m21 * z1 + m22 * z2 + m23 * z3)
             + x3 * (m30 * z0 + m31 * z1 + m32 * z2 + m33 * z3)
  OBVIOUS

\* The product of matrices is associative.
LEMMA MulAssociates ==
    ASSUME NEW x \in M4, NEW y \in M4, NEW z \in M4
    PROVE  Mul(Mul(x, y), z) = Mul(x, Mul(y, z))
<1>1. PICK d \in Int, a \in IntMat : d > 0 /\ \A j, i \in Lane : Is(x[j][i], a[j][i], d)
  BY CommonM4 DEF IntMat
<1>2. PICK e \in Int, b \in IntMat : e > 0 /\ \A j, i \in Lane : Is(y[j][i], b[j][i], e)
  BY CommonM4 DEF IntMat
<1>3. PICK f \in Int, c \in IntMat : f > 0 /\ \A j, i \in Lane : Is(z[j][i], c[j][i], f)
  BY CommonM4 DEF IntMat
<1> DEFINE ab == [j \in Lane |-> [i \in Lane |-> IntDot(a, b, j, i)]]
           bc == [j \in Lane |-> [i \in Lane |-> IntDot(b, c, j, i)]]
<1>4. \A j, i \in Lane : Is(Mul(x, y)[j][i], ab[j][i], d * e)
  BY <1>1, <1>2, MulIs
<1>5. \A j, i \in Lane : Is(Mul(y, z)[j][i], bc[j][i], e * f)
  BY <1>2, <1>3, MulIs
<1>6. /\ \A j, i \in Lane : Is(Mul(Mul(x, y), z)[j][i], IntDot(ab, c, j, i), (d * e) * f)
      /\ \A j, i \in Lane : Is(Mul(x, Mul(y, z))[j][i], IntDot(a, bc, j, i), d * (e * f))
  <2> HIDE DEF ab, bc
  <2> QED
    BY <1>1, <1>3, <1>4, <1>5, MulIs
<1>7. ASSUME NEW j \in Lane, NEW i \in Lane
      PROVE  IntDot(ab, c, j, i) = IntDot(a, bc, j, i)
  <2>1. /\ ab[j][0] = IntDot(a, b, j, 0) /\ ab[j][1] = IntDot(a, b, j, 1)
        /\ ab[j][2] = IntDot(a, b, j, 2) /\ ab[j][3] = IntDot(a, b, j, 3)
    BY LaneSet
  <2>2. /\ bc[0][i] = IntDot(b, c, 0, i) /\ bc[1][i] = IntDot(b, c, 1, i)
        /\ bc[2][i] = IntDot(b, c, 2, i) /\ bc[3][i] = IntDot(b, c, 3, i)
    BY LaneSet
  <2>3. /\ a[j][0] \in Int /\ a[j][1] \in Int /\ a[j][2] \in Int /\ a[j][3] \in Int
        /\ c[0][i] \in Int /\ c[1][i] \in Int /\ c[2][i] \in Int /\ c[3][i] \in Int
    BY IntMatAt, LaneSet
  <2>4. /\ b[0][0] \in Int /\ b[0][1] \in Int /\ b[0][2] \in Int /\ b[0][3] \in Int
        /\ b[1][0] \in Int /\ b[1][1] \in Int /\ b[1][2] \in Int /\ b[1][3] \in Int
        /\ b[2][0] \in Int /\ b[2][1] \in Int /\ b[2][2] \in Int /\ b[2][3] \in Int
        /\ b[3][0] \in Int /\ b[3][1] \in Int /\ b[3][2] \in Int /\ b[3][3] \in Int
    BY IntMatAt, LaneSet
  <2> HIDE DEF ab, bc
  <2> QED
    BY <2>1, <2>2, <2>3, <2>4, IntAssociates DEF IntDot
<1>8. (d * e) * f = d * (e * f)
  OBVIOUS
<1>9. \A j, i \in Lane : Mul(Mul(x, y), z)[j][i] = Mul(x, Mul(y, z))[j][i]
  <2> SUFFICES ASSUME NEW j \in Lane, NEW i \in Lane
               PROVE  Mul(Mul(x, y), z)[j][i] = Mul(x, Mul(y, z))[j][i]
    OBVIOUS
  <2> PICK n : n = IntDot(ab, c, j, i)
    OBVIOUS
  <2>1. Is(Mul(Mul(x, y), z)[j][i], n, (d * e) * f) /\ Is(Mul(x, Mul(y, z))[j][i], n, d * (e * f))
    BY <1>6, <1>7
  <2> QED
    BY <1>8, <2>1, IsEqual
<1> QED
  BY <1>9, MulMat, SameMat

\* A register of integers.
LEMMA VecIs ==
    ASSUME NEW x, NEW y, NEW z, NEW w
    PROVE  /\ IsReg(Vec(x, y, z, w))
           /\ Vec(x, y, z, w)[0] = Int2Q(x) /\ Vec(x, y, z, w)[1] = Int2Q(y)
           /\ Vec(x, y, z, w)[2] = Int2Q(z) /\ Vec(x, y, z, w)[3] = Int2Q(w)
  BY PsAt, PsReg DEF Vec

\* The identity has ones on its diagonal.
LEMMA IdentityIs ==
    /\ IdentityMatrix \in M4
    /\ \A j, i \in Lane : IdentityMatrix[j][i] = IF j = i THEN One ELSE Zero
<1>1. IsMat(IdentityMatrix) /\ \A j, i \in Lane : IdentityMatrix[j][i] = IF j = i THEN One ELSE Zero
  BY VecIs, RowsMat, LaneSet DEF IdentityMatrix, One, Zero
<1> QED
  BY <1>1, MatM4, Constants

\* A product with the identity.
LEMMA MulIdentity ==
    ASSUME NEW m \in M4
    PROVE  Mul(m, IdentityMatrix) = m /\ Mul(IdentityMatrix, m) = m
<1>1. ASSUME NEW j \in Lane, NEW i \in Lane
      PROVE  Mul(m, IdentityMatrix)[j][i] = m[j][i] /\ Mul(IdentityMatrix, m)[j][i] = m[j][i]
  <2>1. /\ m[j][0] \in Num /\ m[j][1] \in Num /\ m[j][2] \in Num /\ m[j][3] \in Num
        /\ m[0][i] \in Num /\ m[1][i] \in Num /\ m[2][i] \in Num /\ m[3][i] \in Num
    BY M4Mat, LaneSet
  <2>2. \A k \in Lane : /\ Times(m[j][k], IdentityMatrix[k][i]) = IF k = i THEN m[j][k] ELSE Zero
                        /\ Times(IdentityMatrix[j][k], m[k][i]) = IF k = j THEN m[k][i] ELSE Zero
    BY M4Mat, IdentityIs, Neutral
  <2>3. Mul(m, IdentityMatrix)[j][i] =
          Plus4(IF 0 = i THEN m[j][0] ELSE Zero, IF 1 = i THEN m[j][1] ELSE Zero,
                IF 2 = i THEN m[j][2] ELSE Zero, IF 3 = i THEN m[j][3] ELSE Zero)
    BY <2>2, LaneSet DEF Mul
  <2>4. Mul(IdentityMatrix, m)[j][i] =
          Plus4(IF 0 = j THEN m[0][i] ELSE Zero, IF 1 = j THEN m[1][i] ELSE Zero,
                IF 2 = j THEN m[2][i] ELSE Zero, IF 3 = j THEN m[3][i] ELSE Zero)
    BY <2>2, LaneSet DEF Mul
  <2>5. \A a \in Num : /\ Plus4(a, Zero, Zero, Zero) = a /\ Plus4(Zero, a, Zero, Zero) = a
                       /\ Plus4(Zero, Zero, a, Zero) = a /\ Plus4(Zero, Zero, Zero, a) = a
    BY Neutral, Constants DEF Plus4, Plus3
  <2>6. Mul(m, IdentityMatrix)[j][i] = m[j][i]
    BY <2>1, <2>3, <2>5, LaneSet
  <2>7. Mul(IdentityMatrix, m)[j][i] = m[j][i]
    BY <2>1, <2>4, <2>5, LaneSet
  <2> QED
    BY <2>6, <2>7
<1> QED
  BY <1>1, MulMat, M4Mat, SameMat

\* A left inverse is the right inverse.
LEMMA OneInverse ==
    ASSUME NEW m \in M4, NEW x \in M4, NEW y \in M4,
           Mul(x, m) = IdentityMatrix, Mul(m, y) = IdentityMatrix
    PROVE  x = y
<1>1. Mul(Mul(x, m), y) = Mul(x, Mul(m, y))
  BY MulAssociates
<1> QED
  BY <1>1, MulIdentity

(***************************************************************************)
(* Points and vectors through a matrix.                                    *)
(***************************************************************************)

\* A vector of four through the matrix, entry by entry.
Through(m, v, i) ==
  Plus4(Times(m[0][i], v[0]), Times(m[1][i], v[1]), Times(m[2][i], v[2]), Times(m[3][i], v[3]))

\* A vector of four through a matrix.
LEMMA ThroughIs ==
    ASSUME NEW m \in M4, NEW v \in V4
    PROVE  /\ IsReg(Easy_matrix_mult_vector4X4(m, v))
           /\ Easy_matrix_mult_vector4X4(m, v) \in V4
           /\ \A i \in Lane : /\ Easy_matrix_mult_vector4X4(m, v)[i] = Through(m, v, i)
                              /\ Through(m, v, i) \in Num
<1>1. IsReg(Easy_matrix_mult_vector4X4(m, v))
  BY PsReg DEF Easy_matrix_mult_vector4X4, Lanes
<1>2. \A i \in Lane : Easy_matrix_mult_vector4X4(m, v)[i] = Through(m, v, i)
  BY PsAt, LaneSet DEF Easy_matrix_mult_vector4X4, Lanes, Through
<1>3. ASSUME NEW i \in Lane PROVE Through(m, v, i) \in Num
  <2>1. m[0][i] \in Num /\ m[1][i] \in Num /\ m[2][i] \in Num /\ m[3][i] \in Num
    BY M4Rows
  <2>2. v[0] \in Num /\ v[1] \in Num /\ v[2] \in Num /\ v[3] \in Num
    BY LaneSet DEF V4
  <2>3. /\ Times(m[0][i], v[0]) \in Num /\ Times(m[1][i], v[1]) \in Num
        /\ Times(m[2][i], v[2]) \in Num /\ Times(m[3][i], v[3]) \in Num
    BY <2>1, <2>2, NumClosed
  <2> QED
    BY <2>3, Plus4Closed DEF Through
<1> QED
  BY <1>1, <1>2, <1>3, V4Reg

\* The SSE overloads that apply a matrix give what the scalar one gives.
LEMMA AppliedAlike ==
    ASSUME NEW m \in M4, NEW v \in V4
    PROVE  /\ Easy_matrix_mult_vector4X4_sse(m, v) = Easy_matrix_mult_vector4X4(m, v)
           /\ v[3] = One => Easy_matrix_mult_vector3X3_sse(m, v) = Easy_matrix_mult_vector4X4(m, v)
<1>1. v[0] \in Num /\ v[1] \in Num /\ v[2] \in Num /\ v[3] \in Num
  BY LaneSet DEF V4
<1>2. ASSUME NEW i \in Lane PROVE RowTimes(v, m)[i] = Through(m, v, i)
  <2>1. m[0][i] \in Num /\ m[1][i] \in Num /\ m[2][i] \in Num /\ m[3][i] \in Num
    BY M4Rows
  <2>2. /\ Times(v[0], m[0][i]) = Times(m[0][i], v[0]) /\ Times(v[1], m[1][i]) = Times(m[1][i], v[1])
        /\ Times(v[2], m[2][i]) = Times(m[2][i], v[2]) /\ Times(v[3], m[3][i]) = Times(m[3][i], v[3])
    BY <1>1, <2>1, TimesCommutes
  <2> QED
    BY <2>2, RowTimesIs DEF Through
<1>3. RowTimes(v, m) = Easy_matrix_mult_vector4X4(m, v)
  BY <1>2, RowTimesIs, ThroughIs, SameReg, LaneSet
<1>4. ASSUME v[3] = One
      PROVE  Easy_vector_transform_sse(m, v) = Easy_matrix_mult_vector4X4(m, v)
  <2>1. ASSUME NEW i \in Lane PROVE Image(m, v, i) = Through(m, v, i)
    BY <1>4, M4Rows, Neutral DEF Image, Through
  <2> QED
    BY <1>1, <2>1, TransformSse, ThroughIs, SameReg, LaneSet
<1> QED
  BY <1>3, <1>4 DEF Easy_matrix_mult_vector4X4_sse, Easy_matrix_mult_vector3X3_sse

\* The first three lanes, copied out.
LEMMA XYZAt ==
    ASSUME NEW v
    PROVE  /\ Easy_vector_copy_out(v) = [i \in Axis |-> v[i]]
  BY DEF Easy_vector_copy_out, XYZ

\* The point moved as a vector of three.
LEMMA TransformIs ==
    ASSUME NEW m \in M4, NEW v, v[0] \in Num, v[1] \in Num, v[2] \in Num
    PROVE  /\ Easy_vector_transform(m, v) = [i \in Axis |-> Image(m, v, i)]
           /\ Easy_vector_transform(m, v) \in V3
<1>1. Easy_vector_transform(m, v) = [i \in Axis |-> Image(m, v, i)]
  BY DEF Easy_vector_transform, XYZ, Image
<1>2. \A i \in Axis : Image(m, v, i) \in Num
  BY TransformSse, LaneSet
<1> QED
  BY <1>1, <1>2 DEF V3

\* The cross product in shuffles is the one written out.
LEMMA CrossIs ==
    ASSUME NEW a, NEW b
    PROVE  /\ Easy_vector_cross(a, b)[0] = Minus(Times(a[1], b[2]), Times(a[2], b[1]))
           /\ Easy_vector_cross(a, b)[1] = Minus(Times(a[2], b[0]), Times(a[0], b[2]))
           /\ Easy_vector_cross(a, b)[2] = Minus(Times(a[0], b[1]), Times(a[1], b[0]))
           /\ Easy_vector_cross(a, b) = [i \in Axis |-> Easy_vector_cross(a, b)[i]]
<1>1. /\ (0 + 1) % 3 = 1 /\ (0 + 2) % 3 = 2 /\ (1 + 1) % 3 = 2 /\ (1 + 2) % 3 = 0
      /\ (2 + 1) % 3 = 0 /\ (2 + 2) % 3 = 1
  OBVIOUS
<1>2. Easy_vector_cross(a, b) =
        [i \in Axis |-> Minus(Times(a[(i + 1) % 3], b[(i + 2) % 3]), Times(a[(i + 2) % 3], b[(i + 1) % 3]))]
  BY DEF Easy_vector_cross, XYZ
<1> QED
  BY <1>1, <1>2, LaneSet

\* The vector product in two shuffles, lane by lane.
LEMMA CrossSse ==
    ASSUME NEW a, NEW b
    PROVE  \A i \in Axis : Easy_vector_cross_sse(a, b)[i] = Easy_vector_cross(a, b)[i]
<1>1. /\ Imm(201)[1] = 1 /\ Imm(201)[2] = 2 /\ Imm(201)[3] = 0
      /\ Imm(210)[1] = 2 /\ Imm(210)[2] = 0 /\ Imm(210)[3] = 1
  BY DEF Imm
<1>2. /\ pshufd(a, Imm(201))[0] = a[1] /\ pshufd(a, Imm(201))[1] = a[2] /\ pshufd(a, Imm(201))[2] = a[0]
      /\ pshufd(a, Imm(210))[0] = a[2] /\ pshufd(a, Imm(210))[1] = a[0] /\ pshufd(a, Imm(210))[2] = a[1]
      /\ pshufd(b, Imm(201))[0] = b[1] /\ pshufd(b, Imm(201))[1] = b[2] /\ pshufd(b, Imm(201))[2] = b[0]
      /\ pshufd(b, Imm(210))[0] = b[2] /\ pshufd(b, Imm(210))[1] = b[0] /\ pshufd(b, Imm(210))[2] = b[1]
  <2>1. ASSUME NEW c, NEW sel
        PROVE  /\ pshufd(c, sel)[0] = c[sel[1]] /\ pshufd(c, sel)[1] = c[sel[2]]
               /\ pshufd(c, sel)[2] = c[sel[3]]
    BY ShufAt
  <2>2. ASSUME NEW c
        PROVE  /\ pshufd(c, Imm(201))[0] = c[1] /\ pshufd(c, Imm(201))[1] = c[2]
               /\ pshufd(c, Imm(201))[2] = c[0]
    BY <1>1, <2>1
  <2>3. ASSUME NEW c
        PROVE  /\ pshufd(c, Imm(210))[0] = c[2] /\ pshufd(c, Imm(210))[1] = c[0]
               /\ pshufd(c, Imm(210))[2] = c[1]
    BY <1>1, <2>1
  <2> QED
    BY <2>2, <2>3
<1>3. \A i \in Lane : Easy_vector_cross_sse(a, b)[i] =
        Minus(Times(pshufd(a, Imm(201))[i], pshufd(b, Imm(210))[i]),
              Times(pshufd(a, Imm(210))[i], pshufd(b, Imm(201))[i]))
  BY Lanewise DEF Easy_vector_cross_sse
<1>4. /\ Easy_vector_cross_sse(a, b)[0] = Minus(Times(a[1], b[2]), Times(a[2], b[1]))
      /\ Easy_vector_cross_sse(a, b)[1] = Minus(Times(a[2], b[0]), Times(a[0], b[2]))
      /\ Easy_vector_cross_sse(a, b)[2] = Minus(Times(a[0], b[1]), Times(a[1], b[0]))
  BY <1>2, <1>3, LaneSet
<1> QED
  BY <1>4, CrossIs, LaneSet

\* Both overloads of the vector product agree for a point and where it goes.
LEMMA CrossAlike ==
    ASSUME NEW m \in M4, NEW p \in V3, NEW v, v = Easy_vector_copy(p, One)
    PROVE  Easy_vector_copy_out(Easy_vector_cross_sse(v, Easy_matrix_mult_vector4X4(m, v)))
             = Easy_vector_cross(p, Easy_matrix_mult_vector3X3(m, p))
<1>1. /\ v \in V4 /\ v[0] = p[0] /\ v[1] = p[1] /\ v[2] = p[2] /\ v[3] = One
      /\ p[0] \in Num /\ p[1] \in Num /\ p[2] \in Num
  BY CopyAt, Constants
<1>2. PICK w : w = Easy_matrix_mult_vector4X4(m, v)
  OBVIOUS
<1>3. PICK u : u = Easy_matrix_mult_vector3X3(m, p)
  OBVIOUS
<1>4. ASSUME NEW i \in Axis PROVE w[i] = u[i]
  <2>1. i \in Lane
    BY LaneSet
  <2>2. w[i] = Through(m, v, i)
    BY <1>1, <1>2, <2>1, ThroughIs
  <2>3. u[i] = Image(m, p, i)
    BY <1>1, <1>3, TransformIs DEF Easy_matrix_mult_vector3X3
  <2>4. Through(m, v, i) = Image(m, p, i)
    BY <1>1, <2>1, M4Rows, Neutral DEF Through, Image
  <2> QED
    BY <2>2, <2>3, <2>4
<1>5. \A i \in Axis : Easy_vector_cross(v, w)[i] = Easy_vector_cross(p, u)[i]
  BY <1>1, <1>4, CrossIs, LaneSet
<1>6. \A i \in Axis : Easy_vector_cross_sse(v, w)[i] = Easy_vector_cross(p, u)[i]
  BY <1>5, CrossSse
<1>7. Easy_vector_copy_out(Easy_vector_cross_sse(v, w)) = [i \in Axis |-> Easy_vector_cross(p, u)[i]]
  BY <1>6, XYZAt
<1> QED
  BY <1>2, <1>3, <1>7, CrossIs

(***************************************************************************)
(* Rotations by quaternions of any length.                                 *)
(***************************************************************************)

\* A register with one lane replaced.
Put(a, j, v) == [a EXCEPT ![j] = v]

\* One lane of a register replaced.
LEMMA PutIs ==
    ASSUME NEW a, IsReg(a), NEW j \in Lane, NEW v
    PROVE  /\ IsReg(Put(a, j, v)) /\ Put(a, j, v)[j] = v
           /\ \A i \in Lane : i # j => Put(a, j, v)[i] = a[i]
<1>1. Put(a, j, v) = [i \in Lane |-> IF i = j THEN v ELSE a[i]]
  BY DEF Put, IsReg
<1> QED
  BY <1>1 DEF IsReg

\* The other instructions, lane by lane.
LEMMA OneLane ==
    ASSUME NEW a, NEW b, IsReg(a)
    PROVE  /\ IsReg(addss(a, b)) /\ IsReg(subss(a, b)) /\ IsReg(mulss(a, b)) /\ IsReg(movss(a, b))
           /\ addss(a, b)[0] = Plus(a[0], b[0]) /\ subss(a, b)[0] = Minus(a[0], b[0])
           /\ mulss(a, b)[0] = Times(a[0], b[0]) /\ movss(a, b)[0] = b[0]
           /\ \A i \in {1, 2, 3} : /\ addss(a, b)[i] = a[i] /\ subss(a, b)[i] = a[i]
                                   /\ mulss(a, b)[i] = a[i] /\ movss(a, b)[i] = a[i]
<1>1. addss(a, b) = Put(a, 0, Plus(a[0], b[0])) /\ subss(a, b) = Put(a, 0, Minus(a[0], b[0]))
  BY DEF addss, subss, IsReg, Put
<1>2. mulss(a, b) = Put(a, 0, Times(a[0], b[0])) /\ movss(a, b) = Put(a, 0, b[0])
  BY DEF mulss, movss, IsReg, Put
<1> QED
  BY <1>1, <1>2, PutIs, LaneSet

\* Sign bits flipped in some lanes.
LEMMA XorIs ==
    ASSUME NEW a, NEW S
    PROVE  IsReg(xorps(a, S)) /\ \A i \in Lane : xorps(a, S)[i] = IF i \in S THEN Neg(a[i]) ELSE a[i]
  BY PsReg, PsAt, LaneSet DEF xorps, Lanes

\* The shuffles with their selectors written out.
LEMMA ShufTuple ==
    ASSUME NEW a, NEW b, NEW i, NEW j, NEW k, NEW l
    PROVE  /\ IsReg(shufps(a, b, <<i, j, k, l>>)) /\ IsReg(pshufd(a, <<i, j, k, l>>))
           /\ shufps(a, b, <<i, j, k, l>>)[0] = a[i] /\ shufps(a, b, <<i, j, k, l>>)[1] = a[j]
           /\ shufps(a, b, <<i, j, k, l>>)[2] = b[k] /\ shufps(a, b, <<i, j, k, l>>)[3] = b[l]
           /\ pshufd(a, <<i, j, k, l>>)[0] = a[i] /\ pshufd(a, <<i, j, k, l>>)[1] = a[j]
           /\ pshufd(a, <<i, j, k, l>>)[2] = a[k] /\ pshufd(a, <<i, j, k, l>>)[3] = a[l]
<1>1. PICK sel : sel = <<i, j, k, l>>
  OBVIOUS
<1>2. sel[1] = i /\ sel[2] = j /\ sel[3] = k /\ sel[4] = l
  BY <1>1
<1>3. /\ shufps(a, b, sel)[0] = a[i] /\ shufps(a, b, sel)[1] = a[j]
      /\ shufps(a, b, sel)[2] = b[k] /\ shufps(a, b, sel)[3] = b[l] /\ IsReg(shufps(a, b, sel))
  BY <1>2, PsAt, PsReg DEF shufps
<1>4. /\ pshufd(a, sel)[0] = a[i] /\ pshufd(a, sel)[1] = a[j]
      /\ pshufd(a, sel)[2] = a[k] /\ pshufd(a, sel)[3] = a[l] /\ IsReg(pshufd(a, sel))
  BY <1>2, PsAt, PsReg DEF pshufd, shufps
<1> QED
  BY <1>1, <1>3, <1>4

\* The rows of a quaternion's matrix, with t in the last lanes.
LEMMA QuatRowsAt ==
    ASSUME NEW q, NEW t, IsReg(q)
    PROVE  LET x2 == Plus(q[0], q[0])
               y2 == Plus(q[1], q[1])
               z2 == Plus(q[2], q[2])
               zz == Plus(Neg(Times(q[2], z2)), One)
               M == QuatRows(q, t)
           IN  /\ IsMat(M)
               /\ M[0][0] = Minus(zz, Times(q[1], y2))
               /\ M[0][1] = Minus(Times(q[3], z2), Neg(Times(q[0], y2)))
               /\ M[0][2] = Minus(Neg(Times(q[3], y2)), Neg(Times(q[0], z2)))
               /\ M[1][0] = Minus(Neg(Times(q[3], z2)), Neg(Times(q[0], y2)))
               /\ M[1][1] = Minus(zz, Times(q[0], x2))
               /\ M[1][2] = Minus(Neg(Neg(Times(q[3], x2))), Neg(Times(q[1], z2)))
               /\ M[2][0] = Minus(Neg(Neg(Times(q[3], y2))), Neg(Times(q[0], z2)))
               /\ M[2][1] = Minus(Neg(Times(q[3], x2)), Neg(Times(q[1], z2)))
               /\ M[2][2] = Minus(Minus(One, Times(q[0], x2)), Times(q[1], y2))
               /\ M[0][3] = t[0] /\ M[1][3] = t[1] /\ M[2][3] = t[2]
               /\ M[3] = Vec(0, 0, 0, 1)
<1>1. PICK q2 : q2 = addps(q, q)
  OBVIOUS
<1>2. IsReg(q2) /\ \A i \in Lane : q2[i] = Plus(q[i], q[i])
  BY <1>1, Lanewise
<1>3. PICK a2 : a2 = mulps(pshufd(q, <<1, 0, 0, 1>>), pshufd(q2, <<1, 1, 2, 2>>))
  OBVIOUS
<1>4. /\ a2[0] = Times(q[1], q2[1]) /\ a2[1] = Times(q[0], q2[1])
      /\ a2[2] = Times(q[0], q2[2]) /\ a2[3] = Times(q[1], q2[2]) /\ IsReg(a2)
  <2>1. PICK u : u = pshufd(q, <<1, 0, 0, 1>>)
    OBVIOUS
  <2>2. PICK v : v = pshufd(q2, <<1, 1, 2, 2>>)
    OBVIOUS
  <2>3. u[0] = q[1] /\ u[1] = q[0] /\ u[2] = q[0] /\ u[3] = q[1]
    BY <2>1, ShufTuple
  <2>4. v[0] = q2[1] /\ v[1] = q2[1] /\ v[2] = q2[2] /\ v[3] = q2[2]
    BY <2>2, ShufTuple
  <2>5. IsReg(a2) /\ \A i \in Lane : a2[i] = Times(u[i], v[i])
    BY <1>3, <2>1, <2>2, Lanewise
  <2> QED
    BY <2>3, <2>4, <2>5, LaneSet
<1>5. PICK a4 : a4 = mulps(pshufd(q, <<2, 3, 3, 3>>), pshufd(q2, <<2, 2, 1, 0>>))
  OBVIOUS
<1>6. /\ a4[0] = Times(q[2], q2[2]) /\ a4[1] = Times(q[3], q2[2])
      /\ a4[2] = Times(q[3], q2[1]) /\ a4[3] = Times(q[3], q2[0]) /\ IsReg(a4)
  <2>1. PICK u : u = pshufd(q, <<2, 3, 3, 3>>)
    OBVIOUS
  <2>2. PICK v : v = pshufd(q2, <<2, 2, 1, 0>>)
    OBVIOUS
  <2>3. u[0] = q[2] /\ u[1] = q[3] /\ u[2] = q[3] /\ u[3] = q[3]
    BY <2>1, ShufTuple
  <2>4. v[0] = q2[2] /\ v[1] = q2[2] /\ v[2] = q2[1] /\ v[3] = q2[0]
    BY <2>2, ShufTuple
  <2>5. IsReg(a4) /\ \A i \in Lane : a4[i] = Times(u[i], v[i])
    BY <1>5, <2>1, <2>2, Lanewise
  <2> QED
    BY <2>3, <2>4, <2>5, LaneSet
<1>7. PICK xx : xx = mulss(q, q2)
  OBVIOUS
<1>8. IsReg(xx) /\ xx[0] = Times(q[0], q2[0])
  BY <1>7, OneLane
<1>9. PICK diag : diag = subss(subss(Vec(1, 0, 0, 0), xx), a2)
  OBVIOUS
<1>10. diag[0] = Minus(Minus(One, xx[0]), a2[0])
  <2>1. PICK u : u = subss(Vec(1, 0, 0, 0), xx)
    OBVIOUS
  <2>2. IsReg(u) /\ u[0] = Minus(One, xx[0])
    BY <2>1, VecIs, OneLane DEF One
  <2> QED
    BY <1>9, <2>1, <2>2, OneLane
<1>11. PICK tail : tail = shufps(diag, t, <<0, 1, 2, 3>>)
  OBVIOUS
<1>12. tail[0] = diag[0] /\ tail[2] = t[2]
  BY <1>11, ShufTuple
<1>13. PICK b2 : b2 = xorps(a2, {1, 2, 3})
  OBVIOUS
<1>14. IsReg(b2) /\ b2[0] = a2[0] /\ b2[1] = Neg(a2[1]) /\ b2[2] = Neg(a2[2]) /\ b2[3] = Neg(a2[3])
  BY <1>13, XorIs, LaneSet
<1>15. PICK b4 : b4 = addss(xorps(a4, {0, 2, 3}), SIMD_SP_one1)
  OBVIOUS
<1>16. IsReg(b4) /\ b4[0] = Plus(Neg(a4[0]), One) /\ b4[1] = a4[1] /\ b4[2] = Neg(a4[2]) /\ b4[3] = Neg(a4[3])
  <2>1. PICK u : u = xorps(a4, {0, 2, 3})
    OBVIOUS
  <2>2. IsReg(u) /\ u[0] = Neg(a4[0]) /\ u[1] = a4[1] /\ u[2] = Neg(a4[2]) /\ u[3] = Neg(a4[3])
    BY <2>1, XorIs, LaneSet
  <2>3. SIMD_SP_one1[0] = One
    BY VecIs DEF SIMD_SP_one1, One
  <2> QED
    BY <1>15, <2>1, <2>2, <2>3, OneLane
<1>17. PICK row0 : row0 = subps(b4, b2)
  OBVIOUS
<1>18. IsReg(row0) /\ \A i \in Lane : row0[i] = Minus(b4[i], b2[i])
  BY <1>17, Lanewise
<1>19. PICK c4 : c4 = subps(xorps(b4, {1, 2, 3}), movss(b2, xx))
  OBVIOUS
<1>20. /\ c4[0] = Minus(b4[0], xx[0]) /\ c4[1] = Minus(Neg(b4[1]), b2[1])
       /\ c4[2] = Minus(Neg(b4[2]), b2[2]) /\ c4[3] = Minus(Neg(b4[3]), b2[3])
  <2>1. PICK u : u = xorps(b4, {1, 2, 3})
    OBVIOUS
  <2>2. u[0] = b4[0] /\ u[1] = Neg(b4[1]) /\ u[2] = Neg(b4[2]) /\ u[3] = Neg(b4[3])
    BY <2>1, XorIs, LaneSet
  <2>3. PICK v : v = movss(b2, xx)
    OBVIOUS
  <2>4. v[0] = xx[0] /\ v[1] = b2[1] /\ v[2] = b2[2] /\ v[3] = b2[3]
    BY <1>14, <2>3, OneLane
  <2> QED
    BY <1>19, <2>1, <2>2, <2>3, <2>4, Lanewise, LaneSet
<1>21. PICK tyzw : tyzw = pshufd(t, <<1, 2, 3, 0>>)
  OBVIOUS
<1>22. tyzw[0] = t[1]
  BY <1>21, ShufTuple
<1>23. PICK row1 : row1 = pshufd(c4, <<1, 0, 3, 2>>)
  OBVIOUS
<1>24. IsReg(row1) /\ row1[0] = c4[1] /\ row1[1] = c4[0] /\ row1[2] = c4[3] /\ row1[3] = c4[2]
  BY <1>23, ShufTuple
<1>25. PICK row2 : row2 = shufps(movhlps(row0, row1), tail, <<1, 3, 0, 2>>)
  OBVIOUS
<1>26. IsReg(row2) /\ row2[0] = row1[3] /\ row2[1] = row0[3] /\ row2[2] = tail[0] /\ row2[3] = tail[2]
  <2>1. movhlps(row0, row1)[1] = row1[3] /\ movhlps(row0, row1)[3] = row0[3]
    BY PsAt DEF movhlps
  <2> QED
    BY <1>25, <2>1, ShufTuple
<1>27. PICK r0 : r0 = Put(row0, 3, t[0])
  OBVIOUS
<1>28. PICK r1 : r1 = Put(row1, 3, tyzw[0])
  OBVIOUS
<1>30. IsReg(r0) /\ r0[0] = row0[0] /\ r0[1] = row0[1] /\ r0[2] = row0[2] /\ r0[3] = t[0]
  BY <1>18, <1>27, PutIs, LaneSet
<1>31. IsReg(r1) /\ r1[0] = row1[0] /\ r1[1] = row1[1] /\ r1[2] = row1[2] /\ r1[3] = t[1]
  BY <1>22, <1>24, <1>28, PutIs, LaneSet
<1>32. QuatRows(q, t) = Rows(r0, r1, row2, Vec(0, 0, 0, 1))
  BY <1>1, <1>3, <1>5, <1>7, <1>9, <1>11, <1>13, <1>15, <1>17, <1>19, <1>21, <1>23, <1>25, <1>27, <1>28
     DEF QuatRows, Rows, SIMD_SP_one3, Put
<1>33. PICK M : M = QuatRows(q, t)
  OBVIOUS
<1>34. IsMat(M) /\ M[0] = r0 /\ M[1] = r1 /\ M[2] = row2 /\ M[3] = Vec(0, 0, 0, 1)
  BY <1>26, <1>30, <1>31, <1>32, <1>33, VecIs, RowsMat
<1>35. q2[0] = Plus(q[0], q[0]) /\ q2[1] = Plus(q[1], q[1]) /\ q2[2] = Plus(q[2], q[2])
  BY <1>2, LaneSet
<1>36. row0[0] = Minus(b4[0], b2[0]) /\ row0[1] = Minus(b4[1], b2[1]) /\ row0[2] = Minus(b4[2], b2[2])
       /\ row0[3] = Minus(b4[3], b2[3])
  BY <1>18, LaneSet
<1>40. /\ M[0][0] = Minus(b4[0], b2[0]) /\ M[0][1] = Minus(b4[1], b2[1]) /\ M[0][2] = Minus(b4[2], b2[2])
       /\ M[0][3] = t[0]
  BY <1>30, <1>34, <1>36
<1>41. /\ M[1][0] = Minus(Neg(b4[1]), b2[1]) /\ M[1][1] = Minus(b4[0], xx[0])
       /\ M[1][2] = Minus(Neg(b4[3]), b2[3]) /\ M[1][3] = t[1]
  BY <1>20, <1>24, <1>31, <1>34
<1>42. /\ M[2][0] = Minus(Neg(b4[2]), b2[2]) /\ M[2][1] = Minus(b4[3], b2[3])
       /\ M[2][2] = diag[0] /\ M[2][3] = t[2]
  BY <1>12, <1>20, <1>24, <1>26, <1>34, <1>36
<1> HIDE DEF QuatRows
<1> QED
  BY <1>4, <1>6, <1>8, <1>10, <1>14, <1>16, <1>33, <1>34, <1>35, <1>40, <1>41, <1>42

\* Two fractions of one number have the same cross products.
LEMMA IsCross ==
    ASSUME NEW a, NEW n, NEW d, NEW k, NEW e, Is(a, n, d), Is(a, k, e)
    PROVE  n * e = k * d
<1>1. PICK i \in Int, p \in Nat \ {0} : a = <<i, p>>
  BY DEF Is, Num
<1>2. /\ n \in Int /\ d \in Int /\ d # 0 /\ i * d = n * p
      /\ k \in Int /\ e \in Int /\ e # 0 /\ i * e = k * p
  BY <1>1 DEF Is
<1>3. p * (n * e) = (n * p) * e /\ (n * p) * e = (i * d) * e /\ p * (k * d) = (k * p) * d
      /\ (k * p) * d = (i * e) * d /\ (i * d) * e = (i * e) * d
  BY <1>1, <1>2
<1>4. p * (n * e) = p * (k * d)
  BY <1>3
<1> QED
  BY <1>1, <1>2, <1>4, Cancel

\* The parts of a fraction.
LEMMA IsInts ==
    ASSUME NEW a, NEW n, NEW d, Is(a, n, d)
    PROVE  a \in Num /\ n \in Int /\ d \in Int /\ d # 0
  BY DEF Is

\* The entries of the matrix of the quaternion (x, y, z, w) / e, over e * e.
Entry(x, y, z, w, o, j, i) ==
  IF j = 0 /\ i = 0 THEN o - 2 * (z * z) - 2 * (y * y)
  ELSE IF j = 0 /\ i = 1 THEN 2 * (w * z) + 2 * (x * y)
  ELSE IF j = 0 /\ i = 2 THEN 2 * (x * z) - 2 * (w * y)
  ELSE IF j = 1 /\ i = 0 THEN 2 * (x * y) - 2 * (w * z)
  ELSE IF j = 1 /\ i = 1 THEN o - 2 * (z * z) - 2 * (x * x)
  ELSE IF j = 1 /\ i = 2 THEN 2 * (w * x) + 2 * (y * z)
  ELSE IF j = 2 /\ i = 0 THEN 2 * (w * y) + 2 * (x * z)
  ELSE IF j = 2 /\ i = 1 THEN 2 * (y * z) - 2 * (w * x)
  ELSE o - 2 * (x * x) - 2 * (y * y)

\* Twice a product of fractions, as the code forms it.
LEMMA ProductOver ==
    ASSUME NEW a, NEW n, NEW e, NEW b, NEW k, Is(a, n, e), Is(b, k, e)
    PROVE  /\ Is(Times(a, Plus(b, b)), 2 * (n * k), e * e)
           /\ Is(Neg(Times(a, Plus(b, b))), -(2 * (n * k)), e * e)
           /\ Is(Neg(Neg(Times(a, Plus(b, b)))), 2 * (n * k), e * e)
<1>1. n \in Int /\ k \in Int /\ e \in Int
  BY IsInts
<1>2. Is(Plus(b, b), k + k, e)
  BY PlusSame
<1>3. Is(Times(a, Plus(b, b)), n * (k + k), e * e)
  BY <1>2, TimesIs
<1>4. n * (k + k) = 2 * (n * k)
  BY <1>1
<1>5. PICK p \in Int : p = 2 * (n * k) /\ - -p = p
  BY <1>1
<1>6. Is(Times(a, Plus(b, b)), p, e * e)
  BY <1>3, <1>4, <1>5
<1>7. Is(Neg(Times(a, Plus(b, b))), -p, e * e)
  BY <1>6, NegIs
<1>8. Is(Neg(Neg(Times(a, Plus(b, b)))), p, e * e)
  BY <1>5, <1>7, NegIs
<1> QED
  BY <1>5, <1>6, <1>7, <1>8

\* Signed sums of two fractions.
LEMMA Differences ==
    ASSUME NEW a, NEW n \in Int, NEW e, NEW b, NEW k \in Int, Is(b, -k, e)
    PROVE  /\ Is(a, n, e) => Is(Minus(a, b), n + k, e)
           /\ Is(a, -n, e) => Is(Minus(a, b), k - n, e)
<1>1. n - (-k) = n + k /\ (-n) - (-k) = k - n
  OBVIOUS
<1>2. ASSUME Is(a, n, e) PROVE Is(Minus(a, b), n + k, e)
  <2>1. Is(Minus(a, b), n - (-k), e)
    BY <1>2, MinusSame
  <2> QED
    BY <1>1, <2>1
<1>3. ASSUME Is(a, -n, e) PROVE Is(Minus(a, b), k - n, e)
  <2>1. Is(Minus(a, b), (-n) - (-k), e)
    BY <1>3, MinusSame
  <2> QED
    BY <1>1, <2>1
<1> QED
  BY <1>2, <1>3

\* The entries of Easy_Joint_to_matrix over the square of the denominator.
LEMMA QuatRowsIs ==
    ASSUME NEW q, NEW t, NEW x, NEW y, NEW z, NEW w, NEW e, IsReg(q),
           Is(q[0], x, e), Is(q[1], y, e), Is(q[2], z, e), Is(q[3], w, e)
    PROVE  \A j, i \in {0, 1, 2} : Is(QuatRows(q, t)[j][i], Entry(x, y, z, w, e * e, j, i), e * e)
<1>1. x \in Int /\ y \in Int /\ z \in Int /\ w \in Int /\ e \in Int /\ e # 0
  BY IsInts
<1>2. PICK o \in Int : o = e * e /\ o # 0
  BY <1>1
<1>3. Is(One, o, o)
  BY <1>2, ZeroIs
<1> DEFINE x2 == Plus(q[0], q[0])
           y2 == Plus(q[1], q[1])
           z2 == Plus(q[2], q[2])
<1>4. /\ Is(Times(q[0], x2), 2 * (x * x), o) /\ Is(Times(q[1], y2), 2 * (y * y), o)
      /\ Is(Neg(Times(q[2], z2)), -(2 * (z * z)), o)
      /\ Is(Times(q[3], z2), 2 * (w * z), o) /\ Is(Neg(Times(q[3], z2)), -(2 * (w * z)), o)
  BY <1>2, ProductOver
<1>5. /\ Is(Neg(Times(q[3], y2)), -(2 * (w * y)), o) /\ Is(Neg(Neg(Times(q[3], y2))), 2 * (w * y), o)
      /\ Is(Neg(Times(q[3], x2)), -(2 * (w * x)), o) /\ Is(Neg(Neg(Times(q[3], x2))), 2 * (w * x), o)
  BY <1>2, ProductOver
<1>6. /\ Is(Neg(Times(q[0], y2)), -(2 * (x * y)), o) /\ Is(Neg(Times(q[0], z2)), -(2 * (x * z)), o)
      /\ Is(Neg(Times(q[1], z2)), -(2 * (y * z)), o)
  BY <1>2, ProductOver
<1> DEFINE zz == Plus(Neg(Times(q[2], z2)), One)
<1> HIDE DEF x2, y2, z2
<1>7. PICK xx, xy, xz, yy, yz, zs, wx, wy, wz \in Int :
        /\ xx = 2 * (x * x) /\ xy = 2 * (x * y) /\ xz = 2 * (x * z) /\ yy = 2 * (y * y) /\ yz = 2 * (y * z)
        /\ zs = 2 * (z * z) /\ wx = 2 * (w * x) /\ wy = 2 * (w * y) /\ wz = 2 * (w * z)
  BY <1>1
<1>20. /\ Is(Times(q[0], x2), xx, o) /\ Is(Times(q[1], y2), yy, o) /\ Is(Neg(Times(q[2], z2)), -zs, o)
       /\ Is(Times(q[3], z2), wz, o) /\ Is(Neg(Times(q[3], z2)), -wz, o)
       /\ Is(Neg(Times(q[3], y2)), -wy, o) /\ Is(Neg(Neg(Times(q[3], y2))), wy, o)
       /\ Is(Neg(Times(q[3], x2)), -wx, o) /\ Is(Neg(Neg(Times(q[3], x2))), wx, o)
       /\ Is(Neg(Times(q[0], y2)), -xy, o) /\ Is(Neg(Times(q[0], z2)), -xz, o)
       /\ Is(Neg(Times(q[1], z2)), -yz, o)
  BY <1>4, <1>5, <1>6, <1>7
<1>8. Is(zz, o - zs, o)
  <2>1. Is(zz, (-zs) + o, o)
    BY <1>3, <1>20, PlusSame
  <2>2. (-zs) + o = o - zs
    OBVIOUS
  <2> QED
    BY <2>1, <2>2
<1> HIDE DEF zz
<1>9. /\ Is(Minus(zz, Times(q[1], y2)), o - zs - yy, o)
      /\ Is(Minus(zz, Times(q[0], x2)), o - zs - xx, o)
  BY <1>8, <1>20, MinusSame
<1>10. /\ Is(Minus(Times(q[3], z2), Neg(Times(q[0], y2))), wz + xy, o)
       /\ Is(Minus(Neg(Times(q[3], y2)), Neg(Times(q[0], z2))), xz - wy, o)
       /\ Is(Minus(Neg(Times(q[3], z2)), Neg(Times(q[0], y2))), xy - wz, o)
       /\ Is(Minus(Neg(Neg(Times(q[3], x2))), Neg(Times(q[1], z2))), wx + yz, o)
  BY <1>20, Differences
<1>11. /\ Is(Minus(Neg(Neg(Times(q[3], y2))), Neg(Times(q[0], z2))), wy + xz, o)
       /\ Is(Minus(Neg(Times(q[3], x2)), Neg(Times(q[1], z2))), yz - wx, o)
  BY <1>20, Differences
<1>12. Is(Minus(Minus(One, Times(q[0], x2)), Times(q[1], y2)), o - xx - yy, o)
  <2>1. Is(Minus(One, Times(q[0], x2)), o - xx, o)
    BY <1>3, <1>20, MinusSame
  <2> QED
    BY <1>20, <2>1, MinusSame
<1>13. PICK M : M = QuatRows(q, t)
  OBVIOUS
<1>14. /\ M[0][0] = Minus(zz, Times(q[1], y2))
       /\ M[0][1] = Minus(Times(q[3], z2), Neg(Times(q[0], y2)))
       /\ M[0][2] = Minus(Neg(Times(q[3], y2)), Neg(Times(q[0], z2)))
       /\ M[1][0] = Minus(Neg(Times(q[3], z2)), Neg(Times(q[0], y2)))
       /\ M[1][1] = Minus(zz, Times(q[0], x2))
       /\ M[1][2] = Minus(Neg(Neg(Times(q[3], x2))), Neg(Times(q[1], z2)))
       /\ M[2][0] = Minus(Neg(Neg(Times(q[3], y2))), Neg(Times(q[0], z2)))
       /\ M[2][1] = Minus(Neg(Times(q[3], x2)), Neg(Times(q[1], z2)))
       /\ M[2][2] = Minus(Minus(One, Times(q[0], x2)), Times(q[1], y2))
  BY <1>13, QuatRowsAt DEF x2, y2, z2, zz
<1>15. /\ Is(M[0][0], Entry(x, y, z, w, o, 0, 0), o) /\ Is(M[0][1], Entry(x, y, z, w, o, 0, 1), o)
       /\ Is(M[0][2], Entry(x, y, z, w, o, 0, 2), o)
  BY <1>7, <1>9, <1>10, <1>14 DEF Entry
<1>16. /\ Is(M[1][0], Entry(x, y, z, w, o, 1, 0), o) /\ Is(M[1][1], Entry(x, y, z, w, o, 1, 1), o)
       /\ Is(M[1][2], Entry(x, y, z, w, o, 1, 2), o)
  BY <1>7, <1>9, <1>10, <1>14 DEF Entry
<1>17. /\ Is(M[2][0], Entry(x, y, z, w, o, 2, 0), o) /\ Is(M[2][1], Entry(x, y, z, w, o, 2, 1), o)
       /\ Is(M[2][2], Entry(x, y, z, w, o, 2, 2), o)
  BY <1>7, <1>11, <1>12, <1>14 DEF Entry
<1> QED
  BY <1>2, <1>13, <1>15, <1>16, <1>17

\* The squared length of a quaternion.
Length2(q) ==
  Plus4(Times(q[0], q[0]), Times(q[1], q[1]), Times(q[2], q[2]), Times(q[3], q[3]))

Length2Int(x, y, z, w) == x * x + y * y + z * z + w * w

\* The squared length of a quaternion.
LEMMA Length2Is ==
    ASSUME NEW q, NEW x, NEW y, NEW z, NEW w, NEW d,
           Is(q[0], x, d), Is(q[1], y, d), Is(q[2], z, d), Is(q[3], w, d)
    PROVE  Is(Length2(q), Length2Int(x, y, z, w), d * d)
  BY DotIs DEF Length2, Length2Int

Tiny == Q(1, 100000)

\* The bound below which a quaternion is taken for zero.
LEMMA TinyIs == Is(Tiny, 1, 100000)
  BY QIs DEF Tiny

\* A number that is not tiny is positive.
LEMMA NotTiny ==
    ASSUME NEW a, NEW n, NEW d, Is(a, n, d), d > 0, ~Less(a, Tiny)
    PROVE  n > 0
<1>1. n \in Int /\ d \in Int
  BY IsInts
<1>2. Less(a, Tiny) <=> n * 100000 < 1 * d
  BY TinyIs, LessIs
<1> QED
  BY <1>1, <1>2

\* Twice a product over the squared length.
LEMMA ScaledProduct ==
    ASSUME NEW a, NEW x, NEW d, NEW b, NEW y, Is(a, x, d), Is(b, y, d),
           NEW s, NEW l, l \in Int, l # 0, Is(s, 2 * (d * d), l)
    PROVE  Is(Times(a, Times(b, s)), 2 * (x * y), l)
<1>1. x \in Int /\ y \in Int /\ d \in Int /\ d # 0
  BY IsInts
<1>2. Is(Times(b, s), y * (2 * (d * d)), d * l)
  BY TimesIs
<1>3. Is(Times(a, Times(b, s)), x * (y * (2 * (d * d))), d * (d * l))
  BY <1>2, TimesIs
<1>4. (x * (y * (2 * (d * d)))) * l = (2 * (x * y)) * (d * (d * l))
  BY <1>1
<1> QED
  BY <1>1, <1>3, <1>4, IsSame

\* The entries of Easy_matrix_rotate_quat over the squared length.
LEMMA RotationIs ==
    ASSUME NEW q, NEW x, NEW y, NEW z, NEW w, NEW d, d > 0,
           Is(q[0], x, d), Is(q[1], y, d), Is(q[2], z, d), Is(q[3], w, d),
           ~Less(Length2(q), Tiny), NEW l, l = Length2Int(x, y, z, w)
    PROVE  /\ l \in Int /\ l > 0
           /\ \A j, i \in {0, 1, 2} : Is(RotationOf(q)[j][i], Entry(x, y, z, w, l, j, i), l)
           /\ IsMat(RotationOf(q))
           /\ RotationOf(q)[0][3] = Zero /\ RotationOf(q)[1][3] = Zero /\ RotationOf(q)[2][3] = Zero
           /\ RotationOf(q)[3] = Vec(0, 0, 0, 1)
<1>1. x \in Int /\ y \in Int /\ z \in Int /\ w \in Int /\ d \in Int
  BY IsInts
<1>2. Is(Length2(q), l, d * d)
  BY Length2Is
<1>3. l \in Int /\ l > 0
  <2>1. d * d > 0
    BY <1>1
  <2> QED
    BY <1>2, <2>1, NotTiny, IsInts
<1>4. PICK s : s = IF Less(Length2(q), Q(1, 100000)) THEN One ELSE Over(Int2Q(2), Length2(q))
  OBVIOUS
<1>5. Is(s, 2 * (d * d), l)
  <2>1. s = Over(Int2Q(2), Length2(q))
    BY <1>4 DEF Tiny
  <2>2. Is(s, 2 * (d * d), 1 * l)
    BY <1>2, <1>3, <2>1, IntIs, OverIs
  <2>3. 1 * l = l
    BY <1>3
  <2> QED
    BY <2>2, <2>3
<1> DEFINE p(i, j) == Times(q[i], Times(q[j], s))
<1>6. PICK xx, xy, xz, yy, yz, zz, wx, wy, wz \in Int :
        /\ xx = 2 * (x * x) /\ xy = 2 * (x * y) /\ xz = 2 * (x * z) /\ yy = 2 * (y * y) /\ yz = 2 * (y * z)
        /\ zz = 2 * (z * z) /\ wx = 2 * (w * x) /\ wy = 2 * (w * y) /\ wz = 2 * (w * z)
  BY <1>1
<1>7. l # 0
  BY <1>3
<1>8. /\ Is(p(0, 0), xx, l) /\ Is(p(0, 1), xy, l) /\ Is(p(0, 2), xz, l)
      /\ Is(p(1, 1), yy, l) /\ Is(p(1, 2), yz, l) /\ Is(p(2, 2), zz, l)
  BY <1>3, <1>5, <1>6, <1>7, ScaledProduct
<1>9. Is(p(3, 0), wx, l) /\ Is(p(3, 1), wy, l) /\ Is(p(3, 2), wz, l)
  BY <1>3, <1>5, <1>6, <1>7, ScaledProduct
<1>10. Is(One, l, l)
  BY <1>3, <1>7, ZeroIs
<1>11. PICK a00 : a00 = Minus(One, Plus(p(1, 1), p(2, 2)))
  OBVIOUS
<1>12. PICK a11 : a11 = Minus(One, Plus(p(0, 0), p(2, 2)))
  OBVIOUS
<1>13. PICK a22 : a22 = Minus(One, Plus(p(0, 0), p(1, 1)))
  OBVIOUS
<1>14. PICK a01, a02, a10, a12, a20, a21 :
         /\ a01 = Plus(p(0, 1), p(3, 2)) /\ a02 = Minus(p(0, 2), p(3, 1))
         /\ a10 = Minus(p(0, 1), p(3, 2)) /\ a12 = Plus(p(1, 2), p(3, 0))
         /\ a20 = Plus(p(0, 2), p(3, 1)) /\ a21 = Minus(p(1, 2), p(3, 0))
  OBVIOUS
<1>15. PICK M : M = RotationOf(q)
  OBVIOUS
<1>16. M = Rows(Ps(a00, a01, a02, Zero), Ps(a10, a11, a12, Zero), Ps(a20, a21, a22, Zero), Vec(0, 0, 0, 1))
  BY <1>4, <1>11, <1>12, <1>13, <1>14, <1>15 DEF RotationOf, Length2
<1> HIDE DEF p
<1>17. Is(a00, l - (yy + zz), l) /\ Is(a11, l - (xx + zz), l) /\ Is(a22, l - (xx + yy), l)
  <2>1. Is(Plus(p(1, 1), p(2, 2)), yy + zz, l) /\ Is(Plus(p(0, 0), p(2, 2)), xx + zz, l)
        /\ Is(Plus(p(0, 0), p(1, 1)), xx + yy, l)
    BY <1>8, PlusSame
  <2> QED
    BY <1>10, <1>11, <1>12, <1>13, <2>1, MinusSame
<1>18. /\ Is(a01, xy + wz, l) /\ Is(a02, xz - wy, l) /\ Is(a10, xy - wz, l)
       /\ Is(a12, yz + wx, l) /\ Is(a20, xz + wy, l) /\ Is(a21, yz - wx, l)
  BY <1>8, <1>9, <1>14, PlusSame, MinusSame
<1>19. IsMat(M) /\ M[0] = Ps(a00, a01, a02, Zero) /\ M[1] = Ps(a10, a11, a12, Zero)
       /\ M[2] = Ps(a20, a21, a22, Zero) /\ M[3] = Vec(0, 0, 0, 1)
  BY <1>16, RowsMat, PsReg, VecIs
<1>20. /\ M[0][0] = a00 /\ M[0][1] = a01 /\ M[0][2] = a02 /\ M[0][3] = Zero
       /\ M[1][0] = a10 /\ M[1][1] = a11 /\ M[1][2] = a12 /\ M[1][3] = Zero
       /\ M[2][0] = a20 /\ M[2][1] = a21 /\ M[2][2] = a22 /\ M[2][3] = Zero
  BY <1>19, PsAt
<1>21. /\ l - (yy + zz) = l - zz - yy /\ l - (xx + zz) = l - zz - xx /\ l - (xx + yy) = l - xx - yy
       /\ xy + wz = wz + xy /\ yz + wx = wx + yz /\ xz + wy = wy + xz
  BY <1>3
<1>22. /\ Is(M[0][0], Entry(x, y, z, w, l, 0, 0), l) /\ Is(M[0][1], Entry(x, y, z, w, l, 0, 1), l)
       /\ Is(M[0][2], Entry(x, y, z, w, l, 0, 2), l)
  BY <1>6, <1>17, <1>18, <1>20, <1>21 DEF Entry
<1>23. /\ Is(M[1][0], Entry(x, y, z, w, l, 1, 0), l) /\ Is(M[1][1], Entry(x, y, z, w, l, 1, 1), l)
       /\ Is(M[1][2], Entry(x, y, z, w, l, 1, 2), l)
  BY <1>6, <1>17, <1>18, <1>20, <1>21 DEF Entry
<1>24. /\ Is(M[2][0], Entry(x, y, z, w, l, 2, 0), l) /\ Is(M[2][1], Entry(x, y, z, w, l, 2, 1), l)
       /\ Is(M[2][2], Entry(x, y, z, w, l, 2, 2), l)
  BY <1>6, <1>17, <1>18, <1>20, <1>21 DEF Entry
<1> QED
  BY <1>3, <1>15, <1>19, <1>20, <1>22, <1>23, <1>24

\* The components of a quaternion over one denominator.
LEMMA CommonQ ==
    ASSUME NEW q \in V4
    PROVE  \E x, y, z, w, d \in Int : d > 0 /\ Is(q[0], x, d) /\ Is(q[1], y, d) /\ Is(q[2], z, d) /\ Is(q[3], w, d)
<1>1. PICK d \in Int, n \in [Lane -> Int] : d > 0 /\ \A i \in Lane : Is(q[i], n[i], d)
  BY CommonV4
<1>2. n[0] \in Int /\ n[1] \in Int /\ n[2] \in Int /\ n[3] \in Int
  BY LaneSet
<1> QED
  BY <1>1, <1>2, LaneSet

\* A quaternion divided by its length r = a / b.
LEMMA NormalizedIs ==
    ASSUME NEW q \in V4, NEW r, r = SqrtQ(Length2(q)), r \in Num, r # Zero
    PROVE  /\ Easy_quat_normalize_sse(q) \in V4
           /\ \A i \in Lane : Easy_quat_normalize_sse(q)[i] = Over(q[i], r)
<1>1. PICK xmm : xmm = mulps(q, q)
  OBVIOUS
<1>2. \A i \in Lane : xmm[i] = Times(q[i], q[i])
  BY <1>1, Lanewise
<1>3. PICK sum : sum = addps(addps(addps(pshufd(xmm, Imm(0)), pshufd(xmm, Imm(85))),
                                   pshufd(xmm, Imm(170))), pshufd(xmm, Imm(255)))
  OBVIOUS
<1>4. \A i \in Lane : sum[i] = Length2(q)
  <2>1. \A i \in Lane : sum[i] = Plus(Plus(Plus(xmm[0], xmm[1]), xmm[2]), xmm[3])
    BY <1>3, Splat, Lanewise
  <2> QED
    BY <1>2, <2>1, LaneSet DEF Length2, Plus4, Plus3
<1>5. Easy_quat_normalize_sse(q) = divps(q, sqrtps(sum))
  BY <1>1, <1>3 DEF Easy_quat_normalize_sse
<1>6. \A i \in Lane : Easy_quat_normalize_sse(q)[i] = Over(q[i], r)
  <2>1. PICK t : t = sqrtps(sum)
    OBVIOUS
  <2>2. \A i \in Lane : t[i] = SqrtQ(sum[i])
    BY <2>1, Lanewise
  <2>3. \A i \in Lane : Easy_quat_normalize_sse(q)[i] = Over(q[i], t[i])
    BY <1>5, <2>1, Lanewise
  <2> QED
    BY <1>4, <2>2, <2>3
<1>7. \A i \in Lane : Over(q[i], r) \in Num
  BY NumClosed DEF V4
<1> QED
  BY <1>5, <1>6, <1>7, Lanewise, V4Reg

\* The rotation of a quaternion of any length is the matrix of the quaternion
\* divided by its length.
LEMMA RotationAlike ==
    ASSUME NEW q \in V4, IsNumber(SqrtQ(Length2(q))), ~Less(Length2(q), Tiny)
    PROVE  /\ Easy_quat_to_matrix(Easy_quat_normalize_sse(q)) = RotationOf(q)
           /\ RotationOf(q) \in M4
<1>1. PICK x, y, z, w, d \in Int :
        d > 0 /\ Is(q[0], x, d) /\ Is(q[1], y, d) /\ Is(q[2], z, d) /\ Is(q[3], w, d)
  BY CommonQ
<1>2. PICK l : l = Length2Int(x, y, z, w)
  OBVIOUS
<1>3. /\ l \in Int /\ l > 0
      /\ \A j, i \in {0, 1, 2} : Is(RotationOf(q)[j][i], Entry(x, y, z, w, l, j, i), l)
      /\ IsMat(RotationOf(q))
      /\ RotationOf(q)[0][3] = Zero /\ RotationOf(q)[1][3] = Zero /\ RotationOf(q)[2][3] = Zero
      /\ RotationOf(q)[3] = Vec(0, 0, 0, 1)
  BY <1>1, <1>2, RotationIs
<1>4. Is(Length2(q), l, d * d)
  BY <1>1, <1>2, Length2Is
<1>5. PICK r : r = SqrtQ(Length2(q))
  OBVIOUS
<1>6. r \in Num /\ Times(r, r) = Length2(q)
  BY <1>4, <1>5, SqrtSquares, IsInts
<1>7. PICK a, b \in Int : b > 0 /\ Is(r, a, b)
  BY <1>6, Fraction
<1>8. Is(Length2(q), a * a, b * b)
  BY <1>6, <1>7, TimesIs
<1>9. (a * a) * (d * d) = l * (b * b)
  BY <1>4, <1>8, IsCross
<1>10. a # 0
  <2>1. d * d > 0 /\ b * b > 0
    BY <1>1, <1>7
  <2>2. l * (b * b) > 0
    BY <1>3, <2>1
  <2> QED
    BY <1>9, <2>2
<1>11. r # Zero
  <2>1. ASSUME r = Zero PROVE FALSE
    <3>1. Is(r, 0, b)
      BY <1>7, <2>1, ZeroIs
    <3>2. a * b = 0 * b
      BY <1>7, <3>1, IsCross
    <3> QED
      BY <1>7, <1>10, <3>2
  <2> QED
    BY <2>1
<1>12. PICK n \in V4 : n = Easy_quat_normalize_sse(q)
  BY <1>5, <1>6, <1>11, NormalizedIs
<1>13. /\ n[0] = Over(q[0], r) /\ n[1] = Over(q[1], r) /\ n[2] = Over(q[2], r) /\ n[3] = Over(q[3], r)
  BY <1>5, <1>6, <1>11, <1>12, NormalizedIs, LaneSet
<1>14. PICK e \in Int : e = d * a
  BY <1>1, <1>7
<1>15. /\ Is(n[0], x * b, e) /\ Is(n[1], y * b, e) /\ Is(n[2], z * b, e) /\ Is(n[3], w * b, e)
  BY <1>1, <1>7, <1>10, <1>13, <1>14, OverIs
<1>16. PICK M : M = QuatRows(n, SIMD_SP_one3)
  OBVIOUS
<1>17. IsReg(n)
  BY V4Reg
<1>18. \A j, i \in {0, 1, 2} : Is(M[j][i], Entry(x * b, y * b, z * b, w * b, e * e, j, i), e * e)
  BY <1>15, <1>16, <1>17, QuatRowsIs
<1>19. e * e = l * (b * b)
  BY <1>1, <1>7, <1>9, <1>14
<1>20. ASSUME NEW j \in {0, 1, 2}, NEW i \in {0, 1, 2}
       PROVE  M[j][i] = RotationOf(q)[j][i] /\ M[j][i] \in Num
  <2>1. Entry(x * b, y * b, z * b, w * b, l * (b * b), j, i) = Entry(x, y, z, w, l, j, i) * (b * b)
    <3>1. PICK c \in Int : c = b * b
      BY <1>7
    <3>2. /\ (x * b) * (x * b) = (x * x) * c /\ (y * b) * (y * b) = (y * y) * c
          /\ (z * b) * (z * b) = (z * z) * c /\ (x * b) * (y * b) = (x * y) * c
          /\ (x * b) * (z * b) = (x * z) * c /\ (y * b) * (z * b) = (y * z) * c
          /\ (w * b) * (x * b) = (w * x) * c /\ (w * b) * (y * b) = (w * y) * c
          /\ (w * b) * (z * b) = (w * z) * c
      BY <1>1, <1>7, <3>1
    <3>3. PICK xx, xy, xz, yy, yz, zz, wx, wy, wz \in Int :
            /\ xx = x * x /\ xy = x * y /\ xz = x * z /\ yy = y * y /\ yz = y * z /\ zz = z * z
            /\ wx = w * x /\ wy = w * y /\ wz = w * z
      BY <1>1
    <3>4. /\ l * c - 2 * (zz * c) - 2 * (yy * c) = (l - 2 * zz - 2 * yy) * c
          /\ l * c - 2 * (zz * c) - 2 * (xx * c) = (l - 2 * zz - 2 * xx) * c
          /\ l * c - 2 * (xx * c) - 2 * (yy * c) = (l - 2 * xx - 2 * yy) * c
          /\ 2 * (wz * c) + 2 * (xy * c) = (2 * wz + 2 * xy) * c
          /\ 2 * (wx * c) + 2 * (yz * c) = (2 * wx + 2 * yz) * c
          /\ 2 * (wy * c) + 2 * (xz * c) = (2 * wy + 2 * xz) * c
          /\ 2 * (xz * c) - 2 * (wy * c) = (2 * xz - 2 * wy) * c
          /\ 2 * (xy * c) - 2 * (wz * c) = (2 * xy - 2 * wz) * c
          /\ 2 * (yz * c) - 2 * (wx * c) = (2 * yz - 2 * wx) * c
      BY <1>3
    <3> QED
      BY <3>1, <3>2, <3>3, <3>4 DEF Entry
  <2>2. PICK t \in Int : t = Entry(x, y, z, w, l, j, i)
    BY <1>3, IsInts
  <2>3. Is(RotationOf(q)[j][i], t, l)
    BY <1>3, <2>2
  <2>4. b * b \in Int /\ b * b # 0
    BY <1>7
  <2>5. Is(RotationOf(q)[j][i], t * (b * b), l * (b * b))
    BY <2>3, <2>4, IsScaled
  <2>6. Is(M[j][i], t * (b * b), l * (b * b))
    BY <1>18, <1>19, <2>1, <2>2
  <2> QED
    BY <2>5, <2>6, IsEqual, IsInts
<1>21. /\ IsMat(M) /\ M[0][3] = Zero /\ M[1][3] = Zero /\ M[2][3] = Zero /\ M[3] = Vec(0, 0, 0, 1)
  <2>1. SIMD_SP_one3[0] = Zero /\ SIMD_SP_one3[1] = Zero /\ SIMD_SP_one3[2] = Zero
    BY VecIs DEF SIMD_SP_one3, Zero
  <2> QED
    BY <1>16, <1>17, <2>1, QuatRowsAt
<1>22. \A j, i \in Lane : M[j][i] = RotationOf(q)[j][i] /\ M[j][i] \in Num
  BY <1>3, <1>20, <1>21, LaneSet, VecIs, Constants
<1>23. M = RotationOf(q)
  BY <1>3, <1>21, <1>22, SameMat
<1>24. M \in M4
  BY <1>21, <1>22, MatM4
<1> QED
  BY <1>12, <1>16, <1>23, <1>24 DEF Easy_quat_to_matrix

(***************************************************************************)
(* Rotations about an axis.                                                *)
(***************************************************************************)

\* The sum of three fractions with one denominator.
LEMMA IsSum3 ==
    ASSUME NEW a, NEW b, NEW c, NEW n, NEW k, NEW j, NEW e, Is(a, n, e), Is(b, k, e), Is(c, j, e)
    PROVE  Is(Plus3(a, b, c), n + k + j, e)
  BY PlusSame DEF Plus3

\* One is not tiny and has a root.
LEMMA UnitOne == ~Less(One, Tiny) /\ IsNumber(SqrtQ(One))
<1>1. ~Less(One, Tiny)
  <2>1. Is(One, 1, 1)
    BY ZeroIs
  <2>2. PICK n, e, d \in Int : n = 1 /\ e = 1 /\ d = 100000
    OBVIOUS
  <2>3. e > 0 /\ d > 0 /\ Is(One, n, e) /\ Is(Tiny, n, d)
    BY <2>1, <2>2, TinyIs
  <2>4. Less(One, Tiny) <=> n * d < n * e
    BY <2>3, LessIs
  <2> QED
    BY <2>2, <2>4
<1>2. SqrtQ(Times(One, One)) = AbsQ(One) /\ Times(One, One) = One
  BY Constants, SqrtOfSquare, Neutral
<1>3. AbsQ(One) \in Num
  <2>1. Is(One, 1, 1)
    BY ZeroIs
  <2>2. PICK d \in Int : d = 1 /\ d > 0 /\ Is(One, d, d)
    BY <2>1
  <2>3. Is(AbsQ(One), Magnitude(d), d)
    BY <2>2, AbsIs
  <2> QED
    BY <2>3, IsInts
<1> QED
  BY <1>1, <1>2, <1>3, NumParts

\* Half an angle as the exact sine and cosine.
IsHalf(half) ==
  /\ half.sin \in Num /\ half.cos \in Num
  /\ Plus(Times(half.sin, half.sin), Times(half.cos, half.cos)) = One

\* The quaternion of a rotation about an axis has length 1.
LEMMA AxisAngleIs ==
    ASSUME NEW axis \in V3, NEW half, IsHalf(half), IsNumber(SqrtQ(Easy_vector_dot(axis, axis)))
    PROVE  /\ Easy_quat_axis_angle(axis, half) \in V4
           /\ Length2(Easy_quat_axis_angle(axis, half)) = One
<1>1. PICK l : l = SqrtQ(Easy_vector_dot(axis, axis))
  OBVIOUS
<1>2. CASE Less(l, Q(1, 100000))
  <2>1. Easy_quat_axis_angle(axis, half) = Vec(0, 0, 0, 1)
    BY <1>1, <1>2 DEF Easy_quat_axis_angle
  <2>2. PICK v : v = Vec(0, 0, 0, 1)
    OBVIOUS
  <2>3. v[0] = Zero /\ v[1] = Zero /\ v[2] = Zero /\ v[3] = One /\ IsReg(v)
    BY <2>2, VecIs DEF Zero, One
  <2>4. v \in V4
    BY <2>3, Constants, V4Reg, LaneSet
  <2>5. Length2(v) = One
    BY <2>3, Neutral, Constants DEF Length2, Plus4, Plus3
  <2> QED
    BY <2>1, <2>2, <2>4, <2>5
<1>3. CASE ~Less(l, Q(1, 100000))
  <2>1. PICK sn, cs \in Num : sn = half.sin /\ cs = half.cos
    BY DEF IsHalf
  <2>2. Plus(Times(sn, sn), Times(cs, cs)) = One
    BY <2>1 DEF IsHalf
  <2>3. axis[0] \in Num /\ axis[1] \in Num /\ axis[2] \in Num
    BY LaneSet DEF V3
  <2>4. PICK x, y, z, d \in Int : d > 0 /\ Is(axis[0], x, d) /\ Is(axis[1], y, d) /\ Is(axis[2], z, d)
    BY <2>3, Common3
  <2>5. PICK S, C, e \in Int : e > 0 /\ Is(sn, S, e) /\ Is(cs, C, e)
    BY Common2
  <2>6. S * S + C * C = e * e
    <3>1. Is(Times(sn, sn), S * S, e * e) /\ Is(Times(cs, cs), C * C, e * e)
      BY <2>5, TimesIs
    <3>2. Is(One, S * S + C * C, e * e)
      BY <2>2, <3>1, PlusSame
    <3>3. Is(One, 1, 1)
      BY ZeroIs
    <3>4. (S * S + C * C) * 1 = 1 * (e * e)
      BY <3>2, <3>3, IsCross
    <3> QED
      BY <2>5, <3>4
  <2>7. Is(Easy_vector_dot(axis, axis), x * x + y * y + z * z, d * d)
    <3>1. Is(Times(axis[0], axis[0]), x * x, d * d) /\ Is(Times(axis[1], axis[1]), y * y, d * d)
          /\ Is(Times(axis[2], axis[2]), z * z, d * d)
      BY <2>4, TimesIs
    <3> QED
      BY <3>1, IsSum3 DEF Easy_vector_dot
  <2>8. l \in Num /\ Times(l, l) = Easy_vector_dot(axis, axis)
    BY <1>1, <2>7, SqrtSquares, IsInts
  <2>9. PICK a, b \in Int : b > 0 /\ Is(l, a, b)
    BY <2>8, Fraction
  <2>10. a > 0
    BY <1>3, <2>9, NotTiny DEF Tiny
  <2>11. (a * a) * (d * d) = (x * x + y * y + z * z) * (b * b)
    <3>1. Is(Easy_vector_dot(axis, axis), a * a, b * b)
      BY <2>8, <2>9, TimesIs
    <3> QED
      BY <2>7, <3>1, IsCross
  <2>12. PICK s : s = Over(Neg(sn), l)
    OBVIOUS
  <2>13. Is(s, (-S) * b, e * a)
    <3>1. Is(Neg(sn), -S, e) /\ a # 0
      BY <2>5, <2>10, NegIs
    <3> QED
      BY <2>9, <2>12, <3>1, OverIs
  <2>14. PICK q : q = Ps(Times(s, axis[0]), Times(s, axis[1]), Times(s, axis[2]), cs)
    OBVIOUS
  <2>15. Easy_quat_axis_angle(axis, half) = q
    BY <1>1, <1>3, <2>1, <2>12, <2>14 DEF Easy_quat_axis_angle
  <2>16. PICK f \in Int : f = (e * a) * d /\ f > 0
    <3>1. e * a > 0
      BY <2>5, <2>10
    <3> QED
      BY <2>4, <2>5, <2>9, <3>1
  <2>17. /\ Is(q[0], ((-S) * b) * x, f) /\ Is(q[1], ((-S) * b) * y, f) /\ Is(q[2], ((-S) * b) * z, f)
    BY <2>4, <2>13, <2>14, <2>16, PsAt, TimesIs
  <2>18. Is(q[3], C * (a * d), f)
    <3>1. a * d # 0 /\ a * d \in Int /\ e * (a * d) = f
      BY <2>4, <2>5, <2>9, <2>10, <2>16
    <3>2. Is(cs, C * (a * d), e * (a * d))
      BY <2>5, <3>1, IsScaled
    <3> QED
      BY <2>14, <3>1, <3>2, PsAt
  <2>19. q \in V4
    BY <2>14, <2>17, <2>18, PsReg, V4Reg, LaneSet, IsInts
  <2>20. PICK n : n = Length2Int(((-S) * b) * x, ((-S) * b) * y, ((-S) * b) * z, C * (a * d))
    OBVIOUS
  <2>21. Is(Length2(q), n, f * f)
    BY <2>17, <2>18, <2>20, Length2Is
  <2>22. n = f * f
    <3>1. n = (S * S) * ((x * x + y * y + z * z) * (b * b)) + (C * C) * ((a * a) * (d * d))
      BY <2>4, <2>5, <2>9, <2>20 DEF Length2Int
    <3>2. PICK g \in Int : g = (a * a) * (d * d)
      BY <2>4, <2>9
    <3>3. n = (S * S) * g + (C * C) * g
      BY <2>11, <3>1, <3>2
    <3>4. (S * S) * g + (C * C) * g = (S * S + C * C) * g
      BY <2>5
    <3>5. f * f = (e * e) * ((a * a) * (d * d))
      BY <2>4, <2>5, <2>9, <2>16
    <3> QED
      BY <2>6, <3>2, <3>3, <3>4, <3>5
  <2>23. Is(Length2(q), f * f, f * f) /\ Is(One, f * f, f * f)
    <3>1. f * f \in Int /\ f * f # 0
      BY <2>16
    <3> QED
      BY <2>21, <2>22, <3>1, ZeroIs
  <2> QED
    BY <2>15, <2>19, <2>23, IsEqual
<1> QED
  BY <1>2, <1>3

(***************************************************************************)
(* The inverse by cofactors.                                               *)
(***************************************************************************)

\* The minors of rows 1 to 3 in columns lo and hi as the code lays them out.
IntFac(n, lo, hi, i) ==
  IF i = 3 THEN n[1][lo] * n[2][hi] - n[2][lo] * n[1][hi]
  ELSE IF i = 2 THEN n[1][lo] * n[3][hi] - n[3][lo] * n[1][hi]
  ELSE n[2][lo] * n[3][hi] - n[3][lo] * n[2][hi]

\* A pair of 2x2 minors of Easy_matrix_inv for __m128.
LEMMA FacIs ==
    ASSUME NEW m, NEW n, NEW d, \A j, i \in Lane : Is(m[j][i], n[j][i], d),
           NEW lo \in Lane, NEW hi \in Lane
    PROVE  /\ \A i \in Lane : Is(Fac(m, lo, hi)[i], IntFac(n, lo, hi, i), d * d)
           /\ IsReg(Fac(m, lo, hi))
<1>1. PICK a : a = shufps(m[3], m[2], <<hi, hi, hi, hi>>)
  OBVIOUS
<1>2. PICK b : b = shufps(m[3], m[2], <<lo, lo, lo, lo>>)
  OBVIOUS
<1>3. PICK s0 : s0 = shufps(m[2], m[1], <<lo, lo, lo, lo>>)
  OBVIOUS
<1>4. PICK s3 : s3 = shufps(m[2], m[1], <<hi, hi, hi, hi>>)
  OBVIOUS
<1>5. PICK s1 : s1 = pshufd(a, <<0, 0, 0, 2>>)
  OBVIOUS
<1>6. PICK s2 : s2 = pshufd(b, <<0, 0, 0, 2>>)
  OBVIOUS
<1>7. PICK f : f = subps(mulps(s0, s1), mulps(s2, s3))
  OBVIOUS
<1>8. Fac(m, lo, hi) = f
  BY <1>1, <1>2, <1>3, <1>4, <1>5, <1>6, <1>7 DEF Fac
<1>9. a[0] = m[3][hi] /\ a[2] = m[2][hi] /\ b[0] = m[3][lo] /\ b[2] = m[2][lo]
  BY <1>1, <1>2, ShufTuple
<1>10. /\ s0[0] = m[2][lo] /\ s0[1] = m[2][lo] /\ s0[2] = m[1][lo] /\ s0[3] = m[1][lo]
       /\ s3[0] = m[2][hi] /\ s3[1] = m[2][hi] /\ s3[2] = m[1][hi] /\ s3[3] = m[1][hi]
  BY <1>3, <1>4, ShufTuple
<1>11. /\ s1[0] = a[0] /\ s1[1] = a[0] /\ s1[2] = a[0] /\ s1[3] = a[2]
       /\ s2[0] = b[0] /\ s2[1] = b[0] /\ s2[2] = b[0] /\ s2[3] = b[2]
  <2>1. s1[0] = a[0] /\ s1[1] = a[0] /\ s1[2] = a[0] /\ s1[3] = a[2]
    BY <1>5, PsAt DEF pshufd, shufps
  <2>2. s2[0] = b[0] /\ s2[1] = b[0] /\ s2[2] = b[0] /\ s2[3] = b[2]
    BY <1>6, PsAt DEF pshufd, shufps
  <2> QED
    BY <2>1, <2>2
<1>12. \A i \in Lane : f[i] = Minus(Times(s0[i], s1[i]), Times(s2[i], s3[i]))
  BY <1>7, Lanewise
<1>13. IsReg(f)
  BY <1>7, Lanewise
<1>14. /\ Is(m[1][lo], n[1][lo], d) /\ Is(m[2][lo], n[2][lo], d) /\ Is(m[3][lo], n[3][lo], d)
       /\ Is(m[1][hi], n[1][hi], d) /\ Is(m[2][hi], n[2][hi], d) /\ Is(m[3][hi], n[3][hi], d)
  BY LaneSet
<1>15. ASSUME NEW u, NEW v, NEW x, NEW y, NEW uu, NEW vv, NEW xx, NEW yy,
              Is(u, uu, d), Is(v, vv, d), Is(x, xx, d), Is(y, yy, d)
       PROVE  Is(Minus(Times(u, v), Times(x, y)), uu * vv - xx * yy, d * d)
  <2>1. Is(Times(u, v), uu * vv, d * d) /\ Is(Times(x, y), xx * yy, d * d)
    BY <1>15, TimesIs
  <2> QED
    BY <2>1, MinusSame
<1>16. /\ Is(f[0], n[2][lo] * n[3][hi] - n[3][lo] * n[2][hi], d * d)
       /\ Is(f[1], n[2][lo] * n[3][hi] - n[3][lo] * n[2][hi], d * d)
  BY <1>9, <1>10, <1>11, <1>12, <1>14, <1>15, LaneSet
<1>17. /\ Is(f[2], n[1][lo] * n[3][hi] - n[3][lo] * n[1][hi], d * d)
       /\ Is(f[3], n[1][lo] * n[2][hi] - n[2][lo] * n[1][hi], d * d)
  BY <1>9, <1>10, <1>11, <1>12, <1>14, <1>15, LaneSet
<1>18. \A i \in Lane : Is(f[i], IntFac(n, lo, hi, i), d * d)
  BY <1>16, <1>17, LaneSet DEF IntFac
<1> QED
  BY <1>8, <1>13, <1>18

\* A signed sum of three products.
LEMMA SignedIs ==
    ASSUME NEW s, NEW u, NEW v, NEW w, NEW a, NEW b, NEW c, NEW d,
           NEW ss, NEW uu, NEW vv, NEW ww, NEW aa, NEW bb, NEW cc,
           Is(s, ss, 1), Is(u, uu, d), Is(v, vv, d), Is(w, ww, d),
           Is(a, aa, d * d), Is(b, bb, d * d), Is(c, cc, d * d)
    PROVE  Is(Times(s, Plus(Minus(Times(u, a), Times(v, b)), Times(w, c))),
              ss * (uu * aa - vv * bb + ww * cc), d * (d * d))
<1>1. Is(Times(u, a), uu * aa, d * (d * d)) /\ Is(Times(v, b), vv * bb, d * (d * d))
      /\ Is(Times(w, c), ww * cc, d * (d * d))
  BY TimesIs
<1>2. Is(Plus(Minus(Times(u, a), Times(v, b)), Times(w, c)), uu * aa - vv * bb + ww * cc, d * (d * d))
  BY <1>1, PlusSame, MinusSame
<1>3. Is(Times(s, Plus(Minus(Times(u, a), Times(v, b)), Times(w, c))),
         ss * (uu * aa - vv * bb + ww * cc), 1 * (d * (d * d)))
  BY <1>2, TimesIs
<1>4. d \in Int /\ 1 * (d * (d * d)) = d * (d * d)
  BY IsInts
<1> QED
  BY <1>3, <1>4

IntV(n, c, i) == IF i = 0 THEN n[1][c] ELSE n[0][c]
IntSign(i) == IF i = 0 \/ i = 2 THEN 1 ELSE -1
IntSignA(i) == IF i = 0 \/ i = 2 THEN -1 ELSE 1

\* The cofactors: row k, lane i is the one of n[i][k].
IntCof(n, k, i) ==
  IF k = 0 THEN IntSign(i) * (IntV(n, 1, i) * IntFac(n, 2, 3, i) - IntV(n, 2, i) * IntFac(n, 1, 3, i)
                                + IntV(n, 3, i) * IntFac(n, 1, 2, i))
  ELSE IF k = 1 THEN IntSignA(i) * (IntV(n, 0, i) * IntFac(n, 2, 3, i) - IntV(n, 2, i) * IntFac(n, 0, 3, i)
                                + IntV(n, 3, i) * IntFac(n, 0, 2, i))
  ELSE IF k = 2 THEN IntSign(i) * (IntV(n, 0, i) * IntFac(n, 1, 3, i) - IntV(n, 1, i) * IntFac(n, 0, 3, i)
                                + IntV(n, 3, i) * IntFac(n, 0, 1, i))
  ELSE IntSignA(i) * (IntV(n, 0, i) * IntFac(n, 1, 2, i) - IntV(n, 1, i) * IntFac(n, 0, 2, i)
                                + IntV(n, 2, i) * IntFac(n, 0, 1, i))

TheCofactors(m) == Cofactors(m, Fac(m, 2, 3), Fac(m, 1, 3), Fac(m, 1, 2),
                                Fac(m, 0, 3), Fac(m, 0, 2), Fac(m, 0, 1))

\* The cofactors of Easy_matrix_inv for __m128, in integers.
LEMMA CofactorsIs ==
    ASSUME NEW m, NEW n, NEW d, \A j, i \in Lane : Is(m[j][i], n[j][i], d)
    PROVE  /\ IsMat(TheCofactors(m))
           /\ \A k, i \in Lane : Is(TheCofactors(m)[k][i], IntCof(n, k, i), d * (d * d))
<1>1. PICK A : A = Vec(-1, 1, -1, 1)
  OBVIOUS
<1>2. PICK B : B = Vec(1, -1, 1, -1)
  OBVIOUS
<1>3. \A i \in Lane : Is(A[i], IntSignA(i), 1) /\ Is(B[i], IntSign(i), 1)
  <2>1. Is(Int2Q(1), 1, 1) /\ Is(Int2Q(-1), -1, 1)
    BY IntIs
  <2>3. A[0] = Int2Q(-1) /\ A[1] = Int2Q(1) /\ A[2] = Int2Q(-1) /\ A[3] = Int2Q(1)
    BY <1>1, VecIs
  <2>4. B[0] = Int2Q(1) /\ B[1] = Int2Q(-1) /\ B[2] = Int2Q(1) /\ B[3] = Int2Q(-1)
    BY <1>2, VecIs
  <2> QED
    BY <2>1, <2>3, <2>4, LaneSet DEF IntSign, IntSignA
<1> DEFINE V(c) == pshufd(shufps(m[1], m[0], <<c, c, c, c>>), <<0, 2, 2, 2>>)
<1>4. \A c, i \in Lane : Is(V(c)[i], IntV(n, c, i), d)
  <2> TAKE c \in Lane
  <2>1. PICK u : u = shufps(m[1], m[0], <<c, c, c, c>>)
    OBVIOUS
  <2>2. u[0] = m[1][c] /\ u[2] = m[0][c]
    BY <2>1, ShufTuple
  <2>3. PICK v : v = pshufd(u, <<0, 2, 2, 2>>)
    OBVIOUS
  <2>4. v[0] = m[1][c] /\ v[1] = m[0][c] /\ v[2] = m[0][c] /\ v[3] = m[0][c]
    BY <2>2, <2>3, ShufTuple
  <2>5. Is(m[1][c], n[1][c], d) /\ Is(m[0][c], n[0][c], d)
    BY LaneSet
  <2>6. V(c) = v
    BY <2>1, <2>3
  <2> QED
    BY <2>4, <2>5, <2>6, LaneSet DEF IntV
<1> DEFINE Inv(sign, v0, a, v1, b, v2, c) ==
             mulps(sign, addps(subps(mulps(v0, a), mulps(v1, b)), mulps(v2, c)))
<1>5. ASSUME NEW sign, NEW v0, NEW a, NEW v1, NEW b, NEW v2, NEW c
      PROVE  /\ IsReg(Inv(sign, v0, a, v1, b, v2, c))
             /\ \A i \in Lane : Inv(sign, v0, a, v1, b, v2, c)[i] =
                  Times(sign[i], Plus(Minus(Times(v0[i], a[i]), Times(v1[i], b[i])), Times(v2[i], c[i])))
  BY Lanewise
<1>6. PICK f0, f1, f2, f3, f4, f5 :
        /\ f0 = Fac(m, 2, 3) /\ f1 = Fac(m, 1, 3) /\ f2 = Fac(m, 1, 2)
        /\ f3 = Fac(m, 0, 3) /\ f4 = Fac(m, 0, 2) /\ f5 = Fac(m, 0, 1)
  OBVIOUS
<1>7. \A i \in Lane : /\ Is(f0[i], IntFac(n, 2, 3, i), d * d) /\ Is(f1[i], IntFac(n, 1, 3, i), d * d)
                      /\ Is(f2[i], IntFac(n, 1, 2, i), d * d) /\ Is(f3[i], IntFac(n, 0, 3, i), d * d)
                      /\ Is(f4[i], IntFac(n, 0, 2, i), d * d) /\ Is(f5[i], IntFac(n, 0, 1, i), d * d)
  BY <1>6, FacIs, LaneSet
<1>8. PICK c0, c1, c2, c3 :
        /\ c0 = Inv(B, V(1), f0, V(2), f1, V(3), f2) /\ c1 = Inv(A, V(0), f0, V(2), f3, V(3), f4)
        /\ c2 = Inv(B, V(0), f1, V(1), f3, V(3), f5) /\ c3 = Inv(A, V(0), f2, V(1), f4, V(2), f5)
  OBVIOUS
<1>9. TheCofactors(m) = Rows(c0, c1, c2, c3)
  BY <1>1, <1>2, <1>6, <1>8 DEF TheCofactors, Cofactors
<1>10. IsReg(c0) /\ IsReg(c1) /\ IsReg(c2) /\ IsReg(c3)
  BY <1>5, <1>8
<1>11. PICK v0, v1, v2, v3 : v0 = V(0) /\ v1 = V(1) /\ v2 = V(2) /\ v3 = V(3)
  OBVIOUS
<1>12. \A i \in Lane : /\ Is(v0[i], IntV(n, 0, i), d) /\ Is(v1[i], IntV(n, 1, i), d)
                       /\ Is(v2[i], IntV(n, 2, i), d) /\ Is(v3[i], IntV(n, 3, i), d)
  <2> HIDE DEF V
  <2> QED
    BY <1>4, <1>11, LaneSet
<1>13. \A i \in Lane :
         /\ c0[i] = Times(B[i], Plus(Minus(Times(v1[i], f0[i]), Times(v2[i], f1[i])), Times(v3[i], f2[i])))
         /\ c1[i] = Times(A[i], Plus(Minus(Times(v0[i], f0[i]), Times(v2[i], f3[i])), Times(v3[i], f4[i])))
         /\ c2[i] = Times(B[i], Plus(Minus(Times(v0[i], f1[i]), Times(v1[i], f3[i])), Times(v3[i], f5[i])))
         /\ c3[i] = Times(A[i], Plus(Minus(Times(v0[i], f2[i]), Times(v1[i], f4[i])), Times(v2[i], f5[i])))
  <2> HIDE DEF V, Inv
  <2> QED
    BY <1>5, <1>8, <1>11
<1> HIDE DEF V, Inv
<1>14. ASSUME NEW i \in Lane
       PROVE  /\ Is(c0[i], IntCof(n, 0, i), d * (d * d)) /\ Is(c1[i], IntCof(n, 1, i), d * (d * d))
              /\ Is(c2[i], IntCof(n, 2, i), d * (d * d)) /\ Is(c3[i], IntCof(n, 3, i), d * (d * d))
  <2>1. /\ Is(A[i], IntSignA(i), 1) /\ Is(B[i], IntSign(i), 1)
        /\ Is(v0[i], IntV(n, 0, i), d) /\ Is(v1[i], IntV(n, 1, i), d)
        /\ Is(v2[i], IntV(n, 2, i), d) /\ Is(v3[i], IntV(n, 3, i), d)
    BY <1>3, <1>12
  <2>2. /\ Is(f0[i], IntFac(n, 2, 3, i), d * d) /\ Is(f1[i], IntFac(n, 1, 3, i), d * d)
        /\ Is(f2[i], IntFac(n, 1, 2, i), d * d) /\ Is(f3[i], IntFac(n, 0, 3, i), d * d)
        /\ Is(f4[i], IntFac(n, 0, 2, i), d * d) /\ Is(f5[i], IntFac(n, 0, 1, i), d * d)
    BY <1>7
  <2>3. Is(c0[i], IntCof(n, 0, i), d * (d * d))
    BY <1>13, <2>1, <2>2, SignedIs DEF IntCof
  <2>4. Is(c1[i], IntCof(n, 1, i), d * (d * d))
    BY <1>13, <2>1, <2>2, SignedIs DEF IntCof
  <2>5. Is(c2[i], IntCof(n, 2, i), d * (d * d))
    BY <1>13, <2>1, <2>2, SignedIs DEF IntCof
  <2>6. Is(c3[i], IntCof(n, 3, i), d * (d * d))
    BY <1>13, <2>1, <2>2, SignedIs DEF IntCof
  <2> QED
    BY <2>3, <2>4, <2>5, <2>6
<1>15. PICK M : M = Rows(c0, c1, c2, c3)
  OBVIOUS
<1>16. IsMat(M) /\ M[0] = c0 /\ M[1] = c1 /\ M[2] = c2 /\ M[3] = c3
  BY <1>10, <1>15, RowsMat
<1> QED
  BY <1>9, <1>14, <1>15, <1>16, LaneSet

IntDet(n) == n[0][0] * IntCof(n, 0, 0) + n[0][1] * IntCof(n, 1, 0)
               + n[0][2] * IntCof(n, 2, 0) + n[0][3] * IntCof(n, 3, 0)

\* The cofactors of a column times another column, and times their own.
LEMMA Laplace ==
    ASSUME NEW n \in IntMat
    PROVE  \A k, i \in Lane :
             IntCof(n, k, 0) * n[0][i] + IntCof(n, k, 1) * n[1][i]
               + IntCof(n, k, 2) * n[2][i] + IntCof(n, k, 3) * n[3][i]
               = IF k = i THEN IntDet(n) ELSE 0
<1>1. PICK a00, a01, a02, a03, a10, a11, a12, a13, a20, a21, a22, a23, a30, a31, a32, a33 \in Int :
        /\ a00 = n[0][0] /\ a01 = n[0][1] /\ a02 = n[0][2] /\ a03 = n[0][3]
        /\ a10 = n[1][0] /\ a11 = n[1][1] /\ a12 = n[1][2] /\ a13 = n[1][3]
        /\ a20 = n[2][0] /\ a21 = n[2][1] /\ a22 = n[2][2] /\ a23 = n[2][3]
        /\ a30 = n[3][0] /\ a31 = n[3][1] /\ a32 = n[3][2] /\ a33 = n[3][3]
  BY IntMatAt, LaneSet
<1>2. PICK c00, c01, c02, c03 \in Int :
        /\ c00 = a11 * (a22 * a33 - a32 * a23) - a12 * (a21 * a33 - a31 * a23) + a13 * (a21 * a32 - a31 * a22)
        /\ c01 = -(a01 * (a22 * a33 - a32 * a23) - a02 * (a21 * a33 - a31 * a23) + a03 * (a21 * a32 - a31 * a22))
        /\ c02 = a01 * (a12 * a33 - a32 * a13) - a02 * (a11 * a33 - a31 * a13) + a03 * (a11 * a32 - a31 * a12)
        /\ c03 = -(a01 * (a12 * a23 - a22 * a13) - a02 * (a11 * a23 - a21 * a13) + a03 * (a11 * a22 - a21 * a12))
  OBVIOUS
<1>3. PICK c10, c11, c12, c13 \in Int :
        /\ c10 = -(a10 * (a22 * a33 - a32 * a23) - a12 * (a20 * a33 - a30 * a23) + a13 * (a20 * a32 - a30 * a22))
        /\ c11 = a00 * (a22 * a33 - a32 * a23) - a02 * (a20 * a33 - a30 * a23) + a03 * (a20 * a32 - a30 * a22)
        /\ c12 = -(a00 * (a12 * a33 - a32 * a13) - a02 * (a10 * a33 - a30 * a13) + a03 * (a10 * a32 - a30 * a12))
        /\ c13 = a00 * (a12 * a23 - a22 * a13) - a02 * (a10 * a23 - a20 * a13) + a03 * (a10 * a22 - a20 * a12)
  OBVIOUS
<1>4. PICK c20, c21, c22, c23 \in Int :
        /\ c20 = a10 * (a21 * a33 - a31 * a23) - a11 * (a20 * a33 - a30 * a23) + a13 * (a20 * a31 - a30 * a21)
        /\ c21 = -(a00 * (a21 * a33 - a31 * a23) - a01 * (a20 * a33 - a30 * a23) + a03 * (a20 * a31 - a30 * a21))
        /\ c22 = a00 * (a11 * a33 - a31 * a13) - a01 * (a10 * a33 - a30 * a13) + a03 * (a10 * a31 - a30 * a11)
        /\ c23 = -(a00 * (a11 * a23 - a21 * a13) - a01 * (a10 * a23 - a20 * a13) + a03 * (a10 * a21 - a20 * a11))
  OBVIOUS
<1>5. PICK c30, c31, c32, c33 \in Int :
        /\ c30 = -(a10 * (a21 * a32 - a31 * a22) - a11 * (a20 * a32 - a30 * a22) + a12 * (a20 * a31 - a30 * a21))
        /\ c31 = a00 * (a21 * a32 - a31 * a22) - a01 * (a20 * a32 - a30 * a22) + a02 * (a20 * a31 - a30 * a21)
        /\ c32 = -(a00 * (a11 * a32 - a31 * a12) - a01 * (a10 * a32 - a30 * a12) + a02 * (a10 * a31 - a30 * a11))
        /\ c33 = a00 * (a11 * a22 - a21 * a12) - a01 * (a10 * a22 - a20 * a12) + a02 * (a10 * a21 - a20 * a11)
  OBVIOUS
<1>6. /\ IntFac(n, 0, 1, 0) = a20 * a31 - a30 * a21
      /\ IntFac(n, 0, 2, 0) = a20 * a32 - a30 * a22
      /\ IntFac(n, 0, 3, 0) = a20 * a33 - a30 * a23
      /\ IntFac(n, 1, 2, 0) = a21 * a32 - a31 * a22
      /\ IntFac(n, 1, 3, 0) = a21 * a33 - a31 * a23
      /\ IntFac(n, 2, 3, 0) = a22 * a33 - a32 * a23
      /\ IntV(n, 0, 0) = a10 /\ IntV(n, 1, 0) = a11 /\ IntV(n, 2, 0) = a12 /\ IntV(n, 3, 0) = a13
      /\ IntSign(0) = 1 /\ IntSignA(0) = -1
  BY <1>1 DEF IntFac, IntV, IntSign, IntSignA
<1>7. /\ IntFac(n, 0, 1, 1) = a20 * a31 - a30 * a21
      /\ IntFac(n, 0, 2, 1) = a20 * a32 - a30 * a22
      /\ IntFac(n, 0, 3, 1) = a20 * a33 - a30 * a23
      /\ IntFac(n, 1, 2, 1) = a21 * a32 - a31 * a22
      /\ IntFac(n, 1, 3, 1) = a21 * a33 - a31 * a23
      /\ IntFac(n, 2, 3, 1) = a22 * a33 - a32 * a23
      /\ IntV(n, 0, 1) = a00 /\ IntV(n, 1, 1) = a01 /\ IntV(n, 2, 1) = a02 /\ IntV(n, 3, 1) = a03
      /\ IntSign(1) = -1 /\ IntSignA(1) = 1
  BY <1>1 DEF IntFac, IntV, IntSign, IntSignA
<1>8. /\ IntFac(n, 0, 1, 2) = a10 * a31 - a30 * a11
      /\ IntFac(n, 0, 2, 2) = a10 * a32 - a30 * a12
      /\ IntFac(n, 0, 3, 2) = a10 * a33 - a30 * a13
      /\ IntFac(n, 1, 2, 2) = a11 * a32 - a31 * a12
      /\ IntFac(n, 1, 3, 2) = a11 * a33 - a31 * a13
      /\ IntFac(n, 2, 3, 2) = a12 * a33 - a32 * a13
      /\ IntV(n, 0, 2) = a00 /\ IntV(n, 1, 2) = a01 /\ IntV(n, 2, 2) = a02 /\ IntV(n, 3, 2) = a03
      /\ IntSign(2) = 1 /\ IntSignA(2) = -1
  BY <1>1 DEF IntFac, IntV, IntSign, IntSignA
<1>9. /\ IntFac(n, 0, 1, 3) = a10 * a21 - a20 * a11
      /\ IntFac(n, 0, 2, 3) = a10 * a22 - a20 * a12
      /\ IntFac(n, 0, 3, 3) = a10 * a23 - a20 * a13
      /\ IntFac(n, 1, 2, 3) = a11 * a22 - a21 * a12
      /\ IntFac(n, 1, 3, 3) = a11 * a23 - a21 * a13
      /\ IntFac(n, 2, 3, 3) = a12 * a23 - a22 * a13
      /\ IntV(n, 0, 3) = a00 /\ IntV(n, 1, 3) = a01 /\ IntV(n, 2, 3) = a02 /\ IntV(n, 3, 3) = a03
      /\ IntSign(3) = -1 /\ IntSignA(3) = 1
  BY <1>1 DEF IntFac, IntV, IntSign, IntSignA
<1>10. IntCof(n, 0, 0) = c00 /\ IntCof(n, 0, 1) = c01 /\ IntCof(n, 0, 2) = c02 /\ IntCof(n, 0, 3) = c03
  <2>1. IntCof(n, 0, 0) = c00
    <3>1. PICK x \in Int : x = a11 * (a22 * a33 - a32 * a23) - a12 * (a21 * a33 - a31 * a23) + a13 * (a21 * a32 - a31 * a22)
      OBVIOUS
    <3>2. IntCof(n, 0, 0) = 1 * x
      BY <1>6, <3>1 DEF IntCof
    <3> QED
      BY <1>2, <3>1, <3>2
  <2>2. IntCof(n, 0, 1) = c01
    <3>1. PICK x \in Int : x = a01 * (a22 * a33 - a32 * a23) - a02 * (a21 * a33 - a31 * a23) + a03 * (a21 * a32 - a31 * a22)
      OBVIOUS
    <3>2. IntCof(n, 0, 1) = -1 * x
      BY <1>7, <3>1 DEF IntCof
    <3> QED
      BY <1>2, <3>1, <3>2
  <2>3. IntCof(n, 0, 2) = c02
    <3>1. PICK x \in Int : x = a01 * (a12 * a33 - a32 * a13) - a02 * (a11 * a33 - a31 * a13) + a03 * (a11 * a32 - a31 * a12)
      OBVIOUS
    <3>2. IntCof(n, 0, 2) = 1 * x
      BY <1>8, <3>1 DEF IntCof
    <3> QED
      BY <1>2, <3>1, <3>2
  <2>4. IntCof(n, 0, 3) = c03
    <3>1. PICK x \in Int : x = a01 * (a12 * a23 - a22 * a13) - a02 * (a11 * a23 - a21 * a13) + a03 * (a11 * a22 - a21 * a12)
      OBVIOUS
    <3>2. IntCof(n, 0, 3) = -1 * x
      BY <1>9, <3>1 DEF IntCof
    <3> QED
      BY <1>2, <3>1, <3>2
  <2> QED
    BY <2>1, <2>2, <2>3, <2>4
<1>11. IntCof(n, 1, 0) = c10 /\ IntCof(n, 1, 1) = c11 /\ IntCof(n, 1, 2) = c12 /\ IntCof(n, 1, 3) = c13
  <2>1. IntCof(n, 1, 0) = c10
    <3>1. PICK x \in Int : x = a10 * (a22 * a33 - a32 * a23) - a12 * (a20 * a33 - a30 * a23) + a13 * (a20 * a32 - a30 * a22)
      OBVIOUS
    <3>2. IntCof(n, 1, 0) = -1 * x
      BY <1>6, <3>1 DEF IntCof
    <3> QED
      BY <1>3, <3>1, <3>2
  <2>2. IntCof(n, 1, 1) = c11
    <3>1. PICK x \in Int : x = a00 * (a22 * a33 - a32 * a23) - a02 * (a20 * a33 - a30 * a23) + a03 * (a20 * a32 - a30 * a22)
      OBVIOUS
    <3>2. IntCof(n, 1, 1) = 1 * x
      BY <1>7, <3>1 DEF IntCof
    <3> QED
      BY <1>3, <3>1, <3>2
  <2>3. IntCof(n, 1, 2) = c12
    <3>1. PICK x \in Int : x = a00 * (a12 * a33 - a32 * a13) - a02 * (a10 * a33 - a30 * a13) + a03 * (a10 * a32 - a30 * a12)
      OBVIOUS
    <3>2. IntCof(n, 1, 2) = -1 * x
      BY <1>8, <3>1 DEF IntCof
    <3> QED
      BY <1>3, <3>1, <3>2
  <2>4. IntCof(n, 1, 3) = c13
    <3>1. PICK x \in Int : x = a00 * (a12 * a23 - a22 * a13) - a02 * (a10 * a23 - a20 * a13) + a03 * (a10 * a22 - a20 * a12)
      OBVIOUS
    <3>2. IntCof(n, 1, 3) = 1 * x
      BY <1>9, <3>1 DEF IntCof
    <3> QED
      BY <1>3, <3>1, <3>2
  <2> QED
    BY <2>1, <2>2, <2>3, <2>4
<1>12. IntCof(n, 2, 0) = c20 /\ IntCof(n, 2, 1) = c21 /\ IntCof(n, 2, 2) = c22 /\ IntCof(n, 2, 3) = c23
  <2>1. IntCof(n, 2, 0) = c20
    <3>1. PICK x \in Int : x = a10 * (a21 * a33 - a31 * a23) - a11 * (a20 * a33 - a30 * a23) + a13 * (a20 * a31 - a30 * a21)
      OBVIOUS
    <3>2. IntCof(n, 2, 0) = 1 * x
      BY <1>6, <3>1 DEF IntCof
    <3> QED
      BY <1>4, <3>1, <3>2
  <2>2. IntCof(n, 2, 1) = c21
    <3>1. PICK x \in Int : x = a00 * (a21 * a33 - a31 * a23) - a01 * (a20 * a33 - a30 * a23) + a03 * (a20 * a31 - a30 * a21)
      OBVIOUS
    <3>2. IntCof(n, 2, 1) = -1 * x
      BY <1>7, <3>1 DEF IntCof
    <3> QED
      BY <1>4, <3>1, <3>2
  <2>3. IntCof(n, 2, 2) = c22
    <3>1. PICK x \in Int : x = a00 * (a11 * a33 - a31 * a13) - a01 * (a10 * a33 - a30 * a13) + a03 * (a10 * a31 - a30 * a11)
      OBVIOUS
    <3>2. IntCof(n, 2, 2) = 1 * x
      BY <1>8, <3>1 DEF IntCof
    <3> QED
      BY <1>4, <3>1, <3>2
  <2>4. IntCof(n, 2, 3) = c23
    <3>1. PICK x \in Int : x = a00 * (a11 * a23 - a21 * a13) - a01 * (a10 * a23 - a20 * a13) + a03 * (a10 * a21 - a20 * a11)
      OBVIOUS
    <3>2. IntCof(n, 2, 3) = -1 * x
      BY <1>9, <3>1 DEF IntCof
    <3> QED
      BY <1>4, <3>1, <3>2
  <2> QED
    BY <2>1, <2>2, <2>3, <2>4
<1>13. IntCof(n, 3, 0) = c30 /\ IntCof(n, 3, 1) = c31 /\ IntCof(n, 3, 2) = c32 /\ IntCof(n, 3, 3) = c33
  <2>1. IntCof(n, 3, 0) = c30
    <3>1. PICK x \in Int : x = a10 * (a21 * a32 - a31 * a22) - a11 * (a20 * a32 - a30 * a22) + a12 * (a20 * a31 - a30 * a21)
      OBVIOUS
    <3>2. IntCof(n, 3, 0) = -1 * x
      BY <1>6, <3>1 DEF IntCof
    <3> QED
      BY <1>5, <3>1, <3>2
  <2>2. IntCof(n, 3, 1) = c31
    <3>1. PICK x \in Int : x = a00 * (a21 * a32 - a31 * a22) - a01 * (a20 * a32 - a30 * a22) + a02 * (a20 * a31 - a30 * a21)
      OBVIOUS
    <3>2. IntCof(n, 3, 1) = 1 * x
      BY <1>7, <3>1 DEF IntCof
    <3> QED
      BY <1>5, <3>1, <3>2
  <2>3. IntCof(n, 3, 2) = c32
    <3>1. PICK x \in Int : x = a00 * (a11 * a32 - a31 * a12) - a01 * (a10 * a32 - a30 * a12) + a02 * (a10 * a31 - a30 * a11)
      OBVIOUS
    <3>2. IntCof(n, 3, 2) = -1 * x
      BY <1>8, <3>1 DEF IntCof
    <3> QED
      BY <1>5, <3>1, <3>2
  <2>4. IntCof(n, 3, 3) = c33
    <3>1. PICK x \in Int : x = a00 * (a11 * a22 - a21 * a12) - a01 * (a10 * a22 - a20 * a12) + a02 * (a10 * a21 - a20 * a11)
      OBVIOUS
    <3>2. IntCof(n, 3, 3) = 1 * x
      BY <1>9, <3>1 DEF IntCof
    <3> QED
      BY <1>5, <3>1, <3>2
  <2> QED
    BY <2>1, <2>2, <2>3, <2>4
<1>14. PICK det \in Int : det = a00 * c00 + a01 * c10 + a02 * c20 + a03 * c30
  OBVIOUS
<1>15. IntDet(n) = det
  BY <1>1, <1>10, <1>11, <1>12, <1>13, <1>14 DEF IntDet
<1>16. c00 * a00 + c01 * a10 + c02 * a20 + c03 * a30 = det
  BY <1>2, <1>3, <1>4, <1>5, <1>14
<1>17. c00 * a01 + c01 * a11 + c02 * a21 + c03 * a31 = 0
  BY <1>2
<1>18. c00 * a02 + c01 * a12 + c02 * a22 + c03 * a32 = 0
  BY <1>2
<1>19. c00 * a03 + c01 * a13 + c02 * a23 + c03 * a33 = 0
  BY <1>2
<1>20. c10 * a00 + c11 * a10 + c12 * a20 + c13 * a30 = 0
  BY <1>3
<1>21. c10 * a01 + c11 * a11 + c12 * a21 + c13 * a31 = det
  BY <1>2, <1>3, <1>4, <1>5, <1>14
<1>22. c10 * a02 + c11 * a12 + c12 * a22 + c13 * a32 = 0
  BY <1>3
<1>23. c10 * a03 + c11 * a13 + c12 * a23 + c13 * a33 = 0
  BY <1>3
<1>24. c20 * a00 + c21 * a10 + c22 * a20 + c23 * a30 = 0
  BY <1>4
<1>25. c20 * a01 + c21 * a11 + c22 * a21 + c23 * a31 = 0
  BY <1>4
<1>26. c20 * a02 + c21 * a12 + c22 * a22 + c23 * a32 = det
  BY <1>2, <1>3, <1>4, <1>5, <1>14
<1>27. c20 * a03 + c21 * a13 + c22 * a23 + c23 * a33 = 0
  BY <1>4
<1>28. c30 * a00 + c31 * a10 + c32 * a20 + c33 * a30 = 0
  BY <1>5
<1>29. c30 * a01 + c31 * a11 + c32 * a21 + c33 * a31 = 0
  BY <1>5
<1>30. c30 * a02 + c31 * a12 + c32 * a22 + c33 * a32 = 0
  BY <1>5
<1>31. c30 * a03 + c31 * a13 + c32 * a23 + c33 * a33 = det
  BY <1>2, <1>3, <1>4, <1>5, <1>14
<1> QED
  BY <1>1, <1>10, <1>11, <1>12, <1>13, <1>15, <1>16, <1>17, <1>18, <1>19, <1>20, <1>21, <1>22, <1>23, <1>24, <1>25, <1>26, <1>27, <1>28, <1>29, <1>30, <1>31, LaneSet

\* The product of two registers in all lanes, over their denominators.
LEMMA DotPsIs ==
    ASSUME NEW v, NEW w, NEW x, NEW y, NEW d, NEW e,
           Is(v[0], x[0], d), Is(v[1], x[1], d), Is(v[2], x[2], d), Is(v[3], x[3], d),
           Is(w[0], y[0], e), Is(w[1], y[1], e), Is(w[2], y[2], e), Is(w[3], y[3], e)
    PROVE  \A i \in Lane :
             Is(mm_dot_ps(v, w)[i], x[0] * y[0] + x[1] * y[1] + x[2] * y[2] + x[3] * y[3], d * e)
<1>1. PICK mul0 : mul0 = mulps(v, w)
  OBVIOUS
<1>2. PICK a, b, c, f \in Int : a = x[0] * y[0] /\ b = x[1] * y[1] /\ c = x[2] * y[2] /\ f = x[3] * y[3]
  BY IsInts
<1>3. Is(mul0[0], a, d * e) /\ Is(mul0[1], b, d * e) /\ Is(mul0[2], c, d * e) /\ Is(mul0[3], f, d * e)
  <2>1. /\ mul0[0] = Times(v[0], w[0]) /\ mul0[1] = Times(v[1], w[1])
        /\ mul0[2] = Times(v[2], w[2]) /\ mul0[3] = Times(v[3], w[3])
    BY <1>1, Lanewise, LaneSet
  <2> QED
    BY <1>2, <2>1, TimesIs
<1>4. PICK u : u = pshufd(mul0, <<1, 0, 3, 2>>)
  OBVIOUS
<1>5. u[0] = mul0[1] /\ u[1] = mul0[0] /\ u[2] = mul0[3] /\ u[3] = mul0[2]
  BY <1>4, PsAt DEF pshufd, shufps
<1>6. PICK add0 : add0 = addps(mul0, u)
  OBVIOUS
<1>7. /\ add0[0] = Plus(mul0[0], mul0[1]) /\ add0[1] = Plus(mul0[1], mul0[0])
      /\ add0[2] = Plus(mul0[2], mul0[3]) /\ add0[3] = Plus(mul0[3], mul0[2])
  BY <1>5, <1>6, Lanewise, LaneSet
<1>8. Is(add0[0], a + b, d * e) /\ Is(add0[1], b + a, d * e) /\ Is(add0[2], c + f, d * e) /\ Is(add0[3], f + c, d * e)
  BY <1>3, <1>7, PlusSame
<1>9. PICK t : t = pshufd(add0, <<3, 2, 1, 0>>)
  OBVIOUS
<1>10. t[0] = add0[3] /\ t[1] = add0[2] /\ t[2] = add0[1] /\ t[3] = add0[0]
  BY <1>9, PsAt DEF pshufd, shufps
<1>11. PICK r : r = addps(add0, t)
  OBVIOUS
<1>12. mm_dot_ps(v, w) = r
  BY <1>1, <1>4, <1>6, <1>9, <1>11 DEF mm_dot_ps
<1>13. /\ Is(r[0], (a + b) + (f + c), d * e) /\ Is(r[1], (b + a) + (c + f), d * e)
       /\ Is(r[2], (c + f) + (b + a), d * e) /\ Is(r[3], (f + c) + (a + b), d * e)
  <2>1. r[0] = Plus(add0[0], add0[3]) /\ r[1] = Plus(add0[1], add0[2])
        /\ r[2] = Plus(add0[2], add0[1]) /\ r[3] = Plus(add0[3], add0[0])
    BY <1>10, <1>11, Lanewise, LaneSet
  <2> QED
    BY <1>8, <2>1, PlusSame
<1>14. PICK g \in Int : g = a + b + c + f
  OBVIOUS
<1>15. (a + b) + (f + c) = g /\ (b + a) + (c + f) = g /\ (c + f) + (b + a) = g /\ (f + c) + (a + b) = g
  BY <1>14
<1>16. \A i \in Lane : Is(r[i], g, d * e)
  BY <1>13, <1>15, LaneSet
<1> QED
  BY <1>2, <1>12, <1>14, <1>16

\* The inverse by cofactors, entry by entry.
LEMMA InvSseIs ==
    ASSUME NEW m, NEW n \in IntMat, NEW d, \A j, i \in Lane : Is(m[j][i], n[j][i], d), IntDet(n) # 0
    PROVE  /\ IsMat(Easy_matrix_inv_sse(m))
           /\ \A k, i \in Lane : Is(Easy_matrix_inv_sse(m)[k][i], IntCof(n, k, i) * d, IntDet(n))
<1>1. PICK inv : inv = TheCofactors(m)
  OBVIOUS
<1>2. IsMat(inv) /\ \A k, i \in Lane : Is(inv[k][i], IntCof(n, k, i), d * (d * d))
  BY <1>1, CofactorsIs
<1>3. d \in Int /\ d # 0
  BY IsInts, LaneSet
<1>4. PICK D \in Int : D = IntDet(n) /\ D # 0
  <2>1. /\ IntCof(n, 0, 0) \in Int /\ IntCof(n, 1, 0) \in Int /\ IntCof(n, 2, 0) \in Int /\ IntCof(n, 3, 0) \in Int
    BY <1>2, IsInts, LaneSet
  <2>2. n[0][0] \in Int /\ n[0][1] \in Int /\ n[0][2] \in Int /\ n[0][3] \in Int
    BY IntMatAt, LaneSet
  <2> QED
    BY <2>1, <2>2 DEF IntDet
<1>5. PICK a : a = shufps(inv[0], inv[1], Imm(0))
  OBVIOUS
<1>6. PICK b : b = shufps(inv[2], inv[3], Imm(0))
  OBVIOUS
<1>7. PICK Row2 : Row2 = shufps(a, b, <<0, 2, 0, 2>>)
  OBVIOUS
<1>8. Row2[0] = inv[0][0] /\ Row2[1] = inv[1][0] /\ Row2[2] = inv[2][0] /\ Row2[3] = inv[3][0]
  <2>1. Imm(0)[1] = 0 /\ Imm(0)[2] = 0 /\ Imm(0)[3] = 0 /\ Imm(0)[4] = 0
    BY DEF Imm
  <2>2. a[0] = inv[0][0] /\ a[2] = inv[1][0]
    BY <1>5, <2>1, PsAt DEF shufps
  <2>3. b[0] = inv[2][0] /\ b[2] = inv[3][0]
    BY <1>6, <2>1, PsAt DEF shufps
  <2> QED
    BY <1>7, <2>2, <2>3, PsAt DEF shufps
<1>9. PICK det : det = mm_dot_ps(m[0], Row2)
  OBVIOUS
<1>10. \A i \in Lane : Is(det[i], D, d * (d * (d * d)))
  <2> DEFINE y == [k \in Lane |-> IntCof(n, k, 0)]
  <2>1. y[0] = IntCof(n, 0, 0) /\ y[1] = IntCof(n, 1, 0) /\ y[2] = IntCof(n, 2, 0) /\ y[3] = IntCof(n, 3, 0)
    BY LaneSet
  <2> HIDE DEF y
  <2>2. /\ Is(Row2[0], y[0], d * (d * d)) /\ Is(Row2[1], y[1], d * (d * d))
        /\ Is(Row2[2], y[2], d * (d * d)) /\ Is(Row2[3], y[3], d * (d * d))
    BY <1>2, <1>8, <2>1, LaneSet
  <2>3. PICK x, v : x = n[0] /\ v = m[0]
    OBVIOUS
  <2>4. Is(v[0], x[0], d) /\ Is(v[1], x[1], d) /\ Is(v[2], x[2], d) /\ Is(v[3], x[3], d)
    BY <2>3, LaneSet
  <2>5. \A i \in Lane : Is(mm_dot_ps(v, Row2)[i],
                           x[0] * y[0] + x[1] * y[1] + x[2] * y[2] + x[3] * y[3], d * (d * (d * d)))
    BY <2>2, <2>4, DotPsIs
  <2>6. x[0] * y[0] + x[1] * y[1] + x[2] * y[2] + x[3] * y[3] = D
    BY <1>4, <2>1, <2>3 DEF IntDet
  <2> QED
    BY <1>9, <2>3, <2>5, <2>6
<1>11. PICK rcp : rcp = divps(SIMD_SP_one1, det)
  OBVIOUS
<1>12. PICK f \in Int : f = d * (d * d) /\ f # 0
  BY <1>3
<1>13. \A i \in Lane : Is(rcp[i], d * f, D)
  <2> TAKE i \in Lane
  <2>1. SIMD_SP_one1[i] = One
    BY VecIs, LaneSet DEF SIMD_SP_one1, One
  <2>2. rcp[i] = Over(One, det[i])
    BY <1>11, <2>1, Lanewise
  <2>3. Is(det[i], D, d * f)
    BY <1>10, <1>12
  <2>4. Is(One, 1, 1)
    BY ZeroIs
  <2>5. Is(rcp[i], 1 * (d * f), 1 * D)
    BY <1>4, <2>2, <2>3, <2>4, OverIs
  <2>6. 1 * (d * f) = d * f /\ 1 * D = D
    BY <1>3, <1>4, <1>12
  <2> QED
    BY <2>5, <2>6
<1>14. PICK out : out = Easy_matrix_inv_sse(m)
  OBVIOUS
<1>15. out = Rows(mulps(inv[0], rcp), mulps(inv[1], rcp), mulps(inv[2], rcp), mulps(inv[3], rcp))
  BY <1>1, <1>5, <1>6, <1>7, <1>9, <1>11, <1>14
     DEF Easy_matrix_inv_sse, DividedByDeterminant, TheCofactors, Lanes, Rows
<1>16. IsMat(out) /\ \A k \in Lane : out[k] = mulps(inv[k], rcp)
  <2>1. PICK r0, r1, r2, r3 : r0 = mulps(inv[0], rcp) /\ r1 = mulps(inv[1], rcp)
                              /\ r2 = mulps(inv[2], rcp) /\ r3 = mulps(inv[3], rcp)
    OBVIOUS
  <2>2. IsReg(r0) /\ IsReg(r1) /\ IsReg(r2) /\ IsReg(r3)
    BY <2>1, Lanewise
  <2>3. out = Rows(r0, r1, r2, r3)
    BY <1>15, <2>1
  <2>4. IsMat(out) /\ out[0] = r0 /\ out[1] = r1 /\ out[2] = r2 /\ out[3] = r3
    BY <2>2, <2>3, RowsMat
  <2> QED
    BY <2>1, <2>4, LaneSet
<1>17. ASSUME NEW k \in Lane, NEW i \in Lane
       PROVE  Is(out[k][i], IntCof(n, k, i) * d, D)
  <2>1. out[k][i] = Times(inv[k][i], rcp[i])
    BY <1>16, Lanewise
  <2>2. PICK c \in Int : c = IntCof(n, k, i) /\ Is(inv[k][i], c, f)
    BY <1>2, <1>12, IsInts
  <2>3. Is(out[k][i], c * (d * f), f * D)
    BY <1>13, <2>1, <2>2, TimesIs
  <2>4. (c * (d * f)) * D = (c * d) * (f * D)
    BY <1>3, <1>4, <1>12, <2>2
  <2>5. c * d \in Int
    BY <1>3, <2>2
  <2> QED
    BY <1>4, <2>2, <2>3, <2>4, <2>5, IsSame
<1> QED
  BY <1>4, <1>14, <1>16, <1>17

(***************************************************************************)
(* It is an inverse whenever there is one.                                 *)
(***************************************************************************)

\* The inverse by cofactors is a left inverse if the determinant is not zero.
LEMMA LeftInverse ==
    ASSUME NEW m, NEW n \in IntMat, NEW d, \A j, i \in Lane : Is(m[j][i], n[j][i], d), IntDet(n) # 0
    PROVE  Easy_matrix_inv_sse(m) \in M4 /\ Mul(Easy_matrix_inv_sse(m), m) = IdentityMatrix
<1>1. PICK x : x = Easy_matrix_inv_sse(m)
  OBVIOUS
<1>2. IsMat(x) /\ \A k, i \in Lane : Is(x[k][i], IntCof(n, k, i) * d, IntDet(n))
  BY <1>1, InvSseIs
<1>3. x \in M4
  BY <1>2, MatM4, IsInts
<1>4. PICK D \in Int : D = IntDet(n) /\ D # 0
  BY <1>2, IsInts, LaneSet
<1>5. d \in Int /\ d # 0
  BY IsInts, LaneSet
<1> DEFINE a == [k \in Lane |-> [i \in Lane |-> IntCof(n, k, i) * d]]
<1>6. \A k, i \in Lane : Is(x[k][i], a[k][i], D)
  BY <1>2, <1>4
<1>7. \A k, i \in Lane : Is(Mul(x, m)[k][i], IntDot(a, n, k, i), D * d)
  <2> HIDE DEF a
  <2> QED
    BY <1>6, MulIs
<1>8. ASSUME NEW k \in Lane, NEW i \in Lane
      PROVE  IntDot(a, n, k, i) = IF k = i THEN D * d ELSE 0
  <2>1. IntDot(a, n, k, i) = (IntCof(n, k, 0) * d) * n[0][i] + (IntCof(n, k, 1) * d) * n[1][i]
                             + (IntCof(n, k, 2) * d) * n[2][i] + (IntCof(n, k, 3) * d) * n[3][i]
    BY LaneSet DEF IntDot
  <2> DEFINE c(j) == IntCof(n, k, j)
  <2>2. \A j \in Lane : c(j) * d \in Int
    BY <1>2, IsInts
  <2>3. PICK n0, n1, n2, n3 \in Int : n0 = n[0][i] /\ n1 = n[1][i] /\ n2 = n[2][i] /\ n3 = n[3][i]
    BY IntMatAt, LaneSet
  <2>4. \A j, l \in Lane : IntCof(n, j, l) \in Int
    <3>1. \A j, l \in Lane : Is(TheCofactors(m)[j][l], IntCof(n, j, l), d * (d * d))
      BY CofactorsIs
    <3> QED
      BY <3>1, IsInts
  <2>5. PICK c0, c1, c2, c3 \in Int : c0 = c(0) /\ c1 = c(1) /\ c2 = c(2) /\ c3 = c(3)
    BY <2>4, LaneSet
  <2>6. c0 * n0 + c1 * n1 + c2 * n2 + c3 * n3 = IF k = i THEN D ELSE 0
    BY <1>4, <2>3, <2>5, Laplace
  <2>7. (c0 * d) * n0 + (c1 * d) * n1 + (c2 * d) * n2 + (c3 * d) * n3
          = (c0 * n0 + c1 * n1 + c2 * n2 + c3 * n3) * d
    BY <1>5
  <2>8. IntDot(a, n, k, i) = (IF k = i THEN D ELSE 0) * d
    BY <2>1, <2>3, <2>5, <2>6, <2>7
  <2>9. CASE k = i
    BY <2>8, <2>9
  <2>10. CASE k # i
    BY <1>5, <2>8, <2>10
  <2> QED
    BY <2>9, <2>10
<1>9. ASSUME NEW k \in Lane, NEW i \in Lane
      PROVE  Mul(x, m)[k][i] = IdentityMatrix[k][i]
  <2>1. D * d \in Int /\ D * d # 0
    BY <1>4, <1>5
  <2>2. IdentityMatrix[k][i] = IF k = i THEN One ELSE Zero
    BY IdentityIs
  <2>3. Is(Zero, 0, D * d) /\ Is(One, D * d, D * d)
    BY <2>1, ZeroIs
  <2>4. Is(Mul(x, m)[k][i], IF k = i THEN D * d ELSE 0, D * d)
    BY <1>7, <1>8
  <2>5. CASE k = i
    BY <2>2, <2>3, <2>4, <2>5, IsEqual
  <2>6. CASE k # i
    BY <2>2, <2>3, <2>4, <2>6, IsEqual
  <2> QED
    BY <2>5, <2>6
<1>10. IsMat(IdentityMatrix)
  BY IdentityIs, M4Mat
<1>11. Mul(x, m) = IdentityMatrix
  BY <1>9, <1>10, MulMat, SameMat
<1> QED
  BY <1>1, <1>3, <1>11

MinorSums(p0, p1, p2, p3, b0, b1, b2, b3, c0, c1, c2, c3) ==
  /\ (b0 * c2 - c0 * b2) * p2 + (b0 * c3 - c0 * b3) * p3 + (b0 * c1 - c0 * b1) * p1
       = b0 * (c0 * p0 + c1 * p1 + c2 * p2 + c3 * p3) - c0 * (b0 * p0 + b1 * p1 + b2 * p2 + b3 * p3)
  /\ (b1 * c2 - c1 * b2) * p2 + (b1 * c3 - c1 * b3) * p3 - (b0 * c1 - c0 * b1) * p0
       = b1 * (c0 * p0 + c1 * p1 + c2 * p2 + c3 * p3) - c1 * (b0 * p0 + b1 * p1 + b2 * p2 + b3 * p3)
  /\ (b2 * c3 - c2 * b3) * p3 - (b0 * c2 - c0 * b2) * p0 - (b1 * c2 - c1 * b2) * p1
       = b2 * (c0 * p0 + c1 * p1 + c2 * p2 + c3 * p3) - c2 * (b0 * p0 + b1 * p1 + b2 * p2 + b3 * p3)
  /\ (b0 * c3 - c0 * b3) * p0 + (b1 * c3 - c1 * b3) * p1 + (b2 * c3 - c2 * b3) * p2
       = c3 * (b0 * p0 + b1 * p1 + b2 * p2 + b3 * p3) - b3 * (c0 * p0 + c1 * p1 + c2 * p2 + c3 * p3)

\* Sums of products of 2x2 minors that are zero.
LEMMA MinorIdentities ==
    ASSUME NEW p0 \in Int, NEW p1 \in Int, NEW p2 \in Int, NEW p3 \in Int,
           NEW b0 \in Int, NEW b1 \in Int, NEW b2 \in Int, NEW b3 \in Int,
           NEW c0 \in Int, NEW c1 \in Int, NEW c2 \in Int, NEW c3 \in Int
    PROVE  MinorSums(p0, p1, p2, p3, b0, b1, b2, b3, c0, c1, c2, c3)
  BY DEF MinorSums

Eliminated(p0, p1, p2, p3, a0, a1, a2, a3, f01, f02, f03, f12, f13, f23, g) ==
  /\ f02 * p2 + f03 * p3 + f01 * p1 = 0 /\ f12 * p2 + f13 * p3 - f01 * p0 = 0
  /\ f23 * p3 - f02 * p0 - f12 * p1 = 0 /\ f03 * p0 + f13 * p1 + f23 * p2 = 0
  /\ a1 * f23 - a2 * f13 + a3 * f12 = 0 /\ a0 * f23 - a2 * f03 + a3 * f02 = 0
  /\ a0 * f13 - a1 * f03 + a3 * f01 = 0 /\ a0 * f12 - a1 * f02 + a2 * f01 = 0
  /\ g = a0 * p0 + a1 * p1 + a2 * p2 + a3 * p3

\* Minors are zero when all their combinations with two rows are that a factor
\* keeps apart.
LEMMA MinorCombinations ==
    ASSUME NEW p0 \in Int, NEW p1 \in Int, NEW p2 \in Int, NEW p3 \in Int,
           NEW a0 \in Int, NEW a1 \in Int, NEW a2 \in Int, NEW a3 \in Int,
           NEW f01 \in Int, NEW f02 \in Int, NEW f03 \in Int,
           NEW f12 \in Int, NEW f13 \in Int, NEW f23 \in Int, NEW g \in Int, g # 0,
           Eliminated(p0, p1, p2, p3, a0, a1, a2, a3, f01, f02, f03, f12, f13, f23, g)
    PROVE  f01 = 0 /\ f02 = 0 /\ f03 = 0 /\ f12 = 0 /\ f13 = 0 /\ f23 = 0
<1>1. PICK u0, u1, u2, u3 \in Int :
        /\ u0 = f02 * p2 + f03 * p3 + f01 * p1 /\ u1 = f12 * p2 + f13 * p3 - f01 * p0
        /\ u2 = f23 * p3 - f02 * p0 - f12 * p1 /\ u3 = f03 * p0 + f13 * p1 + f23 * p2
  OBVIOUS
<1>2. PICK v0, v1, v2, v3 \in Int :
        /\ v0 = a1 * f23 - a2 * f13 + a3 * f12 /\ v1 = a0 * f23 - a2 * f03 + a3 * f02
        /\ v2 = a0 * f13 - a1 * f03 + a3 * f01 /\ v3 = a0 * f12 - a1 * f02 + a2 * f01
  OBVIOUS
<1>3. u0 = 0 /\ u1 = 0 /\ u2 = 0 /\ u3 = 0 /\ v0 = 0 /\ v1 = 0 /\ v2 = 0 /\ v3 = 0
  BY <1>1, <1>2 DEF Eliminated
<1>4. g * f01 = g * 0
  <2>1. (a0 * p0 + a1 * p1 + a2 * p2 + a3 * p3) * f01 = p2 * v3 + p3 * v2 - a0 * u1 + a1 * u0
    BY <1>1, <1>2
  <2>2. g = a0 * p0 + a1 * p1 + a2 * p2 + a3 * p3
    BY DEF Eliminated
  <2> QED
    BY <1>3, <2>1, <2>2
<1>5. g * f02 = g * 0
  <2>1. (a0 * p0 + a1 * p1 + a2 * p2 + a3 * p3) * f02 = p3 * v1 - p1 * v3 - a0 * u2 + a2 * u0
    BY <1>1, <1>2
  <2>2. g = a0 * p0 + a1 * p1 + a2 * p2 + a3 * p3
    BY DEF Eliminated
  <2> QED
    BY <1>3, <2>1, <2>2
<1>6. g * f03 = g * 0
  <2>1. (a0 * p0 + a1 * p1 + a2 * p2 + a3 * p3) * f03 = a3 * u0 - p1 * v2 - p2 * v1 + a0 * u3
    BY <1>1, <1>2
  <2>2. g = a0 * p0 + a1 * p1 + a2 * p2 + a3 * p3
    BY DEF Eliminated
  <2> QED
    BY <1>3, <2>1, <2>2
<1>7. g * f12 = g * 0
  <2>1. (a0 * p0 + a1 * p1 + a2 * p2 + a3 * p3) * f12 = p0 * v3 + p3 * v0 - a1 * u2 + a2 * u1
    BY <1>1, <1>2
  <2>2. g = a0 * p0 + a1 * p1 + a2 * p2 + a3 * p3
    BY DEF Eliminated
  <2> QED
    BY <1>3, <2>1, <2>2
<1>8. g * f13 = g * 0
  <2>1. (a0 * p0 + a1 * p1 + a2 * p2 + a3 * p3) * f13 = p0 * v2 - p2 * v0 + a3 * u1 + a1 * u3
    BY <1>1, <1>2
  <2>2. g = a0 * p0 + a1 * p1 + a2 * p2 + a3 * p3
    BY DEF Eliminated
  <2> QED
    BY <1>3, <2>1, <2>2
<1>9. g * f23 = g * 0
  <2>1. (a0 * p0 + a1 * p1 + a2 * p2 + a3 * p3) * f23 = p0 * v1 + p1 * v0 + a2 * u3 + a3 * u2
    BY <1>1, <1>2
  <2>2. g = a0 * p0 + a1 * p1 + a2 * p2 + a3 * p3
    BY DEF Eliminated
  <2> QED
    BY <1>3, <2>1, <2>2
<1> QED
  BY <1>4, <1>5, <1>6, <1>7, <1>8, <1>9, Cancel

\* The sixteen entries of a matrix of integers.
LEMMA IntRows ==
    ASSUME NEW n \in IntMat
    PROVE  /\ n[0][0] \in Int /\ n[0][1] \in Int /\ n[0][2] \in Int /\ n[0][3] \in Int
           /\ n[1][0] \in Int /\ n[1][1] \in Int /\ n[1][2] \in Int /\ n[1][3] \in Int
           /\ n[2][0] \in Int /\ n[2][1] \in Int /\ n[2][2] \in Int /\ n[2][3] \in Int
           /\ n[3][0] \in Int /\ n[3][1] \in Int /\ n[3][2] \in Int /\ n[3][3] \in Int
  BY IntMatAt, LaneSet

\* Cofactors of integers are integers.
LEMMA CofInt ==
    ASSUME NEW n \in IntMat
    PROVE  \A k, i \in Lane : IntCof(n, k, i) \in Int
<1> SUFFICES ASSUME NEW k \in Lane, NEW i \in Lane PROVE IntCof(n, k, i) \in Int
  OBVIOUS
<1>1. PICK f01, f02, f03, f12, f13, f23 \in Int :
        /\ f01 = IntFac(n, 0, 1, i) /\ f02 = IntFac(n, 0, 2, i) /\ f03 = IntFac(n, 0, 3, i)
        /\ f12 = IntFac(n, 1, 2, i) /\ f13 = IntFac(n, 1, 3, i) /\ f23 = IntFac(n, 2, 3, i)
  <2>1. ASSUME NEW lo \in Lane, NEW hi \in Lane PROVE IntFac(n, lo, hi, i) \in Int
    <3>1. PICK a1, a2, a3, b1, b2, b3 \in Int :
            /\ a1 = n[1][lo] /\ a2 = n[2][lo] /\ a3 = n[3][lo]
            /\ b1 = n[1][hi] /\ b2 = n[2][hi] /\ b3 = n[3][hi]
      BY IntMatAt, LaneSet
    <3> QED
      BY <3>1 DEF IntFac
  <2> QED
    BY <2>1, LaneSet
<1>2. PICK v0, v1, v2, v3 \in Int :
        v0 = IntV(n, 0, i) /\ v1 = IntV(n, 1, i) /\ v2 = IntV(n, 2, i) /\ v3 = IntV(n, 3, i)
  <2>1. n[0][0] \in Int /\ n[0][1] \in Int /\ n[0][2] \in Int /\ n[0][3] \in Int
        /\ n[1][0] \in Int /\ n[1][1] \in Int /\ n[1][2] \in Int /\ n[1][3] \in Int
    BY IntMatAt, LaneSet
  <2> QED
    BY <2>1 DEF IntV
<1>3. PICK s, t \in Int : s = IntSign(i) /\ t = IntSignA(i)
  BY DEF IntSign, IntSignA
<1> QED
  BY <1>1, <1>2, <1>3 DEF IntCof

\* The cofactors of row 0 are the 3x3 minors of rows 1, 2 and 3.
ThreeRows(c0, c1, c2, c3, a0, a1, a2, a3, b0, b1, b2, b3, e0, e1, e2, e3) ==
  /\ c0 = a1 * (b2 * e3 - e2 * b3) - a2 * (b1 * e3 - e1 * b3) + a3 * (b1 * e2 - e1 * b2)
  /\ c1 = -(a0 * (b2 * e3 - e2 * b3) - a2 * (b0 * e3 - e0 * b3) + a3 * (b0 * e2 - e0 * b2))
  /\ c2 = a0 * (b1 * e3 - e1 * b3) - a1 * (b0 * e3 - e0 * b3) + a3 * (b0 * e1 - e0 * b1)
  /\ c3 = -(a0 * (b1 * e2 - e1 * b2) - a1 * (b0 * e2 - e0 * b2) + a2 * (b0 * e1 - e0 * b1))

\* The cofactors of the first row, by the other three rows.
LEMMA FirstRow ==
    ASSUME NEW n \in IntMat
    PROVE  ThreeRows(IntCof(n, 0, 0), IntCof(n, 1, 0), IntCof(n, 2, 0), IntCof(n, 3, 0),
                     n[1][0], n[1][1], n[1][2], n[1][3], n[2][0], n[2][1], n[2][2], n[2][3],
                     n[3][0], n[3][1], n[3][2], n[3][3])
<1>1. PICK a0, a1, a2, a3, b0, b1, b2, b3, e0, e1, e2, e3 \in Int :
        /\ a0 = n[1][0] /\ a1 = n[1][1] /\ a2 = n[1][2] /\ a3 = n[1][3]
        /\ b0 = n[2][0] /\ b1 = n[2][1] /\ b2 = n[2][2] /\ b3 = n[2][3]
        /\ e0 = n[3][0] /\ e1 = n[3][1] /\ e2 = n[3][2] /\ e3 = n[3][3]
  BY IntMatAt, LaneSet
<1>2. /\ IntFac(n, 0, 1, 0) = b0 * e1 - e0 * b1 /\ IntFac(n, 0, 2, 0) = b0 * e2 - e0 * b2
      /\ IntFac(n, 0, 3, 0) = b0 * e3 - e0 * b3 /\ IntFac(n, 1, 2, 0) = b1 * e2 - e1 * b2
      /\ IntFac(n, 1, 3, 0) = b1 * e3 - e1 * b3 /\ IntFac(n, 2, 3, 0) = b2 * e3 - e2 * b3
      /\ IntV(n, 0, 0) = a0 /\ IntV(n, 1, 0) = a1 /\ IntV(n, 2, 0) = a2 /\ IntV(n, 3, 0) = a3
      /\ IntSign(0) = 1 /\ IntSignA(0) = -1
  BY <1>1 DEF IntFac, IntV, IntSign, IntSignA
<1>3. PICK f01, f02, f03, f12, f13, f23 \in Int :
        /\ f01 = b0 * e1 - e0 * b1 /\ f02 = b0 * e2 - e0 * b2 /\ f03 = b0 * e3 - e0 * b3
        /\ f12 = b1 * e2 - e1 * b2 /\ f13 = b1 * e3 - e1 * b3 /\ f23 = b2 * e3 - e2 * b3
  OBVIOUS
<1>4. /\ IntCof(n, 0, 0) = a1 * f23 - a2 * f13 + a3 * f12
      /\ IntCof(n, 1, 0) = -(a0 * f23 - a2 * f03 + a3 * f02)
      /\ IntCof(n, 2, 0) = a0 * f13 - a1 * f03 + a3 * f01
      /\ IntCof(n, 3, 0) = -(a0 * f12 - a1 * f02 + a2 * f01)
  BY <1>2, <1>3 DEF IntCof
<1>5. ThreeRows(IntCof(n, 0, 0), IntCof(n, 1, 0), IntCof(n, 2, 0), IntCof(n, 3, 0),
                a0, a1, a2, a3, b0, b1, b2, b3, e0, e1, e2, e3)
  BY <1>3, <1>4 DEF ThreeRows
<1> QED
  BY <1>1, <1>5

\* A row x through m and then a column z.
TwoWays(x0, x1, x2, x3, z0, z1, z2, z3, m00, m01, m02, m03, m10, m11, m12, m13,
        m20, m21, m22, m23, m30, m31, m32, m33) ==
  (x0 * m00 + x1 * m10 + x2 * m20 + x3 * m30) * z0
    + (x0 * m01 + x1 * m11 + x2 * m21 + x3 * m31) * z1
    + (x0 * m02 + x1 * m12 + x2 * m22 + x3 * m32) * z2
    + (x0 * m03 + x1 * m13 + x2 * m23 + x3 * m33) * z3
  = x0 * (m00 * z0 + m01 * z1 + m02 * z2 + m03 * z3)
    + x1 * (m10 * z0 + m11 * z1 + m12 * z2 + m13 * z3)
    + x2 * (m20 * z0 + m21 * z1 + m22 * z2 + m23 * z3)
    + x3 * (m30 * z0 + m31 * z1 + m32 * z2 + m33 * z3)

\* A product of three, in either order, in integers.
LEMMA BothWays ==
    ASSUME NEW x0 \in Int, NEW x1 \in Int, NEW x2 \in Int, NEW x3 \in Int,
           NEW z0 \in Int, NEW z1 \in Int, NEW z2 \in Int, NEW z3 \in Int,
           NEW m00 \in Int, NEW m01 \in Int, NEW m02 \in Int, NEW m03 \in Int,
           NEW m10 \in Int, NEW m11 \in Int, NEW m12 \in Int, NEW m13 \in Int,
           NEW m20 \in Int, NEW m21 \in Int, NEW m22 \in Int, NEW m23 \in Int,
           NEW m30 \in Int, NEW m31 \in Int, NEW m32 \in Int, NEW m33 \in Int
    PROVE  TwoWays(x0, x1, x2, x3, z0, z1, z2, z3, m00, m01, m02, m03, m10, m11, m12, m13,
                   m20, m21, m22, m23, m30, m31, m32, m33)
  BY DEF TwoWays

\* The hypotheses of MinorsVanish and of RowVanishes.
Apart(p0, p1, p2, p3, a0, a1, a2, a3, b0, b1, b2, b3, c0, c1, c2, c3, g) ==
  /\ a0 * p0 + a1 * p1 + a2 * p2 + a3 * p3 = g
  /\ b0 * p0 + b1 * p1 + b2 * p2 + b3 * p3 = 0
  /\ c0 * p0 + c1 * p1 + c2 * p2 + c3 * p3 = 0

NoMinors(b0, b1, b2, b3, c0, c1, c2, c3) ==
  /\ b0 * c1 - c0 * b1 = 0 /\ b0 * c2 - c0 * b2 = 0 /\ b0 * c3 - c0 * b3 = 0
  /\ b1 * c2 - c1 * b2 = 0 /\ b1 * c3 - c1 * b3 = 0 /\ b2 * c3 - c2 * b3 = 0

\* If all cofactors of a row are zero, so are the minors below it.
LEMMA NoMinorsLeft ==
    ASSUME NEW p0 \in Int, NEW p1 \in Int, NEW p2 \in Int, NEW p3 \in Int,
           NEW a0 \in Int, NEW a1 \in Int, NEW a2 \in Int, NEW a3 \in Int,
           NEW b0 \in Int, NEW b1 \in Int, NEW b2 \in Int, NEW b3 \in Int,
           NEW c0 \in Int, NEW c1 \in Int, NEW c2 \in Int, NEW c3 \in Int,
           NEW g \in Int, g # 0,
           Apart(p0, p1, p2, p3, a0, a1, a2, a3, b0, b1, b2, b3, c0, c1, c2, c3, g),
           ThreeRows(0, 0, 0, 0, a0, a1, a2, a3, b0, b1, b2, b3, c0, c1, c2, c3)
    PROVE  NoMinors(b0, b1, b2, b3, c0, c1, c2, c3)
<1>1. PICK f01, f02, f03, f12, f13, f23 \in Int :
        /\ f01 = b0 * c1 - c0 * b1 /\ f02 = b0 * c2 - c0 * b2 /\ f03 = b0 * c3 - c0 * b3
        /\ f12 = b1 * c2 - c1 * b2 /\ f13 = b1 * c3 - c1 * b3 /\ f23 = b2 * c3 - c2 * b3
  OBVIOUS
<1>2. PICK v0, v1, v2, v3 \in Int :
        /\ v0 = a1 * f23 - a2 * f13 + a3 * f12 /\ v1 = a0 * f23 - a2 * f03 + a3 * f02
        /\ v2 = a0 * f13 - a1 * f03 + a3 * f01 /\ v3 = a0 * f12 - a1 * f02 + a2 * f01
  OBVIOUS
<1>3. 0 = v0 /\ 0 = -v1 /\ 0 = v2 /\ 0 = -v3
  BY <1>1, <1>2 DEF ThreeRows
<1>4. v0 = 0 /\ v1 = 0 /\ v2 = 0 /\ v3 = 0
  BY <1>3
<1>5. MinorSums(p0, p1, p2, p3, b0, b1, b2, b3, c0, c1, c2, c3)
  BY MinorIdentities
<1>6. /\ f02 * p2 + f03 * p3 + f01 * p1 = b0 * 0 - c0 * 0 /\ f12 * p2 + f13 * p3 - f01 * p0 = b1 * 0 - c1 * 0
      /\ f23 * p3 - f02 * p0 - f12 * p1 = b2 * 0 - c2 * 0 /\ f03 * p0 + f13 * p1 + f23 * p2 = c3 * 0 - b3 * 0
  BY <1>1, <1>5 DEF MinorSums, Apart
<1>7. /\ f02 * p2 + f03 * p3 + f01 * p1 = 0 /\ f12 * p2 + f13 * p3 - f01 * p0 = 0
      /\ f23 * p3 - f02 * p0 - f12 * p1 = 0 /\ f03 * p0 + f13 * p1 + f23 * p2 = 0
  BY <1>6
<1>8. Eliminated(p0, p1, p2, p3, a0, a1, a2, a3, f01, f02, f03, f12, f13, f23, g)
  BY <1>2, <1>4, <1>7 DEF Eliminated, Apart
<1>9. f01 = 0 /\ f02 = 0 /\ f03 = 0 /\ f12 = 0 /\ f13 = 0 /\ f23 = 0
  BY <1>8, MinorCombinations
<1> QED
  BY <1>1, <1>9 DEF NoMinors

Alone(p0, p1, p2, p3, b0, b1, b2, b3, c0, c1, c2, c3, g) ==
  /\ b0 * p0 + b1 * p1 + b2 * p2 + b3 * p3 = g
  /\ c0 * p0 + c1 * p1 + c2 * p2 + c3 * p3 = 0

\* If all minors of two rows are zero, a row that is apart from the other is
\* zero.
LEMMA RowGone ==
    ASSUME NEW p0 \in Int, NEW p1 \in Int, NEW p2 \in Int, NEW p3 \in Int,
           NEW b0 \in Int, NEW b1 \in Int, NEW b2 \in Int, NEW b3 \in Int,
           NEW c0 \in Int, NEW c1 \in Int, NEW c2 \in Int, NEW c3 \in Int,
           NEW g \in Int, g # 0,
           Alone(p0, p1, p2, p3, b0, b1, b2, b3, c0, c1, c2, c3, g),
           NoMinors(b0, b1, b2, b3, c0, c1, c2, c3)
    PROVE  c0 = 0 /\ c1 = 0 /\ c2 = 0 /\ c3 = 0
<1>1. (b0 * p0 + b1 * p1 + b2 * p2 + b3 * p3) * c0 = b0 * (c0 * p0 + c1 * p1 + c2 * p2 + c3 * p3)
               - (b0 * c1 - c0 * b1) * p1 - (b0 * c2 - c0 * b2) * p2 - (b0 * c3 - c0 * b3) * p3
  OBVIOUS
<1>2. (b0 * p0 + b1 * p1 + b2 * p2 + b3 * p3) * c1 = b1 * (c0 * p0 + c1 * p1 + c2 * p2 + c3 * p3)
               + (b0 * c1 - c0 * b1) * p0 - (b1 * c2 - c1 * b2) * p2 - (b1 * c3 - c1 * b3) * p3
  OBVIOUS
<1>3. (b0 * p0 + b1 * p1 + b2 * p2 + b3 * p3) * c2 = b2 * (c0 * p0 + c1 * p1 + c2 * p2 + c3 * p3)
               + (b0 * c2 - c0 * b2) * p0 + (b1 * c2 - c1 * b2) * p1 - (b2 * c3 - c2 * b3) * p3
  OBVIOUS
<1>4. (b0 * p0 + b1 * p1 + b2 * p2 + b3 * p3) * c3 = b3 * (c0 * p0 + c1 * p1 + c2 * p2 + c3 * p3)
               + (b0 * c3 - c0 * b3) * p0 + (b1 * c3 - c1 * b3) * p1 + (b2 * c3 - c2 * b3) * p2
  OBVIOUS
<1>5. g * c0 = g * 0 /\ g * c1 = g * 0 /\ g * c2 = g * 0 /\ g * c3 = g * 0
  BY <1>1, <1>2, <1>3, <1>4 DEF Alone, NoMinors
<1> QED
  BY <1>5, Cancel

\* A matrix of integers with a right inverse up to the factor g has a determinant.
LEMMA DetNotZero ==
    ASSUME NEW n \in IntMat, NEW c \in IntMat, NEW g \in Int, g # 0,
           \A j, i \in Lane : IntDot(n, c, j, i) = IF j = i THEN g ELSE 0
    PROVE  IntDet(n) # 0
<1> SUFFICES ASSUME IntDet(n) = 0 PROVE FALSE
  OBVIOUS
<1>1. PICK a0, a1, a2, a3, b0, b1, b2, b3, e0, e1, e2, e3 \in Int :
        /\ a0 = n[1][0] /\ a1 = n[1][1] /\ a2 = n[1][2] /\ a3 = n[1][3]
        /\ b0 = n[2][0] /\ b1 = n[2][1] /\ b2 = n[2][2] /\ b3 = n[2][3]
        /\ e0 = n[3][0] /\ e1 = n[3][1] /\ e2 = n[3][2] /\ e3 = n[3][3]
  BY IntRows
<1>2. ASSUME NEW k \in Lane PROVE IntCof(n, k, 0) = 0
  <2>1. PICK x0, x1, x2, x3 \in Int :
          x0 = IntCof(n, k, 0) /\ x1 = IntCof(n, k, 1) /\ x2 = IntCof(n, k, 2) /\ x3 = IntCof(n, k, 3)
    BY CofInt, LaneSet
  <2>2. PICK z0, z1, z2, z3 \in Int : z0 = c[0][0] /\ z1 = c[1][0] /\ z2 = c[2][0] /\ z3 = c[3][0]
    BY IntMatAt, LaneSet
  <2>3. PICK m00, m01, m02, m03, m10, m11, m12, m13, m20, m21, m22, m23, m30, m31, m32, m33 :
          /\ m00 = n[0][0] /\ m01 = n[0][1] /\ m02 = n[0][2] /\ m03 = n[0][3]
          /\ m10 = n[1][0] /\ m11 = n[1][1] /\ m12 = n[1][2] /\ m13 = n[1][3]
          /\ m20 = n[2][0] /\ m21 = n[2][1] /\ m22 = n[2][2] /\ m23 = n[2][3]
          /\ m30 = n[3][0] /\ m31 = n[3][1] /\ m32 = n[3][2] /\ m33 = n[3][3]
    OBVIOUS
  <2> m00 \in Int /\ m01 \in Int /\ m02 \in Int /\ m03 \in Int /\ m10 \in Int /\ m11 \in Int /\ m12 \in Int
      /\ m13 \in Int /\ m20 \in Int /\ m21 \in Int /\ m22 \in Int /\ m23 \in Int /\ m30 \in Int /\ m31 \in Int
      /\ m32 \in Int /\ m33 \in Int
    BY <2>3, IntRows
  <2>4. /\ x0 * m00 + x1 * m10 + x2 * m20 + x3 * m30 = 0 /\ x0 * m01 + x1 * m11 + x2 * m21 + x3 * m31 = 0
        /\ x0 * m02 + x1 * m12 + x2 * m22 + x3 * m32 = 0 /\ x0 * m03 + x1 * m13 + x2 * m23 + x3 * m33 = 0
    <3>1. \A i \in Lane : x0 * n[0][i] + x1 * n[1][i] + x2 * n[2][i] + x3 * n[3][i] = 0
      BY <2>1, Laplace
    <3> QED
      BY <2>3, <3>1, LaneSet
  <2>5. /\ m00 * z0 + m01 * z1 + m02 * z2 + m03 * z3 = g /\ m10 * z0 + m11 * z1 + m12 * z2 + m13 * z3 = 0
        /\ m20 * z0 + m21 * z1 + m22 * z2 + m23 * z3 = 0 /\ m30 * z0 + m31 * z1 + m32 * z2 + m33 * z3 = 0
    BY <2>2, <2>3, LaneSet DEF IntDot
  <2>6. x0 * g = 0
    <3>1. TwoWays(x0, x1, x2, x3, z0, z1, z2, z3, m00, m01, m02, m03, m10, m11, m12, m13,
                  m20, m21, m22, m23, m30, m31, m32, m33)
      BY BothWays
    <3>2. 0 * z0 + 0 * z1 + 0 * z2 + 0 * z3 = x0 * g + x1 * 0 + x2 * 0 + x3 * 0
      BY <2>4, <2>5, <3>1 DEF TwoWays
    <3> QED
      BY <3>2
  <2>7. g * x0 = g * 0
    BY <2>6
  <2> QED
    BY <2>1, <2>7, Cancel
<1>3. ThreeRows(0, 0, 0, 0, a0, a1, a2, a3, b0, b1, b2, b3, e0, e1, e2, e3)
  <2>1. IntCof(n, 0, 0) = 0 /\ IntCof(n, 1, 0) = 0 /\ IntCof(n, 2, 0) = 0 /\ IntCof(n, 3, 0) = 0
    BY <1>2, LaneSet
  <2> QED
    BY <1>1, <2>1, FirstRow
<1>7. NoMinors(b0, b1, b2, b3, e0, e1, e2, e3)
  <2>1. PICK p0, p1, p2, p3 \in Int : p0 = c[0][1] /\ p1 = c[1][1] /\ p2 = c[2][1] /\ p3 = c[3][1]
    BY IntMatAt, LaneSet
  <2>2. Apart(p0, p1, p2, p3, a0, a1, a2, a3, b0, b1, b2, b3, e0, e1, e2, e3, g)
    BY <1>1, <2>1, LaneSet DEF IntDot, Apart
  <2> QED
    BY <1>3, <2>2, NoMinorsLeft
<1>8. e0 = 0 /\ e1 = 0 /\ e2 = 0 /\ e3 = 0
  <2>1. PICK p0, p1, p2, p3 \in Int : p0 = c[0][2] /\ p1 = c[1][2] /\ p2 = c[2][2] /\ p3 = c[3][2]
    BY IntMatAt, LaneSet
  <2>2. Alone(p0, p1, p2, p3, b0, b1, b2, b3, e0, e1, e2, e3, g)
    BY <1>1, <2>1, LaneSet DEF IntDot, Alone
  <2> QED
    BY <1>7, <2>2, RowGone
<1>9. PICK p0, p1, p2, p3 \in Int : p0 = c[0][3] /\ p1 = c[1][3] /\ p2 = c[2][3] /\ p3 = c[3][3]
  BY IntMatAt, LaneSet
<1>10. e0 * p0 + e1 * p1 + e2 * p2 + e3 * p3 = g
  BY <1>1, <1>9, LaneSet DEF IntDot
<1> QED
  BY <1>8, <1>10

\* A matrix that some matrix inverts is inverted by the SSE code, by that matrix.
LEMMA InverseIs ==
    ASSUME NEW m \in M4, NEW y \in M4, Mul(m, y) = IdentityMatrix
    PROVE  Easy_matrix_inv_sse(m) = y /\ Mul(Easy_matrix_inv_sse(m), m) = IdentityMatrix
<1>1. PICK d \in Int, n \in IntMat : d > 0 /\ \A j, i \in Lane : Is(m[j][i], n[j][i], d)
  BY CommonM4 DEF IntMat
<1>2. PICK e \in Int, c \in IntMat : e > 0 /\ \A j, i \in Lane : Is(y[j][i], c[j][i], e)
  BY CommonM4 DEF IntMat
<1>3. PICK g \in Int : g = d * e /\ g # 0
  BY <1>1, <1>2
<1>4. ASSUME NEW j \in Lane, NEW i \in Lane
      PROVE  IntDot(n, c, j, i) = IF j = i THEN g ELSE 0
  <2>1. Is(IdentityMatrix[j][i], IntDot(n, c, j, i), g)
    BY <1>1, <1>2, <1>3, MulIs
  <2>2. IdentityMatrix[j][i] = IF j = i THEN One ELSE Zero
    BY IdentityIs
  <2>3. Is(Zero, 0, g) /\ Is(One, g, g)
    BY <1>3, ZeroIs
  <2>4. PICK x \in Int : x = IntDot(n, c, j, i)
    BY <2>1, IsInts
  <2>5. CASE j = i
    <3>1. x * g = g * g
      BY <2>1, <2>2, <2>3, <2>4, <2>5, IsCross
    <3>2. g * x = g * g
      BY <3>1
    <3> QED
      BY <1>3, <2>4, <2>5, <3>2, Cancel
  <2>6. CASE j # i
    <3>1. x * g = 0 * g
      BY <2>1, <2>2, <2>3, <2>4, <2>6, IsCross
    <3>2. g * x = g * 0
      BY <3>1
    <3> QED
      BY <1>3, <2>4, <2>6, <3>2, Cancel
  <2> QED
    BY <2>5, <2>6
<1>5. IntDet(n) # 0
  BY <1>3, <1>4, DetNotZero
<1>6. Easy_matrix_inv_sse(m) \in M4 /\ Mul(Easy_matrix_inv_sse(m), m) = IdentityMatrix
  BY <1>1, <1>5, LeftInverse
<1> QED
  BY <1>6, OneInverse

(***************************************************************************)
(* The inverse by pivoting.                                                *)
(***************************************************************************)

\* Zero has no sign.
LEMMA NegZero == Neg(Zero) = Zero
<1>1. Zero \in Num /\ Neg(Zero) \in Num
  BY Constants, NumClosed
<1>2. Plus(Zero, Neg(Zero)) = Neg(Zero) /\ Minus(Zero, Zero) = Zero
  BY <1>1, Neutral
<1> QED
  BY <1>2 DEF Minus

\* n is m with the rows, or the columns, a and b changed.
RowsSwapped(n, m, a, b) ==
  \A j, i \in Lane : n[j][i] =
    IF a = b THEN m[j][i] ELSE IF j = a THEN m[b][i] ELSE IF j = b THEN Neg(m[a][i]) ELSE m[j][i]
ColumnsSwapped(n, m, a, b) ==
  \A j, i \in Lane : n[j][i] =
    IF a = b THEN m[j][i] ELSE IF i = a THEN m[j][b] ELSE IF i = b THEN Neg(m[j][a]) ELSE m[j][i]

\* Two rows change places, one of them with its sign.
LEMMA SwapRowsIs ==
    ASSUME NEW m, IsMat(m), NEW a \in Lane, NEW b \in Lane
    PROVE  IsMat(SwapRows(m, a, b)) /\ RowsSwapped(SwapRows(m, a, b), m, a, b)
<1>1. CASE a = b
  BY <1>1 DEF SwapRows, RowsSwapped
<1>2. CASE a # b
  <2>1. PICK x : x = xorps(m[a], Lane)
    OBVIOUS
  <2>2. IsReg(x) /\ \A i \in Lane : x[i] = Neg(m[a][i])
    BY <2>1, XorIs
  <2>3. PICK n1 : n1 = Put(m, a, m[b])
    OBVIOUS
  <2>4. IsReg(n1) /\ n1[a] = m[b] /\ \A i \in Lane : i # a => n1[i] = m[i]
    BY <2>3, PutIs DEF IsMat
  <2>5. PICK n : n = Put(n1, b, x)
    OBVIOUS
  <2>6. IsReg(n) /\ n[b] = x /\ \A i \in Lane : i # b => n[i] = n1[i]
    BY <2>4, <2>5, PutIs
  <2>7. SwapRows(m, a, b) = n
    BY <1>2, <2>1, <2>3, <2>5 DEF SwapRows, Put
  <2>8. n[a] = m[b] /\ n[b] = x /\ \A j \in Lane : j # a /\ j # b => n[j] = m[j]
    BY <1>2, <2>4, <2>6
  <2>9. \A j \in Lane : IsReg(n[j])
    BY <2>2, <2>8 DEF IsMat
  <2>10. \A j, i \in Lane : n[j][i] =
           IF j = a THEN m[b][i] ELSE IF j = b THEN Neg(m[a][i]) ELSE m[j][i]
    BY <2>2, <2>8
  <2> QED
    BY <1>2, <2>6, <2>7, <2>9, <2>10 DEF IsMat, RowsSwapped
<1> QED
  BY <1>1, <1>2

\* Columns in the same way.
LEMMA SwapColumnsIs ==
    ASSUME NEW m, IsMat(m), NEW a \in Lane, NEW b \in Lane
    PROVE  IsMat(SwapColumns(m, a, b)) /\ ColumnsSwapped(SwapColumns(m, a, b), m, a, b)
<1>1. PICK t : t = T4(m)
  OBVIOUS
<1>2. IsMat(t) /\ \A j, i \in Lane : t[j][i] = m[i][j]
  BY <1>1, T4Mat
<1>3. PICK r : r = SwapRows(t, a, b)
  OBVIOUS
<1>4. IsMat(r) /\ RowsSwapped(r, t, a, b)
  BY <1>2, <1>3, SwapRowsIs
<1>5. SwapColumns(m, a, b) = T4(r)
  BY <1>1, <1>3, <1>4, TransposeIs DEF SwapColumns
<1>6. IsMat(T4(r)) /\ \A j, i \in Lane : T4(r)[j][i] = r[i][j]
  BY T4Mat
<1> QED
  BY <1>2, <1>4, <1>5, <1>6 DEF RowsSwapped, ColumnsSwapped

\* Both are products with a matrix that is its own inverse but for the order.
Perm(a, b) ==
  [j \in Lane |-> [i \in Lane |->
     IF a = b THEN IF j = i THEN One ELSE Zero
     ELSE IF j = a THEN IF i = b THEN One ELSE Zero
     ELSE IF j = b THEN IF i = a THEN Neg(One) ELSE Zero
     ELSE IF j = i THEN One ELSE Zero]]

\* A permutation of two rows, one of them with its sign, is a matrix.
LEMMA PermM4 ==
    ASSUME NEW a \in Lane, NEW b \in Lane
    PROVE  Perm(a, b) \in M4
<1>1. Neg(One) \in Num /\ One \in Num /\ Zero \in Num
  BY Constants, NumClosed
<1> QED
  BY <1>1 DEF Perm, M4, V4

\* A sum of four with one term.
LEMMA OneTerm ==
    ASSUME NEW f, f[0] \in Num, f[1] \in Num, f[2] \in Num, f[3] \in Num,
           NEW k \in Lane, \A l \in Lane : l # k => f[l] = Zero
    PROVE  Plus4(f[0], f[1], f[2], f[3]) = f[k]
<1>1. \A a \in Num : /\ Plus4(a, Zero, Zero, Zero) = a /\ Plus4(Zero, a, Zero, Zero) = a
                     /\ Plus4(Zero, Zero, a, Zero) = a /\ Plus4(Zero, Zero, Zero, a) = a
  BY Neutral, Constants DEF Plus4, Plus3
<1>2. k \in {0, 1, 2, 3}
  BY LaneSet
<1>3. CASE k = 0
  BY <1>1, <1>3, LaneSet
<1>4. CASE k = 1
  BY <1>1, <1>4, LaneSet
<1>5. CASE k = 2
  BY <1>1, <1>5, LaneSet
<1>6. CASE k = 3
  BY <1>1, <1>6, LaneSet
<1> QED
  BY <1>2, <1>3, <1>4, <1>5, <1>6

\* A factor of minus one.
LEMMA NegTimes ==
    ASSUME NEW a \in Num
    PROVE  Times(Neg(One), a) = Neg(a) /\ Times(a, Neg(One)) = Neg(a)
<1>1. PICK n, d \in Int : d > 0 /\ Is(a, n, d)
  BY Fraction
<1>2. Is(Neg(One), -1, 1)
  BY ZeroIs, NegIs
<1>3. Is(Times(Neg(One), a), (-1) * n, 1 * d) /\ Is(Times(a, Neg(One)), n * (-1), d * 1)
  BY <1>1, <1>2, TimesIs
<1>4. Is(Neg(a), -n, d)
  BY <1>1, NegIs
<1>5. (-1) * n = -n /\ n * (-1) = -n /\ 1 * d = d /\ d * 1 = d
  OBVIOUS
<1> QED
  BY <1>3, <1>4, <1>5, IsEqual

\* Exchanging rows is a product on the left ...
LEMMA RowsPermuted ==
    ASSUME NEW m \in M4, NEW a \in Lane, NEW b \in Lane
    PROVE  SwapRows(m, a, b) = Mul(Perm(a, b), m) /\ SwapRows(m, a, b) \in M4
<1>1. ASSUME NEW j \in Lane, NEW i \in Lane
      PROVE  Mul(Perm(a, b), m)[j][i] = SwapRows(m, a, b)[j][i]
  <2> DEFINE f == [l \in Lane |-> Times(Perm(a, b)[j][l], m[l][i])]
             k == IF a = b THEN j ELSE IF j = a THEN b ELSE IF j = b THEN a ELSE j
  <2>1. \A l \in Lane : f[l] \in Num
    BY PermM4, M4Mat, NumClosed
  <2>2. k \in Lane
    OBVIOUS
  <2>3. ASSUME NEW l \in Lane, l # k PROVE f[l] = Zero
    <3>1. Perm(a, b)[j][l] = Zero
      BY <2>3 DEF Perm
    <3> QED
      BY <3>1, M4Mat, Neutral
  <2>4. Mul(Perm(a, b), m)[j][i] = Plus4(f[0], f[1], f[2], f[3])
    BY LaneSet DEF Mul
  <2>5. f[k] = SwapRows(m, a, b)[j][i]
    <3>1. SwapRows(m, a, b)[j][i] = IF a # b /\ j = b THEN Neg(m[k][i]) ELSE m[k][i]
      <4>1. RowsSwapped(SwapRows(m, a, b), m, a, b)
        BY M4Mat, SwapRowsIs
      <4> QED
        BY <4>1 DEF RowsSwapped
    <3>2. Perm(a, b)[j][k] = IF a # b /\ j = b THEN Neg(One) ELSE One
      BY <2>2 DEF Perm
    <3>3. m[k][i] \in Num /\ f[k] = Times(Perm(a, b)[j][k], m[k][i])
      BY <2>2, M4Mat
    <3> HIDE DEF k, f
    <3>4. CASE a # b /\ j = b
      BY <3>1, <3>2, <3>3, <3>4, NegTimes
    <3>5. CASE ~(a # b /\ j = b)
      BY <3>1, <3>2, <3>3, <3>5, Neutral
    <3> QED
      BY <3>4, <3>5
  <2> HIDE DEF k, f
  <2>6. Plus4(f[0], f[1], f[2], f[3]) = f[k]
    BY <2>1, <2>2, <2>3, OneTerm, LaneSet
  <2> QED
    BY <2>4, <2>5, <2>6
<1>2. IsMat(SwapRows(m, a, b)) /\ IsMat(Mul(Perm(a, b), m))
  BY M4Mat, SwapRowsIs, MulMat
<1>3. SwapRows(m, a, b) = Mul(Perm(a, b), m)
  BY <1>1, <1>2, SameMat
<1> QED
  BY <1>3, PermM4, MulClosed

\* ... and exchanging columns one on the right.
LEMMA ColumnsPermuted ==
    ASSUME NEW m \in M4, NEW a \in Lane, NEW b \in Lane
    PROVE  SwapColumns(m, a, b) = Mul(m, Perm(b, a)) /\ SwapColumns(m, a, b) \in M4
<1>1. ASSUME NEW j \in Lane, NEW i \in Lane
      PROVE  Mul(m, Perm(b, a))[j][i] = SwapColumns(m, a, b)[j][i]
  <2> DEFINE f == [l \in Lane |-> Times(m[j][l], Perm(b, a)[l][i])]
             k == IF a = b THEN i ELSE IF i = a THEN b ELSE IF i = b THEN a ELSE i
  <2>1. \A l \in Lane : f[l] \in Num
    BY PermM4, M4Mat, NumClosed
  <2>2. k \in Lane
    OBVIOUS
  <2>3. ASSUME NEW l \in Lane, l # k PROVE f[l] = Zero
    <3>1. Perm(b, a)[l][i] = Zero
      BY <2>3 DEF Perm
    <3> QED
      BY <3>1, M4Mat, Neutral
  <2>4. Mul(m, Perm(b, a))[j][i] = Plus4(f[0], f[1], f[2], f[3])
    BY LaneSet DEF Mul
  <2>5. f[k] = SwapColumns(m, a, b)[j][i]
    <3>1. SwapColumns(m, a, b)[j][i] = IF a # b /\ i = b THEN Neg(m[j][k]) ELSE m[j][k]
      <4>1. ColumnsSwapped(SwapColumns(m, a, b), m, a, b)
        BY M4Mat, SwapColumnsIs
      <4> QED
        BY <4>1 DEF ColumnsSwapped
    <3>2. Perm(b, a)[k][i] = IF a # b /\ i = b THEN Neg(One) ELSE One
      BY <2>2 DEF Perm
    <3>3. m[j][k] \in Num /\ f[k] = Times(m[j][k], Perm(b, a)[k][i])
      BY <2>2, M4Mat
    <3> HIDE DEF k, f
    <3>4. CASE a # b /\ i = b
      BY <3>1, <3>2, <3>3, <3>4, NegTimes
    <3>5. CASE ~(a # b /\ i = b)
      BY <3>1, <3>2, <3>3, <3>5, Neutral
    <3> QED
      BY <3>4, <3>5
  <2> HIDE DEF k, f
  <2>6. Plus4(f[0], f[1], f[2], f[3]) = f[k]
    BY <2>1, <2>2, <2>3, OneTerm, LaneSet
  <2> QED
    BY <2>4, <2>5, <2>6
<1>2. IsMat(SwapColumns(m, a, b)) /\ IsMat(Mul(m, Perm(b, a)))
  BY M4Mat, SwapColumnsIs, MulMat
<1>3. SwapColumns(m, a, b) = Mul(m, Perm(b, a))
  BY <1>1, <1>2, SameMat
<1> QED
  BY <1>3, PermM4, MulClosed

\* Exchanging back.
LEMMA PermInverse ==
    ASSUME NEW a \in Lane, NEW b \in Lane
    PROVE  Mul(Perm(a, b), Perm(b, a)) = IdentityMatrix
<1>1. PICK r : r = SwapRows(Perm(b, a), a, b)
  OBVIOUS
<1>2. r = Mul(Perm(a, b), Perm(b, a)) /\ r \in M4
  BY <1>1, PermM4, RowsPermuted
<1>3. ASSUME NEW j \in Lane, NEW i \in Lane PROVE r[j][i] = IdentityMatrix[j][i]
  <2>1. Perm(b, a) \in M4 /\ IsMat(Perm(b, a))
    BY PermM4, M4Mat
  <2>2. r[j][i] = IF a = b THEN Perm(b, a)[j][i] ELSE IF j = a THEN Perm(b, a)[b][i]
                  ELSE IF j = b THEN Neg(Perm(b, a)[a][i]) ELSE Perm(b, a)[j][i]
    <3>1. RowsSwapped(r, Perm(b, a), a, b)
      BY <1>1, <2>1, SwapRowsIs
    <3> QED
      BY <3>1 DEF RowsSwapped
  <2>3. Neg(Neg(One)) = One
    BY Constants, Neutral
  <2>4. r[j][i] = IF j = i THEN One ELSE Zero
    BY <2>2, <2>3, NegZero DEF Perm
  <2> QED
    BY <2>4, IdentityIs
<1>4. IsMat(r) /\ IsMat(IdentityMatrix)
  BY <1>2, IdentityIs, M4Mat
<1> QED
  BY <1>2, <1>3, <1>4, SameMat

\* The largest of the values from k on.
LEMMA BestLane ==
    ASSUME NEW f, \A i \in Lane : f[i] \in Int, NEW k \in Lane
    PROVE  \E i \in k .. 3 : \A j \in k .. 3 : f[j] <= f[i]
<1>1. PICK f0, f1, f2, f3 \in Int : f0 = f[0] /\ f1 = f[1] /\ f2 = f[2] /\ f3 = f[3]
  BY LaneSet
<1>2. CASE k = 0
  <2>1. 0 .. 3 = {0, 1, 2, 3}
    OBVIOUS
  <2> QED
    BY <1>1, <1>2, <2>1
<1>3. CASE k = 1
  <2>1. 1 .. 3 = {1, 2, 3}
    OBVIOUS
  <2> QED
    BY <1>1, <1>3, <2>1
<1>4. CASE k = 2
  <2>1. 2 .. 3 = {2, 3}
    OBVIOUS
  <2> QED
    BY <1>1, <1>4, <2>1
<1>5. CASE k = 3
  <2>1. 3 .. 3 = {3}
    OBVIOUS
  <2> QED
    BY <1>1, <1>5, <2>1
<1> QED
  BY <1>2, <1>3, <1>4, <1>5, LaneSet

\* A positive factor keeps the order.
LEMMA Grows ==
    ASSUME NEW x \in Nat, NEW y \in Nat, NEW d \in Int, d > 0
    PROVE  (x < y => x * d < y * d) /\ (x <= y => ~(y * d < x * d))
<1>1. PICK z \in Int : z = y - x
  OBVIOUS
<1>2. y * d = x * d + z * d
  BY <1>1
<1>3. (z > 0 => z * d > 0) /\ (z >= 0 => z * d >= 0)
  OBVIOUS
<1> QED
  BY <1>1, <1>2, <1>3

\* The pivot search finds an entry of the rows and columns that are left.
LEMMA PivotIs ==
    ASSUME NEW m \in M4, NEW k \in Lane
    PROVE  Pivot(m, k) \in (k .. 3) \X (k .. 3)
<1> DEFINE left == (k .. 3) \X (k .. 3)
           Earlier(p, r) == p[1] < r[1] \/ (p[1] = r[1] /\ p[2] < r[2])
           Size(p) == AbsQ(m[p[1]][p[2]])
<1>1. PICK d \in Int, n \in IntMat : d > 0 /\ \A j, i \in Lane : Is(m[j][i], n[j][i], d)
  BY CommonM4 DEF IntMat
<1> DEFINE a == [j \in Lane |-> [i \in Lane |-> Magnitude(n[j][i])]]
<1>2. \A j, i \in Lane : a[j][i] \in Nat /\ Is(AbsQ(m[j][i]), a[j][i], d)
  <2>1. \A j, i \in Lane : Is(AbsQ(m[j][i]), Magnitude(n[j][i]), d)
    BY <1>1, AbsIs
  <2>2. \A x \in Int : Magnitude(x) \in Nat
    BY DEF Magnitude
  <2> QED
    BY <2>1, <2>2, IntMatAt
<1> HIDE DEF a
<1> DEFINE key(j, i) == 16 * a[j][i] - (4 * j + i)
<1>3. \A j, i \in Lane : key(j, i) \in Int
  BY <1>2 DEF Lane
<1>4. \E p \in left : \A r \in left : key(r[1], r[2]) <= key(p[1], p[2])
  <2>1. \A j \in Lane : \E i \in k .. 3 : \A l \in k .. 3 : key(j, l) <= key(j, i)
    <3> TAKE j \in Lane
    <3> DEFINE f == [i \in Lane |-> key(j, i)]
    <3>1. \A i \in Lane : f[i] \in Int /\ f[i] = key(j, i)
      BY <1>3
    <3> HIDE DEF f, key
    <3>2. \E i \in k .. 3 : \A l \in k .. 3 : f[l] <= f[i]
      BY <3>1, BestLane
    <3> QED
      BY <3>1, <3>2 DEF Lane
  <2> HIDE DEF key
  <2> DEFINE best == [j \in Lane |-> CHOOSE i \in k .. 3 : \A l \in k .. 3 : key(j, l) <= key(j, i)]
             f == [j \in Lane |-> key(j, best[j])]
  <2>2. \A j \in Lane : best[j] \in k .. 3 /\ \A l \in k .. 3 : key(j, l) <= key(j, best[j])
    BY <2>1
  <2>3. \A j \in Lane : best[j] \in Lane
    BY <2>2 DEF Lane
  <2>4. \A j \in Lane : f[j] \in Int /\ f[j] = key(j, best[j])
    BY <1>3, <2>3
  <2> HIDE DEF best, f
  <2>5. PICK j \in k .. 3 : \A l \in k .. 3 : f[l] <= f[j]
    BY <2>4, BestLane
  <2>6. j \in Lane
    BY DEF Lane
  <2> DEFINE p == <<j, best[j]>>
  <2>7. ASSUME NEW r \in left PROVE key(r[1], r[2]) <= key(p[1], p[2])
    <3>1. PICK x, y \in k .. 3 : r = <<x, y>>
      OBVIOUS
    <3>2. x \in Lane /\ y \in Lane
      BY DEF Lane
    <3>3. key(x, y) <= key(x, best[x]) /\ f[x] <= f[j]
      BY <2>2, <2>5, <3>2
    <3>4. key(x, y) <= key(j, best[j])
      BY <1>3, <2>3, <2>4, <2>6, <3>2, <3>3
    <3> QED
      BY <3>1, <3>4
  <2>8. p \in left
    BY <2>2, <2>6
  <2> QED
    BY <2>7, <2>8
<1>5. PICK p \in left : \A r \in left : key(r[1], r[2]) <= key(p[1], p[2])
  BY <1>4
<1>6. PICK u, v \in k .. 3 : p = <<u, v>>
  OBVIOUS
<1>7. ASSUME NEW r \in left \ {p}
      PROVE  IF Earlier(r, p) THEN Less(Size(r), Size(p)) ELSE ~Less(Size(p), Size(r))
  <2>1. PICK x, y \in k .. 3 : r = <<x, y>>
    OBVIOUS
  <2>2. u \in Lane /\ v \in Lane /\ x \in Lane /\ y \in Lane
    BY DEF Lane
  <2>3. PICK g, h \in Nat : g = a[u][v] /\ h = a[x][y]
    BY <1>2, <2>2
  <2>4. 16 * h - (4 * x + y) <= 16 * g - (4 * u + v)
    BY <1>5, <1>6, <2>1, <2>3
  <2>5. x # u \/ y # v
    BY <1>6, <2>1
  <2>6. /\ Less(Size(r), Size(p)) <=> h * d < g * d
        /\ Less(Size(p), Size(r)) <=> g * d < h * d
    <3>1. Is(AbsQ(m[u][v]), g, d) /\ Is(AbsQ(m[x][y]), h, d)
      BY <1>2, <2>2, <2>3
    <3>2. Size(r) = AbsQ(m[x][y]) /\ Size(p) = AbsQ(m[u][v])
      BY <1>6, <2>1
    <3> QED
      BY <1>1, <3>1, <3>2, LessIs
  <2>7. Earlier(r, p) <=> x < u \/ (x = u /\ y < v)
    BY <1>6, <2>1
  <2>8. CASE x < u \/ (x = u /\ y < v)
    <3>1. h < g
      BY <2>2, <2>3, <2>4, <2>8 DEF Lane
    <3>2. h * d < g * d
      BY <1>1, <2>3, <3>1, Grows
    <3> QED
      BY <2>6, <2>7, <2>8, <3>2
  <2>9. CASE ~(x < u \/ (x = u /\ y < v))
    <3>1. h <= g
      BY <2>2, <2>3, <2>4, <2>9 DEF Lane
    <3>2. ~(g * d < h * d)
      BY <1>1, <2>3, <3>1, Grows
    <3> QED
      BY <2>6, <2>7, <2>9, <3>2
  <2> QED
    BY <2>8, <2>9
<1>8. \E s \in left : \A r \in left \ {s} :
        IF Earlier(r, s) THEN Less(Size(r), Size(s)) ELSE ~Less(Size(s), Size(r))
  BY <1>7
<1>9. Pivot(m, k) = CHOOSE s \in left : \A r \in left \ {s} :
        IF Earlier(r, s) THEN Less(Size(r), Size(s)) ELSE ~Less(Size(s), Size(r))
  BY DEF Pivot
<1> HIDE DEF left, Earlier, Size
<1>10. Pivot(m, k) \in left
  BY <1>8, <1>9
<1> QED
  BY <1>10 DEF left

\* The matrix in place holds two: what was done so far, in the columns before k,
\* and what it left of the matrix, in the others.
Done(m, k) == [j \in Lane |-> [i \in Lane |-> IF i < k THEN m[j][i] ELSE IF j = i THEN One ELSE Zero]]
LeftOf(m, k) == [j \in Lane |-> [i \in Lane |-> IF i < k THEN IF j = i THEN One ELSE Zero ELSE m[j][i]]]

\* The two halves of a matrix in the course of its inversion.
LEMMA HalvesM4 ==
    ASSUME NEW m \in M4, NEW k
    PROVE  Done(m, k) \in M4 /\ LeftOf(m, k) \in M4
<1>1. One \in Num /\ Zero \in Num /\ \A j, i \in Lane : m[j][i] \in Num
  BY Constants, M4Mat
<1> QED
  BY <1>1 DEF Done, LeftOf, M4, V4

HalfInverted(m, c, k) == m \in M4 /\ c \in M4 /\ Mul(Done(m, k), c) = LeftOf(m, k)

\* Exchanging rows that are left keeps the matrix half inverted.
LEMMA SwapKeepsRows ==
    ASSUME NEW m, NEW c, NEW k \in Lane, HalfInverted(m, c, k), NEW p \in k .. 3
    PROVE  HalfInverted(SwapRows(m, k, p), SwapRows(c, k, p), k)
<1>1. m \in M4 /\ c \in M4 /\ p \in Lane
  BY DEF HalfInverted, Lane
<1>2. PICK n, u, v : n = SwapRows(m, k, p) /\ u = Done(m, k) /\ v = LeftOf(m, k)
  OBVIOUS
<1>3. n \in M4 /\ SwapRows(c, k, p) \in M4 /\ u \in M4 /\ v \in M4
  BY <1>1, <1>2, RowsPermuted, HalvesM4
<1>4. RowsSwapped(n, m, k, p)
  BY <1>1, <1>2, M4Mat, SwapRowsIs
<1>5. PICK w : w = SwapRows(u, k, p)
  OBVIOUS
<1>6. w \in M4 /\ w = Mul(Perm(k, p), u) /\ RowsSwapped(w, u, k, p)
  BY <1>1, <1>3, <1>5, RowsPermuted, M4Mat, SwapRowsIs
<1>7. SwapColumns(w, k, p) = Mul(w, Perm(p, k)) /\ IsMat(SwapColumns(w, k, p))
      /\ ColumnsSwapped(SwapColumns(w, k, p), w, k, p)
  BY <1>1, <1>6, ColumnsPermuted, M4Mat, SwapColumnsIs
<1>8. Done(n, k) = SwapColumns(w, k, p)
  <2>1. ASSUME NEW j \in Lane, NEW i \in Lane
        PROVE  Done(n, k)[j][i] = SwapColumns(w, k, p)[j][i]
    <3>1. n[j][i] = IF k = p THEN m[j][i] ELSE IF j = k THEN m[p][i] ELSE IF j = p THEN Neg(m[k][i]) ELSE m[j][i]
      BY <1>4 DEF RowsSwapped
    <3>2. \A l \in Lane : w[j][l] = IF k = p THEN u[j][l] ELSE IF j = k THEN u[p][l]
                                    ELSE IF j = p THEN Neg(u[k][l]) ELSE u[j][l]
      BY <1>6 DEF RowsSwapped
    <3>3. SwapColumns(w, k, p)[j][i] = IF k = p THEN w[j][i] ELSE IF i = k THEN w[j][p]
                                       ELSE IF i = p THEN Neg(w[j][k]) ELSE w[j][i]
      BY <1>7 DEF ColumnsSwapped
    <3>4. \A l, h \in Lane : u[h][l] = IF l < k THEN m[h][l] ELSE IF h = l THEN One ELSE Zero
      BY <1>2 DEF Done
    <3>5. Done(n, k)[j][i] = IF i < k THEN n[j][i] ELSE IF j = i THEN One ELSE Zero
      BY DEF Done
    <3>6. Neg(Zero) = Zero /\ Neg(Neg(One)) = One
      BY NegZero, Constants, Neutral
    <3>7. p >= k /\ ~(p < k) /\ ~(k < k)
      BY DEF Lane
    <3>8. CASE i < k
      <4>1. i # k /\ i # p
        BY <3>7, <3>8 DEF Lane
      <4>2. SwapColumns(w, k, p)[j][i] = w[j][i]
        BY <3>3, <4>1
      <4> QED
        BY <1>1, <3>1, <3>2, <3>4, <3>5, <3>8, <4>2
    <3>9. CASE ~(i < k)
      BY <1>1, <3>2, <3>3, <3>4, <3>5, <3>6, <3>7, <3>9
    <3> QED
      BY <3>8, <3>9
  <2>2. IsMat(Done(n, k))
    BY <1>3, HalvesM4, M4Mat
  <2> QED
    BY <1>7, <2>1, <2>2, SameMat
<1>9. LeftOf(n, k) = SwapRows(v, k, p)
  <2>1. IsMat(SwapRows(v, k, p)) /\ RowsSwapped(SwapRows(v, k, p), v, k, p)
    BY <1>1, <1>3, M4Mat, SwapRowsIs
  <2>2. ASSUME NEW j \in Lane, NEW i \in Lane
        PROVE  LeftOf(n, k)[j][i] = SwapRows(v, k, p)[j][i]
    <3>1. n[j][i] = IF k = p THEN m[j][i] ELSE IF j = k THEN m[p][i] ELSE IF j = p THEN Neg(m[k][i]) ELSE m[j][i]
      BY <1>4 DEF RowsSwapped
    <3>2. SwapRows(v, k, p)[j][i] = IF k = p THEN v[j][i] ELSE IF j = k THEN v[p][i]
                                    ELSE IF j = p THEN Neg(v[k][i]) ELSE v[j][i]
      BY <2>1 DEF RowsSwapped
    <3>3. \A h \in Lane : v[h][i] = IF i < k THEN IF h = i THEN One ELSE Zero ELSE m[h][i]
      BY <1>2 DEF LeftOf
    <3>4. LeftOf(n, k)[j][i] = IF i < k THEN IF j = i THEN One ELSE Zero ELSE n[j][i]
      BY DEF LeftOf
    <3>5. i < k => i # k /\ i # p
      BY DEF Lane
    <3> QED
      BY <1>1, <3>1, <3>2, <3>3, <3>4, <3>5, NegZero
  <2>3. IsMat(LeftOf(n, k))
    BY <1>3, HalvesM4, M4Mat
  <2> QED
    BY <2>1, <2>2, <2>3, SameMat
<1>10. Mul(Done(n, k), SwapRows(c, k, p)) = LeftOf(n, k)
  <2>1. PICK x, y : x = Perm(k, p) /\ y = Perm(p, k)
    OBVIOUS
  <2>2. x \in M4 /\ y \in M4 /\ Mul(y, x) = IdentityMatrix
    BY <1>1, <2>1, PermM4, PermInverse
  <2>3. Done(n, k) = Mul(Mul(x, u), y) /\ SwapRows(c, k, p) = Mul(x, c) /\ LeftOf(n, k) = Mul(x, v)
    BY <1>1, <1>3, <1>6, <1>7, <1>8, <1>9, <2>1, RowsPermuted
  <2>4. Mul(x, u) \in M4 /\ Mul(x, c) \in M4 /\ Mul(u, c) = v
    BY <1>1, <1>2, <1>3, <2>2, MulClosed DEF HalfInverted
  <2>5. Mul(Mul(Mul(x, u), y), Mul(x, c)) = Mul(Mul(x, u), Mul(y, Mul(x, c)))
    BY <2>2, <2>4, MulAssociates
  <2>6. Mul(y, Mul(x, c)) = c
    BY <1>1, <2>2, MulAssociates, MulIdentity
  <2>7. Mul(Mul(x, u), c) = Mul(x, v)
    BY <1>1, <1>3, <2>2, <2>4, MulAssociates
  <2> QED
    BY <2>3, <2>5, <2>6, <2>7
<1> QED
  BY <1>2, <1>3, <1>10 DEF HalfInverted

\* Exchanging columns that are left, too.
LEMMA SwapKeepsColumns ==
    ASSUME NEW m, NEW c, NEW k \in Lane, HalfInverted(m, c, k), NEW p \in k .. 3
    PROVE  HalfInverted(SwapColumns(m, k, p), SwapColumns(c, k, p), k)
<1>1. m \in M4 /\ c \in M4 /\ p \in Lane
  BY DEF HalfInverted, Lane
<1>2. PICK n, u, v : n = SwapColumns(m, k, p) /\ u = Done(m, k) /\ v = LeftOf(m, k)
  OBVIOUS
<1>3. n \in M4 /\ SwapColumns(c, k, p) \in M4 /\ u \in M4 /\ v \in M4
  BY <1>1, <1>2, ColumnsPermuted, HalvesM4
<1>4. ColumnsSwapped(n, m, k, p)
  BY <1>1, <1>2, M4Mat, SwapColumnsIs
<1>5. Done(n, k) = u
  <2>1. ASSUME NEW j \in Lane, NEW i \in Lane PROVE Done(n, k)[j][i] = u[j][i]
    <3>1. i < k => i # k /\ i # p
      BY DEF Lane
    <3>2. i < k => n[j][i] = m[j][i]
      BY <1>4, <3>1 DEF ColumnsSwapped
    <3> QED
      BY <1>2, <3>2 DEF Done
  <2> QED
    BY <1>3, <2>1, HalvesM4, M4Mat, SameMat
<1>6. LeftOf(n, k) = SwapColumns(v, k, p)
  <2>1. IsMat(SwapColumns(v, k, p)) /\ ColumnsSwapped(SwapColumns(v, k, p), v, k, p)
    BY <1>1, <1>3, M4Mat, SwapColumnsIs
  <2>2. ASSUME NEW j \in Lane, NEW i \in Lane
        PROVE  LeftOf(n, k)[j][i] = SwapColumns(v, k, p)[j][i]
    <3>1. n[j][i] = IF k = p THEN m[j][i] ELSE IF i = k THEN m[j][p] ELSE IF i = p THEN Neg(m[j][k]) ELSE m[j][i]
      BY <1>4 DEF ColumnsSwapped
    <3>2. SwapColumns(v, k, p)[j][i] = IF k = p THEN v[j][i] ELSE IF i = k THEN v[j][p]
                                       ELSE IF i = p THEN Neg(v[j][k]) ELSE v[j][i]
      BY <2>1 DEF ColumnsSwapped
    <3>3. \A h \in Lane : v[j][h] = IF h < k THEN IF j = h THEN One ELSE Zero ELSE m[j][h]
      BY <1>2 DEF LeftOf
    <3>4. LeftOf(n, k)[j][i] = IF i < k THEN IF j = i THEN One ELSE Zero ELSE n[j][i]
      BY DEF LeftOf
    <3>5. (i < k => i # k /\ i # p) /\ ~(k < k) /\ ~(p < k)
      BY DEF Lane
    <3>6. CASE i < k
      BY <3>2, <3>3, <3>4, <3>5, <3>6
    <3>7. CASE ~(i < k)
      BY <1>1, <3>1, <3>2, <3>3, <3>4, <3>5, <3>7
    <3> QED
      BY <3>6, <3>7
  <2>3. IsMat(LeftOf(n, k))
    BY <1>3, HalvesM4, M4Mat
  <2> QED
    BY <2>1, <2>2, <2>3, SameMat
<1>7. Mul(u, SwapColumns(c, k, p)) = SwapColumns(v, k, p)
  <2>1. PICK y : y = Perm(p, k)
    OBVIOUS
  <2>2. y \in M4 /\ SwapColumns(c, k, p) = Mul(c, y) /\ SwapColumns(v, k, p) = Mul(v, y)
    BY <1>1, <1>3, <2>1, PermM4, ColumnsPermuted
  <2>3. Mul(u, c) = v
    BY <1>2 DEF HalfInverted
  <2> QED
    BY <1>1, <1>3, <2>2, <2>3, MulAssociates
<1> QED
  BY <1>2, <1>3, <1>5, <1>6, <1>7 DEF HalfInverted

\* What a sweep does to every column: the row k divided by the pivot, and its
\* multiple added to the other rows.
Elimination(m, k) ==
  [j \in Lane |-> [i \in Lane |->
     IF i = k THEN IF j = k THEN Over(One, m[k][k]) ELSE Neg(Over(m[j][k], m[k][k]))
     ELSE IF j = i THEN One ELSE Zero]]

\* The elimination of a column is a matrix.
LEMMA EliminationM4 ==
    ASSUME NEW m \in M4, NEW k \in Lane, m[k][k] # Zero
    PROVE  Elimination(m, k) \in M4
<1>1. \A j \in Lane : Over(One, m[k][k]) \in Num /\ Neg(Over(m[j][k], m[k][k])) \in Num
  BY M4Mat, Constants, NumClosed
<1> QED
  BY <1>1, Constants DEF Elimination, M4, V4

\* A sum of four with two terms.
LEMMA TwoTerms ==
    ASSUME NEW f, f[0] \in Num, f[1] \in Num, f[2] \in Num, f[3] \in Num,
           NEW j \in Lane, NEW k \in Lane, j # k, \A l \in Lane : l # j /\ l # k => f[l] = Zero
    PROVE  Plus4(f[0], f[1], f[2], f[3]) = Plus(f[j], f[k])
<1>1. \A a, b \in Num :
        /\ Plus4(a, b, Zero, Zero) = Plus(a, b) /\ Plus4(a, Zero, b, Zero) = Plus(a, b)
        /\ Plus4(a, Zero, Zero, b) = Plus(a, b) /\ Plus4(Zero, a, b, Zero) = Plus(a, b)
        /\ Plus4(Zero, a, Zero, b) = Plus(a, b) /\ Plus4(Zero, Zero, a, b) = Plus(a, b)
        /\ Plus(a, b) = Plus(b, a)
  BY Neutral, Constants, NumClosed, PlusCommutes DEF Plus4, Plus3
<1>2. CASE j = 0
  BY <1>1, <1>2, LaneSet
<1>3. CASE j = 1
  BY <1>1, <1>3, LaneSet
<1>4. CASE j = 2
  BY <1>1, <1>4, LaneSet
<1>5. CASE j = 3
  BY <1>1, <1>5, LaneSet
<1> QED
  BY <1>2, <1>3, <1>4, <1>5, LaneSet

\* What a product with it does.
LEMMA EliminationIs ==
    ASSUME NEW m \in M4, NEW k \in Lane, m[k][k] # Zero, NEW x \in M4
    PROVE  \A j, i \in Lane : Mul(Elimination(m, k), x)[j][i] =
             IF j = k THEN Times(Over(One, m[k][k]), x[k][i])
             ELSE Plus(x[j][i], Times(Neg(Over(m[j][k], m[k][k])), x[k][i]))
<1> SUFFICES ASSUME NEW j \in Lane, NEW i \in Lane
             PROVE  Mul(Elimination(m, k), x)[j][i] =
                      IF j = k THEN Times(Over(One, m[k][k]), x[k][i])
                      ELSE Plus(x[j][i], Times(Neg(Over(m[j][k], m[k][k])), x[k][i]))
  OBVIOUS
<1>1. PICK e : e = Elimination(m, k)
  OBVIOUS
<1>2. e \in M4 /\ \A l \in Lane : e[j][l] \in Num /\ x[l][i] \in Num
  BY <1>1, EliminationM4, M4Mat
<1> DEFINE f == [l \in Lane |-> Times(e[j][l], x[l][i])]
<1>3. \A l \in Lane : f[l] \in Num
  BY <1>2, NumClosed
<1>4. Mul(e, x)[j][i] = Plus4(f[0], f[1], f[2], f[3])
  BY LaneSet DEF Mul
<1>5. \A l \in Lane : l # k /\ l # j => f[l] = Zero
  <2> SUFFICES ASSUME NEW l \in Lane, l # k, l # j PROVE f[l] = Zero
    OBVIOUS
  <2>1. e[j][l] = Zero
    BY <1>1 DEF Elimination
  <2> QED
    BY <1>2, <2>1, Neutral
<1>6. f[k] = Times(IF j = k THEN Over(One, m[k][k]) ELSE Neg(Over(m[j][k], m[k][k])), x[k][i])
  BY <1>1 DEF Elimination
<1>7. j # k => f[j] = x[j][i]
  <2>1. j # k => e[j][j] = One
    BY <1>1 DEF Elimination
  <2> QED
    BY <1>2, <2>1, Neutral
<1> HIDE DEF f
<1>8. CASE j = k
  <2>1. Plus4(f[0], f[1], f[2], f[3]) = f[k]
    BY <1>3, <1>5, <1>8, OneTerm, LaneSet
  <2> QED
    BY <1>1, <1>4, <1>6, <1>8, <2>1
<1>9. CASE j # k
  <2>1. Plus4(f[0], f[1], f[2], f[3]) = Plus(f[j], f[k])
    BY <1>3, <1>5, <1>9, TwoTerms, LaneSet
  <2> QED
    BY <1>1, <1>4, <1>6, <1>7, <1>9, <2>1
<1> QED
  BY <1>8, <1>9

\* What the code's divisions by the pivot give.
LEMMA Quotients ==
    ASSUME NEW a \in Num, NEW b \in Num, b # Zero
    PROVE  /\ Times(Over(One, b), a) = Over(a, b) /\ Over(b, b) = One
           /\ Plus(a, Times(Neg(Over(a, b)), b)) = Zero
           /\ Over(a, b) \in Num
<1>1. PICK n, d \in Int : d > 0 /\ Is(a, n, d)
  BY Fraction
<1>2. PICK k, e \in Int : e > 0 /\ Is(b, k, e)
  BY Fraction
<1>3. k # 0
  BY <1>2, ZeroIs, IsEqual
<1>4. Is(Over(a, b), n * e, d * k) /\ Is(Over(b, b), k * e, e * k)
  BY <1>1, <1>2, <1>3, OverIs
<1>5. Is(Over(One, b), 1 * e, 1 * k)
  <2>1. Is(One, 1, 1)
    BY ZeroIs
  <2> QED
    BY <1>2, <1>3, <2>1, OverIs
<1>6. Is(Times(Over(One, b), a), (1 * e) * n, (1 * k) * d)
  BY <1>1, <1>5, TimesIs
<1>7. (1 * e) * n = n * e /\ (1 * k) * d = d * k
  OBVIOUS
<1>8. Times(Over(One, b), a) = Over(a, b)
  BY <1>4, <1>6, <1>7, IsEqual
<1>9. Over(b, b) = One
  <2>1. k * e = e * k /\ e * k \in Int /\ e * k # 0
    BY <1>2, <1>3
  <2>2. Is(One, e * k, e * k)
    BY <2>1, ZeroIs
  <2> QED
    BY <1>4, <2>1, <2>2, IsEqual
<1>10. Plus(a, Times(Neg(Over(a, b)), b)) = Zero
  <2>1. Is(Times(Neg(Over(a, b)), b), (-(n * e)) * k, (d * k) * e)
    BY <1>2, <1>4, NegIs, TimesIs
  <2>2. PICK f \in Int : f = (d * k) * e /\ f # 0
    BY <1>1, <1>2, <1>3
  <2>3. Is(a, n * (k * e), f)
    <3>1. k * e \in Int /\ k * e # 0 /\ f = d * (k * e)
      BY <1>2, <1>3, <2>2
    <3> QED
      BY <1>1, <3>1, IsScaled
  <2>4. Is(Plus(a, Times(Neg(Over(a, b)), b)), n * (k * e) + (-(n * e)) * k, f)
    BY <2>1, <2>2, <2>3, PlusSame
  <2>5. n * (k * e) + (-(n * e)) * k = 0
    OBVIOUS
  <2> QED
    BY <2>2, <2>4, <2>5, ZeroIs, IsEqual
<1> QED
  BY <1>4, <1>8, <1>9, <1>10, IsInts

\* The matrix after one column is swept, entry by entry.
LEMMA SweepIs ==
    ASSUME NEW m, NEW k
    PROVE  /\ IsMat(Sweep(m, k))
           /\ \A j, i \in Lane : Sweep(m, k)[j][i] =
                IF j = k THEN Over(IF i = k THEN One ELSE m[k][i], m[k][k])
                ELSE IF i = k THEN Neg(Over(m[j][k], m[k][k]))
                ELSE Plus(m[j][i], Times(Neg(Over(m[j][k], m[k][k])), m[k][i]))
<1> DEFINE e(j, i) == IF j = k THEN Over(IF i = k THEN One ELSE m[k][i], m[k][k])
                      ELSE IF i = k THEN Neg(Over(m[j][k], m[k][k]))
                      ELSE Plus(m[j][i], Times(Neg(Over(m[j][k], m[k][k])), m[k][i]))
           r(j) == Ps(e(j, 0), e(j, 1), e(j, 2), e(j, 3))
<1>1. Sweep(m, k) = Rows(r(0), r(1), r(2), r(3))
  BY DEF Sweep, Lanes, Rows
<1> HIDE DEF e
<1>2. \A j : IsReg(r(j)) /\ r(j)[0] = e(j, 0) /\ r(j)[1] = e(j, 1) /\ r(j)[2] = e(j, 2) /\ r(j)[3] = e(j, 3)
  BY PsReg, PsAt
<1> HIDE DEF r
<1>3. /\ IsMat(Sweep(m, k)) /\ Sweep(m, k)[0] = r(0) /\ Sweep(m, k)[1] = r(1)
      /\ Sweep(m, k)[2] = r(2) /\ Sweep(m, k)[3] = r(3)
  BY <1>1, <1>2, RowsMat
<1>4. \A j, i \in Lane : Sweep(m, k)[j][i] = e(j, i)
  BY <1>2, <1>3, LaneSet
<1> QED
  BY <1>3, <1>4 DEF e

\* Sweeping column k with a pivot that is not zero inverts one column more.
LEMMA SweepAdvances ==
    ASSUME NEW m, NEW c, NEW k \in Lane, HalfInverted(m, c, k), m[k][k] # Zero
    PROVE  HalfInverted(Sweep(m, k), c, k + 1)
<1>1. m \in M4 /\ c \in M4 /\ \A j, i \in Lane : m[j][i] \in Num
  BY M4Mat DEF HalfInverted
<1>2. PICK n, u, v, e : n = Sweep(m, k) /\ u = Done(m, k) /\ v = LeftOf(m, k) /\ e = Elimination(m, k)
  OBVIOUS
<1>3. e \in M4 /\ u \in M4 /\ v \in M4
  BY <1>1, <1>2, EliminationM4, HalvesM4
<1>4. IsMat(n) /\ \A j, i \in Lane : n[j][i] =
        IF j = k THEN Over(IF i = k THEN One ELSE m[k][i], m[k][k])
        ELSE IF i = k THEN Neg(Over(m[j][k], m[k][k]))
        ELSE Plus(m[j][i], Times(Neg(Over(m[j][k], m[k][k])), m[k][i]))
  BY <1>2, SweepIs
<1>5. n \in M4
  <2>1. ASSUME NEW j \in Lane, NEW i \in Lane PROVE n[j][i] \in Num
    <3>1. Over(IF i = k THEN One ELSE m[k][i], m[k][k]) \in Num /\ Neg(Over(m[j][k], m[k][k])) \in Num
      BY <1>1, Constants, NumClosed
    <3> QED
      BY <1>1, <1>4, <3>1, NumClosed
  <2> QED
    BY <1>4, <2>1, MatM4
<1>6. ASSUME NEW x \in M4, NEW j \in Lane, NEW i \in Lane
      PROVE  Mul(e, x)[j][i] = IF j = k THEN Over(x[k][i], m[k][k])
                               ELSE Plus(x[j][i], Times(Neg(Over(m[j][k], m[k][k])), x[k][i]))
  <2>1. x[k][i] \in Num
    BY M4Mat
  <2>2. Times(Over(One, m[k][k]), x[k][i]) = Over(x[k][i], m[k][k])
    BY <1>1, <2>1, Quotients
  <2> QED
    BY <1>1, <1>2, <2>2, EliminationIs
<1>7. Done(n, k + 1) = Mul(e, u)
  <2>1. ASSUME NEW j \in Lane, NEW i \in Lane PROVE Done(n, k + 1)[j][i] = Mul(e, u)[j][i]
    <3>1. Done(n, k + 1)[j][i] = IF i < k + 1 THEN n[j][i] ELSE IF j = i THEN One ELSE Zero
      BY DEF Done
    <3>2. \A h \in Lane : u[h][i] = IF i < k THEN m[h][i] ELSE IF h = i THEN One ELSE Zero
      BY <1>2 DEF Done
    <3>3. PICK h : h = Neg(Over(m[j][k], m[k][k]))
      OBVIOUS
    <3>4. h \in Num /\ Over(Zero, m[k][k]) = Zero /\ Times(h, Zero) = Zero /\ Times(h, One) = h
          /\ Plus(Zero, h) = h /\ Plus(One, Zero) = One /\ Plus(Zero, Zero) = Zero
      <4>1. h \in Num /\ Zero \in Num /\ One \in Num
        BY <1>1, <3>3, NumClosed, Constants
      <4>2. Over(Zero, m[k][k]) = Times(Over(One, m[k][k]), Zero) /\ Over(One, m[k][k]) \in Num
        BY <1>1, <4>1, Quotients
      <4> QED
        BY <4>1, <4>2, Neutral
    <3>5. Mul(e, u)[j][i] = IF j = k THEN Over(u[k][i], m[k][k]) ELSE Plus(u[j][i], Times(h, u[k][i]))
      BY <1>3, <1>6, <3>3
    <3>6. n[j][i] = IF j = k THEN Over(IF i = k THEN One ELSE m[k][i], m[k][k])
                    ELSE IF i = k THEN h ELSE Plus(m[j][i], Times(h, m[k][i]))
      BY <1>4, <3>3
    <3>7. CASE i < k
      <4>1. i < k + 1 /\ i # k
        BY <3>7 DEF Lane
      <4> QED
        BY <3>1, <3>2, <3>5, <3>6, <3>7, <4>1
    <3>8. CASE i = k
      <4>1. i < k + 1 /\ ~(i < k)
        BY <3>8 DEF Lane
      <4> QED
        BY <3>1, <3>2, <3>4, <3>5, <3>6, <3>8, <4>1
    <3>9. CASE i > k
      <4>1. ~(i < k + 1) /\ ~(i < k) /\ i # k
        BY <3>9 DEF Lane
      <4> QED
        BY <3>1, <3>2, <3>4, <3>5, <4>1
    <3>10. i < k \/ i = k \/ i > k
      BY DEF Lane
    <3> QED
      BY <3>7, <3>8, <3>9, <3>10
  <2>2. IsMat(Done(n, k + 1)) /\ IsMat(Mul(e, u))
    BY <1>5, HalvesM4, M4Mat, MulMat
  <2> QED
    BY <2>1, <2>2, SameMat
<1>8. LeftOf(n, k + 1) = Mul(e, v)
  <2>1. ASSUME NEW j \in Lane, NEW i \in Lane PROVE LeftOf(n, k + 1)[j][i] = Mul(e, v)[j][i]
    <3>1. LeftOf(n, k + 1)[j][i] = IF i < k + 1 THEN IF j = i THEN One ELSE Zero ELSE n[j][i]
      BY DEF LeftOf
    <3>2. \A h \in Lane : v[h][i] = IF i < k THEN IF h = i THEN One ELSE Zero ELSE m[h][i]
      BY <1>2 DEF LeftOf
    <3>3. PICK h : h = Neg(Over(m[j][k], m[k][k]))
      OBVIOUS
    <3>4. h \in Num /\ Over(Zero, m[k][k]) = Zero /\ Times(h, Zero) = Zero /\ Plus(One, Zero) = One
          /\ Plus(Zero, Zero) = Zero
      <4>1. h \in Num /\ Zero \in Num /\ One \in Num
        BY <1>1, <3>3, NumClosed, Constants
      <4>2. Over(Zero, m[k][k]) = Times(Over(One, m[k][k]), Zero) /\ Over(One, m[k][k]) \in Num
        BY <1>1, <4>1, Quotients
      <4> QED
        BY <4>1, <4>2, Neutral
    <3>5. Mul(e, v)[j][i] = IF j = k THEN Over(v[k][i], m[k][k]) ELSE Plus(v[j][i], Times(h, v[k][i]))
      BY <1>3, <1>6, <3>3
    <3>6. n[j][i] = IF j = k THEN Over(IF i = k THEN One ELSE m[k][i], m[k][k])
                    ELSE IF i = k THEN h ELSE Plus(m[j][i], Times(h, m[k][i]))
      BY <1>4, <3>3
    <3>7. CASE i < k
      <4>1. i < k + 1 /\ i # k
        BY <3>7 DEF Lane
      <4> QED
        BY <3>1, <3>2, <3>4, <3>5, <3>7, <4>1
    <3>8. CASE i = k
      <4>1. i < k + 1 /\ ~(i < k)
        BY <3>8 DEF Lane
      <4>2. Over(m[k][k], m[k][k]) = One /\ Plus(m[j][k], Times(h, m[k][k])) = Zero
        BY <1>1, <3>3, Quotients
      <4> QED
        BY <3>1, <3>2, <3>5, <3>8, <4>1, <4>2
    <3>9. CASE i > k
      <4>1. ~(i < k + 1) /\ ~(i < k) /\ i # k
        BY <3>9 DEF Lane
      <4> QED
        BY <3>1, <3>2, <3>5, <3>6, <4>1
    <3>10. i < k \/ i = k \/ i > k
      BY DEF Lane
    <3> QED
      BY <3>7, <3>8, <3>9, <3>10
  <2>2. IsMat(LeftOf(n, k + 1)) /\ IsMat(Mul(e, v))
    BY <1>5, HalvesM4, M4Mat, MulMat
  <2> QED
    BY <2>1, <2>2, SameMat
<1>9. Mul(Mul(e, u), c) = Mul(e, v)
  <2>1. Mul(u, c) = v
    BY <1>2 DEF HalfInverted
  <2> QED
    BY <1>1, <1>3, <2>1, MulAssociates
<1> QED
  BY <1>1, <1>2, <1>5, <1>7, <1>8, <1>9 DEF HalfInverted

(***************************************************************************)
(* One round of the pivoting, and its interchanges undone.                 *)
(***************************************************************************)

\* The stages of the pivoting.
IsStage(st) == DOMAIN st = {"m", "pvt", "det", "singular"} /\ DOMAIN st.pvt = Lane

\* The stage st has swept k columns of c, a matrix with rows and columns moved.
Sweeping(st, c, k) ==
  IsStage(st) /\ ~st.singular /\ st.det \in Num /\ HalfInverted(st.m, c, k)

Moved(c, p, k) == SwapColumns(SwapRows(c, k, p[1]), k, p[2])

\* Once the pivoting has given up, it stays that way.
LEMMA StaysSingular ==
    ASSUME NEW st, NEW k, IsStage(st)
    PROVE  IsStage(PivotStep(st, k)) /\ (st.singular => PivotStep(st, k).singular)
  BY DEF PivotStep, IsStage

\* One round of Easy_matrix_inv: the pivot found and moved, the column swept.
LEMMA StepAdvances ==
    ASSUME NEW st, NEW c, NEW k \in Lane, Sweeping(st, c, k), ~PivotStep(st, k).singular,
           NEW n, n = PivotStep(st, k)
    PROVE  /\ n.pvt[k] \in (k .. 3) \X (k .. 3)
           /\ \A i \in Lane : i # k => n.pvt[i] = st.pvt[i]
           /\ Sweeping(n, Moved(c, n.pvt[k], k), k + 1)
<1>1. PICK p : p = Pivot(st.m, k)
  OBVIOUS
<1>2. PICK det : det = Times(st.det, st.m[p[1]][p[2]])
  OBVIOUS
<1>3. st.m \in M4 /\ c \in M4
  BY DEF Sweeping, HalfInverted
<1>4. p \in (k .. 3) \X (k .. 3)
  BY <1>1, <1>3, PivotIs
<1>5. PICK u, v \in k .. 3 : p = <<u, v>> /\ u = p[1] /\ v = p[2]
  BY <1>4
<1>6. u \in Lane /\ v \in Lane
  BY DEF Lane
<1>7. ~(st.singular \/ Less(AbsQ(det), Tiny))
  <2>1. IsStage([st EXCEPT !.singular = TRUE]) /\ [st EXCEPT !.singular = TRUE].singular
    BY DEF Sweeping, IsStage
  <2> QED
    BY <1>1, <1>2, <2>1 DEF PivotStep, Tiny
<1>8. PICK a : a = SwapRows(st.m, k, u)
  OBVIOUS
<1>9. PICK b : b = SwapColumns(a, k, v)
  OBVIOUS
<1>10. n = [m |-> Sweep(b, k), pvt |-> [st.pvt EXCEPT ![k] = p], det |-> det, singular |-> FALSE]
  BY <1>1, <1>2, <1>5, <1>7, <1>8, <1>9 DEF PivotStep, Tiny
<1>11. n.pvt[k] = p /\ IsStage(n) /\ \A i \in Lane : i # k => n.pvt[i] = st.pvt[i]
  BY <1>10 DEF Sweeping, IsStage
<1>12. PICK x : x = st.m[u][v]
  OBVIOUS
<1>13. x \in Num /\ det = Times(st.det, x) /\ st.det \in Num
  BY <1>2, <1>3, <1>5, <1>6, <1>12, M4Mat DEF Sweeping
<1>14. x # Zero
  <2> SUFFICES ASSUME x = Zero PROVE FALSE
    OBVIOUS
  <2>1. det = Zero
    BY <1>13, Neutral
  <2>2. Is(Zero, 0, 1)
    BY ZeroIs
  <2>3. Is(AbsQ(Zero), Magnitude(0), 1)
    BY <2>2, AbsIs
  <2>4. Magnitude(0) = 0
    BY DEF Magnitude
  <2>5. Less(AbsQ(Zero), Tiny)
    <3>1. PICK none, one, many \in Int : none = 0 /\ one = 1 /\ many = 100000
      OBVIOUS
    <3>2. Is(Tiny, one, many) /\ many > 0 /\ one > 0
      BY <3>1, TinyIs
    <3>3. Is(AbsQ(Zero), none, one)
      BY <2>3, <2>4, <3>1
    <3>4. Less(AbsQ(Zero), Tiny) <=> none * many < one * one
      BY <3>2, <3>3, LessIs
    <3>5. none * many = 0 /\ one * one > 0
      BY <3>1
    <3> QED
      BY <3>4, <3>5
  <2> QED
    BY <1>7, <2>1, <2>5
<1>15. HalfInverted(a, SwapRows(c, k, u), k)
  BY <1>8, SwapKeepsRows DEF Sweeping
<1>16. HalfInverted(b, SwapColumns(SwapRows(c, k, u), k, v), k)
  BY <1>9, <1>15, SwapKeepsColumns
<1>17. a \in M4 /\ b \in M4
  BY <1>15, <1>16 DEF HalfInverted
<1>18. b[k][k] \in {x, Neg(x), Neg(Neg(x))}
  <2>1. RowsSwapped(a, st.m, k, u) /\ ColumnsSwapped(b, a, k, v)
    BY <1>3, <1>6, <1>8, <1>9, <1>17, M4Mat, SwapRowsIs, SwapColumnsIs
  <2>2. b[k][k] = a[k][v]
    BY <1>6, <2>1 DEF ColumnsSwapped
  <2>3. a[k][v] = x
    BY <1>6, <1>12, <2>1 DEF RowsSwapped
  <2> QED
    BY <2>2, <2>3
<1>19. b[k][k] # Zero
  BY <1>13, <1>14, <1>18, NegZero, Neutral
<1>20. HalfInverted(Sweep(b, k), SwapColumns(SwapRows(c, k, u), k, v), k + 1)
  BY <1>16, <1>19, SweepAdvances
<1>21. det \in Num
  BY <1>13, NumClosed
<1> QED
  BY <1>4, <1>5, <1>10, <1>11, <1>20, <1>21 DEF Sweeping, Moved

\* Undoing the moves of a row and a column of the inverse.
LEMMA UndoIs ==
    ASSUME NEW a \in M4, NEW c \in M4, NEW k \in Lane, NEW p, p[1] \in Lane, p[2] \in Lane,
           Mul(a, Moved(c, p, k)) = IdentityMatrix
    PROVE  Undo(a, p, k) \in M4 /\ Mul(Undo(a, p, k), c) = IdentityMatrix
<1>1. PICK q, w, x, y : q = Perm(k, p[1]) /\ w = Perm(p[2], k) /\ x = Perm(k, p[2]) /\ y = Perm(p[1], k)
  OBVIOUS
<1>2. q \in M4 /\ w \in M4 /\ x \in M4 /\ y \in M4 /\ Mul(w, x) = IdentityMatrix
  BY <1>1, PermM4, PermInverse
<1>3. Moved(c, p, k) = Mul(Mul(q, c), w)
  <2>1. PICK r : r = SwapRows(c, k, p[1])
    OBVIOUS
  <2>2. r = Mul(q, c) /\ r \in M4
    BY <1>1, <2>1, RowsPermuted
  <2>3. SwapColumns(r, k, p[2]) = Mul(r, w)
    BY <1>1, <2>2, ColumnsPermuted
  <2> QED
    BY <2>1, <2>2, <2>3 DEF Moved
<1>4. Undo(a, p, k) = Mul(Mul(w, a), q) /\ Undo(a, p, k) \in M4
  <2>1. PICK r : r = SwapRows(a, p[2], k)
    OBVIOUS
  <2>2. r = Mul(w, a) /\ r \in M4
    BY <1>1, <2>1, RowsPermuted
  <2>3. SwapColumns(r, p[1], k) = Mul(r, q) /\ SwapColumns(r, p[1], k) \in M4
    BY <1>1, <2>2, ColumnsPermuted
  <2> QED
    BY <2>1, <2>2, <2>3 DEF Undo
<1>5. Mul(q, c) \in M4 /\ Mul(w, a) \in M4 /\ Mul(a, q) \in M4
  BY <1>2, MulClosed
<1>6. Mul(a, Mul(Mul(q, c), w)) = IdentityMatrix
  BY <1>3
<1>7. Mul(Mul(a, Mul(q, c)), w) = IdentityMatrix
  BY <1>2, <1>5, <1>6, MulAssociates
<1>8. PICK z : z = Mul(a, Mul(q, c))
  OBVIOUS
<1>9. z \in M4 /\ Mul(z, w) = IdentityMatrix
  BY <1>5, <1>7, <1>8, MulClosed
<1>10. z = x
  BY <1>2, <1>9, OneInverse
<1>11. Mul(Mul(Mul(w, a), q), c) = Mul(Mul(w, a), Mul(q, c))
  BY <1>2, <1>5, MulAssociates
<1>12. Mul(Mul(w, a), Mul(q, c)) = Mul(w, z)
  BY <1>2, <1>5, <1>8, MulAssociates
<1> QED
  BY <1>2, <1>4, <1>10, <1>11, <1>12

\* A pivot in its place moves nothing.
LEMMA NothingMoved ==
    ASSUME NEW c \in M4, NEW k \in Lane, NEW p, p[1] = k, p[2] = k
    PROVE  Moved(c, p, k) = c
<1>1. SwapRows(c, k, k) = c
  BY DEF SwapRows
<1>2. IsMat(c) /\ IsMat(SwapColumns(c, k, k)) /\ ColumnsSwapped(SwapColumns(c, k, k), c, k, k)
  BY M4Mat, SwapColumnsIs
<1>3. \A j, i \in Lane : SwapColumns(c, k, k)[j][i] = c[j][i]
  BY <1>2 DEF ColumnsSwapped
<1>4. SwapColumns(c, k, k) = c
  BY <1>2, <1>3, SameMat
<1> QED
  BY <1>1, <1>4 DEF Moved

\* At the beginning nothing is inverted.
LEMMA StartsSweeping ==
    ASSUME NEW m \in M4, NEW st,
           st = [m |-> m, pvt |-> [k \in Lane |-> <<k, k>>], det |-> One, singular |-> FALSE]
    PROVE  Sweeping(st, m, 0)
<1>1. \A i \in Lane : ~(i < 0)
  BY DEF Lane
<1>2. Done(m, 0) = IdentityMatrix
  <2>1. \A j, i \in Lane : Done(m, 0)[j][i] = IdentityMatrix[j][i]
    BY <1>1, IdentityIs DEF Done
  <2> QED
    BY <2>1, HalvesM4, IdentityIs, M4Mat, SameMat
<1>3. LeftOf(m, 0) = m
  <2>1. \A j, i \in Lane : LeftOf(m, 0)[j][i] = m[j][i]
    BY <1>1 DEF LeftOf
  <2> QED
    BY <2>1, HalvesM4, M4Mat, SameMat
<1>4. HalfInverted(m, m, 0)
  BY <1>2, <1>3, MulIdentity DEF HalfInverted
<1>5. st.m = m /\ st.det = One /\ st.singular = FALSE /\ IsStage(st)
  BY DEF IsStage
<1> QED
  BY <1>4, <1>5, Constants DEF Sweeping

\* The matrix that is left when all columns are swept is the inverse of the moved one.
LEMMA AllSwept ==
    ASSUME NEW a, NEW c, HalfInverted(a, c, 4)
    PROVE  a \in M4 /\ c \in M4 /\ Mul(a, c) = IdentityMatrix
<1>1. a \in M4 /\ c \in M4 /\ Mul(Done(a, 4), c) = LeftOf(a, 4)
  BY DEF HalfInverted
<1>2. \A i \in Lane : i < 4
  BY DEF Lane
<1>3. Done(a, 4) = a
  <2>1. \A j, i \in Lane : Done(a, 4)[j][i] = a[j][i]
    BY <1>2 DEF Done
  <2> QED
    BY <1>1, <2>1, HalvesM4, M4Mat, SameMat
<1>4. LeftOf(a, 4) = IdentityMatrix
  <2>1. \A j, i \in Lane : LeftOf(a, 4)[j][i] = IdentityMatrix[j][i]
    BY <1>2, IdentityIs DEF LeftOf
  <2> QED
    BY <1>1, <2>1, HalvesM4, IdentityIs, M4Mat, SameMat
<1> QED
  BY <1>1, <1>3, <1>4

\* Easy_matrix_inv for double (EasyMatrix.h:1435) gives the inverse unless it
\* gave up.
LEMMA PivotingInverts ==
    ASSUME NEW m \in M4, ~Pivoted(m).singular
    PROVE  Easy_matrix_inv(m) \in M4 /\ Mul(Easy_matrix_inv(m), m) = IdentityMatrix
<1>1. PICK s0 : s0 = [m |-> m, pvt |-> [k \in Lane |-> <<k, k>>], det |-> One, singular |-> FALSE]
  OBVIOUS
<1>2. PICK s1 : s1 = PivotStep(s0, 0)
  OBVIOUS
<1>3. PICK s2 : s2 = PivotStep(s1, 1)
  OBVIOUS
<1>4. PICK s3 : s3 = PivotStep(s2, 2)
  OBVIOUS
<1>5. PICK s4 : s4 = PivotStep(s3, 3)
  OBVIOUS
<1>6. s4 = Pivoted(m)
  BY <1>1, <1>2, <1>3, <1>4, <1>5 DEF Pivoted, Each
<1>7. Sweeping(s0, m, 0) /\ IsStage(s0)
  BY <1>1, StartsSweeping DEF Sweeping
<1>8. IsStage(s1) /\ IsStage(s2) /\ IsStage(s3) /\ ~s4.singular /\ ~s3.singular /\ ~s2.singular /\ ~s1.singular
  BY <1>2, <1>3, <1>4, <1>5, <1>6, <1>7, StaysSingular
<1>9. PICK p0, p1, p2, p3 : p0 = s1.pvt[0] /\ p1 = s2.pvt[1] /\ p2 = s3.pvt[2] /\ p3 = s4.pvt[3]
  OBVIOUS
<1>10. PICK c1 : c1 = Moved(m, p0, 0)
  OBVIOUS
<1>11. PICK c2 : c2 = Moved(c1, p1, 1)
  OBVIOUS
<1>12. PICK c3 : c3 = Moved(c2, p2, 2)
  OBVIOUS
<1>13. /\ p0 \in (0 .. 3) \X (0 .. 3) /\ Sweeping(s1, c1, 1)
  <2>1. Sweeping(s1, Moved(m, p0, 0), 0 + 1)
    BY <1>2, <1>7, <1>8, <1>9, StepAdvances, LaneSet
  <2>2. 0 + 1 = 1
    OBVIOUS
  <2>3. p0 \in (0 .. 3) \X (0 .. 3)
    BY <1>2, <1>7, <1>8, <1>9, StepAdvances, LaneSet
  <2> QED
    BY <1>10, <2>1, <2>2, <2>3
<1>14. /\ p1 \in (1 .. 3) \X (1 .. 3) /\ Sweeping(s2, c2, 2) /\ s2.pvt[0] = p0
  <2>1. Sweeping(s2, Moved(c1, p1, 1), 1 + 1)
    BY <1>3, <1>8, <1>9, <1>13, StepAdvances, LaneSet
  <2>2. 1 + 1 = 2
    OBVIOUS
  <2>3. p1 \in (1 .. 3) \X (1 .. 3) /\ s2.pvt[0] = s1.pvt[0]
    BY <1>3, <1>8, <1>9, <1>13, StepAdvances, LaneSet
  <2> QED
    BY <1>9, <1>11, <2>1, <2>2, <2>3
<1>15. /\ p2 \in (2 .. 3) \X (2 .. 3) /\ Sweeping(s3, c3, 3) /\ s3.pvt[0] = p0 /\ s3.pvt[1] = p1
  <2>1. Sweeping(s3, Moved(c2, p2, 2), 2 + 1)
    BY <1>4, <1>8, <1>9, <1>14, StepAdvances, LaneSet
  <2>2. 2 + 1 = 3
    OBVIOUS
  <2>3. p2 \in (2 .. 3) \X (2 .. 3) /\ s3.pvt[0] = s2.pvt[0] /\ s3.pvt[1] = s2.pvt[1]
    BY <1>4, <1>8, <1>9, <1>14, StepAdvances, LaneSet
  <2> QED
    BY <1>9, <1>12, <1>14, <2>1, <2>2, <2>3
<1>16. /\ p3 \in (3 .. 3) \X (3 .. 3) /\ Sweeping(s4, Moved(c3, p3, 3), 4)
       /\ s4.pvt[0] = p0 /\ s4.pvt[1] = p1 /\ s4.pvt[2] = p2
  <2>1. Sweeping(s4, Moved(c3, p3, 3), 3 + 1)
    BY <1>5, <1>8, <1>9, <1>15, StepAdvances, LaneSet
  <2>2. 3 + 1 = 4
    OBVIOUS
  <2>3. p3 \in (3 .. 3) \X (3 .. 3) /\ s4.pvt[0] = s3.pvt[0] /\ s4.pvt[1] = s3.pvt[1] /\ s4.pvt[2] = s3.pvt[2]
    BY <1>5, <1>8, <1>9, <1>15, StepAdvances, LaneSet
  <2> QED
    BY <1>9, <1>15, <2>1, <2>2, <2>3
<1>17. c1 \in M4 /\ c2 \in M4 /\ c3 \in M4
  BY <1>13, <1>14, <1>15 DEF Sweeping, HalfInverted
<1>18. Moved(c3, p3, 3) = c3
  <2>1. p3[1] = 3 /\ p3[2] = 3
    BY <1>16
  <2> QED
    BY <1>17, <2>1, NothingMoved, LaneSet
<1>19. s4.m \in M4 /\ Mul(s4.m, c3) = IdentityMatrix
  BY <1>16, <1>18, AllSwept DEF Sweeping
<1>20. PICK a2 : a2 = Undo(s4.m, p2, 2)
  OBVIOUS
<1>21. a2 \in M4 /\ Mul(a2, c2) = IdentityMatrix
  <2>1. p2[1] \in Lane /\ p2[2] \in Lane
    BY <1>15 DEF Lane
  <2> QED
    BY <1>12, <1>17, <1>19, <1>20, <2>1, UndoIs, LaneSet
<1>22. PICK a1 : a1 = Undo(a2, p1, 1)
  OBVIOUS
<1>23. a1 \in M4 /\ Mul(a1, c1) = IdentityMatrix
  <2>1. p1[1] \in Lane /\ p1[2] \in Lane
    BY <1>14 DEF Lane
  <2> QED
    BY <1>11, <1>17, <1>21, <1>22, <2>1, UndoIs, LaneSet
<1>24. PICK a0 : a0 = Undo(a1, p0, 0)
  OBVIOUS
<1>25. a0 \in M4 /\ Mul(a0, m) = IdentityMatrix
  <2>1. p0[1] \in Lane /\ p0[2] \in Lane
    BY <1>13 DEF Lane
  <2> QED
    BY <1>10, <1>23, <1>24, <2>1, UndoIs, LaneSet
<1>26. Easy_matrix_inv(m) = a0
  BY <1>6, <1>8, <1>16, <1>20, <1>22, <1>24 DEF Easy_matrix_inv
<1> QED
  BY <1>25, <1>26

\* Both inverses, by cofactors for __m128 (EasyMatrix.h:1074) and by pivoting
\* for double (EasyMatrix.h:1435), are the inverse of every matrix for which
\* the pivoting does not give up.
THEOREM InversesAgree ==
    ASSUME NEW m \in M4, ~Pivoted(m).singular
    PROVE  /\ Easy_matrix_inv_sse(m) = Easy_matrix_inv(m) /\ Easy_matrix_inv(m) \in M4
           /\ Mul(m, Easy_matrix_inv(m)) = IdentityMatrix
           /\ Mul(Easy_matrix_inv(m), m) = IdentityMatrix
<1>1. PICK x : x = Easy_matrix_inv(m)
  OBVIOUS
<1>2. x \in M4 /\ Mul(x, m) = IdentityMatrix
  BY <1>1, PivotingInverts
<1>3. Easy_matrix_inv_sse(x) = m /\ Mul(Easy_matrix_inv_sse(x), x) = IdentityMatrix
  BY <1>2, InverseIs
<1>4. Mul(m, x) = IdentityMatrix
  BY <1>3
<1>5. Easy_matrix_inv_sse(m) = x
  BY <1>2, <1>4, InverseIs
<1> QED
  BY <1>1, <1>2, <1>4, <1>5

(***************************************************************************)
(* Quaternions of length one, and their products.                          *)
(***************************************************************************)

\* The components of the product of two quaternions, in integers.
HamX(a, b, c, d, x, y, z, w) == a * w - c * y + (b * z + d * x)
HamY(a, b, c, d, x, y, z, w) == b * w - a * z + (c * x + d * y)
HamZ(a, b, c, d, x, y, z, w) == c * w - b * x + (a * y + d * z)
HamW(a, b, c, d, x, y, z, w) == d * w - a * x + (-(c * z) + -(b * y))

\* The four components of Easy_quat_Mult.
LEMMA QuatMultAt ==
    ASSUME NEW q, NEW r, NEW p, p = Easy_quat_Mult(q, r)
    PROVE  /\ IsReg(p)
           /\ p[0] = Plus(Minus(Times(q[0], r[3]), Times(q[2], r[1])),
                          Plus(Times(q[1], r[2]), Times(q[3], r[0])))
           /\ p[1] = Plus(Minus(Times(q[1], r[3]), Times(q[0], r[2])),
                          Plus(Times(q[2], r[0]), Times(q[3], r[1])))
           /\ p[2] = Plus(Minus(Times(q[2], r[3]), Times(q[1], r[0])),
                          Plus(Times(q[0], r[1]), Times(q[3], r[2])))
           /\ p[3] = Plus(Minus(Times(q[3], r[3]), Times(q[0], r[0])),
                          Plus(Neg(Times(q[2], r[2])), Neg(Times(q[1], r[1]))))
<1>11. PICK v1 : v1 = pshufd(r, <<3, 3, 3, 3>>)
  OBVIOUS
<1>21. v1[0] = r[3] /\ v1[1] = r[3] /\ v1[2] = r[3] /\ v1[3] = r[3]
  BY <1>11, ShufTuple
<1>12. PICK u2 : u2 = pshufd(q, <<2, 0, 1, 0>>)
  OBVIOUS
<1>22. u2[0] = q[2] /\ u2[1] = q[0] /\ u2[2] = q[1] /\ u2[3] = q[0]
  BY <1>12, ShufTuple
<1>13. PICK v2 : v2 = pshufd(r, <<1, 2, 0, 0>>)
  OBVIOUS
<1>23. v2[0] = r[1] /\ v2[1] = r[2] /\ v2[2] = r[0] /\ v2[3] = r[0]
  BY <1>13, ShufTuple
<1>14. PICK u3 : u3 = pshufd(q, <<3, 3, 3, 1>>)
  OBVIOUS
<1>24. u3[0] = q[3] /\ u3[1] = q[3] /\ u3[2] = q[3] /\ u3[3] = q[1]
  BY <1>14, ShufTuple
<1>15. PICK v3 : v3 = pshufd(r, <<0, 1, 2, 1>>)
  OBVIOUS
<1>25. v3[0] = r[0] /\ v3[1] = r[1] /\ v3[2] = r[2] /\ v3[3] = r[1]
  BY <1>15, ShufTuple
<1>16. PICK u4 : u4 = pshufd(q, <<1, 2, 0, 2>>)
  OBVIOUS
<1>26. u4[0] = q[1] /\ u4[1] = q[2] /\ u4[2] = q[0] /\ u4[3] = q[2]
  BY <1>16, ShufTuple
<1>17. PICK v4 : v4 = pshufd(r, <<2, 0, 1, 2>>)
  OBVIOUS
<1>27. v4[0] = r[2] /\ v4[1] = r[0] /\ v4[2] = r[1] /\ v4[3] = r[2]
  BY <1>17, ShufTuple
<1>2. PICK m1, m2, m3, m4 : m1 = mulps(q, v1) /\ m2 = mulps(u2, v2) /\ m3 = mulps(u3, v3) /\ m4 = mulps(u4, v4)
  OBVIOUS
<1>3. p = addps(subps(m1, m2), addps(xorps(m4, {3}), xorps(m3, {3})))
  BY <1>2, <1>11, <1>12, <1>13, <1>14, <1>15, <1>16, <1>17 DEF Easy_quat_Mult
<1>5. \A i \in Lane : /\ m1[i] = Times(q[i], v1[i]) /\ m2[i] = Times(u2[i], v2[i])
                      /\ m3[i] = Times(u3[i], v3[i]) /\ m4[i] = Times(u4[i], v4[i])
  BY <1>2, Lanewise
<1>6. /\ m1[0] = Times(q[0], r[3]) /\ m1[1] = Times(q[1], r[3]) /\ m1[2] = Times(q[2], r[3]) /\ m1[3] = Times(q[3], r[3])
      /\ m2[0] = Times(q[2], r[1]) /\ m2[1] = Times(q[0], r[2]) /\ m2[2] = Times(q[1], r[0]) /\ m2[3] = Times(q[0], r[0])
      /\ m3[0] = Times(q[3], r[0]) /\ m3[1] = Times(q[3], r[1]) /\ m3[2] = Times(q[3], r[2]) /\ m3[3] = Times(q[1], r[1])
      /\ m4[0] = Times(q[1], r[2]) /\ m4[1] = Times(q[2], r[0]) /\ m4[2] = Times(q[0], r[1]) /\ m4[3] = Times(q[2], r[2])
  BY <1>5, <1>21, <1>22, <1>23, <1>24, <1>25, <1>26, <1>27, LaneSet
<1>7. \A i \in Lane : p[i] = Plus(Minus(m1[i], m2[i]), Plus(xorps(m4, {3})[i], xorps(m3, {3})[i]))
  BY <1>3, Lanewise
<1>8. /\ xorps(m4, {3})[0] = m4[0] /\ xorps(m4, {3})[1] = m4[1]
      /\ xorps(m4, {3})[2] = m4[2] /\ xorps(m4, {3})[3] = Neg(m4[3])
      /\ xorps(m3, {3})[0] = m3[0] /\ xorps(m3, {3})[1] = m3[1]
      /\ xorps(m3, {3})[2] = m3[2] /\ xorps(m3, {3})[3] = Neg(m3[3])
  BY XorIs, LaneSet
<1>9. /\ p[0] = Plus(Minus(m1[0], m2[0]), Plus(m4[0], m3[0]))
      /\ p[1] = Plus(Minus(m1[1], m2[1]), Plus(m4[1], m3[1]))
      /\ p[2] = Plus(Minus(m1[2], m2[2]), Plus(m4[2], m3[2]))
      /\ p[3] = Plus(Minus(m1[3], m2[3]), Plus(Neg(m4[3]), Neg(m3[3])))
  BY <1>7, <1>8, LaneSet
<1>30. IsReg(p)
  BY <1>3, Lanewise
<1> QED
  BY <1>6, <1>9, <1>30

\* Signed sums of four products, as the code groups them.
LEMMA FourProducts ==
    ASSUME NEW a, NEW b, NEW c, NEW f, NEW g, NEW h, NEW k, NEW l,
           NEW an, NEW bn, NEW cn, NEW fn, NEW gn, NEW hn, NEW kn, NEW ln, NEW d, NEW e,
           Is(a, an, d), Is(b, bn, e), Is(c, cn, d), Is(f, fn, e),
           Is(g, gn, d), Is(h, hn, e), Is(k, kn, d), Is(l, ln, e)
    PROVE  /\ Is(Plus(Minus(Times(a, b), Times(c, f)), Plus(Times(g, h), Times(k, l))),
                 an * bn - cn * fn + (gn * hn + kn * ln), d * e)
           /\ Is(Plus(Minus(Times(a, b), Times(c, f)), Plus(Neg(Times(g, h)), Neg(Times(k, l)))),
                 an * bn - cn * fn + (-(gn * hn) + -(kn * ln)), d * e)
<1>1. /\ Is(Times(a, b), an * bn, d * e) /\ Is(Times(c, f), cn * fn, d * e)
      /\ Is(Times(g, h), gn * hn, d * e) /\ Is(Times(k, l), kn * ln, d * e)
  BY TimesIs
<1>2. Is(Minus(Times(a, b), Times(c, f)), an * bn - cn * fn, d * e)
  BY <1>1, MinusSame
<1>3. Is(Plus(Times(g, h), Times(k, l)), gn * hn + kn * ln, d * e)
  BY <1>1, PlusSame
<1>4. Is(Neg(Times(g, h)), -(gn * hn), d * e) /\ Is(Neg(Times(k, l)), -(kn * ln), d * e)
  BY <1>1, NegIs
<1>5. Is(Plus(Neg(Times(g, h)), Neg(Times(k, l))), -(gn * hn) + -(kn * ln), d * e)
  BY <1>4, PlusSame
<1> QED
  BY <1>2, <1>3, <1>5, PlusSame

\* The product of two quaternions over their denominators.
LEMMA QuatMultIs ==
    ASSUME NEW q, NEW r, NEW a, NEW b, NEW c, NEW d, NEW k, NEW x, NEW y, NEW z, NEW w, NEW e,
           Is(q[0], a, k), Is(q[1], b, k), Is(q[2], c, k), Is(q[3], d, k),
           Is(r[0], x, e), Is(r[1], y, e), Is(r[2], z, e), Is(r[3], w, e),
           NEW p, p = Easy_quat_Mult(q, r)
    PROVE  /\ p \in V4
           /\ Is(p[0], HamX(a, b, c, d, x, y, z, w), k * e)
           /\ Is(p[1], HamY(a, b, c, d, x, y, z, w), k * e)
           /\ Is(p[2], HamZ(a, b, c, d, x, y, z, w), k * e)
           /\ Is(p[3], HamW(a, b, c, d, x, y, z, w), k * e)
<1>1. Is(p[0], HamX(a, b, c, d, x, y, z, w), k * e)
  <2>1. Is(Plus(Minus(Times(q[0], r[3]), Times(q[2], r[1])), Plus(Times(q[1], r[2]), Times(q[3], r[0]))),
            a * w - c * y + (b * z + d * x), k * e)
    BY FourProducts
  <2> QED
    BY <2>1, QuatMultAt DEF HamX
<1>2. Is(p[1], HamY(a, b, c, d, x, y, z, w), k * e)
  <2>1. Is(Plus(Minus(Times(q[1], r[3]), Times(q[0], r[2])), Plus(Times(q[2], r[0]), Times(q[3], r[1]))),
            b * w - a * z + (c * x + d * y), k * e)
    BY FourProducts
  <2> QED
    BY <2>1, QuatMultAt DEF HamY
<1>3. Is(p[2], HamZ(a, b, c, d, x, y, z, w), k * e)
  <2>1. Is(Plus(Minus(Times(q[2], r[3]), Times(q[1], r[0])), Plus(Times(q[0], r[1]), Times(q[3], r[2]))),
            c * w - b * x + (a * y + d * z), k * e)
    BY FourProducts
  <2> QED
    BY <2>1, QuatMultAt DEF HamZ
<1>4. Is(p[3], HamW(a, b, c, d, x, y, z, w), k * e)
  <2>1. Is(Plus(Minus(Times(q[3], r[3]), Times(q[0], r[0])), Plus(Neg(Times(q[2], r[2])), Neg(Times(q[1], r[1])))),
            d * w - a * x + (-(c * z) + -(b * y)), k * e)
    BY FourProducts
  <2> QED
    BY <2>1, QuatMultAt DEF HamW
<1>5. \A i \in Lane : p[i] \in Num
  BY <1>1, <1>2, <1>3, <1>4, IsInts, LaneSet
<1> QED
  BY <1>1, <1>2, <1>3, <1>4, <1>5, QuatMultAt, V4Reg

\* The squared length of a product is the product of the squared lengths.
LengthsMultiply(a, b, c, d, x, y, z, w) ==
  Length2Int(HamX(a, b, c, d, x, y, z, w), HamY(a, b, c, d, x, y, z, w),
             HamZ(a, b, c, d, x, y, z, w), HamW(a, b, c, d, x, y, z, w))
    = Length2Int(a, b, c, d) * Length2Int(x, y, z, w)

\* Lengths multiply: Euler's identity of four squares.
LEMMA EulerFour ==
    ASSUME NEW a \in Int, NEW b \in Int, NEW c \in Int, NEW d \in Int,
           NEW x \in Int, NEW y \in Int, NEW z \in Int, NEW w \in Int
    PROVE  LengthsMultiply(a, b, c, d, x, y, z, w)
  BY DEF LengthsMultiply, HamX, HamY, HamZ, HamW, Length2Int

\* The matrix of a product is the product of the matrices.
EntriesMultiply(a, b, c, d, x, y, z, w, j, i) ==
  LET K == Length2Int(a, b, c, d)
      E == Length2Int(x, y, z, w)
  IN  Entry(HamX(a, b, c, d, x, y, z, w), HamY(a, b, c, d, x, y, z, w),
            HamZ(a, b, c, d, x, y, z, w), HamW(a, b, c, d, x, y, z, w), K * E, j, i)
        = Entry(x, y, z, w, E, j, 0) * Entry(a, b, c, d, K, 0, i)
          + Entry(x, y, z, w, E, j, 1) * Entry(a, b, c, d, K, 1, i)
          + Entry(x, y, z, w, E, j, 2) * Entry(a, b, c, d, K, 2, i)

\* The entries of the product of two rotations, in integers.
LEMMA ProductEntry ==
    ASSUME NEW a \in Int, NEW b \in Int, NEW c \in Int, NEW d \in Int,
           NEW x \in Int, NEW y \in Int, NEW z \in Int, NEW w \in Int,
           NEW j \in Axis, NEW i \in Axis
    PROVE  EntriesMultiply(a, b, c, d, x, y, z, w, j, i)
<1>1. CASE j = 0 /\ i = 0
  BY <1>1 DEF EntriesMultiply, HamX, HamY, HamZ, HamW, Length2Int, Entry
<1>2. CASE j = 0 /\ i = 1
  BY <1>2 DEF EntriesMultiply, HamX, HamY, HamZ, HamW, Length2Int, Entry
<1>3. CASE j = 0 /\ i = 2
  BY <1>3 DEF EntriesMultiply, HamX, HamY, HamZ, HamW, Length2Int, Entry
<1>4. CASE j = 1 /\ i = 0
  BY <1>4 DEF EntriesMultiply, HamX, HamY, HamZ, HamW, Length2Int, Entry
<1>5. CASE j = 1 /\ i = 1
  BY <1>5 DEF EntriesMultiply, HamX, HamY, HamZ, HamW, Length2Int, Entry
<1>6. CASE j = 1 /\ i = 2
  BY <1>6 DEF EntriesMultiply, HamX, HamY, HamZ, HamW, Length2Int, Entry
<1>7. CASE j = 2 /\ i = 0
  BY <1>7 DEF EntriesMultiply, HamX, HamY, HamZ, HamW, Length2Int, Entry
<1>8. CASE j = 2 /\ i = 1
  BY <1>8 DEF EntriesMultiply, HamX, HamY, HamZ, HamW, Length2Int, Entry
<1>9. CASE j = 2 /\ i = 2
  BY <1>9 DEF EntriesMultiply, HamX, HamY, HamZ, HamW, Length2Int, Entry
<1> QED
  BY <1>1, <1>2, <1>3, <1>4, <1>5, <1>6, <1>7, <1>8, <1>9, LaneSet

IsUnit(q) == q \in V4 /\ Length2(q) = One

\* The components of a quaternion of length one.
LEMMA UnitParts ==
    ASSUME NEW q, IsUnit(q)
    PROVE  \E x, y, z, w, d \in Int :
             /\ d > 0 /\ Is(q[0], x, d) /\ Is(q[1], y, d) /\ Is(q[2], z, d) /\ Is(q[3], w, d)
             /\ Length2Int(x, y, z, w) = d * d
<1>1. PICK x, y, z, w, d \in Int :
        d > 0 /\ Is(q[0], x, d) /\ Is(q[1], y, d) /\ Is(q[2], z, d) /\ Is(q[3], w, d)
  BY CommonQ DEF IsUnit
<1>2. Is(One, Length2Int(x, y, z, w), d * d)
  BY <1>1, Length2Is DEF IsUnit
<1>3. Is(One, 1, 1)
  BY ZeroIs
<1>4. Length2Int(x, y, z, w) * 1 = 1 * (d * d)
  BY <1>2, <1>3, IsCross
<1>5. Length2Int(x, y, z, w) = d * d
  BY <1>2, <1>4, IsInts
<1> QED
  BY <1>1, <1>5

\* The other way round.
LEMMA PartsUnit ==
    ASSUME NEW q \in V4, NEW x, NEW y, NEW z, NEW w, NEW d,
           Is(q[0], x, d), Is(q[1], y, d), Is(q[2], z, d), Is(q[3], w, d),
           Length2Int(x, y, z, w) = d * d
    PROVE  IsUnit(q)
<1>1. Is(Length2(q), d * d, d * d)
  BY Length2Is
<1>2. Is(One, d * d, d * d)
  BY <1>1, ZeroIs, IsInts
<1> QED
  BY <1>1, <1>2, IsEqual DEF IsUnit

\* The matrix of a quaternion in integers over o.
IntRot(x, y, z, w, o) ==
  [j \in Lane |-> [i \in Lane |->
     IF j = 3 \/ i = 3 THEN (IF j = i THEN o ELSE 0) ELSE Entry(x, y, z, w, o, j, i)]]

\* The matrix of a quaternion of length one, in integers.
LEMMA RotationInts ==
    ASSUME NEW q, NEW x, NEW y, NEW z, NEW w, NEW d, d > 0,
           Is(q[0], x, d), Is(q[1], y, d), Is(q[2], z, d), Is(q[3], w, d),
           Length2Int(x, y, z, w) = d * d, NEW l, l = d * d, q \in V4
    PROVE  /\ \A j, i \in Lane : Is(RotationOf(q)[j][i], IntRot(x, y, z, w, l)[j][i], l)
           /\ RotationOf(q) \in M4
           /\ l \in Int /\ l > 0
<1>1. IsUnit(q)
  BY PartsUnit
<1>2. ~Less(Length2(q), Tiny)
  BY <1>1, UnitOne DEF IsUnit
<1>3. PICK M : M = RotationOf(q)
  OBVIOUS
<1>4. /\ l \in Int /\ l > 0
      /\ \A j, i \in {0, 1, 2} : Is(M[j][i], Entry(x, y, z, w, l, j, i), l)
      /\ IsMat(M)
      /\ M[0][3] = Zero /\ M[1][3] = Zero /\ M[2][3] = Zero
      /\ M[3] = Vec(0, 0, 0, 1)
  BY <1>2, <1>3, RotationIs
<1>5. M[3][0] = Zero /\ M[3][1] = Zero /\ M[3][2] = Zero /\ M[3][3] = One
  BY <1>4, VecIs DEF Zero, One
<1>6. Is(Zero, 0, l) /\ Is(One, l, l)
  BY <1>4, ZeroIs
<1>7. ASSUME NEW j \in Lane, NEW i \in Lane
      PROVE  Is(M[j][i], IntRot(x, y, z, w, l)[j][i], l)
  <2>1. CASE j = 3 \/ i = 3
    <3>1. M[j][i] = IF j = i THEN One ELSE Zero
      BY <1>4, <1>5, <2>1, LaneSet
    <3>2. IntRot(x, y, z, w, l)[j][i] = IF j = i THEN l ELSE 0
      BY <2>1 DEF IntRot
    <3> QED
      BY <1>6, <3>1, <3>2
  <2>2. CASE ~(j = 3 \/ i = 3)
    <3>1. j \in {0, 1, 2} /\ i \in {0, 1, 2}
      BY <2>2, LaneSet
    <3>2. IntRot(x, y, z, w, l)[j][i] = Entry(x, y, z, w, l, j, i)
      BY <2>2 DEF IntRot
    <3> QED
      BY <1>4, <3>1, <3>2
  <2> QED
    BY <2>1, <2>2
<1>8. M \in M4
  BY <1>4, <1>7, MatM4, IsInts
<1> QED
  BY <1>3, <1>4, <1>7, <1>8

\* The matrix of Easy_quat_Mult(q, r) (EasyQuat.h:504) is the product of the
\* matrices of r and q: r turns first.
THEOREM ProductTurns ==
    ASSUME NEW q, NEW r, IsUnit(q), IsUnit(r)
    PROVE  /\ IsUnit(Easy_quat_Mult(q, r))
           /\ RotationOf(Easy_quat_Mult(q, r)) = Mul(RotationOf(r), RotationOf(q))
<1>1. PICK a, b, c, d, k \in Int :
        /\ k > 0 /\ Is(q[0], a, k) /\ Is(q[1], b, k) /\ Is(q[2], c, k) /\ Is(q[3], d, k)
        /\ Length2Int(a, b, c, d) = k * k
  BY UnitParts
<1>2. PICK x, y, z, w, e \in Int :
        /\ e > 0 /\ Is(r[0], x, e) /\ Is(r[1], y, e) /\ Is(r[2], z, e) /\ Is(r[3], w, e)
        /\ Length2Int(x, y, z, w) = e * e
  BY UnitParts
<1>3. PICK p : p = Easy_quat_Mult(q, r)
  OBVIOUS
<1>4. PICK s, t, u, v : /\ s = HamX(a, b, c, d, x, y, z, w) /\ t = HamY(a, b, c, d, x, y, z, w)
                        /\ u = HamZ(a, b, c, d, x, y, z, w) /\ v = HamW(a, b, c, d, x, y, z, w)
  OBVIOUS
<1>5. PICK f \in Int : f = k * e /\ f > 0
  BY <1>1, <1>2
<1>6. p \in V4 /\ Is(p[0], s, f) /\ Is(p[1], t, f) /\ Is(p[2], u, f) /\ Is(p[3], v, f)
  BY <1>1, <1>2, <1>3, <1>4, <1>5, QuatMultIs
<1>7. Length2Int(s, t, u, v) = (k * k) * (e * e)
  <2>1. LengthsMultiply(a, b, c, d, x, y, z, w)
    BY EulerFour
  <2> QED
    BY <1>1, <1>2, <1>4, <2>1 DEF LengthsMultiply
<1>8. (k * k) * (e * e) = f * f
  BY <1>1, <1>2, <1>5
<1>9. IsUnit(p)
  BY <1>6, <1>7, <1>8, PartsUnit
<1>10. PICK K, E, F \in Int : K = k * k /\ E = e * e /\ F = f * f /\ K * E = F /\ F # 0 /\ E * K = F
  BY <1>1, <1>2, <1>5, <1>8
<1>11. /\ \A j, i \in Lane : Is(RotationOf(p)[j][i], IntRot(s, t, u, v, F)[j][i], F)
       /\ RotationOf(p) \in M4
  BY <1>5, <1>6, <1>7, <1>8, <1>10, RotationInts
<1>12. /\ \A j, i \in Lane : Is(RotationOf(q)[j][i], IntRot(a, b, c, d, K)[j][i], K)
       /\ RotationOf(q) \in M4 /\ q \in V4
  BY <1>1, <1>10, RotationInts DEF IsUnit
<1>13. /\ \A j, i \in Lane : Is(RotationOf(r)[j][i], IntRot(x, y, z, w, E)[j][i], E)
       /\ RotationOf(r) \in M4 /\ r \in V4
  BY <1>2, <1>10, RotationInts DEF IsUnit
<1>14. \A j, i \in Lane : Is(Mul(RotationOf(r), RotationOf(q))[j][i],
                             IntDot(IntRot(x, y, z, w, E), IntRot(a, b, c, d, K), j, i), E * K)
  BY <1>12, <1>13, MulIs
<1>15. ASSUME NEW j \in Lane, NEW i \in Lane
       PROVE  IntDot(IntRot(x, y, z, w, E), IntRot(a, b, c, d, K), j, i) = IntRot(s, t, u, v, F)[j][i]
  <2> DEFINE R == IntRot(x, y, z, w, E)
             Q0 == IntRot(a, b, c, d, K)
  <2>1. \A l \in Lane : R[j][l] \in Int /\ Q0[l][i] \in Int
    BY <1>12, <1>13, IsInts
  <2>2. CASE j = 3
    <3>1. R[j][0] = 0 /\ R[j][1] = 0 /\ R[j][2] = 0 /\ R[j][3] = E
      BY <2>2, LaneSet DEF IntRot
    <3>2. Q0[3][i] = IF i = 3 THEN K ELSE 0
      BY LaneSet DEF IntRot
    <3>3. IntRot(s, t, u, v, F)[j][i] = IF i = 3 THEN F ELSE 0
      BY <2>2 DEF IntRot
    <3> HIDE DEF R, Q0
    <3>4. PICK q0, q1, q2, q3 \in Int : q0 = Q0[0][i] /\ q1 = Q0[1][i] /\ q2 = Q0[2][i] /\ q3 = Q0[3][i]
      BY <2>1, LaneSet
    <3>5. IntDot(R, Q0, j, i) = E * q3
      BY <3>1, <3>4 DEF IntDot
    <3> QED
      BY <1>10, <3>2, <3>3, <3>4, <3>5 DEF R, Q0
  <2>3. CASE j # 3 /\ i = 3
    <3>1. Q0[0][i] = 0 /\ Q0[1][i] = 0 /\ Q0[2][i] = 0 /\ Q0[3][i] = K
      BY <2>3, LaneSet DEF IntRot
    <3>2. R[j][3] = 0
      BY <2>3, LaneSet DEF IntRot
    <3>3. IntRot(s, t, u, v, F)[j][i] = 0
      BY <2>3 DEF IntRot
    <3> HIDE DEF R, Q0
    <3>4. PICK r0, r1, r2, r3 \in Int : r0 = R[j][0] /\ r1 = R[j][1] /\ r2 = R[j][2] /\ r3 = R[j][3]
      BY <2>1, LaneSet
    <3>5. IntDot(R, Q0, j, i) = r3 * K
      BY <3>1, <3>4 DEF IntDot
    <3> QED
      BY <3>2, <3>3, <3>4, <3>5 DEF R, Q0
  <2>4. CASE j # 3 /\ i # 3
    <3>1. j \in {0, 1, 2} /\ i \in {0, 1, 2}
      BY <2>4, LaneSet
    <3>2. R[j][3] = 0 /\ Q0[3][i] = 0
      BY <2>4, LaneSet DEF IntRot
    <3>3. /\ R[j][0] = Entry(x, y, z, w, E, j, 0) /\ R[j][1] = Entry(x, y, z, w, E, j, 1)
          /\ R[j][2] = Entry(x, y, z, w, E, j, 2)
      BY <2>4, LaneSet DEF IntRot
    <3>4. /\ Q0[0][i] = Entry(a, b, c, d, K, 0, i) /\ Q0[1][i] = Entry(a, b, c, d, K, 1, i)
          /\ Q0[2][i] = Entry(a, b, c, d, K, 2, i)
      BY <2>4, LaneSet DEF IntRot
    <3>5. IntRot(s, t, u, v, F)[j][i] = Entry(s, t, u, v, F, j, i)
      BY <2>4 DEF IntRot
    <3> HIDE DEF R, Q0
    <3>6. Entry(s, t, u, v, F, j, i) =
            Entry(x, y, z, w, E, j, 0) * Entry(a, b, c, d, K, 0, i)
            + Entry(x, y, z, w, E, j, 1) * Entry(a, b, c, d, K, 1, i)
            + Entry(x, y, z, w, E, j, 2) * Entry(a, b, c, d, K, 2, i)
      <4>1. EntriesMultiply(a, b, c, d, x, y, z, w, j, i)
        <5>1. j \in Axis /\ i \in Axis
          BY <3>1, LaneSet
        <5> QED
          BY <5>1, ProductEntry
      <4> QED
        BY <1>1, <1>2, <1>4, <1>10, <4>1 DEF EntriesMultiply
    <3>7. PICK r0, r1, r2, q0, q1, q2 \in Int : /\ r0 = R[j][0] /\ r1 = R[j][1] /\ r2 = R[j][2]
                                                /\ q0 = Q0[0][i] /\ q1 = Q0[1][i] /\ q2 = Q0[2][i]
      BY <2>1, LaneSet
    <3>8. IntDot(R, Q0, j, i) = r0 * q0 + r1 * q1 + r2 * q2
      BY <3>2, <3>7 DEF IntDot
    <3> QED
      BY <3>3, <3>4, <3>5, <3>6, <3>7, <3>8 DEF R, Q0
  <2> QED
    BY <2>2, <2>3, <2>4
<1>16. \A j, i \in Lane : RotationOf(p)[j][i] = Mul(RotationOf(r), RotationOf(q))[j][i]
  <2> SUFFICES ASSUME NEW j \in Lane, NEW i \in Lane
               PROVE  RotationOf(p)[j][i] = Mul(RotationOf(r), RotationOf(q))[j][i]
    OBVIOUS
  <2>1. PICK n : n = IntRot(s, t, u, v, F)[j][i]
    OBVIOUS
  <2>2. Is(RotationOf(p)[j][i], n, F) /\ Is(Mul(RotationOf(r), RotationOf(q))[j][i], n, F)
    BY <1>10, <1>11, <1>14, <1>15, <2>1
  <2> QED
    BY <2>2, IsEqual
<1>17. RotationOf(p) = Mul(RotationOf(r), RotationOf(q))
  BY <1>11, <1>16, M4Mat, MulMat, SameMat
<1> QED
  BY <1>3, <1>9, <1>17

\* Division by one.
LEMMA OverOne ==
    ASSUME NEW a \in Num
    PROVE  Over(a, One) = a
<1>1. PICK n, d \in Int : d > 0 /\ Is(a, n, d)
  BY Fraction
<1>2. PICK o \in Int : o = 1 /\ o # 0 /\ Is(One, o, o)
  BY ZeroIs
<1>3. Is(Over(a, One), n * o, d * o)
  BY <1>1, <1>2, OverIs
<1>4. n * o = n /\ d * o = d
  BY <1>1, <1>2
<1> QED
  BY <1>1, <1>3, <1>4, IsEqual

\* The root of one.
LEMMA RootOne == SqrtQ(One) = One
<1>1. SqrtQ(Times(One, One)) = AbsQ(One) /\ Times(One, One) = One
  BY Constants, SqrtOfSquare, Neutral
<1>2. AbsQ(One) = One
  BY DEF AbsQ, Magnitude, One, Int2Q
<1> QED
  BY <1>1, <1>2

\* One is not zero.
LEMMA OneNotZero == One # Zero
  BY DEF One, Zero, Int2Q

\* The matrix of a quaternion of length one needs no division.
LEMMA UnitMatrix ==
    ASSUME NEW q, IsUnit(q)
    PROVE  /\ Easy_quat_normalize_sse(q) = q
           /\ Easy_quat_to_matrix(q) = RotationOf(q) /\ RotationOf(q) \in M4
<1>1. q \in V4 /\ Length2(q) = One
  BY DEF IsUnit
<1>2. PICK n \in V4 : n = Easy_quat_normalize_sse(q)
  BY <1>1, RootOne, OneNotZero, Constants, NormalizedIs
<1>3. \A i \in Lane : n[i] = Over(q[i], One)
  BY <1>1, <1>2, RootOne, OneNotZero, Constants, NormalizedIs
<1>4. \A i \in Lane : n[i] = q[i]
  BY <1>1, <1>3, OverOne DEF V4
<1>5. n = q
  BY <1>1, <1>4 DEF V4
<1> QED
  BY <1>1, <1>2, <1>5, RotationAlike, UnitOne

\* A normalized quaternion has length one and turns like the one it was.
LEMMA NormalizedUnit ==
    ASSUME NEW q \in V4, IsNumber(SqrtQ(Length2(q))), ~Less(Length2(q), Tiny)
    PROVE  /\ IsUnit(Easy_quat_normalize_sse(q))
           /\ RotationOf(Easy_quat_normalize_sse(q)) = RotationOf(q)
<1>1. PICK x, y, z, w, d \in Int :
        d > 0 /\ Is(q[0], x, d) /\ Is(q[1], y, d) /\ Is(q[2], z, d) /\ Is(q[3], w, d)
  BY CommonQ
<1>2. PICK l : l = Length2Int(x, y, z, w)
  OBVIOUS
<1>3. Is(Length2(q), l, d * d)
  BY <1>1, <1>2, Length2Is
<1>4. PICK r : r = SqrtQ(Length2(q))
  OBVIOUS
<1>5. r \in Num /\ Times(r, r) = Length2(q)
  BY <1>3, <1>4, SqrtSquares, IsInts
<1>6. PICK a, b \in Int : b > 0 /\ Is(r, a, b)
  BY <1>5, Fraction
<1>7. Is(Length2(q), a * a, b * b)
  BY <1>5, <1>6, TimesIs
<1>8. (a * a) * (d * d) = l * (b * b)
  BY <1>3, <1>7, IsCross
<1>9. l \in Int /\ l > 0
  <2>1. d * d > 0
    BY <1>1
  <2> QED
    BY <1>3, <2>1, NotTiny, IsInts
<1>10. a # 0
  <2>1. d * d > 0 /\ b * b > 0
    BY <1>1, <1>6
  <2>2. l * (b * b) > 0
    BY <1>9, <2>1
  <2> QED
    BY <1>8, <2>2
<1>11. r # Zero
  <2>1. ASSUME r = Zero PROVE FALSE
    <3>1. Is(r, 0, b)
      BY <1>6, <2>1, ZeroIs
    <3>2. a * b = 0 * b
      BY <1>6, <3>1, IsCross
    <3> QED
      BY <1>6, <1>10, <3>2
  <2> QED
    BY <2>1
<1>12. PICK n \in V4 : n = Easy_quat_normalize_sse(q)
  BY <1>4, <1>5, <1>11, NormalizedIs
<1>13. n[0] = Over(q[0], r) /\ n[1] = Over(q[1], r) /\ n[2] = Over(q[2], r) /\ n[3] = Over(q[3], r)
  BY <1>4, <1>5, <1>11, <1>12, NormalizedIs, LaneSet
<1>14. PICK e \in Int : e = d * a
  BY <1>1, <1>6
<1>15. Is(n[0], x * b, e) /\ Is(n[1], y * b, e) /\ Is(n[2], z * b, e) /\ Is(n[3], w * b, e)
  BY <1>1, <1>6, <1>10, <1>13, <1>14, OverIs
<1>16. Length2Int(x * b, y * b, z * b, w * b) = e * e
  <2>1. Length2Int(x * b, y * b, z * b, w * b) = l * (b * b)
    BY <1>1, <1>2, <1>6 DEF Length2Int
  <2>2. e * e = (a * a) * (d * d)
    BY <1>1, <1>6, <1>14
  <2> QED
    BY <1>8, <2>1, <2>2
<1>17. IsUnit(n)
  BY <1>15, <1>16, PartsUnit
<1>18. RotationOf(n) = RotationOf(q)
  BY <1>12, <1>17, RotationAlike, UnitMatrix
<1> QED
  BY <1>12, <1>17, <1>18

\* The quaternion that turns back, and the other one that turns the same way.
Conj(q) == Ps(Neg(q[0]), Neg(q[1]), Neg(q[2]), q[3])
Opposite(q) == [i \in Lane |-> Neg(q[i])]

EntriesTurned(x, y, z, w, o, j, i) ==
  /\ Entry(-x, -y, -z, w, o, j, i) = Entry(x, y, z, w, o, i, j)
  /\ Entry(-x, -y, -z, -w, o, j, i) = Entry(x, y, z, w, o, j, i)

\* The matrix of the conjugate, transposed, in integers.
LEMMA TurnedEntry ==
    ASSUME NEW x \in Int, NEW y \in Int, NEW z \in Int, NEW w \in Int, NEW o \in Int,
           NEW j \in Axis, NEW i \in Axis
    PROVE  EntriesTurned(x, y, z, w, o, j, i)
<1>1. /\ (-x) * (-x) = x * x /\ (-y) * (-y) = y * y /\ (-z) * (-z) = z * z
      /\ (-x) * (-y) = x * y /\ (-x) * (-z) = x * z /\ (-y) * (-z) = y * z
      /\ w * (-x) = -(w * x) /\ w * (-y) = -(w * y) /\ w * (-z) = -(w * z)
      /\ (-w) * (-x) = w * x /\ (-w) * (-y) = w * y /\ (-w) * (-z) = w * z
  OBVIOUS
<1>2. PICK xx, xy, xz, yy, yz, zz, wx, wy, wz :
        /\ xx \in Int /\ xy \in Int /\ xz \in Int /\ yy \in Int /\ yz \in Int /\ zz \in Int
        /\ wx \in Int /\ wy \in Int /\ wz \in Int
        /\ xx = x * x /\ xy = x * y /\ xz = x * z /\ yy = y * y /\ yz = y * z /\ zz = z * z
        /\ wx = w * x /\ wy = w * y /\ wz = w * z
  <2>1. /\ x * x \in Int /\ x * y \in Int /\ x * z \in Int /\ y * y \in Int /\ y * z \in Int /\ z * z \in Int
        /\ w * x \in Int /\ w * y \in Int /\ w * z \in Int
    OBVIOUS
  <2> QED
    BY <2>1
<1> QED
  BY <1>1, <1>2, LaneSet DEF EntriesTurned, Entry

\* The conjugate turns back, the opposite turns alike.
LEMMA ConjTurnsBack ==
    ASSUME NEW q, IsUnit(q)
    PROVE  /\ IsUnit(Conj(q)) /\ RotationOf(Conj(q)) = T4(RotationOf(q))
           /\ IsUnit(Opposite(q)) /\ RotationOf(Opposite(q)) = RotationOf(q)
<1>1. PICK x, y, z, w, d \in Int :
        /\ d > 0 /\ Is(q[0], x, d) /\ Is(q[1], y, d) /\ Is(q[2], z, d) /\ Is(q[3], w, d)
        /\ Length2Int(x, y, z, w) = d * d
  BY UnitParts
<1>2. PICK c, o : c = Conj(q) /\ o = Opposite(q)
  OBVIOUS
<1>3. /\ Is(Neg(q[0]), -x, d) /\ Is(Neg(q[1]), -y, d) /\ Is(Neg(q[2]), -z, d) /\ Is(Neg(q[3]), -w, d)
  BY <1>1, NegIs
<1>4. PICK a, b, e, f \in Int : a = -x /\ b = -y /\ e = -z /\ f = -w
  BY <1>1
<1>5. /\ Is(c[0], a, d) /\ Is(c[1], b, d) /\ Is(c[2], e, d) /\ Is(c[3], w, d)
  BY <1>1, <1>2, <1>3, <1>4, PsAt DEF Conj
<1>6. Is(o[0], a, d) /\ Is(o[1], b, d) /\ Is(o[2], e, d) /\ Is(o[3], f, d)
  BY <1>2, <1>3, <1>4, LaneSet DEF Opposite
<1>7. Length2Int(a, b, e, w) = d * d /\ Length2Int(a, b, e, f) = d * d
  <2>1. a * a = x * x /\ b * b = y * y /\ e * e = z * z /\ f * f = w * w
    BY <1>4
  <2> QED
    BY <1>1, <2>1 DEF Length2Int
<1>8. c \in V4 /\ o \in V4 /\ q \in V4
  <2>1. IsReg(c) /\ IsReg(o)
    BY <1>2, PsReg DEF Conj, Opposite, IsReg
  <2>2. \A i \in Lane : c[i] \in Num /\ o[i] \in Num
    BY <1>5, <1>6, IsInts, LaneSet
  <2> QED
    BY <2>1, <2>2, V4Reg DEF IsUnit
<1>9. IsUnit(c) /\ IsUnit(o)
  BY <1>5, <1>6, <1>7, <1>8, PartsUnit
<1>10. PICK l \in Int : l = d * d
  BY <1>1
<1>11. /\ \A j, i \in Lane : Is(RotationOf(c)[j][i], IntRot(a, b, e, w, l)[j][i], l)
       /\ RotationOf(c) \in M4
  BY <1>1, <1>5, <1>7, <1>8, <1>10, RotationInts
<1>12. /\ \A j, i \in Lane : Is(RotationOf(o)[j][i], IntRot(a, b, e, f, l)[j][i], l)
       /\ RotationOf(o) \in M4
  BY <1>1, <1>6, <1>7, <1>8, <1>10, RotationInts
<1>13. /\ \A j, i \in Lane : Is(RotationOf(q)[j][i], IntRot(x, y, z, w, l)[j][i], l)
       /\ RotationOf(q) \in M4
  BY <1>1, <1>8, <1>10, RotationInts
<1>14. ASSUME NEW j \in Lane, NEW i \in Lane
       PROVE  /\ IntRot(a, b, e, w, l)[j][i] = IntRot(x, y, z, w, l)[i][j]
              /\ IntRot(a, b, e, f, l)[j][i] = IntRot(x, y, z, w, l)[j][i]
  <2>1. CASE j = 3 \/ i = 3
    BY <2>1 DEF IntRot
  <2>2. CASE ~(j = 3 \/ i = 3)
    <3>1. j \in Axis /\ i \in Axis
      BY <2>2, LaneSet
    <3>2. EntriesTurned(x, y, z, w, l, j, i)
      BY <3>1, TurnedEntry
    <3> QED
      BY <1>4, <2>2, <3>2 DEF EntriesTurned, IntRot
  <2> QED
    BY <2>1, <2>2
<1>15. ASSUME NEW j \in Lane, NEW i \in Lane
       PROVE  RotationOf(c)[j][i] = RotationOf(q)[i][j] /\ RotationOf(o)[j][i] = RotationOf(q)[j][i]
  <2>1. PICK n, k : n = IntRot(x, y, z, w, l)[i][j] /\ k = IntRot(x, y, z, w, l)[j][i]
    OBVIOUS
  <2>2. Is(RotationOf(c)[j][i], n, l) /\ Is(RotationOf(q)[i][j], n, l)
    BY <1>11, <1>13, <1>14, <2>1
  <2>3. Is(RotationOf(o)[j][i], k, l) /\ Is(RotationOf(q)[j][i], k, l)
    BY <1>12, <1>13, <1>14, <2>1
  <2> QED
    BY <2>2, <2>3, IsEqual
<1>16. RotationOf(c) = T4(RotationOf(q))
  BY <1>11, <1>15, M4Mat, T4Mat, SameMat
<1>17. RotationOf(o) = RotationOf(q)
  BY <1>12, <1>13, <1>15, M4Mat, SameMat
<1> QED
  BY <1>2, <1>9, <1>16, <1>17

NoTurn == Vec(0, 0, 0, 1)

\* The quaternion 0 0 0 1 does not turn.
LEMMA NoTurnIs == IsUnit(NoTurn) /\ RotationOf(NoTurn) = IdentityMatrix
<1>1. PICK z, o \in Int : z = 0 /\ o = 1 /\ o > 0 /\ z * z = z /\ o * o = o
  OBVIOUS
<1>2. NoTurn[0] = Zero /\ NoTurn[1] = Zero /\ NoTurn[2] = Zero /\ NoTurn[3] = One /\ IsReg(NoTurn)
  BY VecIs DEF NoTurn, Zero, One
<1>3. Is(Zero, z, o) /\ Is(One, o, o)
  BY <1>1, ZeroIs
<1>4. NoTurn \in V4
  BY <1>2, Constants, V4Reg, LaneSet
<1>5. Length2Int(z, z, z, o) = o * o
  BY <1>1 DEF Length2Int
<1>6. IsUnit(NoTurn)
  BY <1>2, <1>3, <1>4, <1>5, PartsUnit
<1>7. /\ \A j, i \in Lane : Is(RotationOf(NoTurn)[j][i], IntRot(z, z, z, o, o)[j][i], o)
      /\ RotationOf(NoTurn) \in M4
  <2>1. PICK q, l : q = NoTurn /\ l = o * o
    OBVIOUS
  <2>2. q \in V4 /\ Is(q[0], z, o) /\ Is(q[1], z, o) /\ Is(q[2], z, o) /\ Is(q[3], o, o)
    BY <1>2, <1>3, <1>4, <2>1
  <2>3. o > 0 /\ Length2Int(z, z, z, o) = o * o
    BY <1>1, <1>5
  <2>4. (\A j, i \in Lane : Is(RotationOf(q)[j][i], IntRot(z, z, z, o, l)[j][i], l)) /\ RotationOf(q) \in M4
    BY <2>1, <2>2, <2>3, RotationInts
  <2> QED
    BY <1>1, <2>1, <2>4
<1>8. ASSUME NEW j \in Lane, NEW i \in Lane
      PROVE  RotationOf(NoTurn)[j][i] = IdentityMatrix[j][i]
  <2>1. IntRot(z, z, z, o, o)[j][i] = IF j = i THEN o ELSE z
    BY <1>1, LaneSet DEF IntRot, Entry
  <2>2. Is(RotationOf(NoTurn)[j][i], IF j = i THEN o ELSE z, o)
    BY <1>7, <2>1
  <2> QED
    BY <1>3, <2>2, IdentityIs, IsEqual
<1> QED
  BY <1>6, <1>7, <1>8, IdentityIs, M4Mat, SameMat

\* Turning there and back.
LEMMA TurnedBack ==
    ASSUME NEW q, IsUnit(q)
    PROVE  /\ Mul(RotationOf(q), T4(RotationOf(q))) = IdentityMatrix
           /\ Mul(T4(RotationOf(q)), RotationOf(q)) = IdentityMatrix
<1>1. PICK c : c = Conj(q)
  OBVIOUS
<1>2. IsUnit(c) /\ RotationOf(c) = T4(RotationOf(q))
  BY <1>1, ConjTurnsBack
<1>3. ASSUME NEW u, NEW v, IsUnit(u), v = Conj(u) PROVE Easy_quat_Mult(v, u) = NoTurn
  <2>1. PICK x, y, z, w, d \in Int :
          /\ d > 0 /\ Is(u[0], x, d) /\ Is(u[1], y, d) /\ Is(u[2], z, d) /\ Is(u[3], w, d)
          /\ Length2Int(x, y, z, w) = d * d
    BY <1>3, UnitParts
  <2>2. PICK a, b, e \in Int : a = -x /\ b = -y /\ e = -z
    BY <2>1
  <2>3. Is(v[0], a, d) /\ Is(v[1], b, d) /\ Is(v[2], e, d) /\ Is(v[3], w, d)
    BY <1>3, <2>1, <2>2, NegIs, PsAt DEF Conj
  <2>4. PICK p : p = Easy_quat_Mult(v, u)
    OBVIOUS
  <2>5. /\ p \in V4
        /\ Is(p[0], HamX(a, b, e, w, x, y, z, w), d * d)
        /\ Is(p[1], HamY(a, b, e, w, x, y, z, w), d * d)
        /\ Is(p[2], HamZ(a, b, e, w, x, y, z, w), d * d)
        /\ Is(p[3], HamW(a, b, e, w, x, y, z, w), d * d)
    BY <2>1, <2>3, <2>4, QuatMultIs
  <2>6. /\ HamX(a, b, e, w, x, y, z, w) = 0 /\ HamY(a, b, e, w, x, y, z, w) = 0
        /\ HamZ(a, b, e, w, x, y, z, w) = 0 /\ HamW(a, b, e, w, x, y, z, w) = d * d
    <3>1. /\ a * w = -(w * x) /\ b * w = -(w * y) /\ e * w = -(w * z) /\ a * x = -(x * x)
          /\ b * y = -(y * y) /\ e * z = -(z * z) /\ e * y = -(y * z) /\ b * z = -(y * z)
          /\ a * z = -(x * z) /\ e * x = -(x * z) /\ a * y = -(x * y) /\ b * x = -(x * y)
      BY <2>1, <2>2
    <3>2. x * x + y * y + z * z + w * w = d * d
      BY <2>1 DEF Length2Int
    <3> QED
      BY <2>1, <3>1, <3>2 DEF HamX, HamY, HamZ, HamW
  <2>7. NoTurn[0] = Zero /\ NoTurn[1] = Zero /\ NoTurn[2] = Zero /\ NoTurn[3] = One /\ IsReg(NoTurn)
    BY VecIs DEF NoTurn, Zero, One
  <2>8. PICK f \in Int : f = d * d /\ f # 0
    BY <2>1
  <2>9. p[0] = Zero /\ p[1] = Zero /\ p[2] = Zero /\ p[3] = One
    BY <2>5, <2>6, <2>8, ZeroIs, IsEqual
  <2> QED
    BY <2>4, <2>5, <2>7, <2>9, V4Reg, SameReg
<1>4. RotationOf(Easy_quat_Mult(c, q)) = Mul(RotationOf(q), RotationOf(c))
  BY <1>2, ProductTurns
<1>5. Mul(RotationOf(q), T4(RotationOf(q))) = IdentityMatrix
  BY <1>1, <1>2, <1>3, <1>4, NoTurnIs
<1>6. PICK R : R = RotationOf(q)
  OBVIOUS
<1>7. PICK S : S = T4(R)
  OBVIOUS
<1>8. R \in M4 /\ S \in M4
  BY <1>2, <1>6, <1>7, UnitMatrix
<1>9. Mul(Easy_matrix_inv_sse(R), R) = IdentityMatrix /\ Easy_matrix_inv_sse(R) = S
  BY <1>5, <1>6, <1>7, <1>8, InverseIs
<1> QED
  BY <1>5, <1>6, <1>7, <1>9

(***************************************************************************)
(* The quaternion of a matrix.                                             *)
(***************************************************************************)

\* Half over the root of the square of 2c / d, up to the sign e of c.
LEMMA HalfOverRoot ==
    ASSUME NEW t, NEW c \in Int, NEW d \in Int, d > 0, c # 0, Is(t, 4 * (c * c), d * d)
    PROVE  \E e \in {1, -1} : e * c > 0 /\ Is(Over(Q(1, 2), SqrtQ(t)), d, 4 * (e * c))
<1>1. PICK f \in Int : f = 2 * c
  OBVIOUS
<1>2. PICK u : u = Q(f, d)
  OBVIOUS
<1>3. Is(u, f, d) /\ u \in Num
  BY <1>2, QIs, IsInts
<1>4. Times(u, u) = t
  <2>1. Is(Times(u, u), f * f, d * d)
    BY <1>3, TimesIs
  <2>2. f * f = 4 * (c * c)
    BY <1>1
  <2> QED
    BY <2>1, <2>2, IsEqual
<1>5. SqrtQ(t) = AbsQ(u)
  BY <1>3, <1>4, SqrtOfSquare
<1>6. Is(SqrtQ(t), Magnitude(f), d)
  BY <1>3, <1>5, AbsIs
<1>7. PICK e \in {1, -1} : e * c > 0 /\ Magnitude(f) = 2 * (e * c)
  <2>1. CASE c > 0
    <3>1. 1 * c > 0 /\ Magnitude(f) = 2 * (1 * c)
      BY <1>1, <2>1 DEF Magnitude
    <3> QED
      BY <3>1
  <2>2. CASE ~(c > 0)
    <3>1. (-1) * c > 0 /\ Magnitude(f) = 2 * ((-1) * c)
      BY <1>1, <2>2 DEF Magnitude
    <3> QED
      BY <3>1
  <2> QED
    BY <2>1, <2>2
<1>8. PICK h \in Int : h = 2 * (e * c) /\ h > 0
  BY <1>7
<1>9. PICK o, b \in Int : o = 1 /\ b = 2 /\ b # 0
  OBVIOUS
<1>10. Is(Q(o, b), o, b)
  BY <1>9, QIs
<1>11. Is(SqrtQ(t), h, d) /\ h # 0
  BY <1>6, <1>7, <1>8
<1>12. Is(Over(Q(o, b), SqrtQ(t)), o * d, b * h)
  BY <1>10, <1>11, OverIs
<1>13. o * d = d /\ b * h = 4 * (e * c)
  BY <1>7, <1>8, <1>9
<1> QED
  BY <1>7, <1>9, <1>12, <1>13

\* A component of QuatFromMatrix, up to the sign of the largest.
LEMMA ComponentIs ==
    ASSUME NEW a, NEW s, NEW c \in Int, NEW v \in Int, NEW d \in Int, d > 0, NEW e \in {1, -1}, e * c > 0,
           Is(a, 4 * (c * v), d * d), Is(s, d, 4 * (e * c))
    PROVE  Is(Times(a, s), e * v, d) /\ Is(Times(s, a), e * v, d)
<1>1. PICK n, l, f \in Int : n = 4 * (c * v) /\ l = d * d /\ f = 4 * (e * c)
  OBVIOUS
<1>2. Is(Times(a, s), n * d, l * f)
  BY <1>1, TimesIs
<1>3. (n * d) * d = (e * v) * (l * f)
  <2>1. (e * v) * (l * f) = (e * e) * (4 * (c * v)) * (d * d)
    BY <1>1
  <2>2. e * e = 1
    OBVIOUS
  <2>3. PICK g \in Int : g = 4 * (c * v)
    OBVIOUS
  <2>4. (e * e) * g = g
    BY <2>2
  <2>5. (e * v) * (l * f) = g * (d * d)
    BY <2>1, <2>3, <2>4
  <2>6. (n * d) * d = g * (d * d)
    BY <1>1, <2>3
  <2> QED
    BY <2>5, <2>6
<1>4. e * v \in Int /\ d # 0
  OBVIOUS
<1>5. Is(Times(a, s), e * v, d)
  BY <1>2, <1>3, <1>4, IsSame
<1>6. Times(s, a) = Times(a, s)
  BY <1>2, TimesCommutes, IsInts
<1> QED
  BY <1>5, <1>6

\* The four components, each up to the same sign.
LEMMA SignedQuat ==
    ASSUME NEW q \in V4, NEW p, IsReg(p), NEW x \in Int, NEW y \in Int, NEW z \in Int, NEW w \in Int, NEW d,
           Is(q[0], x, d), Is(q[1], y, d), Is(q[2], z, d), Is(q[3], w, d), NEW e \in {1, -1},
           Is(p[0], e * x, d), Is(p[1], e * y, d), Is(p[2], e * z, d), Is(p[3], e * w, d)
    PROVE  p \in {q, Opposite(q)}
<1>1. IsReg(q) /\ IsReg(Opposite(q))
  BY V4Reg DEF Opposite, IsReg
<1>2. CASE e = 1
  <2>1. e * x = x /\ e * y = y /\ e * z = z /\ e * w = w
    BY <1>2
  <2>2. p[0] = q[0] /\ p[1] = q[1] /\ p[2] = q[2] /\ p[3] = q[3]
    BY <2>1, IsEqual
  <2> QED
    BY <1>1, <2>2, SameReg
<1>3. CASE e = -1
  <2>1. e * x = -x /\ e * y = -y /\ e * z = -z /\ e * w = -w
    BY <1>3
  <2>2. /\ Is(Neg(q[0]), -x, d) /\ Is(Neg(q[1]), -y, d) /\ Is(Neg(q[2]), -z, d) /\ Is(Neg(q[3]), -w, d)
    BY NegIs
  <2>3. p[0] = Neg(q[0]) /\ p[1] = Neg(q[1]) /\ p[2] = Neg(q[2]) /\ p[3] = Neg(q[3])
    BY <2>1, <2>2, IsEqual
  <2>4. /\ Opposite(q)[0] = Neg(q[0]) /\ Opposite(q)[1] = Neg(q[1])
        /\ Opposite(q)[2] = Neg(q[2]) /\ Opposite(q)[3] = Neg(q[3])
    BY LaneSet DEF Opposite
  <2> QED
    BY <1>1, <2>3, <2>4, SameReg
<1> QED
  BY <1>2, <1>3

AcrossAre(m, x, y, z, w, l) ==
  /\ Is(Minus(m[1][2], m[2][1]), 4 * (w * x), l)
  /\ Is(Minus(m[2][0], m[0][2]), 4 * (w * y), l)
  /\ Is(Minus(m[0][1], m[1][0]), 4 * (w * z), l)
  /\ Is(Plus(m[0][1], m[1][0]), 4 * (x * y), l)
  /\ Is(Plus(m[2][0], m[0][2]), 4 * (x * z), l)
  /\ Is(Plus(m[1][2], m[2][1]), 4 * (y * z), l)

\* Sums and differences across the diagonal, and signed sums of the diagonal.
LEMMA AcrossIs ==
    ASSUME NEW m, NEW x \in Int, NEW y \in Int, NEW z \in Int, NEW w \in Int, NEW l \in Int, l # 0,
           \A j, i \in Axis : Is(m[j][i], Entry(x, y, z, w, l, j, i), l)
    PROVE  AcrossAre(m, x, y, z, w, l)
<1>1. PICK xy, xz, yz, wx, wy, wz :
        /\ xy \in Int /\ xz \in Int /\ yz \in Int /\ wx \in Int /\ wy \in Int /\ wz \in Int
        /\ xy = x * y /\ xz = x * z /\ yz = y * z /\ wx = w * x /\ wy = w * y /\ wz = w * z
  <2>1. x * y \in Int /\ x * z \in Int /\ y * z \in Int /\ w * x \in Int /\ w * y \in Int /\ w * z \in Int
    OBVIOUS
  <2> QED
    BY <2>1
<1>2. /\ Is(m[0][1], 2 * wz + 2 * xy, l) /\ Is(m[0][2], 2 * xz - 2 * wy, l)
      /\ Is(m[1][0], 2 * xy - 2 * wz, l) /\ Is(m[1][2], 2 * wx + 2 * yz, l)
      /\ Is(m[2][0], 2 * wy + 2 * xz, l) /\ Is(m[2][1], 2 * yz - 2 * wx, l)
  <2>1. /\ Is(m[0][1], Entry(x, y, z, w, l, 0, 1), l) /\ Is(m[0][2], Entry(x, y, z, w, l, 0, 2), l)
        /\ Is(m[1][0], Entry(x, y, z, w, l, 1, 0), l) /\ Is(m[1][2], Entry(x, y, z, w, l, 1, 2), l)
        /\ Is(m[2][0], Entry(x, y, z, w, l, 2, 0), l) /\ Is(m[2][1], Entry(x, y, z, w, l, 2, 1), l)
    BY LaneSet
  <2> QED
    BY <1>1, <2>1 DEF Entry
<1>3. PICK a, b, c, f, g, h :
        /\ a = 2 * wz + 2 * xy /\ b = 2 * xz - 2 * wy /\ c = 2 * xy - 2 * wz
        /\ f = 2 * wx + 2 * yz /\ g = 2 * wy + 2 * xz /\ h = 2 * yz - 2 * wx
  OBVIOUS
<1>4. /\ Is(m[0][1], a, l) /\ Is(m[0][2], b, l) /\ Is(m[1][0], c, l)
      /\ Is(m[1][2], f, l) /\ Is(m[2][0], g, l) /\ Is(m[2][1], h, l)
  BY <1>2, <1>3
<1>5. /\ Is(Minus(m[1][2], m[2][1]), f - h, l) /\ Is(Minus(m[2][0], m[0][2]), g - b, l)
      /\ Is(Minus(m[0][1], m[1][0]), a - c, l)
  BY <1>4, MinusSame
<1>6. /\ Is(Plus(m[0][1], m[1][0]), a + c, l) /\ Is(Plus(m[2][0], m[0][2]), g + b, l)
      /\ Is(Plus(m[1][2], m[2][1]), f + h, l)
  BY <1>4, PlusSame
<1>7. /\ f - h = 4 * wx /\ g - b = 4 * wy /\ a - c = 4 * wz
      /\ a + c = 4 * xy /\ g + b = 4 * xz /\ f + h = 4 * yz
  <2>1. /\ xy \in Int /\ xz \in Int /\ yz \in Int /\ wx \in Int /\ wy \in Int /\ wz \in Int
    BY <1>1
  <2> QED
    BY <2>1, <1>3
<1> QED
  BY <1>1, <1>5, <1>6, <1>7 DEF AcrossAre

IsLength(x, y, z, w, l) == Length2Int(x, y, z, w) = l
Trace(m, a, b, c) == Plus4(Times(a, m[0][0]), Times(b, m[1][1]), Times(c, m[2][2]), One)

\* The four sums of the diagonal that QuatFromMatrix chooses from.
LEMMA TraceIs ==
    ASSUME NEW m, NEW x \in Int, NEW y \in Int, NEW z \in Int, NEW w \in Int, NEW l \in Int, l # 0, IsLength(x, y, z, w, l),
           \A j, i \in Axis : Is(m[j][i], Entry(x, y, z, w, l, j, i), l)
    PROVE  /\ Is(Trace(m, One, One, One), 4 * (w * w), l)
           /\ Is(Trace(m, One, Int2Q(-1), Int2Q(-1)), 4 * (x * x), l)
           /\ Is(Trace(m, Int2Q(-1), One, Int2Q(-1)), 4 * (y * y), l)
           /\ Is(Trace(m, Int2Q(-1), Int2Q(-1), One), 4 * (z * z), l)
<1>1. PICK xx, yy, zz, ww \in Int : xx = x * x /\ yy = y * y /\ zz = z * z /\ ww = w * w
  OBVIOUS
<1>2. PICK a, b, c \in Int : a = l - 2 * zz - 2 * yy /\ b = l - 2 * zz - 2 * xx /\ c = l - 2 * xx - 2 * yy
  OBVIOUS
<1>3. Is(m[0][0], a, l) /\ Is(m[1][1], b, l) /\ Is(m[2][2], c, l)
  <2>1. /\ Is(m[0][0], Entry(x, y, z, w, l, 0, 0), l) /\ Is(m[1][1], Entry(x, y, z, w, l, 1, 1), l)
        /\ Is(m[2][2], Entry(x, y, z, w, l, 2, 2), l)
    BY LaneSet
  <2> QED
    BY <1>1, <1>2, <2>1 DEF Entry
<1>4. l \in Int /\ l # 0 /\ l = xx + yy + zz + ww /\ Is(One, l, l)
  BY <1>1, ZeroIs DEF IsLength, Length2Int
<1>5. PICK k : k = Int2Q(-1)
  OBVIOUS
<1>6. \A r, n : Is(r, n, l) => Is(Times(One, r), n, l) /\ Is(Times(k, r), -n, l)
  <2> SUFFICES ASSUME NEW r, NEW n, Is(r, n, l) PROVE Is(Times(One, r), n, l) /\ Is(Times(k, r), -n, l)
    OBVIOUS
  <2>1. Times(One, r) = r /\ n \in Int
    BY Neutral, IsInts
  <2>2. PICK o, p \in Int : o = 1 /\ p = -1
    OBVIOUS
  <2>3. Is(Int2Q(p), p, o)
    BY <2>2, IntIs
  <2>4. Is(Times(Int2Q(p), r), p * n, o * l)
    BY <2>3, TimesIs
  <2>5. p * n = -n /\ o * l = l
    BY <1>4, <2>1, <2>2
  <2> QED
    BY <1>5, <2>1, <2>2, <2>4, <2>5
<1>7. PICK i, j, h \in Int : i = -a /\ j = -b /\ h = -c
  OBVIOUS
<1>8. /\ Is(Times(One, m[0][0]), a, l) /\ Is(Times(One, m[1][1]), b, l) /\ Is(Times(One, m[2][2]), c, l)
      /\ Is(Times(k, m[0][0]), i, l) /\ Is(Times(k, m[1][1]), j, l) /\ Is(Times(k, m[2][2]), h, l)
  BY <1>3, <1>6, <1>7
<1>9. /\ Is(Trace(m, One, One, One), a + b + c + l, l)
      /\ Is(Trace(m, One, k, k), a + j + h + l, l)
      /\ Is(Trace(m, k, One, k), i + b + h + l, l)
      /\ Is(Trace(m, k, k, One), i + j + c + l, l)
  BY <1>4, <1>8, Sum4Is DEF Trace
<1>10. /\ a + b + c + l = 4 * ww /\ a + j + h + l = 4 * xx
       /\ i + b + h + l = 4 * yy /\ i + j + c + l = 4 * zz
  BY <1>2, <1>4, <1>7
<1> QED
  BY <1>1, <1>5, <1>9, <1>10

Half(t) == Over(Q(1, 2), SqrtQ(t))
FromW(m, t, s) == Ps(Times(Minus(m[1][2], m[2][1]), s), Times(Minus(m[2][0], m[0][2]), s),
                     Times(Minus(m[0][1], m[1][0]), s), Times(s, t))
FromX(m, t, s) == Ps(Times(s, t), Times(Plus(m[0][1], m[1][0]), s),
                     Times(Plus(m[2][0], m[0][2]), s), Times(Minus(m[1][2], m[2][1]), s))
FromY(m, t, s) == Ps(Times(Plus(m[0][1], m[1][0]), s), Times(s, t),
                     Times(Plus(m[1][2], m[2][1]), s), Times(Minus(m[2][0], m[0][2]), s))
FromZ(m, t, s) == Ps(Times(Plus(m[2][0], m[0][2]), s), Times(Plus(m[1][2], m[2][1]), s),
                     Times(s, t), Times(Minus(m[0][1], m[1][0]), s))

\* The four branches of QuatFromMatrix, by the component they divide by.
LEMMA Branches ==
    ASSUME NEW m
    PROVE  LET tw == Trace(m, One, One, One)
               tx == Trace(m, One, Int2Q(-1), Int2Q(-1))
               ty == Trace(m, Int2Q(-1), One, Int2Q(-1))
               tz == Trace(m, Int2Q(-1), Int2Q(-1), One)
           IN  QuatFromMatrix(m) =
                 IF Less(One, tw) THEN FromW(m, tw, Half(tw))
                 ELSE IF Less(m[1][1], m[0][0]) /\ Less(m[2][2], m[0][0]) THEN FromX(m, tx, Half(tx))
                 ELSE IF Less(m[2][2], m[1][1]) THEN FromY(m, ty, Half(ty))
                 ELSE FromZ(m, tz, Half(tz))
<1>1. /\ 0 \div 4 = 0 /\ 1 \div 4 = 0 /\ 2 \div 4 = 0 /\ 4 \div 4 = 1 /\ 5 \div 4 = 1
      /\ 6 \div 4 = 1 /\ 8 \div 4 = 2 /\ 9 \div 4 = 2 /\ 10 \div 4 = 2
      /\ 0 % 4 = 0 /\ 1 % 4 = 1 /\ 2 % 4 = 2 /\ 4 % 4 = 0 /\ 5 % 4 = 1
      /\ 6 % 4 = 2 /\ 8 % 4 = 0 /\ 9 % 4 = 1 /\ 10 % 4 = 2
  OBVIOUS
<1> QED
  BY <1>1 DEF QuatFromMatrix, Trace, Half, FromW, FromX, FromY, FromZ

Quarter(a, c, v, d) == Is(a, 4 * (c * v), d * d)

Quarters(a0, a1, a2, a3, c, x, y, z, w, d) ==
  Quarter(a0, c, x, d) /\ Quarter(a1, c, y, d) /\ Quarter(a2, c, z, d) /\ Quarter(a3, c, w, d)
Built(p, t, a0, a1, a2, a3) ==
  /\ IsReg(p)
  /\ p[0] \in {Times(a0, Half(t)), Times(Half(t), a0)}
  /\ p[1] \in {Times(a1, Half(t)), Times(Half(t), a1)}
  /\ p[2] \in {Times(a2, Half(t)), Times(Half(t), a2)}
  /\ p[3] \in {Times(a3, Half(t)), Times(Half(t), a3)}

\* A branch of QuatFromMatrix gives the quaternion up to sign.
LEMMA OneBranch ==
    ASSUME NEW q \in V4, NEW x \in Int, NEW y \in Int, NEW z \in Int, NEW w \in Int, NEW d \in Int, d > 0,
           Is(q[0], x, d), Is(q[1], y, d), Is(q[2], z, d), Is(q[3], w, d),
           NEW c \in Int, c # 0, NEW t, Quarter(t, c, c, d),
           NEW a0, NEW a1, NEW a2, NEW a3, Quarters(a0, a1, a2, a3, c, x, y, z, w, d),
           NEW p, Built(p, t, a0, a1, a2, a3)
    PROVE  p \in {q, Opposite(q)}
<1>1. PICK e \in {1, -1} : e * c > 0 /\ Is(Half(t), d, 4 * (e * c))
  BY HalfOverRoot DEF Half, Quarter
<1>2. ASSUME NEW a, NEW v \in Int, NEW r, Quarter(a, c, v, d), r \in {Times(a, Half(t)), Times(Half(t), a)}
      PROVE  Is(r, e * v, d)
  BY <1>1, <1>2, ComponentIs DEF Quarter
<1>3. Is(p[0], e * x, d) /\ Is(p[1], e * y, d) /\ Is(p[2], e * z, d) /\ Is(p[3], e * w, d)
  BY <1>2 DEF Quarters, Built
<1> QED
  BY <1>3, SignedQuat DEF Built

LargerOnes(m, x, y, z, w, l) ==
  /\ Less(One, Trace(m, One, One, One)) <=> l < 4 * (w * w)
  /\ Less(m[1][1], m[0][0]) <=> y * y < x * x
  /\ Less(m[2][2], m[0][0]) <=> z * z < x * x
  /\ Less(m[2][2], m[1][1]) <=> z * z < y * y

\* What the comparisons of diagonal entries say of the components.
LEMMA LargeComponent ==
    ASSUME NEW m, NEW x \in Int, NEW y \in Int, NEW z \in Int, NEW w \in Int, NEW l \in Int, l > 0,
           IsLength(x, y, z, w, l),
           \A j, i \in Axis : Is(m[j][i], Entry(x, y, z, w, l, j, i), l)
    PROVE  LargerOnes(m, x, y, z, w, l)
<1>1. PICK xx, yy, zz, ww : xx = x * x /\ yy = y * y /\ zz = z * z /\ ww = w * w
  OBVIOUS
<1>2. xx \in Int /\ yy \in Int /\ zz \in Int /\ ww \in Int
  BY <1>1
<1>3. PICK a, b, c, f : /\ a = l - 2 * zz - 2 * yy /\ b = l - 2 * zz - 2 * xx
                        /\ c = l - 2 * xx - 2 * yy /\ f = 4 * ww
  OBVIOUS
<1>4. a \in Int /\ b \in Int /\ c \in Int /\ f \in Int
  BY <1>2, <1>3
<1>5. Is(m[0][0], a, l) /\ Is(m[1][1], b, l) /\ Is(m[2][2], c, l)
  <2>1. /\ Is(m[0][0], Entry(x, y, z, w, l, 0, 0), l) /\ Is(m[1][1], Entry(x, y, z, w, l, 1, 1), l)
        /\ Is(m[2][2], Entry(x, y, z, w, l, 2, 2), l)
    BY LaneSet
  <2> QED
    BY <1>1, <1>3, <2>1 DEF Entry
<1>6. Is(One, l, l) /\ Is(Trace(m, One, One, One), f, l)
  <2>1. l # 0
    OBVIOUS
  <2>2. Is(Trace(m, One, One, One), 4 * (w * w), l)
    BY <2>1, TraceIs
  <2> QED
    BY <1>1, <1>3, <2>1, <2>2, ZeroIs
<1>7. \A n, k \in Int : n * l < k * l <=> n < k
  <2> SUFFICES ASSUME NEW n \in Int, NEW k \in Int PROVE n * l < k * l <=> n < k
    OBVIOUS
  <2>1. CASE n < k
    <3>1. (k - n) * l > 0
      BY <2>1
    <3> QED
      BY <2>1, <3>1
  <2>2. CASE ~(n < k)
    <3>1. (n - k) * l >= 0
      BY <2>2
    <3> QED
      BY <2>2, <3>1
  <2> QED
    BY <2>1, <2>2
<1>8. /\ Less(One, Trace(m, One, One, One)) <=> l * l < f * l
      /\ Less(m[1][1], m[0][0]) <=> b * l < a * l
      /\ Less(m[2][2], m[0][0]) <=> c * l < a * l
      /\ Less(m[2][2], m[1][1]) <=> c * l < b * l
  BY <1>5, <1>6, LessIs
<1>9. /\ Less(One, Trace(m, One, One, One)) <=> l < f
      /\ Less(m[1][1], m[0][0]) <=> b < a
      /\ Less(m[2][2], m[0][0]) <=> c < a
      /\ Less(m[2][2], m[1][1]) <=> c < b
  BY <1>4, <1>7, <1>8
<1>10. (b < a <=> yy < xx) /\ (c < a <=> zz < xx) /\ (c < b <=> zz < yy)
  BY <1>2, <1>3
<1> QED
  BY <1>1, <1>3, <1>9, <1>10 DEF LargerOnes

\* QuatFromMatrix (EasyQuat.h:249) reads every rotation off its matrix: through
\* each of its four branches the result is the quaternion up to sign.
THEOREM QuaternionReadOff ==
    ASSUME NEW q, IsUnit(q), NEW m, \A j, i \in Axis : m[j][i] = RotationOf(q)[j][i]
    PROVE  QuatFromMatrix(m) \in {q, Opposite(q)}
<1>1. PICK x, y, z, w, d \in Int :
        /\ d > 0 /\ Is(q[0], x, d) /\ Is(q[1], y, d) /\ Is(q[2], z, d) /\ Is(q[3], w, d)
        /\ Length2Int(x, y, z, w) = d * d
  BY UnitParts
<1>2. PICK l : l = d * d
  OBVIOUS
<1>3. q \in V4
  BY DEF IsUnit
<1>4. l \in Int /\ l > 0 /\ IsLength(x, y, z, w, l)
  BY <1>1, <1>2 DEF IsLength
<1>5. \A j, i \in Axis : Is(m[j][i], Entry(x, y, z, w, l, j, i), l)
  <2> SUFFICES ASSUME NEW j \in Axis, NEW i \in Axis PROVE Is(m[j][i], Entry(x, y, z, w, l, j, i), l)
    OBVIOUS
  <2>1. Is(RotationOf(q)[j][i], IntRot(x, y, z, w, l)[j][i], l)
    BY <1>1, <1>2, <1>3, RotationInts, LaneSet
  <2>2. IntRot(x, y, z, w, l)[j][i] = Entry(x, y, z, w, l, j, i)
    BY LaneSet DEF IntRot
  <2> QED
    BY <2>1, <2>2
<1>6. PICK tw, tx, ty, tz :
        /\ tw = Trace(m, One, One, One) /\ tx = Trace(m, One, Int2Q(-1), Int2Q(-1))
        /\ ty = Trace(m, Int2Q(-1), One, Int2Q(-1)) /\ tz = Trace(m, Int2Q(-1), Int2Q(-1), One)
  OBVIOUS
<1>7. Is(tw, 4 * (w * w), l) /\ Is(tx, 4 * (x * x), l) /\ Is(ty, 4 * (y * y), l) /\ Is(tz, 4 * (z * z), l)
  BY <1>4, <1>5, <1>6, TraceIs
<1>8. PICK dx, dy, dz, pz, py, px :
        /\ dx = Minus(m[1][2], m[2][1]) /\ dy = Minus(m[2][0], m[0][2]) /\ dz = Minus(m[0][1], m[1][0])
        /\ pz = Plus(m[0][1], m[1][0]) /\ py = Plus(m[2][0], m[0][2]) /\ px = Plus(m[1][2], m[2][1])
  OBVIOUS
<1>9. /\ Is(dx, 4 * (w * x), l) /\ Is(dy, 4 * (w * y), l) /\ Is(dz, 4 * (w * z), l)
      /\ Is(pz, 4 * (x * y), l) /\ Is(py, 4 * (x * z), l) /\ Is(px, 4 * (y * z), l)
  <2>1. AcrossAre(m, x, y, z, w, l)
    BY <1>1, <1>4, <1>5, AcrossIs
  <2> QED
    BY <1>8, <2>1 DEF AcrossAre
<1>10. /\ w * x = x * w /\ w * y = y * w /\ w * z = z * w
       /\ x * y = y * x /\ x * z = z * x /\ y * z = z * y
  BY <1>1
<1>17. /\ Quarter(dx, w, x, d) /\ Quarter(dx, x, w, d) /\ Quarter(dy, w, y, d) /\ Quarter(dy, y, w, d)
       /\ Quarter(dz, w, z, d) /\ Quarter(dz, z, w, d) /\ Quarter(pz, x, y, d) /\ Quarter(pz, y, x, d)
       /\ Quarter(py, x, z, d) /\ Quarter(py, z, x, d) /\ Quarter(px, y, z, d) /\ Quarter(px, z, y, d)
       /\ Quarter(tw, w, w, d) /\ Quarter(tx, x, x, d) /\ Quarter(ty, y, y, d) /\ Quarter(tz, z, z, d)
  BY <1>2, <1>7, <1>9, <1>10 DEF Quarter
<1>11. QuatFromMatrix(m) =
         IF Less(One, tw) THEN FromW(m, tw, Half(tw))
         ELSE IF Less(m[1][1], m[0][0]) /\ Less(m[2][2], m[0][0]) THEN FromX(m, tx, Half(tx))
         ELSE IF Less(m[2][2], m[1][1]) THEN FromY(m, ty, Half(ty))
         ELSE FromZ(m, tz, Half(tz))
  BY <1>6, Branches
<1>12. /\ Less(One, tw) <=> l < 4 * (w * w)
       /\ Less(m[1][1], m[0][0]) <=> y * y < x * x
       /\ Less(m[2][2], m[0][0]) <=> z * z < x * x
       /\ Less(m[2][2], m[1][1]) <=> z * z < y * y
  <2>1. LargerOnes(m, x, y, z, w, l)
    BY <1>1, <1>4, <1>5, LargeComponent
  <2> QED
    BY <1>6, <2>1 DEF LargerOnes
<1>13. CASE Less(One, tw)
  <2>1. PICK p : p = FromW(m, tw, Half(tw))
    OBVIOUS
  <2>2. Built(p, tw, dx, dy, dz, tw)
    BY <1>8, <2>1, PsAt, PsReg DEF FromW, Built
  <2>3. w # 0
    <3>1. ASSUME w = 0 PROVE FALSE
      BY <1>4, <1>12, <1>13, <3>1
    <3> QED
      BY <3>1
  <2>5. Quarters(dx, dy, dz, tw, w, x, y, z, w, d) /\ Quarter(tw, w, w, d)
    BY <1>17 DEF Quarters
  <2>4. p \in {q, Opposite(q)}
    BY <1>1, <1>3, <2>2, <2>3, <2>5, OneBranch
  <2> QED
    BY <1>11, <1>13, <2>1, <2>4
<1>14. CASE ~Less(One, tw) /\ Less(m[1][1], m[0][0]) /\ Less(m[2][2], m[0][0])
  <2>1. PICK p : p = FromX(m, tx, Half(tx))
    OBVIOUS
  <2>2. Built(p, tx, tx, pz, py, dx)
    BY <1>8, <2>1, PsAt, PsReg DEF FromX, Built
  <2>3. x # 0
    <3>1. ASSUME x = 0 PROVE FALSE
      <4>1. y * y >= 0
        BY <1>1
      <4> QED
        BY <1>1, <1>12, <1>14, <3>1, <4>1
    <3> QED
      BY <3>1
  <2>5. Quarters(tx, pz, py, dx, x, x, y, z, w, d) /\ Quarter(tx, x, x, d)
    BY <1>17 DEF Quarters
  <2>4. p \in {q, Opposite(q)}
    BY <1>1, <1>3, <2>2, <2>3, <2>5, OneBranch
  <2> QED
    BY <1>11, <1>14, <2>1, <2>4
<1>15. CASE ~Less(One, tw) /\ ~(Less(m[1][1], m[0][0]) /\ Less(m[2][2], m[0][0])) /\ Less(m[2][2], m[1][1])
  <2>1. PICK p : p = FromY(m, ty, Half(ty))
    OBVIOUS
  <2>2. Built(p, ty, pz, ty, px, dy)
    BY <1>8, <2>1, PsAt, PsReg DEF FromY, Built
  <2>3. y # 0
    <3>1. ASSUME y = 0 PROVE FALSE
      <4>1. z * z >= 0
        BY <1>1
      <4> QED
        BY <1>1, <1>12, <1>15, <3>1, <4>1
    <3> QED
      BY <3>1
  <2>5. Quarters(pz, ty, px, dy, y, x, y, z, w, d) /\ Quarter(ty, y, y, d)
    BY <1>17 DEF Quarters
  <2>4. p \in {q, Opposite(q)}
    BY <1>1, <1>3, <2>2, <2>3, <2>5, OneBranch
  <2> QED
    BY <1>11, <1>15, <2>1, <2>4
<1>16. CASE ~Less(One, tw) /\ ~(Less(m[1][1], m[0][0]) /\ Less(m[2][2], m[0][0])) /\ ~Less(m[2][2], m[1][1])
  <2>1. PICK p : p = FromZ(m, tz, Half(tz))
    OBVIOUS
  <2>2. Built(p, tz, py, px, tz, dz)
    BY <1>8, <2>1, PsAt, PsReg DEF FromZ, Built
  <2>3. z # 0
    <3>1. ASSUME z = 0 PROVE FALSE
      <4>1. PICK xx, yy, ww : xx = x * x /\ yy = y * y /\ ww = w * w
        OBVIOUS
      <4>2. xx \in Int /\ yy \in Int /\ ww \in Int /\ xx >= 0 /\ yy >= 0 /\ ww >= 0
        BY <1>1, <4>1
      <4>3. z * z = 0
        BY <3>1
      <4>4. l = xx + yy + ww
        BY <1>4, <4>1, <4>2, <4>3 DEF IsLength, Length2Int
      <4>5. yy <= 0 /\ ~(yy < xx /\ 0 < xx) /\ ~(l < 4 * ww)
        BY <1>12, <1>16, <4>1, <4>2, <4>3
      <4> QED
        BY <1>4, <4>2, <4>4, <4>5
    <3> QED
      BY <3>1
  <2>5. Quarters(py, px, tz, dz, z, x, y, z, w, d) /\ Quarter(tz, z, z, d)
    BY <1>17 DEF Quarters
  <2>4. p \in {q, Opposite(q)}
    BY <1>1, <1>3, <2>2, <2>3, <2>5, OneBranch
  <2> QED
    BY <1>11, <1>16, <2>1, <2>4
<1> QED
  BY <1>13, <1>14, <1>15, <1>16

(***************************************************************************)
(* The products of single calls.                                           *)
(***************************************************************************)

\* The constant matrices consist of numbers.
LEMMA ConstantMatrices == TurnY \in M4 /\ TurnYZ \in M4 /\ IdentityMatrix \in M4
<1>1. \A x, y, z, w \in Int : Vec(x, y, z, w) \in V4
  BY VecIs, V4Reg, Constants, LaneSet
<1>2. \A a, b, c, d \in V4 : Rows(a, b, c, d) \in M4
  BY PsType DEF Rows, M4
<1>3. PICK one \in Int : one = -1
  OBVIOUS
<1>4. /\ Vec(1, 0, 0, 0) \in V4 /\ Vec(0, 1, 0, 0) \in V4
      /\ Vec(0, 0, 1, 0) \in V4 /\ Vec(0, 0, 0, 1) \in V4
  BY <1>1
<1>5. Vec(0, 0, one, 0) \in V4 /\ Vec(0, one, 0, 0) \in V4
  BY <1>1
<1>6. Vec(0, 0, -1, 0) \in V4 /\ Vec(0, -1, 0, 0) \in V4
  BY <1>3, <1>5
<1>7. TurnYZ \in M4
  BY <1>2, <1>4, <1>6 DEF TurnYZ
<1>8. TurnY \in M4
  BY <1>2, <1>4, <1>6 DEF TurnY
<1> QED
  BY <1>7, <1>8, IdentityIs

\* The rotations of both sets of overloads, put before what m does.
LEMMA RotateQuatIs ==
    ASSUME NEW n \in M4, NEW r \in V4, IsNumber(SqrtQ(Length2(r))), ~Less(Length2(r), Tiny)
    PROVE  /\ Easy_matrix_rotate_quat(n, r) = Mul(RotationOf(r), n)
           /\ Easy_matrix_rotate_quat_sse(n, r) = Mul(RotationOf(r), n)
           /\ RotationOf(r) \in M4
<1>1. PICK R : R = RotationOf(r)
  OBVIOUS
<1>2. R \in M4 /\ Easy_quat_to_matrix(Easy_quat_normalize_sse(r)) = R
  BY <1>1, RotationAlike
<1>3. PICK mem : mem = [m |-> n, R |-> R]
  OBVIOUS
<1>4. mem \in [{"m", "R"} -> M4] /\ mem["m"] = n /\ mem["R"] = R
  BY <1>2, <1>3
<1>5. Easy_matrix_mult(mem, "m", "m", "R") = [mem EXCEPT !["m"] = Mul(R, n)]
  BY <1>4, ProductInPlace
<1>6. Easy_matrix_mult_sse(mem, "m", "m", "R") = [mem EXCEPT !["m"] = Mul(R, n)]
  BY <1>4, ProductInPlaceSse
<1>7. [mem EXCEPT !["m"] = Mul(R, n)].m = Mul(R, n)
  BY <1>4
<1> QED
  BY <1>1, <1>2, <1>3, <1>5, <1>6, <1>7 DEF Easy_matrix_rotate_quat, Easy_matrix_rotate_quat_sse

\* Both products of Mirror, with their outputs where they are, are the product.
LEMMA MirrorIs ==
    ASSUME NEW n \in M4
    PROVE  /\ Easy_matrix_mult([m |-> n, k |-> TurnY, o |-> n], "o", "k", "m").o = Mul(n, TurnY)
           /\ mm_mul_matrix([s |-> n, k |-> TurnY], "k", "s", "s").s = Mul(n, TurnY)
<1>1. PICK mem : mem = [m |-> n, k |-> TurnY, o |-> n]
  OBVIOUS
<1>2. mem \in [{"m", "k", "o"} -> M4] /\ mem["m"] = n /\ mem["k"] = TurnY
  BY <1>1, ConstantMatrices
<1>3. Easy_matrix_mult(mem, "o", "k", "m") = [mem EXCEPT !["o"] = Mul(n, TurnY)]
  BY <1>2, ProductInPlace
<1>4. [mem EXCEPT !["o"] = Mul(n, TurnY)].o = Mul(n, TurnY)
  BY <1>2
<1>5. PICK two : two = [s |-> n, k |-> TurnY]
  OBVIOUS
<1>6. two \in [{"s", "k"} -> M4] /\ two["s"] = n /\ two["k"] = TurnY
  BY <1>5, ConstantMatrices
<1>7. mm_mul_matrix(two, "k", "s", "s") = [two EXCEPT !["s"] = Mul(n, TurnY)]
  BY <1>6, MmMul
<1>8. [two EXCEPT !["s"] = Mul(n, TurnY)].s = Mul(n, TurnY)
  BY <1>6
<1> QED
  BY <1>1, <1>3, <1>4, <1>5, <1>7, <1>8

\* Both products of SwapYZ, written over an input, are the product.
LEMMA SwapYZIs ==
    ASSUME NEW n \in M4
    PROVE  /\ Easy_matrix_mult([m |-> n, k |-> TurnYZ], "m", "m", "k").m = Mul(TurnYZ, n)
           /\ Easy_matrix_mult_sse([s |-> n, k |-> TurnYZ], "s", "s", "k").s = Mul(TurnYZ, n)
<1>1. PICK mem : mem = [m |-> n, k |-> TurnYZ]
  OBVIOUS
<1>2. mem \in [{"m", "k"} -> M4] /\ mem["m"] = n /\ mem["k"] = TurnYZ
  BY <1>1, ConstantMatrices
<1>3. Easy_matrix_mult(mem, "m", "m", "k") = [mem EXCEPT !["m"] = Mul(TurnYZ, n)]
  BY <1>2, ProductInPlace
<1>4. [mem EXCEPT !["m"] = Mul(TurnYZ, n)].m = Mul(TurnYZ, n)
  BY <1>2
<1>5. PICK two : two = [s |-> n, k |-> TurnYZ]
  OBVIOUS
<1>6. two \in [{"s", "k"} -> M4] /\ two["s"] = n /\ two["k"] = TurnYZ
  BY <1>5, ConstantMatrices
<1>7. Easy_matrix_mult_sse(two, "s", "s", "k") = [two EXCEPT !["s"] = Mul(TurnYZ, n)]
  BY <1>6, ProductInPlaceSse
<1>8. [two EXCEPT !["s"] = Mul(TurnYZ, n)].s = Mul(TurnYZ, n)
  BY <1>6
<1> QED
  BY <1>1, <1>3, <1>4, <1>5, <1>7, <1>8

(***************************************************************************)
(* Matrices with a last column of 0 0 0 1, and those that only turn.       *)
(***************************************************************************)

\* A matrix whose last column is 0 0 0 1, and one whose last row is, too.
Affine(m) == m \in M4 /\ \A j \in Lane : m[j][3] = IF j = 3 THEN One ELSE Zero
Linear(m) == Affine(m) /\ \A i \in Lane : m[3][i] = IF i = 3 THEN One ELSE Zero

\* A product with a matrix whose last column is 0 0 0 1 on the right.
LEMMA LastColumn ==
    ASSUME NEW x \in M4, NEW y, Affine(y)
    PROVE  \A j \in Lane : Mul(x, y)[j][3] = x[j][3]
<1> SUFFICES ASSUME NEW j \in Lane PROVE Mul(x, y)[j][3] = x[j][3]
  OBVIOUS
<1>1. y[0][3] = Zero /\ y[1][3] = Zero /\ y[2][3] = Zero /\ y[3][3] = One
  BY LaneSet DEF Affine
<1>2. x[j][0] \in Num /\ x[j][1] \in Num /\ x[j][2] \in Num /\ x[j][3] \in Num
  BY M4Mat, LaneSet
<1>3. Mul(x, y)[j][3] = Plus4(Times(x[j][0], y[0][3]), Times(x[j][1], y[1][3]),
                              Times(x[j][2], y[2][3]), Times(x[j][3], y[3][3]))
  BY LaneSet DEF Mul
<1> QED
  BY <1>1, <1>2, <1>3, Neutral, Constants DEF Plus4, Plus3

\* Products keep such a column ...
LEMMA MulAffine ==
    ASSUME NEW x, NEW y, Affine(x), Affine(y)
    PROVE  Affine(Mul(x, y))
  BY LastColumn, MulClosed DEF Affine

\* ... and so does an inverse.
LEMMA InverseAffine ==
    ASSUME NEW m, Affine(m), NEW y \in M4, Mul(y, m) = IdentityMatrix
    PROVE  Affine(y)
  BY LastColumn, IdentityIs, LaneSet DEF Affine

\* A product with a matrix whose last row is 0 0 0 1, too, on the left.
LEMMA LastRow ==
    ASSUME NEW x, NEW y, Linear(x), y \in M4
    PROVE  \A i \in Lane : Mul(x, y)[3][i] = y[3][i]
<1> SUFFICES ASSUME NEW i \in Lane PROVE Mul(x, y)[3][i] = y[3][i]
  OBVIOUS
<1>1. x[3][0] = Zero /\ x[3][1] = Zero /\ x[3][2] = Zero /\ x[3][3] = One
  BY LaneSet DEF Linear
<1>2. y[0][i] \in Num /\ y[1][i] \in Num /\ y[2][i] \in Num /\ y[3][i] \in Num
  BY M4Mat, LaneSet
<1>3. Mul(x, y)[3][i] = Plus4(Times(x[3][0], y[0][i]), Times(x[3][1], y[1][i]),
                              Times(x[3][2], y[2][i]), Times(x[3][3], y[3][i]))
  BY LaneSet DEF Mul
<1> QED
  BY <1>1, <1>2, <1>3, Neutral, Constants DEF Plus4, Plus3

\* Products keep such a row.
LEMMA MulLinear ==
    ASSUME NEW x, NEW y, Linear(x), Linear(y)
    PROVE  Linear(Mul(x, y))
  BY MulAffine, LastRow DEF Linear, Affine

\* So does the transpose, and twice transposed is not at all.
LEMMA TransposeLinear ==
    ASSUME NEW m, Linear(m)
    PROVE  Linear(T4(m)) /\ T4(T4(m)) = m
<1>1. m \in M4 /\ IsMat(m)
  BY M4Mat DEF Linear, Affine
<1>2. T4(m) \in M4
  BY <1>1, M4Mat, T4Mat, MatM4
<1>3. Linear(T4(m))
  BY <1>2, T4Mat, LaneSet DEF Linear, Affine
<1> QED
  BY <1>1, <1>3, T4Mat, SameMat

\* The transpose of a product.
LEMMA TransposeProduct ==
    ASSUME NEW x \in M4, NEW y \in M4
    PROVE  T4(Mul(x, y)) = Mul(T4(y), T4(x))
<1>1. ASSUME NEW j \in Lane, NEW i \in Lane PROVE Mul(x, y)[i][j] = Mul(T4(y), T4(x))[j][i]
  <2>1. x[i][0] \in Num /\ x[i][1] \in Num /\ x[i][2] \in Num /\ x[i][3] \in Num
    BY M4Mat, LaneSet
  <2>2. y[0][j] \in Num /\ y[1][j] \in Num /\ y[2][j] \in Num /\ y[3][j] \in Num
    BY M4Mat, LaneSet
  <2>3. Mul(x, y)[i][j] = Plus4(Times(x[i][0], y[0][j]), Times(x[i][1], y[1][j]),
                                Times(x[i][2], y[2][j]), Times(x[i][3], y[3][j]))
    BY DEF Mul
  <2>4. Mul(T4(y), T4(x))[j][i] = Plus4(Times(y[0][j], x[i][0]), Times(y[1][j], x[i][1]),
                                        Times(y[2][j], x[i][2]), Times(y[3][j], x[i][3]))
    BY T4Mat, LaneSet DEF Mul
  <2>5. /\ Times(x[i][0], y[0][j]) = Times(y[0][j], x[i][0])
        /\ Times(x[i][1], y[1][j]) = Times(y[1][j], x[i][1])
        /\ Times(x[i][2], y[2][j]) = Times(y[2][j], x[i][2])
        /\ Times(x[i][3], y[3][j]) = Times(y[3][j], x[i][3])
    BY <2>1, <2>2, TimesCommutes
  <2> QED
    BY <2>3, <2>4, <2>5
<1> QED
  BY <1>1, T4Mat, MulMat, SameMat

\* A matrix that only turns or mirrors: its transpose is its inverse.
Turning(m) == Linear(m) /\ Mul(m, T4(m)) = IdentityMatrix /\ Mul(T4(m), m) = IdentityMatrix

\* Two turns are a turn.
LEMMA MulTurning ==
    ASSUME NEW x, NEW y, Turning(x), Turning(y)
    PROVE  Turning(Mul(x, y))
<1>1. x \in M4 /\ y \in M4 /\ T4(x) \in M4 /\ T4(y) \in M4
  BY TransposeLinear DEF Turning, Linear, Affine
<1>2. PICK u, v : u = T4(x) /\ v = T4(y)
  OBVIOUS
<1>3. ASSUME NEW a \in M4, NEW b \in M4, NEW c \in M4, NEW d \in M4,
             Mul(b, c) = IdentityMatrix, Mul(a, d) = IdentityMatrix
      PROVE  Mul(Mul(a, b), Mul(c, d)) = IdentityMatrix
  <2>1. Mul(Mul(a, b), Mul(c, d)) = Mul(a, Mul(b, Mul(c, d)))
    BY MulAssociates, MulClosed
  <2>2. Mul(b, Mul(c, d)) = Mul(Mul(b, c), d)
    BY MulAssociates
  <2>3. Mul(IdentityMatrix, d) = d
    BY MulIdentity
  <2> QED
    BY <1>3, <2>1, <2>2, <2>3
<1>4. Mul(Mul(x, y), Mul(v, u)) = IdentityMatrix
  BY <1>1, <1>2, <1>3 DEF Turning
<1>5. Mul(Mul(v, u), Mul(x, y)) = IdentityMatrix
  BY <1>1, <1>2, <1>3 DEF Turning
<1>6. T4(Mul(x, y)) = Mul(v, u)
  BY <1>1, <1>2, TransposeProduct
<1> QED
  BY <1>4, <1>5, <1>6, MulLinear DEF Turning

\* A turn transposed is a turn.
LEMMA TransposeTurning ==
    ASSUME NEW m, Turning(m)
    PROVE  Turning(T4(m))
  BY TransposeLinear DEF Turning

\* The inverse of a turn is its transpose.
LEMMA InverseTurning ==
    ASSUME NEW m, Turning(m), NEW y \in M4, Mul(m, y) = IdentityMatrix
    PROVE  y = T4(m)
<1>1. m \in M4 /\ T4(m) \in M4
  BY TransposeLinear DEF Turning, Linear, Affine
<1> QED
  BY <1>1, OneInverse DEF Turning

\* The matrix of Easy_matrix_rotate_quat turns.
LEMMA RotationTurning ==
    ASSUME NEW q \in V4, IsNumber(SqrtQ(Length2(q))), ~Less(Length2(q), Tiny)
    PROVE  Turning(RotationOf(q))
<1>1. PICK n : n = Easy_quat_normalize_sse(q)
  OBVIOUS
<1>2. IsUnit(n) /\ RotationOf(n) = RotationOf(q)
  BY <1>1, NormalizedUnit
<1>3. /\ Mul(RotationOf(n), T4(RotationOf(n))) = IdentityMatrix
      /\ Mul(T4(RotationOf(n)), RotationOf(n)) = IdentityMatrix /\ RotationOf(n) \in M4
  BY <1>2, TurnedBack, UnitMatrix
<1>4. PICK x, y, z, w, d \in Int :
        d > 0 /\ Is(q[0], x, d) /\ Is(q[1], y, d) /\ Is(q[2], z, d) /\ Is(q[3], w, d)
  BY CommonQ
<1>5. PICK R : R = RotationOf(q)
  OBVIOUS
<1>6. R[0][3] = Zero /\ R[1][3] = Zero /\ R[2][3] = Zero /\ R[3] = Vec(0, 0, 0, 1)
  <2>1. PICK l : l = Length2Int(x, y, z, w)
    OBVIOUS
  <2> QED
    BY <1>4, <1>5, <2>1, RotationIs
<1>7. R[3][0] = Zero /\ R[3][1] = Zero /\ R[3][2] = Zero /\ R[3][3] = One
  BY <1>6, VecIs DEF Zero, One
<1>8. Linear(R)
  BY <1>2, <1>3, <1>5, <1>6, <1>7, LaneSet DEF Linear, Affine
<1> QED
  BY <1>2, <1>3, <1>5, <1>8 DEF Turning

\* The matrix of a quaternion of length one turns.
LEMMA UnitTurning ==
    ASSUME NEW q, IsUnit(q)
    PROVE  Turning(RotationOf(q))
  BY RotationTurning, UnitOne DEF IsUnit

\* Not turning is a turn.
LEMMA IdentityTurning == Turning(IdentityMatrix)
  BY UnitTurning, NoTurnIs

\* Two matrices with the same upper left 3x3 block.
Block(a, b) == \A j, i \in Axis : a[j][i] = b[j][i]

\* A row of a product whose left factor has a last column of 0 0 0 1.
LEMMA BlockProduct ==
    ASSUME NEW x, Affine(x), NEW y \in M4, NEW z \in M4, Block(y, z)
    PROVE  Block(Mul(x, y), Mul(x, z))
<1> SUFFICES ASSUME NEW j \in Axis, NEW i \in Axis PROVE Mul(x, y)[j][i] = Mul(x, z)[j][i]
  BY DEF Block
<1>1. j \in Lane /\ i \in Lane /\ x[j][3] = Zero
  BY LaneSet DEF Affine
<1>2. y[0][i] = z[0][i] /\ y[1][i] = z[1][i] /\ y[2][i] = z[2][i]
  BY LaneSet DEF Block
<1>3. y[3][i] \in Num /\ z[3][i] \in Num
  BY <1>1, M4Mat, LaneSet
<1>4. Times(x[j][3], y[3][i]) = Times(x[j][3], z[3][i])
  BY <1>1, <1>3, Neutral
<1> QED
  BY <1>1, <1>2, <1>4 DEF Mul

\* The inverse of a rigid motion turns back.
LEMMA InverseBlock ==
    ASSUME NEW m, Affine(m), NEW R, Turning(R), Block(m, R), NEW y \in M4, Mul(y, m) = IdentityMatrix
    PROVE  Block(y, T4(R))
<1>1. Affine(y) /\ R \in M4 /\ T4(R) \in M4
  BY InverseAffine, TransposeLinear DEF Turning, Linear, Affine
<1>2. PICK k : k = [j \in Lane |-> [i \in Lane |-> IF j = 3 THEN IF i = 3 THEN One ELSE Zero ELSE y[j][i]]]
  OBVIOUS
<1>3. IsMat(k) /\ \A j, i \in Lane : k[j][i] = IF j = 3 THEN IF i = 3 THEN One ELSE Zero ELSE y[j][i]
  BY <1>2 DEF IsMat, IsReg
<1>4. k \in M4
  BY <1>3, M4Mat, MatM4, Constants
<1>5. Linear(k)
  BY <1>1, <1>3, <1>4, LaneSet DEF Linear, Affine
<1>6. \A j, i \in Lane : Mul(k, R)[j][i] = IdentityMatrix[j][i]
  <2> SUFFICES ASSUME NEW j \in Lane, NEW i \in Lane PROVE Mul(k, R)[j][i] = IdentityMatrix[j][i]
    OBVIOUS
  <2>1. CASE j = 3
    BY <1>1, <1>5, <2>1, LastRow, IdentityIs DEF Turning, Linear
  <2>2. CASE i = 3
    BY <1>1, <1>3, <1>4, <1>5, <2>2, LastColumn, IdentityIs DEF Turning, Linear, Affine
  <2>3. CASE j # 3 /\ i # 3
    <3>1. j \in Axis /\ i \in Axis
      BY <2>3, LaneSet
    <3>2. Mul(y, m)[j][i] = Mul(y, R)[j][i]
      BY <1>1, <3>1, BlockProduct DEF Block, Affine
    <3>3. Mul(k, R)[j][i] = Mul(y, R)[j][i]
      BY <1>3, <2>3, LaneSet DEF Mul
    <3> QED
      BY <3>2, <3>3
  <2> QED
    BY <2>1, <2>2, <2>3
<1>7. Mul(k, R) = IdentityMatrix
  BY <1>6, MulMat, M4Mat, IdentityIs, SameMat
<1>8. k = T4(R)
  BY <1>1, <1>4, <1>7, OneInverse DEF Turning
<1> QED
  BY <1>3, <1>8, LaneSet DEF Block

(***************************************************************************)
(* Cameras and frames: vectors at right angles.                            *)
(***************************************************************************)

\* A float[3] or a register, of which the first three entries count.
Three(v) == v[0] \in Num /\ v[1] \in Num /\ v[2] \in Num
Dot(a, b) == Easy_vector_dot(a, b)

\* The entries of v are x, y and z over d.
Parts(v, x, y, z, d) == Is(v[0], x, d) /\ Is(v[1], y, d) /\ Is(v[2], z, d)

\* A vector of three over one denominator.
LEMMA ThreeParts ==
    ASSUME NEW v, Three(v)
    PROVE  \E x, y, z, d \in Int : d > 0 /\ Parts(v, x, y, z, d)
  BY Common3 DEF Three, Parts

\* Its parts.
LEMMA PartsInts ==
    ASSUME NEW v, NEW x, NEW y, NEW z, NEW d, Parts(v, x, y, z, d)
    PROVE  Three(v) /\ x \in Int /\ y \in Int /\ z \in Int /\ d \in Int /\ d # 0
  BY IsInts DEF Parts, Three

\* The scalar product over the denominators.
LEMMA DotParts ==
    ASSUME NEW a, NEW b, NEW x, NEW y, NEW z, NEW d, NEW f, NEW g, NEW h, NEW e,
           Parts(a, x, y, z, d), Parts(b, f, g, h, e)
    PROVE  Is(Dot(a, b), x * f + y * g + z * h, d * e)
<1>1. Is(Times(a[0], b[0]), x * f, d * e) /\ Is(Times(a[1], b[1]), y * g, d * e) /\ Is(Times(a[2], b[2]), z * h, d * e)
  BY TimesIs DEF Parts
<1> QED
  BY <1>1, IsSum3 DEF Dot, Easy_vector_dot

\* The scalar product is symmetric.
LEMMA DotCommutes ==
    ASSUME NEW a, NEW b, Three(a), Three(b)
    PROVE  Dot(a, b) = Dot(b, a) /\ Dot(a, b) \in Num
<1>1. /\ Times(a[0], b[0]) = Times(b[0], a[0]) /\ Times(a[1], b[1]) = Times(b[1], a[1])
      /\ Times(a[2], b[2]) = Times(b[2], a[2])
  BY TimesCommutes DEF Three
<1>2. Dot(a, b) \in Num
  BY NumClosed DEF Dot, Easy_vector_dot, Plus3, Three
<1> QED
  BY <1>1, <1>2 DEF Dot, Easy_vector_dot

CrossX(x, y, z, f, g, h) == y * h - z * g
CrossY(x, y, z, f, g, h) == z * f - x * h
CrossZ(x, y, z, f, g, h) == x * g - y * f

\* The vector product over the denominators.
LEMMA CrossParts ==
    ASSUME NEW a, NEW b, NEW c, NEW x, NEW y, NEW z, NEW d, NEW f, NEW g, NEW h, NEW e,
           Parts(a, x, y, z, d), Parts(b, f, g, h, e),
           \A i \in Axis : c[i] = Easy_vector_cross(a, b)[i]
    PROVE  Parts(c, CrossX(x, y, z, f, g, h), CrossY(x, y, z, f, g, h), CrossZ(x, y, z, f, g, h), d * e)
<1>1. /\ Is(Times(a[1], b[2]), y * h, d * e) /\ Is(Times(a[2], b[1]), z * g, d * e)
      /\ Is(Times(a[2], b[0]), z * f, d * e) /\ Is(Times(a[0], b[2]), x * h, d * e)
      /\ Is(Times(a[0], b[1]), x * g, d * e) /\ Is(Times(a[1], b[0]), y * f, d * e)
  BY TimesIs DEF Parts
<1>2. /\ c[0] = Minus(Times(a[1], b[2]), Times(a[2], b[1]))
      /\ c[1] = Minus(Times(a[2], b[0]), Times(a[0], b[2]))
      /\ c[2] = Minus(Times(a[0], b[1]), Times(a[1], b[0]))
  BY CrossIs, LaneSet
<1> QED
  BY <1>1, <1>2, MinusSame DEF Parts, CrossX, CrossY, CrossZ

CrossFacts(x, y, z, f, g, h) ==
  LET p == CrossX(x, y, z, f, g, h)
      q == CrossY(x, y, z, f, g, h)
      r == CrossZ(x, y, z, f, g, h)
  IN  /\ p * x + q * y + r * z = 0 /\ p * f + q * g + r * h = 0
      /\ p * p + q * q + r * r
           = (x * x + y * y + z * z) * (f * f + g * g + h * h) - (x * f + y * g + z * h) * (x * f + y * g + z * h)

\* It is at right angles to its factors, and Lagrange's identity.
LEMMA CrossInts ==
    ASSUME NEW x \in Int, NEW y \in Int, NEW z \in Int, NEW f \in Int, NEW g \in Int, NEW h \in Int
    PROVE  CrossFacts(x, y, z, f, g, h)
  BY DEF CrossFacts, CrossX, CrossY, CrossZ

\* A vector product is at right angles to its factors, and of length 1 when they
\* are of length 1 and at right angles.
LEMMA CrossUpright ==
    ASSUME NEW a, NEW b, NEW c, Three(a), Three(b), \A i \in Axis : c[i] = Easy_vector_cross(a, b)[i]
    PROVE  /\ Three(c) /\ Dot(c, a) = Zero /\ Dot(c, b) = Zero
           /\ Dot(a, a) = One /\ Dot(b, b) = One /\ Dot(a, b) = Zero => Dot(c, c) = One
<1>1. PICK x, y, z, d \in Int : d > 0 /\ Parts(a, x, y, z, d)
  BY ThreeParts
<1>2. PICK f, g, h, e \in Int : e > 0 /\ Parts(b, f, g, h, e)
  BY ThreeParts
<1>3. PICK p, q, r, k : /\ p = CrossX(x, y, z, f, g, h) /\ q = CrossY(x, y, z, f, g, h)
                        /\ r = CrossZ(x, y, z, f, g, h) /\ k = d * e
  OBVIOUS
<1>4. Parts(c, p, q, r, k)
  BY <1>1, <1>2, <1>3, CrossParts
<1>5. p \in Int /\ q \in Int /\ r \in Int /\ k \in Int /\ k # 0 /\ Three(c)
  BY <1>4, PartsInts
<1>6. /\ p * x + q * y + r * z = 0 /\ p * f + q * g + r * h = 0
      /\ p * p + q * q + r * r
           = (x * x + y * y + z * z) * (f * f + g * g + h * h) - (x * f + y * g + z * h) * (x * f + y * g + z * h)
  <2>1. CrossFacts(x, y, z, f, g, h)
    BY <1>1, <1>2, CrossInts
  <2> QED
    BY <1>3, <2>1 DEF CrossFacts
<1>7. Dot(c, a) = Zero /\ Dot(c, b) = Zero
  <2>1. PICK o, n : o = p * x + q * y + r * z /\ n = p * f + q * g + r * h
    OBVIOUS
  <2>2. Is(Dot(c, a), o, k * d) /\ Is(Dot(c, b), n, k * e)
    BY <1>1, <1>2, <1>4, <2>1, DotParts
  <2>3. k * d \in Int /\ k * d # 0 /\ k * e \in Int /\ k * e # 0
    BY <1>1, <1>2, <1>5
  <2>4. o = 0 /\ n = 0
    BY <1>6, <2>1
  <2> QED
    BY <2>2, <2>3, <2>4, ZeroIs, IsEqual
<1>8. ASSUME Dot(a, a) = One, Dot(b, b) = One, Dot(a, b) = Zero
      PROVE  Dot(c, c) = One
  <2>1. PICK l, m, n, o : /\ l = x * x + y * y + z * z /\ m = f * f + g * g + h * h
                          /\ n = x * f + y * g + z * h /\ o = p * p + q * q + r * r
    OBVIOUS
  <2>2. Is(One, l, d * d) /\ Is(One, m, e * e) /\ Is(Zero, n, d * e) /\ Is(Dot(c, c), o, k * k)
    BY <1>1, <1>2, <1>4, <1>8, <2>1, DotParts
  <2>3. l \in Int /\ m \in Int /\ n \in Int /\ o \in Int
    BY <2>2, IsInts
  <2>4. l = d * d /\ m = e * e /\ n = 0
    <3>1. \A j : j \in Int /\ j # 0 => Is(One, j, j) /\ Is(Zero, 0, j)
      BY ZeroIs
    <3>2. PICK i, j, w \in Int : i = d * d /\ j = e * e /\ w = d * e /\ i > 0 /\ j > 0 /\ w > 0
      BY <1>1, <1>2
    <3>3. Is(One, i, i) /\ Is(One, j, j) /\ Is(Zero, 0, w)
      BY <3>1, <3>2
    <3>4. Is(One, l, i) /\ Is(One, m, j) /\ Is(Zero, n, w)
      BY <2>2, <3>2
    <3>5. l * i = i * i /\ m * j = j * j /\ n * w = 0 * w
      BY <3>3, <3>4, IsCross
    <3>6. l = i /\ m = j /\ n = 0
      BY <2>3, <3>2, <3>5
    <3> QED
      BY <3>2, <3>6
  <2>5. o = k * k
    <3>1. o = l * m - n * n
      BY <1>6, <2>1
    <3>2. n * n = 0
      BY <2>4
    <3>3. l * m = k * k
      BY <1>1, <1>2, <1>3, <2>4
    <3> QED
      BY <2>3, <3>1, <3>2, <3>3
  <2>6. k * k # 0 /\ k * k \in Int
    BY <1>5
  <2> QED
    BY <2>2, <2>5, <2>6, ZeroIs, IsEqual
<1> QED
  BY <1>5, <1>7, <1>8

\* Dividing by a number divides the products, too.
LEMMA DotOver ==
    ASSUME NEW v, NEW w, NEW u, Three(v), Three(w), NEW r \in Num, r # Zero,
           \A i \in Axis : u[i] = Over(v[i], r)
    PROVE  Three(u) /\ Dot(u, w) = Over(Dot(v, w), r)
<1>1. PICK x, y, z, d \in Int : d > 0 /\ Parts(v, x, y, z, d)
  BY ThreeParts
<1>2. PICK f, g, h, e \in Int : e > 0 /\ Parts(w, f, g, h, e)
  BY ThreeParts
<1>3. PICK a, b \in Int : b > 0 /\ Is(r, a, b)
  BY Fraction
<1>4. a # 0
  <2>1. ASSUME a = 0 PROVE FALSE
    BY <1>3, <2>1, ZeroIs, IsEqual
  <2> QED
    BY <2>1
<1>5. PICK k, p, q, s : k = d * a /\ p = x * b /\ q = y * b /\ s = z * b
  OBVIOUS
<1>6. Parts(u, p, q, s, k)
  BY <1>1, <1>3, <1>4, <1>5, OverIs, LaneSet DEF Parts
<1>7. PICK n, o : n = p * f + q * g + s * h /\ o = x * f + y * g + z * h
  OBVIOUS
<1>8. Is(Dot(u, w), n, k * e) /\ Is(Dot(v, w), o, d * e)
  BY <1>1, <1>2, <1>6, <1>7, DotParts
<1>9. Is(Over(Dot(v, w), r), o * b, (d * e) * a)
  BY <1>3, <1>4, <1>8, OverIs
<1>10. n = o * b /\ k * e = (d * e) * a
  BY <1>1, <1>2, <1>3, <1>5, <1>7
<1> QED
  BY <1>6, <1>8, <1>9, <1>10, PartsInts, IsEqual

\* A vector at right angles to one of length 1 keeps its length in their product.
LEMMA LagrangeUpright ==
    ASSUME NEW a, NEW b, NEW c, Three(a), Three(b), \A i \in Axis : c[i] = Easy_vector_cross(a, b)[i],
           Dot(b, b) = One, Dot(a, b) = Zero
    PROVE  Dot(c, c) = Dot(a, a)
<1>1. PICK x, y, z, d \in Int : d > 0 /\ Parts(a, x, y, z, d)
  BY ThreeParts
<1>2. PICK f, g, h, e \in Int : e > 0 /\ Parts(b, f, g, h, e)
  BY ThreeParts
<1>3. PICK p, q, r, k : /\ p = CrossX(x, y, z, f, g, h) /\ q = CrossY(x, y, z, f, g, h)
                        /\ r = CrossZ(x, y, z, f, g, h) /\ k = d * e
  OBVIOUS
<1>4. Parts(c, p, q, r, k)
  BY <1>1, <1>2, <1>3, CrossParts
<1>5. p \in Int /\ q \in Int /\ r \in Int /\ k \in Int /\ k # 0 /\ Three(c)
  BY <1>4, PartsInts
<1>6. p * p + q * q + r * r
           = (x * x + y * y + z * z) * (f * f + g * g + h * h) - (x * f + y * g + z * h) * (x * f + y * g + z * h)
  <2>1. CrossFacts(x, y, z, f, g, h)
    BY <1>1, <1>2, CrossInts
  <2> QED
    BY <1>3, <2>1 DEF CrossFacts
<1>7. PICK l, m, n, o : /\ l = x * x + y * y + z * z /\ m = f * f + g * g + h * h
                        /\ n = x * f + y * g + z * h /\ o = p * p + q * q + r * r
  OBVIOUS
<1>8. Is(Dot(a, a), l, d * d) /\ Is(One, m, e * e) /\ Is(Zero, n, d * e) /\ Is(Dot(c, c), o, k * k)
  BY <1>1, <1>2, <1>4, <1>7, DotParts
<1>9. l \in Int /\ m \in Int /\ n \in Int /\ o \in Int
  BY <1>8, IsInts
<1>10. PICK i, j, w \in Int : i = d * d /\ j = e * e /\ w = d * e /\ i > 0 /\ j > 0 /\ w > 0
  BY <1>1, <1>2
<1>11. m = j /\ n = 0
  <2>1. Is(One, j, j) /\ Is(Zero, 0, w)
    BY <1>10, ZeroIs
  <2>2. Is(One, m, j) /\ Is(Zero, n, w)
    BY <1>8, <1>10
  <2>3. m * j = j * j /\ n * w = 0 * w
    BY <2>1, <2>2, IsCross
  <2> QED
    BY <1>9, <1>10, <2>3
<1>12. o = l * j
  <2>1. o = l * m - n * n
    BY <1>6, <1>7
  <2> QED
    BY <1>9, <1>10, <1>11, <2>1
<1>13. k * k = i * j
  BY <1>3, <1>10, <1>1, <1>2
<1>14. PICK u \in Int : u = i * j /\ u # 0
  <2>1. i * j # 0
    BY <1>10
  <2> QED
    BY <2>1
<1>15. Is(Dot(c, c), o, u) /\ Is(Dot(a, a), l, i)
  BY <1>8, <1>10, <1>13, <1>14
<1>16. o * i = l * u
  BY <1>9, <1>10, <1>12, <1>14
<1>17. Is(Dot(c, c), l, i)
  BY <1>9, <1>10, <1>14, <1>15, <1>16, IsSame
<1> QED
  BY <1>15, <1>17, IsEqual

\* The sum of two squares is zero for zeros only.
LEMMA TwoSquares ==
    ASSUME NEW a \in Num, NEW b \in Num, Plus(Times(a, a), Times(b, b)) = Zero
    PROVE  a = Zero /\ b = Zero
<1>1. PICK n, m, d \in Int : d > 0 /\ Is(a, n, d) /\ Is(b, m, d)
  BY Common2
<1>2. Is(Plus(Times(a, a), Times(b, b)), n * n + m * m, d * d)
  BY <1>1, TimesIs, PlusSame
<1>3. PICK i, s : i = d * d /\ s = n * n + m * m
  OBVIOUS
<1>4. i \in Int /\ i # 0 /\ s \in Int
  BY <1>1, <1>3
<1>5. Is(Zero, 0, i) /\ Is(Zero, s, i)
  BY <1>2, <1>3, <1>4, ZeroIs
<1>6. s = 0
  <2>1. s * i = 0 * i
    BY <1>5, IsCross
  <2> QED
    BY <1>4, <2>1
<1>7. n * n >= 0 /\ m * m >= 0
  BY <1>1
<1>8. PICK e, f \in Int : e = n * n /\ f = m * m
  BY <1>1
<1>9. e = 0 /\ f = 0
  BY <1>3, <1>6, <1>7, <1>8
<1>10. n = 0 /\ m = 0
  BY <1>1, <1>8, <1>9
<1>11. Is(Zero, 0, d)
  BY <1>1, ZeroIs
<1> QED
  BY <1>1, <1>10, <1>11, IsEqual

\* Squares of opposite numbers.
LEMMA NegSquare ==
    ASSUME NEW a \in Num
    PROVE  Times(Neg(a), Neg(a)) = Times(a, a) /\ Minus(Zero, a) = Neg(a)
<1>1. PICK n, d \in Int : d > 0 /\ Is(a, n, d)
  BY Fraction
<1>2. PICK m : m = -n
  OBVIOUS
<1>3. Is(Neg(a), m, d)
  BY <1>1, <1>2, NegIs
<1>4. Is(Times(Neg(a), Neg(a)), m * m, d * d) /\ Is(Times(a, a), n * n, d * d)
  BY <1>1, <1>3, TimesIs
<1>5. m * m = n * n
  BY <1>1, <1>2
<1> QED
  BY <1>4, <1>5, IsEqual, Neutral, NumClosed DEF Minus

\* A length that has an exact value and can be divided by.
Rooted(v) == IsNumber(SqrtQ(Dot(v, v))) /\ SqrtQ(Dot(v, v)) # Zero

\* The lanes of a register divided by the length of its first three.
LEMMA NormalLanes ==
    ASSUME NEW v, Three(v), NEW u, u = Easy_vector_normalize_sse(v)
    PROVE  \A i \in Axis : u[i] = Over(v[i], SqrtQ(Dot(v, v)))
<1>1. PICK s, t, w : s = mulps(v, v) /\ t = shufps(s, s, Imm(9)) /\ w = shufps(t, t, Imm(9))
  OBVIOUS
<1>2. IsReg(s) /\ s[0] = Times(v[0], v[0]) /\ s[1] = Times(v[1], v[1]) /\ s[2] = Times(v[2], v[2])
  BY <1>1, Lanewise, LaneSet
<1>3. Imm(9) = <<1, 2, 0, 0>>
  BY DEF Imm
<1>4. t[0] = s[1] /\ t[1] = s[2] /\ t[2] = s[0]
  BY <1>1, <1>3, ShufTuple
<1>5. w[0] = t[1] /\ w[1] = t[2] /\ w[2] = t[0]
  BY <1>1, <1>3, ShufTuple
<1>6. PICK sum : sum = addps(addps(s, t), w)
  OBVIOUS
<1>7. /\ sum[0] = Plus(Plus(s[0], s[1]), s[2]) /\ sum[1] = Plus(Plus(s[1], s[2]), s[0])
      /\ sum[2] = Plus(Plus(s[2], s[0]), s[1])
  BY <1>4, <1>5, <1>6, Lanewise, LaneSet
<1>8. s[0] \in Num /\ s[1] \in Num /\ s[2] \in Num
  BY <1>2, NumClosed DEF Three
<1>9. sum[0] = Dot(v, v) /\ sum[1] = Dot(v, v) /\ sum[2] = Dot(v, v)
  <2>1. ASSUME NEW a \in Num, NEW b \in Num, NEW c \in Num
        PROVE  Plus(Plus(b, c), a) = Plus(Plus(a, b), c)
    <3>1. Plus(b, c) \in Num
      BY NumClosed
    <3> QED
      BY <3>1, PlusCommutes, PlusAssociates
  <2>2. Plus(Plus(s[1], s[2]), s[0]) = Plus(Plus(s[0], s[1]), s[2])
    BY <1>8, <2>1
  <2>3. Plus(Plus(s[2], s[0]), s[1]) = Plus(Plus(s[1], s[2]), s[0])
    BY <1>8, <2>1
  <2>4. Dot(v, v) = Plus(Plus(s[0], s[1]), s[2])
    BY <1>2 DEF Dot, Easy_vector_dot, Plus3
  <2> QED
    BY <1>7, <2>2, <2>3, <2>4
<1>10. PICK r : r = SqrtQ(Dot(v, v))
  OBVIOUS
<1>11. u = divps(v, sqrtps(sum))
  BY <1>1, <1>6 DEF Easy_vector_normalize_sse
<1>12. PICK roots : roots = sqrtps(sum)
  OBVIOUS
<1>13. roots[0] = r /\ roots[1] = r /\ roots[2] = r
  BY <1>9, <1>10, <1>12, Lanewise, LaneSet
<1>14. u[0] = Over(v[0], roots[0]) /\ u[1] = Over(v[1], roots[1]) /\ u[2] = Over(v[2], roots[2])
  BY <1>11, <1>12, Lanewise, LaneSet
<1> QED
  BY <1>10, <1>13, <1>14, LaneSet

\* A vector divided by its length, as the SSE code does it, has length 1 when
\* that has an exact value.
LEMMA NormalizedVector ==
    ASSUME NEW v, Three(v), NEW u, u = Easy_vector_normalize_sse(v), Three(u)
    PROVE  \E r \in Num : r # Zero /\ Times(r, r) = Dot(v, v) /\ \A i \in Axis : u[i] = Over(v[i], r)
<1>1. PICK r : r = SqrtQ(Dot(v, v))
  OBVIOUS
<1>2. \A i \in Axis : u[i] = Over(v[i], r)
  BY <1>1, NormalLanes
<1>3. IsNumber(r) /\ r # Zero
  <2>1. ASSUME ~IsNumber(r) \/ r = Zero PROVE FALSE
    <3>1. u[0] = NaN
      BY <1>2, <2>1, LaneSet DEF Over, Zero, Int2Q
    <3> QED
      BY <3>1, NumParts DEF Three, NaN
  <2> QED
    BY <2>1
<1>4. r \in Num /\ Times(r, r) = Dot(v, v)
  BY <1>1, <1>3, DotCommutes, SqrtSquares
<1> QED
  BY <1>2, <1>3, <1>4

\* A vector divided by its length has length 1 and the direction it had.
LEMMA UnitVector ==
    ASSUME NEW v, Three(v), NEW u, u = Easy_vector_normalize_sse(v), Three(u)
    PROVE  /\ Dot(u, u) = One
           /\ \A w : Three(w) /\ Dot(v, w) = Zero => Dot(u, w) = Zero /\ Dot(w, u) = Zero
<1>1. PICK r \in Num : r # Zero /\ Times(r, r) = Dot(v, v) /\ \A i \in Axis : u[i] = Over(v[i], r)
  BY NormalizedVector
<1>2. ASSUME NEW w, Three(w) PROVE Dot(u, w) = Over(Dot(v, w), r)
  BY <1>1, <1>2, DotOver
<1>3. Over(Times(r, r), r) = r /\ Over(r, r) = One /\ Over(Zero, r) = Zero
  <2>1. PICK a, b \in Int : b > 0 /\ Is(r, a, b)
    BY <1>1, Fraction
  <2>2. a # 0
    <3>1. ASSUME a = 0 PROVE FALSE
      BY <1>1, <2>1, <3>1, ZeroIs, IsEqual
    <3> QED
      BY <3>1
  <2>3. PICK c, d, e \in Int : c = a * a /\ d = b * b /\ e = d * a /\ e # 0
    <3>1. (b * b) * a # 0
      BY <2>1, <2>2
    <3> QED
      BY <3>1
  <2>4. Is(Times(r, r), c, d)
    BY <2>1, <2>3, TimesIs
  <2>5. Is(Over(Times(r, r), r), c * b, e)
    BY <2>1, <2>2, <2>3, <2>4, OverIs
  <2>6. a * e = (c * b) * b
    BY <2>1, <2>3
  <2>7. Is(Over(Times(r, r), r), a, b)
    BY <2>1, <2>3, <2>5, <2>6, IsSame
  <2>8. PICK o, z \in Int : o = 1 /\ o # 0 /\ z = 0
    OBVIOUS
  <2>9. Is(Zero, z, o)
    BY <2>8, ZeroIs
  <2>10. Is(Over(Zero, r), z * b, o * a)
    BY <2>1, <2>2, <2>9, OverIs
  <2>11. z * b = 0 /\ o * a = a
    BY <2>1, <2>8
  <2>12. Over(Zero, r) = Zero
    BY <2>1, <2>2, <2>10, <2>11, ZeroIs, IsEqual
  <2> QED
    BY <1>1, <2>1, <2>7, <2>12, IsEqual, Quotients
<1>4. Dot(u, u) = One
  <2>1. Dot(u, u) = Over(Dot(v, u), r)
    BY <1>2
  <2>2. Dot(v, u) = Over(Dot(v, v), r)
    BY <1>2, DotCommutes
  <2> QED
    BY <1>1, <1>3, <2>1, <2>2
<1>5. ASSUME NEW w, Three(w), Dot(v, w) = Zero PROVE Dot(u, w) = Zero /\ Dot(w, u) = Zero
  BY <1>2, <1>3, <1>5, DotCommutes
<1> QED
  BY <1>4, <1>5

\* Three vectors of length 1 at right angles.
Upright(a, b, c) ==
  /\ Three(a) /\ Three(b) /\ Three(c)
  /\ Dot(a, a) = One /\ Dot(b, b) = One /\ Dot(c, c) = One
  /\ Dot(a, b) = Zero /\ Dot(a, c) = Zero /\ Dot(b, c) = Zero

\* They are the rows or the columns of a rotation.
LEMMA UprightRows ==
    ASSUME NEW a, NEW b, NEW c, Upright(a, b, c), NEW m, IsMat(m),
           \A i \in Axis : m[0][i] = a[i] /\ m[1][i] = b[i] /\ m[2][i] = c[i],
           \A j \in Lane : /\ m[j][3] = IF j = 3 THEN One ELSE Zero
                           /\ m[3][j] = IF j = 3 THEN One ELSE Zero
    PROVE  Turning(m)
<1>1. \A j, i \in Lane : m[j][i] \in Num
  BY LaneSet, Constants DEF Upright, Three
<1>2. m \in M4
  BY <1>1, MatM4
<1>3. Linear(m)
  BY <1>2 DEF Linear, Affine
<1>4. Dot(b, a) = Zero /\ Dot(c, a) = Zero /\ Dot(c, b) = Zero
  BY DotCommutes DEF Upright
<1>5. ASSUME NEW j \in Lane, NEW i \in Lane PROVE Mul(m, T4(m))[j][i] = IdentityMatrix[j][i]
  <2>1. Mul(m, T4(m))[j][i] = Plus4(Times(m[j][0], m[i][0]), Times(m[j][1], m[i][1]),
                                    Times(m[j][2], m[i][2]), Times(m[j][3], m[i][3]))
    BY T4Mat, LaneSet DEF Mul
  <2>2. CASE j = 3 \/ i = 3
    <3>1. \A x \in Num : Plus4(Zero, Zero, Zero, x) = x
      BY Neutral, Constants DEF Plus4, Plus3
    <3>2. /\ Times(m[j][0], m[i][0]) = Zero /\ Times(m[j][1], m[i][1]) = Zero
          /\ Times(m[j][2], m[i][2]) = Zero /\ Times(m[j][3], m[i][3]) = IF j = i THEN One ELSE Zero
      BY <1>1, <2>2, Neutral, Constants, LaneSet
    <3> QED
      BY <2>1, <3>1, <3>2, IdentityIs, Constants
  <2>3. CASE j # 3 /\ i # 3
    <3>1. m[j][3] = Zero /\ m[i][3] = Zero /\ Times(Zero, Zero) = Zero
      BY <2>3, Neutral, Constants
    <3>2. PICK x, y \in {a, b, c} : /\ x = (IF j = 0 THEN a ELSE IF j = 1 THEN b ELSE c)
                                    /\ y = (IF i = 0 THEN a ELSE IF i = 1 THEN b ELSE c)
      OBVIOUS
    <3>3. \A k \in Axis : m[j][k] = x[k] /\ m[i][k] = y[k]
      BY <2>3, <3>2, LaneSet
    <3>4. Mul(m, T4(m))[j][i] = Plus(Dot(x, y), Zero)
      BY <2>1, <3>1, <3>3, LaneSet DEF Plus4, Plus3, Dot, Easy_vector_dot
    <3>5. Dot(x, y) = IF j = i THEN One ELSE Zero
      BY <1>4, <2>3, <3>2, LaneSet DEF Upright
    <3> QED
      BY <3>4, <3>5, Neutral, Constants, IdentityIs
  <2> QED
    BY <2>2, <2>3
<1>6. Mul(m, T4(m)) = IdentityMatrix
  BY <1>5, MulMat, M4Mat, IdentityIs, SameMat
<1>7. T4(m) \in M4
  BY <1>3, TransposeLinear DEF Linear, Affine
<1>8. Easy_matrix_inv_sse(m) = T4(m) /\ Mul(Easy_matrix_inv_sse(m), m) = IdentityMatrix
  BY <1>2, <1>6, <1>7, InverseIs
<1> QED
  BY <1>3, <1>6, <1>8 DEF Turning

\* Three such vectors are the columns of a rotation.
LEMMA UprightColumns ==
    ASSUME NEW a, NEW b, NEW c, Upright(a, b, c)
    PROVE  Turning(Columns(a, b, c))
<1>1. PICK m : m = Columns(a, b, c)
  OBVIOUS
<1>2. /\ m[0] = Ps(a[0], b[0], c[0], Zero) /\ m[1] = Ps(a[1], b[1], c[1], Zero)
      /\ m[2] = Ps(a[2], b[2], c[2], Zero) /\ m[3] = IdentityMatrix[3] /\ IsReg(m)
  BY <1>1, PsAt, PsReg DEF Columns, Lanes
<1>3. IsReg(IdentityMatrix[3])
  BY IdentityIs, M4Rows
<1>4. IsMat(m)
  BY <1>2, <1>3, PsReg, LaneSet DEF IsMat
<1>5. /\ m[0][0] = a[0] /\ m[0][1] = b[0] /\ m[0][2] = c[0] /\ m[0][3] = Zero
      /\ m[1][0] = a[1] /\ m[1][1] = b[1] /\ m[1][2] = c[1] /\ m[1][3] = Zero
      /\ m[2][0] = a[2] /\ m[2][1] = b[2] /\ m[2][2] = c[2] /\ m[2][3] = Zero
      /\ m[3][0] = Zero /\ m[3][1] = Zero /\ m[3][2] = Zero /\ m[3][3] = One
  BY <1>2, PsAt, IdentityIs, LaneSet
<1>6. PICK t : t = T4(m)
  OBVIOUS
<1>7. IsMat(t) /\ \A j, i \in Lane : t[j][i] = m[i][j]
  BY <1>6, T4Mat
<1>8. Turning(t)
  BY <1>5, <1>7, UprightRows, LaneSet
<1>9. T4(t) = m
  BY <1>4, <1>6, <1>7, T4Mat, SameMat
<1> QED
  BY <1>1, <1>8, <1>9, TransposeTurning

(***************************************************************************)
(* A point through a matrix of numbers.                                    *)
(***************************************************************************)

(***************************************************************************)
(* What a matrix does to a point, and what the calls add to it.            *)
(***************************************************************************)
Taken(m, p) == Easy_vector_transform(m, p)

\* The coordinates of where a matrix takes a point.
LEMMA TakenAt ==
    ASSUME NEW m \in M4, NEW p, Three(p)
    PROVE  /\ Taken(m, p) \in V3 /\ Three(Taken(m, p))
           /\ \A i \in Axis : Taken(m, p)[i] = Image(m, p, i)
<1>1. Easy_vector_transform(m, p) = [i \in Axis |-> Image(m, p, i)] /\ Easy_vector_transform(m, p) \in V3
  BY TransformIs DEF Three
<1> QED
  BY <1>1, LaneSet DEF Taken, V3, Three

\* A vector of three numbers.
LEMMA ThreeV3 ==
    ASSUME NEW p \in V3
    PROVE  Three(p) /\ \A i \in Axis : p[i] \in Num
  BY LaneSet DEF V3, Three

\* The entries of a matrix with a last column of 0 0 0 1.
LEMMA AffineNum ==
    ASSUME NEW m, Affine(m)
    PROVE  /\ m \in M4 /\ \A j, i \in Lane : m[j][i] \in Num
           /\ m[0][3] = Zero /\ m[1][3] = Zero /\ m[2][3] = Zero /\ m[3][3] = One
<1>1. m \in M4
  BY DEF Affine
<1>2. \A j, i \in Lane : m[j][i] \in Num
  BY <1>1, M4Mat
<1>3. m[0][3] = Zero /\ m[1][3] = Zero /\ m[2][3] = Zero /\ m[3][3] = One
  BY LaneSet DEF Affine
<1> QED
  BY <1>1, <1>2, <1>3

\* A point as a matrix, in all rows.
PointMat(p) == [j \in Lane |-> Ps(p[0], p[1], p[2], One)]

\* A point in every row of a matrix, with 1 behind it.
LEMMA PointMatIs ==
    ASSUME NEW p, Three(p)
    PROVE  /\ PointMat(p) \in M4
           /\ \A j \in Lane : /\ PointMat(p)[j][0] = p[0] /\ PointMat(p)[j][1] = p[1]
                              /\ PointMat(p)[j][2] = p[2] /\ PointMat(p)[j][3] = One
<1>1. PICK r : r = Ps(p[0], p[1], p[2], One)
  OBVIOUS
<1>2. r \in V4 /\ r[0] = p[0] /\ r[1] = p[1] /\ r[2] = p[2] /\ r[3] = One
  <2>1. p[0] \in Num /\ p[1] \in Num /\ p[2] \in Num /\ One \in Num
    BY Constants DEF Three
  <2>2. r \in [Lane -> Num]
    BY <1>1, <2>1, PsType
  <2> QED
    BY <1>1, <2>2, PsAt DEF V4
<1>3. PointMat(p) = [j \in Lane |-> r]
  BY <1>1 DEF PointMat
<1> QED
  BY <1>2, <1>3 DEF M4

\* A point through a matrix as a product of matrices.
LEMMA PointThrough ==
    ASSUME NEW m, Affine(m), NEW p, Three(p)
    PROVE  Mul(PointMat(p), m) = PointMat(Taken(m, p))
<1>1. PICK x : x = PointMat(p)
  OBVIOUS
<1>2. x \in M4 /\ \A j \in Lane : x[j][0] = p[0] /\ x[j][1] = p[1] /\ x[j][2] = p[2] /\ x[j][3] = One
  BY <1>1, PointMatIs
<1>3. PICK u : u = Taken(m, p)
  OBVIOUS
<1>4. m \in M4 /\ (\A j, i \in Lane : m[j][i] \in Num)
      /\ m[0][3] = Zero /\ m[1][3] = Zero /\ m[2][3] = Zero /\ m[3][3] = One
  BY AffineNum
<1>5. Three(u) /\ \A i \in Axis : u[i] = Image(m, p, i)
  BY <1>3, <1>4, TakenAt
<1>6. PICK y : y = PointMat(u)
  OBVIOUS
<1>7. y \in M4 /\ \A j \in Lane : y[j][0] = u[0] /\ y[j][1] = u[1] /\ y[j][2] = u[2] /\ y[j][3] = One
  BY <1>5, <1>6, PointMatIs
<1>8. PICK z : z = Mul(x, m)
  OBVIOUS
<1>9. z \in M4 /\ \A j, i \in Lane : z[j][i] =
        Plus4(Times(p[0], m[0][i]), Times(p[1], m[1][i]), Times(p[2], m[2][i]), Times(One, m[3][i]))
  <2>1. z \in M4
    BY <1>2, <1>4, <1>8, MulClosed
  <2>2. \A j, i \in Lane : z[j][i] =
          Plus4(Times(x[j][0], m[0][i]), Times(x[j][1], m[1][i]), Times(x[j][2], m[2][i]), Times(x[j][3], m[3][i]))
    BY <1>8 DEF Mul
  <2> QED
    BY <1>2, <2>1, <2>2
<1>10. p[0] \in Num /\ p[1] \in Num /\ p[2] \in Num
  BY DEF Three
<1>11. ASSUME NEW j \in Lane, NEW i \in Lane PROVE z[j][i] = y[j][i]
  <2>1. m[0][i] \in Num /\ m[1][i] \in Num /\ m[2][i] \in Num /\ m[3][i] \in Num
    BY <1>4, <1>11, LaneSet
  <2>2. /\ Times(p[0], m[0][i]) = Times(m[0][i], p[0]) /\ Times(p[1], m[1][i]) = Times(m[1][i], p[1])
        /\ Times(p[2], m[2][i]) = Times(m[2][i], p[2]) /\ Times(One, m[3][i]) = m[3][i]
    BY <1>10, <2>1, TimesCommutes, Neutral
  <2>3. z[j][i] = Image(m, p, i)
    BY <1>9, <2>2 DEF Image
  <2>4. CASE i # 3
    <3>1. i \in Axis
      BY <2>4, LaneSet
    <3>2. y[j][i] = u[i]
      BY <1>7, <3>1, LaneSet
    <3> QED
      BY <1>5, <2>3, <3>1, <3>2
  <2>5. CASE i = 3
    <3>1. Image(m, p, 3) = Plus4(Times(Zero, p[0]), Times(Zero, p[1]), Times(Zero, p[2]), One)
      BY <1>4 DEF Image
    <3>2. Times(Zero, p[0]) = Zero /\ Times(Zero, p[1]) = Zero /\ Times(Zero, p[2]) = Zero
      BY <1>10, Neutral
    <3>3. Plus4(Zero, Zero, Zero, One) = One
      BY Constants, Neutral DEF Plus4, Plus3
    <3> QED
      BY <1>7, <2>3, <2>5, <3>1, <3>2, <3>3
  <2> QED
    BY <2>4, <2>5
<1>12. z = y
  BY <1>7, <1>9, <1>11, M4Mat, SameMat
<1> QED
  BY <1>1, <1>3, <1>6, <1>8, <1>12

\* Different points make different matrices.
LEMMA PointMatSame ==
    ASSUME NEW a \in V3, NEW b \in V3, PointMat(a) = PointMat(b)
    PROVE  a = b
<1>1. Three(a) /\ Three(b)
  BY ThreeV3
<1>2. 0 \in Lane
  BY LaneSet
<1>3. PICK x : x = PointMat(a)
  OBVIOUS
<1>4. x[0][0] = a[0] /\ x[0][1] = a[1] /\ x[0][2] = a[2]
  BY <1>1, <1>2, <1>3, PointMatIs
<1>5. x[0][0] = b[0] /\ x[0][1] = b[1] /\ x[0][2] = b[2]
  BY <1>1, <1>2, <1>3, PointMatIs
<1> QED
  BY <1>4, <1>5, SameAxes DEF V3

\* A product takes a point where its factors take it, the first one first.
LEMMA TakenProduct ==
    ASSUME NEW x, Affine(x), NEW y, Affine(y), NEW p, Three(p)
    PROVE  Taken(Mul(x, y), p) = Taken(y, Taken(x, p))
<1>1. x \in M4 /\ y \in M4 /\ PointMat(p) \in M4 /\ Affine(Mul(x, y)) /\ Mul(x, y) \in M4
  BY MulAffine, PointMatIs DEF Affine
<1>2. PICK u : u = Taken(x, p)
  OBVIOUS
<1>3. u \in V3 /\ Three(u)
  BY <1>1, <1>2, TakenAt
<1>4. Mul(PointMat(p), x) = PointMat(u)
  BY <1>2, PointThrough
<1>5. Mul(PointMat(u), y) = PointMat(Taken(y, u))
  BY <1>3, PointThrough
<1>6. Mul(PointMat(p), Mul(x, y)) = PointMat(Taken(Mul(x, y), p))
  BY <1>1, PointThrough
<1>7. Mul(Mul(PointMat(p), x), y) = Mul(PointMat(p), Mul(x, y))
  BY <1>1, MulAssociates
<1>8. PointMat(Taken(Mul(x, y), p)) = PointMat(Taken(y, u))
  BY <1>4, <1>5, <1>6, <1>7
<1>9. Taken(Mul(x, y), p) \in V3 /\ Taken(y, u) \in V3
  BY <1>1, <1>3, TakenAt
<1> QED
  BY <1>2, <1>8, <1>9, PointMatSame

\* The identity takes each point to itself.
LEMMA TakenIdentity ==
    ASSUME NEW p \in V3
    PROVE  Taken(IdentityMatrix, p) = p
<1>1. Three(p) /\ PointMat(p) \in M4
  BY ThreeV3, PointMatIs
<1>2. Affine(IdentityMatrix) /\ IdentityMatrix \in M4
  BY IdentityTurning DEF Turning, Linear, Affine
<1>3. Mul(PointMat(p), IdentityMatrix) = PointMat(p)
  BY <1>1, MulIdentity
<1>4. Mul(PointMat(p), IdentityMatrix) = PointMat(Taken(IdentityMatrix, p))
  BY <1>1, <1>2, PointThrough
<1>5. Taken(IdentityMatrix, p) \in V3
  BY <1>1, <1>2, TakenAt
<1> QED
  BY <1>3, <1>4, <1>5, PointMatSame
=============================================================================
