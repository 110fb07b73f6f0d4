------------------------------ MODULE Rational ------------------------------
(***************************************************************************)
(* The numbers of the vector code.  A float or double is an exact fraction *)
(* in lowest terms, <<numerator, denominator>>: rounding is abstracted     *)
(* away, every identity between results is then exact.  NaN stands for     *)
(* what has no such value: 0/0, x/0 and the root of a number that is not   *)
(* the square of a fraction.  As in the hardware it spreads to every       *)
(* result it takes part in and makes every comparison false.               *)
(***************************************************************************)
EXTENDS Integers

gcd[p \in Nat \X Nat] == IF p[2] = 0 THEN p[1] ELSE gcd[<<p[2], p[1] % p[2]>>]

Magnitude(n) == IF n < 0 THEN -n ELSE n

\* The fractions in lowest terms.
Number == {r \in Int \X (Nat \ {0}) : gcd[<<Magnitude(r[1]), r[2]>>] = 1}

NaN == <<0, 0>>

IsNumber(a) == a[2] # 0

\* The fraction n / d in lowest terms.
Divided(n, d, g) == IF d < 0 THEN <<-(n \div g), -(d \div g)>> ELSE <<n \div g, d \div g>>
Q(n, d) == IF d = 0 THEN NaN ELSE Divided(n, d, gcd[<<Magnitude(n), Magnitude(d)>>])

Int2Q(n) == <<n, 1>>
Zero == Int2Q(0)
One == Int2Q(1)

Neg(a) == <<-a[1], a[2]>>
AbsQ(a) == <<Magnitude(a[1]), a[2]>>

\* Common factors go before the products are formed: they stay small.
PlusBy(a, b, g) ==
  Q(a[1] * (b[2] \div g) + b[1] * (a[2] \div g), a[2] * (b[2] \div g))
Plus(a, b) ==
  IF ~IsNumber(a) \/ ~IsNumber(b) THEN NaN ELSE PlusBy(a, b, gcd[<<a[2], b[2]>>])

Minus(a, b) == Plus(a, Neg(b))

Product(x, y) == <<x[1] * y[1], x[2] * y[2]>>
Times(a, b) ==
  IF ~IsNumber(a) \/ ~IsNumber(b) THEN NaN ELSE Product(Q(a[1], b[2]), Q(b[1], a[2]))

Over(a, b) ==
  IF ~IsNumber(b) \/ b[1] = 0 THEN NaN ELSE Times(a, Q(b[2], b[1]))

Less(a, b) == IsNumber(a) /\ IsNumber(b) /\ Minus(a, b)[1] < 0

\* The root of n without its fraction, binary digit by digit.
root[n \in Nat] ==
  IF n = 0 THEN 0
  ELSE LET r == 2 * root[n \div 4] IN IF (r + 1) * (r + 1) <= n THEN r + 1 ELSE r

\* The root of a square, -1 for other integers.
Root(n) == IF n >= 0 /\ root[n] * root[n] = n THEN root[n] ELSE -1

SqrtQ(a) == IF ~IsNumber(a) \/ Root(a[1]) < 0 \/ Root(a[2]) < 0
            THEN NaN ELSE <<Root(a[1]), Root(a[2])>>

Plus3(a, b, c) == Plus(Plus(a, b), c)
Plus4(a, b, c, d) == Plus(Plus3(a, b, c), d)
=============================================================================
