--------------------------------- MODULE Sse ---------------------------------
(***************************************************************************)
(* The SSE instructions the vector code is written in.  A register is a    *)
(* function from its four lanes, lane 0 at the lowest address; a lane      *)
(* selection is an immediate byte as in the source (0xc9) or a tuple in    *)
(* lane order (the R_SHUFFLE_PS and vec4f_swizzle macros).                 *)
(***************************************************************************)
EXTENDS Rational

Lane == 0 .. 3

\* A register with these lanes (_mm_setr_ps), and one holding x four times.
Ps(x, y, z, w) ==
  [i \in Lane |-> IF i = 0 THEN x ELSE IF i = 1 THEN y ELSE IF i = 2 THEN z ELSE w]
set_ps1(x) == Ps(x, x, x, x)

\* The register whose lane i holds F(i).
Lanes(F(_)) == Ps(F(0), F(1), F(2), F(3))

\* The same from integers.
Vec(x, y, z, w) == Ps(Int2Q(x), Int2Q(y), Int2Q(z), Int2Q(w))

\* A loop over the lanes: Step for lane 0, on what it left for lane 1 and so on.
Each(Step(_, _), x) == Step(Step(Step(Step(x, 0), 1), 2), 3)

\* The two-bit fields of an immediate byte, lowest first.
Imm(byte) == <<byte % 4, (byte \div 4) % 4, (byte \div 16) % 4, byte \div 64>>

\* The two low lanes are selected from a, the two high lanes from b.
shufps(a, b, sel) == Ps(a[sel[1]], a[sel[2]], b[sel[3]], b[sel[4]])
pshufd(a, sel) == shufps(a, a, sel)

addps(a, b) == Lanes(LAMBDA i : Plus(a[i], b[i]))
subps(a, b) == Lanes(LAMBDA i : Minus(a[i], b[i]))
mulps(a, b) == Lanes(LAMBDA i : Times(a[i], b[i]))
divps(a, b) == Lanes(LAMBDA i : Over(a[i], b[i]))
sqrtps(a) == Lanes(LAMBDA i : SqrtQ(a[i]))

\* The scalar forms work on lane 0 and keep the other lanes of a.
addss(a, b) == [a EXCEPT ![0] = Plus(@, b[0])]
subss(a, b) == [a EXCEPT ![0] = Minus(@, b[0])]
mulss(a, b) == [a EXCEPT ![0] = Times(@, b[0])]
movss(a, b) == [a EXCEPT ![0] = b[0]]

\* The high half of b becomes the low half of a.
movhlps(a, b) == Ps(b[2], b[3], a[2], a[3])

\* Exclusive or with sign bits in the lanes of signs.
xorps(a, signs) == Lanes(LAMBDA i : IF i \in signs THEN Neg(a[i]) ELSE a[i])
=============================================================================
