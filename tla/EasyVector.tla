----------------------------- MODULE EasyVector -----------------------------
(***************************************************************************)
(* EasyVector.h: three-component vectors.  A float[3], double[3] or        *)
(* _Float3 is a function on 0..2, an __m128 a function on Lane.  Overloads *)
(* that differ in the type of the numbers only share a definition; the SSE *)
(* overloads, written in shuffles, have one of their own.                  *)
(***************************************************************************)
EXTENDS Sse

Axis == 0 .. 2

\* The float[3] with these entries, and the one whose entry i is F(i).
V3Q(x, y, z) == [i \in Axis |-> IF i = 0 THEN x ELSE IF i = 1 THEN y ELSE z]
XYZ(F(_)) == [i \in Axis |-> F(i)]

\* The first three lanes, as a float[3].
Easy_vector_copy_out(v) == XYZ(LAMBDA i : v[i])

\* A float[3] as an __m128 with the given last lane.
Easy_vector_copy(v, w) == Ps(v[0], v[1], v[2], w)

Easy_vector_Getlenth_2(a, b) ==
  LET d(i) == Times(Minus(a[i], b[i]), Minus(a[i], b[i]))
  IN  Plus3(d(0), d(1), d(2))

Easy_vector_sub(a, b) == XYZ(LAMBDA i : Minus(a[i], b[i]))

Easy_vector_scalar_mul_sse(v, in) == mulps(v, set_ps1(in))

\* double overload and the branch without SSE
Easy_vector_cross(a, b) ==
  LET c(j, k) == Minus(Times(a[j], b[k]), Times(a[k], b[j]))
  IN  XYZ(LAMBDA i : c((i + 1) % 3, (i + 2) % 3))

\* __m128 overload; the float overloads load their lane 3 with 0
Easy_vector_cross_sse(a, b) ==
  subps(mulps(pshufd(a, Imm(201)), pshufd(b, Imm(210))),
        mulps(pshufd(a, Imm(210)), pshufd(b, Imm(201))))

\* double overload: the zero vector becomes the axis of its largest component
Easy_vector_normalize(c) ==
  LET l == SqrtQ(Plus3(Times(c[0], c[0]), Times(c[1], c[1]), Times(c[2], c[2])))
      axis == CASE ~Less(c[0], c[1]) /\ ~Less(c[0], c[2]) -> 0
                [] ~Less(c[1], c[2]) -> 1
                [] OTHER -> 2
  IN  IF Less(l, Q(1, 100000))
      THEN XYZ(LAMBDA i : IF i = axis THEN One ELSE Zero)
      ELSE XYZ(LAMBDA i : Over(c[i], l))

\* __m128 overload: lanes 0 to 2 are divided by the length, lane 3 by the
\* root of another sum of three squares
Easy_vector_normalize_sse(v) ==
  LET xmm1 == mulps(v, v)
      xmm2 == shufps(xmm1, xmm1, Imm(9))
      xmm3 == shufps(xmm2, xmm2, Imm(9))
  IN  divps(v, sqrtps(addps(addps(xmm1, xmm2), xmm3)))

\* scalar overloads: the point a, taken to have w = 1, times the matrix m
Easy_vector_transform(m, a) ==
  XYZ(LAMBDA i : Plus4(Times(m[0][i], a[0]), Times(m[1][i], a[1]),
                       Times(m[2][i], a[2]), m[3][i]))

Easy_vector_transform_sse(m, v) ==
  addps(addps(addps(mulps(pshufd(v, Imm(0)), m[0]), mulps(pshufd(v, Imm(85)), m[1])),
              mulps(pshufd(v, Imm(170)), m[2])),
        m[3])

Easy_vector_dot(a, b) ==
  Plus3(Times(a[0], b[0]), Times(a[1], b[1]), Times(a[2], b[2]))

Easy_vector_dot_sse(v1, v2) ==
  LET xmm0 == mulps(v1, v2)
  IN  addps(addps(pshufd(xmm0, Imm(0)), pshufd(xmm0, Imm(85))),
            pshufd(xmm0, Imm(170)))[0]
=============================================================================
