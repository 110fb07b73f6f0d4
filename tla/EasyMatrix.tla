----------------------------- MODULE EasyMatrix -----------------------------
(***************************************************************************)
(* EasyMatrix.h: matrices of four rows, m[row][column], that move points   *)
(* as row vectors (the translation is row 3).  Scalar overloads (_Mat4,    *)
(* float, double) share a definition, the SSE overloads have their own.    *)
(* The operators give the value the call leaves in its output; all but     *)
(* Easy_matrix_mult read every input before they write.                    *)
(***************************************************************************)
EXTENDS EasyQuat

Rows(r0, r1, r2, r3) == Ps(r0, r1, r2, r3)

IdentityMatrix == Rows(Vec(1, 0, 0, 0), Vec(0, 1, 0, 0), Vec(0, 0, 1, 0), Vec(0, 0, 0, 1))
TurnYZ == Rows(Vec(1, 0, 0, 0), Vec(0, 0, -1, 0), Vec(0, 1, 0, 0), Vec(0, 0, 0, 1))
TurnY == Rows(Vec(1, 0, 0, 0), Vec(0, -1, 0, 0), Vec(0, 0, 1, 0), Vec(0, 0, 0, 1))

\* The scalar overloads swap m[j][i] and m[i][j] for every i > j, in place.
Swap(m, j, i) == [m EXCEPT ![j][i] = m[i][j], ![i][j] = m[j][i]]
Easy_matrix_transpose(m) ==
  Swap(Swap(Swap(Swap(Swap(Swap(m, 0, 1), 0, 2), 0, 3), 1, 2), 1, 3), 2, 3)

\* _MM_TRANSPOSE4_PS
Easy_matrix_transpose_sse(m) ==
  LET tmp0 == shufps(m[0], m[1], Imm(68))
      tmp2 == shufps(m[0], m[1], Imm(238))
      tmp1 == shufps(m[2], m[3], Imm(68))
      tmp3 == shufps(m[2], m[3], Imm(238))
  IN  Rows(shufps(tmp0, tmp1, Imm(136)), shufps(tmp0, tmp1, Imm(221)),
           shufps(tmp2, tmp3, Imm(136)), shufps(tmp2, tmp3, Imm(221)))

\* Mutant: takes the entries of m along a row instead of down a column
MutantTranslateInternal(m, v) ==
  LET by(i) == Plus3(Times(m[i][0], v[0]), Times(m[i][1], v[1]), Times(m[i][2], v[2]))
  IN  [m EXCEPT ![3] = Ps(Plus(@[0], by(0)), Plus(@[1], by(1)), Plus(@[2], by(2)), @[3])]

\* Move by v before what m does ...
Easy_matrix_translate_Internal(m, v) ==
  LET by(i) == Plus3(Times(m[0][i], v[0]), Times(m[1][i], v[1]), Times(m[2][i], v[2]))
  IN  [m EXCEPT ![3] = Ps(Plus(@[0], by(0)), Plus(@[1], by(1)), Plus(@[2], by(2)), @[3])]

\* ... the SSE code puts m[3][3] back after it wrote the row ...
Easy_matrix_translate_Internal_sse(m, v) ==
  [m EXCEPT ![3] = [Easy_vector_transform_sse(m, v) EXCEPT ![3] = m[3][3]]]

\* ... and after it.
Easy_matrix_translate_External(m, v) ==
  [m EXCEPT ![3] = Ps(Plus(@[0], v[0]), Plus(@[1], v[1]), Plus(@[2], v[2]), @[3])]

(***************************************************************************)
(* The product that does b first and then a.  mem holds the matrices of    *)
(* the program by name: out may name the memory of an input.  The scalar   *)
(* overloads on pointers copy a, then write out entry by entry while they  *)
(* still read b (the one on _Mat4 gets copies of both); the SSE one loads  *)
(* a, and each row of b before it writes that row.                         *)
(***************************************************************************)
MultEntry(mem, out, tmp, b, j, i) ==
  [mem EXCEPT ![out][j][i] =
     Plus4(Times(tmp[0][i], mem[b][j][0]), Times(tmp[1][i], mem[b][j][1]),
           Times(tmp[2][i], mem[b][j][2]), Times(tmp[3][i], mem[b][j][3]))]
MultRow(mem, out, tmp, b, j) == Each(LAMBDA s, i : MultEntry(s, out, tmp, b, j, i), mem)
Easy_matrix_mult(mem, out, a, b) == Each(LAMBDA s, j : MultRow(s, out, mem[a], b, j), mem)

RowTimes(row, in1) ==
  addps(addps(addps(mulps(pshufd(row, Imm(0)), in1[0]), mulps(pshufd(row, Imm(85)), in1[1])),
              mulps(pshufd(row, Imm(170)), in1[2])),
        mulps(pshufd(row, Imm(255)), in1[3]))

MultRowSse(mem, out, in1, in2, j) == [mem EXCEPT ![out][j] = RowTimes(mem[in2][j], in1)]

\* Mutant: the rows of in1 are read when they are needed
MutantMultSse(mem, out, in1, in2) ==
  Each(LAMBDA s, j : MultRowSse(s, out, s[in1], in2, j), mem)

Easy_matrix_mult_sse(mem, out, in1, in2) ==
  Each(LAMBDA s, j : MultRowSse(s, out, mem[in1], in2, j), mem)

\* _mm_mul_matrix: as above, but in1 is read again for every row.
mm_mul_matrix(mem, in1, in2, out) ==
  Each(LAMBDA s, j : MultRowSse(s, out, s[in1], in2, j), mem)

\* The rotation of a quaternion of any length, divided by its square.
RotationOf(q) ==
  LET l == Plus4(Times(q[0], q[0]), Times(q[1], q[1]), Times(q[2], q[2]), Times(q[3], q[3]))
      s == IF Less(l, Q(1, 100000)) THEN One ELSE Over(Int2Q(2), l)
      p(i, j) == Times(q[i], Times(q[j], s))
  IN  Rows(Ps(Minus(One, Plus(p(1, 1), p(2, 2))), Plus(p(0, 1), p(3, 2)),
              Minus(p(0, 2), p(3, 1)), Zero),
           Ps(Minus(p(0, 1), p(3, 2)), Minus(One, Plus(p(0, 0), p(2, 2))),
              Plus(p(1, 2), p(3, 0)), Zero),
           Ps(Plus(p(0, 2), p(3, 1)), Minus(p(1, 2), p(3, 0)),
              Minus(One, Plus(p(0, 0), p(1, 1))), Zero),
           Vec(0, 0, 0, 1))

Easy_matrix_rotate_quat(m, q) ==
  Easy_matrix_mult([m |-> m, R |-> RotationOf(q)], "m", "m", "R").m

Easy_matrix_rotate_quat_sse(m, q) ==
  Easy_matrix_mult_sse([m |-> m, R |-> Easy_quat_to_matrix(Easy_quat_normalize_sse(q))],
                       "m", "m", "R").m

Easy_matrix_rotate(m, half, axis) ==
  Easy_matrix_rotate_quat(m, Easy_quat_axis_angle(axis, half))

Easy_matrix_rotate_sse(m, half, axis) ==
  Easy_matrix_rotate_quat_sse(m, Easy_quat_axis_angle(axis, half))

Easy_matrix_scale(m, v) ==
  Lanes(LAMBDA j : IF j = 3 THEN m[j] ELSE Lanes(LAMBDA i : Times(m[j][i], v[j])))

\* The SSE overload scales row 3 too, by the last lane of v.
Easy_matrix_scale_sse(m, v) ==
  Lanes(LAMBDA j : mulps(m[j], pshufd(v, <<j, j, j, j>>)))

Easy_matrix_scale3X3(m, v) ==
  Lanes(LAMBDA j : IF j = 3 THEN m[j] ELSE mulps(m[j], pshufd(v, <<j, j, j, j>>)))

\* A point as a row vector, its w taken as 1, through m; every lane is written.
Easy_matrix_mult_vector3X3(m, v) == Easy_vector_transform(m, v)
Easy_matrix_mult_vector3X3_sse(m, v) == Easy_vector_transform_sse(m, v)

\* A direction: row 3 is left out.
Easy_matrix_mult_Normal3X3(m, v) ==
  addps(addps(mulps(pshufd(v, Imm(0)), m[0]), mulps(pshufd(v, Imm(85)), m[1])),
        mulps(pshufd(v, Imm(170)), m[2]))

\* All four components of v count.
Easy_matrix_mult_vector4X4(m, v) ==
  Lanes(LAMBDA i : Plus4(Times(m[0][i], v[0]), Times(m[1][i], v[1]),
                         Times(m[2][i], v[2]), Times(m[3][i], v[3])))
Easy_matrix_mult_vector4X4_sse(m, v) == RowTimes(v, m)

\* The sum of the four products, in every lane.
mm_dot_ps(v1, v2) ==
  LET mul0 == mulps(v1, v2)
      add0 == addps(mul0, pshufd(mul0, <<1, 0, 3, 2>>))
  IN  addps(add0, pshufd(add0, <<3, 2, 1, 0>>))

\* The 2x2 minors of columns lo and hi (Fac0 to Fac5 of the inverse).
Fac(m, lo, hi) ==
  LET all(c) == <<c, c, c, c>>
      Swp0a == shufps(m[3], m[2], all(hi))
      Swp0b == shufps(m[3], m[2], all(lo))
      Swp00 == shufps(m[2], m[1], all(lo))
      Swp01 == pshufd(Swp0a, <<0, 0, 0, 2>>)
      Swp02 == pshufd(Swp0b, <<0, 0, 0, 2>>)
      Swp03 == shufps(m[2], m[1], all(hi))
  IN  subps(mulps(Swp00, Swp01), mulps(Swp02, Swp03))

\* The columns of the cofactors from the minors Fac0 to Fac5.
Cofactors(m, f0, f1, f2, f3, f4, f5) ==
  LET SignA == Vec(-1, 1, -1, 1)
      SignB == Vec(1, -1, 1, -1)
      V(c) == pshufd(shufps(m[1], m[0], <<c, c, c, c>>), <<0, 2, 2, 2>>)
      Inv(sign, v0, a, v1, b, v2, c) ==
        mulps(sign, addps(subps(mulps(v0, a), mulps(v1, b)), mulps(v2, c)))
  IN  Rows(Inv(SignB, V(1), f0, V(2), f1, V(3), f2), Inv(SignA, V(0), f0, V(2), f3, V(3), f4),
           Inv(SignB, V(0), f1, V(1), f3, V(3), f5), Inv(SignA, V(0), f2, V(1), f4, V(2), f5))

DividedByDeterminant(m, inv) ==
  LET Row2 == shufps(shufps(inv[0], inv[1], Imm(0)), shufps(inv[2], inv[3], Imm(0)), <<0, 2, 0, 2>>)
      By(rcp) == Lanes(LAMBDA j : mulps(inv[j], rcp))
  IN  By(divps(SIMD_SP_one1, mm_dot_ps(m[0], Row2)))

Easy_matrix_inv_sse(m) ==
  DividedByDeterminant(m, Cofactors(m, Fac(m, 2, 3), Fac(m, 1, 3), Fac(m, 1, 2),
                                       Fac(m, 0, 3), Fac(m, 0, 2), Fac(m, 0, 1)))

(***************************************************************************)
(* The inverse in place by pivoting (double overload).  A step takes the   *)
(* first entry of largest size left, moves it to the diagonal with a       *)
(* change of sign and sweeps its row and column; it returns early, with    *)
(* the matrix as far as it got, once the product of the pivots is tiny.    *)
(***************************************************************************)
SwapRows(m, a, b) ==
  IF a = b THEN m ELSE [m EXCEPT ![a] = m[b], ![b] = xorps(m[a], Lane)]
SwapColumns(m, a, b) ==
  Easy_matrix_transpose(SwapRows(Easy_matrix_transpose(m), a, b))

Pivot(m, k) ==
  LET Before(p, r) == p[1] < r[1] \/ (p[1] = r[1] /\ p[2] < r[2])
      Size(p) == AbsQ(m[p[1]][p[2]])
      left == (k .. 3) \X (k .. 3)
  IN  CHOOSE p \in left : \A r \in left \ {p} :
        IF Before(r, p) THEN Less(Size(r), Size(p)) ELSE ~Less(Size(p), Size(r))

Sweep(m, k) ==
  LET pvt == m[k][k]
      hold(i) == Neg(Over(m[i][k], pvt))
      entry(i, j) ==
        IF i = k THEN Over(IF j = k THEN One ELSE m[k][j], pvt)
        ELSE IF j = k THEN hold(i) ELSE Plus(m[i][j], Times(hold(i), m[k][j]))
  IN  Lanes(LAMBDA i : Lanes(LAMBDA j : entry(i, j)))

PivotStep(st, k) ==
  LET p == Pivot(st.m, k)
      det == Times(st.det, st.m[p[1]][p[2]])
  IN  IF st.singular \/ Less(AbsQ(det), Q(1, 100000))
      THEN [st EXCEPT !.singular = TRUE]
      ELSE [m |-> Sweep(SwapColumns(SwapRows(st.m, k, p[1]), k, p[2]), k),
            pvt |-> [st.pvt EXCEPT ![k] = p], det |-> det, singular |-> FALSE]

Pivoted(m) ==
  Each(PivotStep, [m |-> m, pvt |-> [k \in Lane |-> <<k, k>>], det |-> One, singular |-> FALSE])

Undo(m, p, k) == SwapColumns(SwapRows(m, p[2], k), p[1], k)

Easy_matrix_inv(m) ==
  LET end == Pivoted(m)
  IN  IF end.singular THEN end.m
      ELSE Undo(Undo(Undo(end.m, end.pvt[2], 2), end.pvt[1], 1), end.pvt[0], 0)
=============================================================================
