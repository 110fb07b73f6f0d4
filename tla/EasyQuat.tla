------------------------------ MODULE EasyQuat ------------------------------
(***************************************************************************)
(* EasyQuat.h: quaternions <x, y, z, w>, one per register.  An angle is    *)
(* given by the exact sine and cosine of its half, [sin, cos]: those two   *)
(* numbers are all the code takes from it.                                 *)
(***************************************************************************)
EXTENDS EasyVector

SIMD_SP_one1 == Vec(1, 1, 1, 1)
SIMD_SP_one3 == Vec(0, 0, 0, 1)

\* omega is minus half the angle
Easy_quat_axis_angle(axis, half) ==
  LET l == SqrtQ(Easy_vector_dot(axis, axis))
      s == Over(Neg(half.sin), l)
  IN  IF Less(l, Q(1, 100000)) THEN Vec(0, 0, 0, 1)
      ELSE Ps(Times(s, axis[0]), Times(s, axis[1]), Times(s, axis[2]), half.cos)

Easy_quat_normalize_sse(q) ==
  LET xmm == mulps(q, q)
      sum == addps(addps(addps(pshufd(xmm, Imm(0)), pshufd(xmm, Imm(85))),
                         pshufd(xmm, Imm(170))), pshufd(xmm, Imm(255)))
  IN  divps(q, sqrtps(sum))

(***************************************************************************)
(* The instruction sequence Easy_quat_to_matrix and Easy_Joint_to_matrix   *)
(* share: rows 0 to 2 are the rotation with t in lane 3, row 3 is 0001.    *)
(***************************************************************************)
QuatRows(q, t) ==
  LET q2   == addps(q, q)
      a2   == mulps(pshufd(q, <<1, 0, 0, 1>>), pshufd(q2, <<1, 1, 2, 2>>))
      a4   == mulps(pshufd(q, <<2, 3, 3, 3>>), pshufd(q2, <<2, 2, 1, 0>>))
      xx   == mulss(q, q2)
      diag == subss(subss(Vec(1, 0, 0, 0), xx), a2)
      tail == shufps(diag, t, <<0, 1, 2, 3>>)
      b2   == xorps(a2, {1, 2, 3})
      b4   == addss(xorps(a4, {0, 2, 3}), SIMD_SP_one1)
      row0 == subps(b4, b2)
      c4   == subps(xorps(b4, {1, 2, 3}), movss(b2, xx))
      tyzw == pshufd(t, <<1, 2, 3, 0>>)
      row1 == pshufd(c4, <<1, 0, 3, 2>>)
      row2 == shufps(movhlps(row0, row1), tail, <<1, 3, 0, 2>>)
  IN  Ps([row0 EXCEPT ![3] = t[0]], [row1 EXCEPT ![3] = tyzw[0]], row2, SIMD_SP_one3)

Easy_quat_to_matrix(q) == QuatRows(q, SIMD_SP_one3)

\* The matrix of each joint of a skeleton: a rotation and a position.
MutantJointToMatrix(joints) ==  \* Mutant: the position pointer does not advance
  [n \in DOMAIN joints |-> QuatRows(joints[n].quat, joints[1].pos)]
Easy_Joint_to_matrix(joints) ==
  [n \in DOMAIN joints |-> QuatRows(joints[n].quat, joints[n].pos)]

\* Mutant: always the first branch
MutantQuatFromMatrix(m) ==
  LET tw == Plus4(m[0][0], m[1][1], m[2][2], One)
      s == Over(Q(1, 2), SqrtQ(tw))
      dif(a, b) == Times(Minus(a, b), s)
  IN  Ps(dif(m[1][2], m[2][1]), dif(m[2][0], m[0][2]), dif(m[0][1], m[1][0]), Times(s, tw))

(***************************************************************************)
(* A quaternion for the rotation block of m, divided by the component that *)
(* is known to be large: w, or the one of the largest diagonal entry.      *)
(***************************************************************************)
QuatFromMatrix(m) ==
  LET at(k) == m[k \div 4][k % 4]
      t(x, y, z) == Plus4(Times(x, at(0)), Times(y, at(5)), Times(z, at(10)), One)
      s(tt) == Over(Q(1, 2), SqrtQ(tt))
      sum(a, b, tt) == Times(Plus(at(a), at(b)), s(tt))
      dif(a, b, tt) == Times(Minus(at(a), at(b)), s(tt))
      tw == t(One, One, One)
      tx == t(One, Int2Q(-1), Int2Q(-1))
      ty == t(Int2Q(-1), One, Int2Q(-1))
      tz == t(Int2Q(-1), Int2Q(-1), One)
  IN  IF Less(One, tw)
      THEN Ps(dif(6, 9, tw), dif(8, 2, tw), dif(1, 4, tw), Times(s(tw), tw))
      ELSE IF Less(at(5), at(0)) /\ Less(at(10), at(0))
      THEN Ps(Times(s(tx), tx), sum(1, 4, tx), sum(8, 2, tx), dif(6, 9, tx))
      ELSE IF Less(at(10), at(5))
      THEN Ps(sum(1, 4, ty), Times(s(ty), ty), sum(6, 9, ty), dif(8, 2, ty))
      ELSE Ps(sum(8, 2, tz), sum(6, 9, tz), Times(s(tz), tz), dif(1, 4, tz))

\* The product as Easy_quat_Mult and quat_mul form it from seven shuffles.
Easy_quat_Mult(a, b) ==
  LET mul1 == mulps(a, pshufd(b, <<3, 3, 3, 3>>))
      mul2 == mulps(pshufd(a, <<2, 0, 1, 0>>), pshufd(b, <<1, 2, 0, 0>>))
      mul3 == mulps(pshufd(a, <<3, 3, 3, 1>>), pshufd(b, <<0, 1, 2, 1>>))
      mul4 == mulps(pshufd(a, <<1, 2, 0, 2>>), pshufd(b, <<2, 0, 1, 2>>))
  IN  addps(subps(mul1, mul2), addps(xorps(mul4, {3}), xorps(mul3, {3})))
=============================================================================
