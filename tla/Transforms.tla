------------------------------ MODULE Transforms ------------------------------
(***************************************************************************)
(* An object whose place is built up by calls of the matrix library, kept  *)
(* three times: as a float[4][4] worked on by the scalar overloads, as an  *)
(* __m128[4] worked on by the SSE overloads, and its orientation as a      *)
(* quaternion.  calls remembers the motions themselves, in the order a     *)
(* point meets them; what the numbers say is compared with what was asked. *)
(***************************************************************************)
EXTENDS Projection, Sequences

CONSTANTS Moves,          \* vectors to move by
          Turns,          \* rotations about an axis: [axis, half]
          Quats,          \* rotations by a quaternion of any length
          Scales,         \* factors per axis, none of them zero
          Looks,          \* cameras and frames to start from: [how, from, to]
          Probes,         \* the points followed
          Triangles,      \* triangles to carry along: [corners, normals, tex]
          Views,          \* perspectives on windows: [tan, aspect, near, far, width, height]
          MaxCalls,       \* bound: motions in a row
          MaxDenominator  \* bound: the numbers kept stay this simple

VARIABLES mat,    \* the matrix, scalar overloads
          sse,    \* the matrix, SSE overloads
          quat,   \* the orientation, while nothing but moves and turns was asked
          calls   \* the motions, first one first
vars == <<mat, sse, quat, calls>>

(***************************************************************************)
(* The motions themselves, as geometry on points.                          *)
(***************************************************************************)
Add3(a, b) == XYZ(LAMBDA i : Plus(a[i], b[i]))
Times3(a, b) == XYZ(LAMBDA i : Times(a[i], b[i]))

\* By the angle of the quaternion (v, w) about v: p + 2w(v x p) + 2v x (v x p).
TurnPoint(v, w, p) ==
  LET len == Plus(Easy_vector_dot(v, v), Times(w, w))
      once == Easy_vector_cross(v, p)
      twice == Easy_vector_cross(v, once)
      by(i) == Over(Times(Int2Q(2), Plus(Times(w, once[i]), twice[i])), len)
  IN  IF len = Zero THEN p ELSE XYZ(LAMBDA i : Plus(p[i], by(i)))

Move(c, p) ==
  IF c.kind = "move" THEN Add3(p, c.v)
  ELSE IF c.kind = "turn" THEN TurnPoint(c.v, c.w, p)
  ELSE IF c.kind = "scale" THEN Times3(p, c.v)
  ELSE IF c.kind = "swap" THEN V3Q(p[0], p[2], Neg(p[1]))
  ELSE IF c.kind = "unswap" THEN V3Q(p[0], Neg(p[2]), p[1])
  ELSE IF c.kind = "look" THEN Easy_vector_transform(c.m, p)
  ELSE LET d == Easy_vector_sub(p, c.m[3])  \* "unlook"
       IN  XYZ(LAMBDA i : Easy_vector_dot(c.m[i], d))

Undone(c) ==
  IF c.kind = "move" THEN [c EXCEPT !.v = [i \in Axis |-> Neg(@[i])]]
  ELSE IF c.kind = "turn" THEN [c EXCEPT !.w = Neg(@)]
  ELSE IF c.kind = "scale" THEN [c EXCEPT !.v = [i \in Axis |-> Over(One, @[i])]]
  ELSE IF c.kind = "swap" THEN [kind |-> "unswap"]
  ELSE IF c.kind = "unswap" THEN [kind |-> "swap"]
  ELSE [c EXCEPT !.kind = IF @ = "look" THEN "unlook" ELSE "look"]

\* Where the motions cs take p.
Follow(cs, p) ==
  LET after[n \in 0 .. Len(cs)] == IF n = 0 THEN p ELSE Move(cs[n], after[n - 1])
  IN  after[Len(cs)]

Asked(p) == Follow(calls, p)

Only(kinds) == \A n \in DOMAIN calls : calls[n].kind \in kinds
Rigid == Only({"move", "turn"})

(***************************************************************************)
(* The calls.                                                              *)
(***************************************************************************)
LookMatrix(look) ==
  IF look.how = "camera" THEN Easy_matrix_camera_roll(look.from, look.to, look.half)
  ELSE IF look.how = "view"
  THEN Easy_ViewTo(Easy_vector_copy(look.from, One), Easy_vector_copy(look.to, One))
  ELSE LET f == Easy_PosTo(Easy_vector_copy(look.to, One))  \* "pos"
       IN  Rows(f[1], f[2], f[3], IdentityMatrix[3])

(***************************************************************************)
(* What is asked for consists of numbers, and the roots taken on the way   *)
(* to it have exact values (see Rational).  A quaternion shorter than the  *)
(* square root of 1/100000 is left out: the scalar code takes it for zero. *)
(***************************************************************************)
Vectors == [Axis -> Number]
Registers == [Lane -> Number]

ASSUME MovesAssumption == Moves \subseteq Vectors

ASSUME ProbesAssumption == Probes \subseteq Vectors

ASSUME ScalesAssumption ==
  \A v \in Scales : v \in Vectors /\ \A i \in Axis : v[i] # Zero

HalfAngle(half) ==
  /\ half.sin \in Number /\ half.cos \in Number
  /\ Plus(Times(half.sin, half.sin), Times(half.cos, half.cos)) = One

ASSUME TurnsAssumption ==
  \A turn \in Turns :
    LET l == SqrtQ(Easy_vector_dot(turn.axis, turn.axis))
    IN  /\ turn.axis \in Vectors /\ HalfAngle(turn.half)
        /\ IsNumber(l) /\ (l = Zero \/ ~Less(l, Q(1, 100000)))

ASSUME QuatsAssumption ==
  \A r \in Quats :
    LET l == Plus4(Times(r[0], r[0]), Times(r[1], r[1]), Times(r[2], r[2]), Times(r[3], r[3]))
    IN  r \in Registers /\ IsNumber(SqrtQ(l)) /\ ~Less(l, Q(1, 100000))

\* A direction looked in, how far it goes, and the length of a part of it.
Sight(p, q) == Unit(Easy_vector_sub(q, p))
Distance(p, q) ==
  SqrtQ(Easy_vector_dot(Easy_vector_sub(q, p), Easy_vector_sub(q, p)))
Side(a, b) == SqrtQ(Plus(Times(a, a), Times(b, b)))

\* A view cannot look straight up or down: Easy_ViewTo does not tell that apart.
ASSUME LooksAssumption ==
  \A look \in Looks :
    LET to == Sight(look.from, look.to)
        back == Sight(look.to, look.from)
        Apart(l) == IsNumber(l) /\ l # Zero
    IN  /\ look.how \in {"camera", "view", "pos"}
        /\ look.from \in Vectors /\ look.to \in Vectors
        /\ look.how = "camera" => /\ HalfAngle(look.half)
                                  /\ Apart(Distance(look.from, look.to))
                                  /\ IsNumber(Side(to[0], to[1]))
        /\ look.how = "view" => /\ Apart(Distance(look.to, look.from))
                                /\ Apart(Side(back[0], back[2]))
        /\ look.how = "pos" => /\ Easy_vector_dot(look.to, look.to) = One
                               /\ IsNumber(Side(look.to[0], look.to[2]))

\* A triangle has an area in its texture, its tangent a direction, and its
\* normals have one each.
ASSUME TrianglesAssumption ==
  \A tri \in Triangles :
    LET Apart(v) == LET l == SqrtQ(Easy_vector_dot(v, v)) IN IsNumber(l) /\ l # Zero
    IN  /\ tri.corners \in [Axis -> Vectors] /\ tri.normals \in [Axis -> Vectors]
        /\ \A k \in Axis, c \in {1, 2} : tri.tex[k][c] \in Number
        /\ ~Negligible(TexArea(tri.tex))
        /\ Apart(TexDirection(tri.corners, tri.tex))
        /\ \A k \in Axis : Apart(tri.normals[k])

\* The near plane is in front of the eye by more than what is taken for nothing.
ASSUME ViewsAssumption ==
  \A view \in Views :
    /\ view.tan \in Number /\ view.aspect \in Number /\ view.near \in Number /\ view.far \in Number
    /\ Less(Zero, view.tan) /\ Less(Zero, view.aspect)
    /\ Less(Zero, view.near) /\ ~Negligible(view.near) /\ Less(view.near, view.far)
    /\ view.width \in Nat \ {0} /\ view.height \in Nat \ {0}

Init ==
  /\ quat = Vec(0, 0, 0, 1)
  /\ \/ mat = IdentityMatrix /\ calls = <<>>
     \/ \E look \in Looks : /\ mat = LookMatrix(look)
                            /\ calls = << [kind |-> "look", m |-> mat, look |-> look] >>
  /\ sse = mat

Fits(x) == \A j, i \in Lane : x[j][i][2] <= MaxDenominator

\* One more motion, before or after the others, with the numbers still small.
Before(c) == Len(calls) < MaxCalls /\ calls' = <<c>> \o calls /\ Fits(mat')
After(c) == Len(calls) < MaxCalls /\ calls' = Append(calls, c) /\ Fits(mat')

TranslateInternal(v) ==
  /\ mat' = Easy_matrix_translate_Internal(mat, v)
  /\ sse' = Easy_matrix_translate_Internal_sse(sse, Easy_vector_copy(v, One))
  /\ Before([kind |-> "move", v |-> v])
  /\ UNCHANGED quat

TranslateExternal(v) ==
  /\ mat' = Easy_matrix_translate_External(mat, v)
  /\ sse' = Easy_matrix_translate_External(sse, Easy_vector_copy(v, One))
  /\ After([kind |-> "move", v |-> v])
  /\ UNCHANGED quat

\* A positive angle turns clockwise as seen from the tip of the axis.
Rotate(turn) ==
  LET half == turn.half
      l == SqrtQ(Easy_vector_dot(turn.axis, turn.axis))
  IN  /\ mat' = Easy_matrix_rotate(mat, half, turn.axis)
      /\ sse' = Easy_matrix_rotate_sse(sse, half, turn.axis)
      /\ quat' = Easy_quat_Mult(quat, Easy_quat_axis_angle(turn.axis, half))
      /\ Before([kind |-> "turn", v |-> [i \in Axis |-> Times(Neg(half.sin), turn.axis[i])],
                 w |-> Times(half.cos, l)])

RotateQuat(r) ==
  /\ mat' = Easy_matrix_rotate_quat(mat, r)
  /\ sse' = Easy_matrix_rotate_quat_sse(sse, r)
  /\ quat' = Easy_quat_Mult(quat, Easy_quat_normalize_sse(r))
  /\ Before([kind |-> "turn", v |-> Easy_vector_copy_out(r), w |-> r[3]])

Scale(v) ==
  /\ mat' = Easy_matrix_scale(mat, v)
  /\ sse' = Easy_matrix_scale_sse(sse, Easy_vector_copy(v, One))
  /\ Before([kind |-> "scale", v |-> v])
  /\ UNCHANGED quat

\* Mirror by a product with the constant TurnY: the output is the second
\* input for the SSE code, a matrix of its own for the scalar code.
Mirror ==
  /\ mat' = Easy_matrix_mult([m |-> mat, k |-> TurnY, o |-> mat], "o", "k", "m").o
  /\ sse' = mm_mul_matrix([s |-> sse, k |-> TurnY], "k", "s", "s").s
  /\ After([kind |-> "scale", v |-> [i \in Axis |-> Int2Q(IF i = 1 THEN -1 ELSE 1)]])
  /\ UNCHANGED quat

\* A quarter turn about x by a product with TurnYZ, put before the rest.
SwapYZ ==
  /\ mat' = Easy_matrix_mult([m |-> mat, k |-> TurnYZ], "m", "m", "k").m
  /\ sse' = Easy_matrix_mult_sse([s |-> sse, k |-> TurnYZ], "s", "s", "k").s
  /\ Before([kind |-> "swap"])
  /\ UNCHANGED quat

Reversed == [n \in DOMAIN calls |-> Undone(calls[Len(calls) + 1 - n])]

\* The orientation is read off the new matrix while it has one.
Invert ==
  /\ calls # <<>>
  /\ mat' = Easy_matrix_inv(mat)
  /\ sse' = Easy_matrix_inv_sse(sse)
  /\ Fits(mat')
  /\ quat' = IF Rigid THEN QuatFromMatrix(mat') ELSE quat
  /\ calls' = Reversed

\* Turns alone are undone by the transpose.
Transpose ==
  /\ calls # <<>> /\ Only({"turn", "swap", "unswap"})
  /\ mat' = Easy_matrix_transpose(mat)
  /\ sse' = Easy_matrix_transpose_sse(sse)
  /\ quat' = IF Rigid THEN QuatFromMatrix(mat') ELSE quat
  /\ calls' = Reversed

Next ==
  \/ \E v \in Moves : TranslateInternal(v) \/ TranslateExternal(v)
  \/ \E turn \in Turns : Rotate(turn)
  \/ \E r \in Quats : RotateQuat(r)
  \/ \E v \in Scales : Scale(v)
  \/ Mirror
  \/ SwapYZ
  \/ Invert
  \/ Transpose

Spec == Init /\ [][Next]_vars

(***************************************************************************)
(* Properties.                                                             *)
(***************************************************************************)
\* The double inverse does not give up on account of the product of its pivots.
Invertible == ~Pivoted(mat).singular

\* Type: proper numbers everywhere (no root of zero, no division by zero has
\* crept in), and a last column of 0 0 0 1, which most calls rely on.
TypeOK ==
  /\ \A j, i \in Lane : IsNumber(mat[j][i])
  /\ \A j \in Lane : mat[j][3] = IF j = 3 THEN One ELSE Zero
  /\ Rigid => \A i \in Lane : IsNumber(quat[i])

\* The order and sense of the calls: whatever moves, turns, scalings, mirrors,
\* inversions and transpositions were called (EasyMatrix.h:181-740, 1449), the
\* matrix takes a point where those motions take it, internal ones before all
\* earlier ones and external ones after them.
CallsGiveMatrix == \A p \in Probes : Easy_matrix_mult_vector3X3(mat, p) = Asked(p)

\* The SSE overloads, written in shuffles, with lane 3 along for the ride and
\* outputs on top of inputs, leave the same numbers as the scalar loops after
\* any sequence of calls, and so do the overloads that apply the matrix.
OverloadsAgree ==
  /\ sse = mat
  /\ \A p \in Probes :
       LET v == Easy_vector_copy(p, One)
       IN  /\ Easy_matrix_mult_vector4X4_sse(sse, v) = Easy_matrix_mult_vector4X4(mat, v)
           /\ Easy_matrix_mult_vector3X3_sse(sse, v) = Easy_matrix_mult_vector4X4(mat, v)
           /\ Easy_matrix_scale3X3(sse, v) = Easy_matrix_scale(mat, p)
           /\ Easy_vector_copy_out(Easy_vector_cross_sse(v, Easy_matrix_mult_vector4X4(mat, v)))
                = Easy_vector_cross(p, Easy_matrix_mult_vector3X3(mat, p))

\* An orientation kept as a product of quaternions (EasyQuat.h:504) is the one
\* the matrix holds: going there by Easy_quat_to_matrix and back by
\* QuatFromMatrix, through whichever of its four branches, is exact up to sign.
QuaternionKeepsUp ==
  Rigid => LET R == Easy_quat_to_matrix(quat)
           IN  /\ \A j, i \in Axis : R[j][i] = mat[j][i]
               /\ QuatFromMatrix(mat) \in {quat, [i \in Lane |-> Neg(quat[i])]}

\* The rows of a joint's matrix (EasyQuat.h:352), applied to a column (p, 1),
\* turn back what the quaternion's matrix turns when it is applied to the row
\* p, and then move by the joint's position.
JointTurnsBack ==
  Rigid => LET J == Easy_Joint_to_matrix(<<[quat |-> SIMD_SP_one3, pos |-> SIMD_SP_one3],
                                          [quat |-> quat, pos |-> mat[3]]>>)[2]
           IN  \A p \in Probes :
                 LET turned == Easy_matrix_mult_Normal3X3(sse, Easy_vector_copy(p, Zero))
                     back == [j \in Axis |-> mm_dot_ps(J[j], [turned EXCEPT ![3] = One])[3]]
                 IN  back = Add3(p, mat[3])

\* What the matrix m of a look does: a camera takes its position to the origin
\* and its target onto the y axis; a view takes its target onto the negative z
\* axis; a frame points its z axis, straight up or down if the code cannot tell
\* the direction from that (EasyMatrix.h:1531, 1936, 1969).
On(axis, d) == [i \in Axis |-> IF i = axis THEN d ELSE Zero]

Aims(look, m) ==
  LET At(p) == Easy_vector_transform(m, p)
      dist == Distance(look.from, look.to)
      front == At(On(2, One))
  IN  /\ look.how = "camera" => At(look.from) = On(0, Zero) /\ At(look.to) = On(1, dist)
      /\ look.how = "view" => At(Easy_vector_sub(look.to, look.from)) = On(2, Neg(dist))
      /\ look.how = "pos" => \/ front = look.to
                             \/ /\ front \in {On(1, One), On(1, Neg(One))}
                                /\ Less(Easy_vector_Getlenth_2(look.to, front), Q(1, 100000))

\* The axes are right-handed and of length one, straight up and down included.
RightHanded(m) ==
  /\ \A j \in Axis : Easy_vector_dot(m[j], m[j]) = One
  /\ Easy_vector_cross(m[0], m[1]) = Easy_vector_copy_out(m[2])

\* After a look, however often it was inverted, the matrix is one that looks at
\* its target.
LooksAtTarget ==
  Len(calls) = 1 /\ calls[1].kind = "look" => Aims(calls[1].look, mat) /\ RightHanded(mat)

\* The tangents of a moved triangle are the moved tangents of the triangle,
\* and each is at right angles to its normal (EasyMatrix.h:1873).
TangentsFollow ==
  Rigid =>
    LET Turned(v) == Easy_vector_copy_out(Easy_matrix_mult_Normal3X3(sse, Easy_vector_copy(v, Zero)))
    IN  \A tri \in Triangles :
          LET old == CreateTangent(tri.corners, tri.normals, tri.tex)
              new == CreateTangent(XYZ(LAMBDA k : Easy_matrix_mult_vector3X3(mat, tri.corners[k])),
                                   XYZ(LAMBDA k : Turned(tri.normals[k])), tri.tex)
          IN  \A k \in Axis : /\ new[k] = Turned(old[k])
                              /\ Easy_vector_dot(new[k], Turned(tri.normals[k])) = Zero

\* The rasterizer's way to window coordinates (STLLRasterizer.cpp:155) and
\* PointProjectD's are the same but for the direction of y and the range of z; the radius it
\* draws with shrinks with the distance to the eye.
ProjectionsAgree(view, p) ==
  LET matProj == EastPerspective(view.tan, view.aspect, view.near, view.far)
      eye == Easy_matrix_mult_vector3X3(mat, p)
      light == DrawLight(eye, One, matProj, view.width, view.height)
      window == PointProjectD(p, mat, matProj, <<Zero, Zero, Int2Q(view.width), Int2Q(view.height)>>)
  IN  ~Negligible(Neg(eye[2])) =>
        /\ window[0] = light.x
        /\ window[1] = Minus(Int2Q(view.height), light.y)
        /\ window[2] = Times(Plus(light.z, One), Q(1, 2))
        /\ Times(light.radius, Neg(eye[2])) = Int2Q(view.height)

\* The corners of the view volumes, put back to where the object came from by
\* the SSE inverse, project onto the corners of the window and the ends of depth.
ViewVolumeFillsWindow(tan, aspect, near, far) ==
  LET back == Easy_matrix_inv_sse(sse)
      persp == EastPerspective(tan, aspect, near, far)
      ortho == EasyOrtho(Neg(aspect), tan, Neg(near), far, near, far)
      Home(x, y, z) == Easy_matrix_mult_vector3X3(back, V3Q(x, y, z))
  IN  \A a, b \in {-1, 1}, d \in {near, far} :
        LET y == Times(Times(d, tan), Int2Q(b))
            x == Times(Times(Times(d, tan), aspect), Int2Q(a))
            bx == IF a = 1 THEN tan ELSE Neg(aspect)
            by == IF b = 1 THEN far ELSE Neg(near)
            end == IF d = near THEN -1 ELSE 1
        IN  /\ PointProjectD(Home(x, y, Neg(d)), mat, persp, <<Zero, Zero, Int2Q(2), Int2Q(2)>>)
                 = V3Q(Int2Q(a + 1), Int2Q(b + 1), Q(end + 1, 2))
            /\ Easy_matrix_mult_vector4X4(ortho, Easy_matrix_mult_vector4X4(mat,
                   Easy_vector_copy(Home(bx, by, Neg(d)), One))) = Vec(a, b, end, 1)

\* The way to window coordinates, while both inverses can invert the matrix.
WindowCoordinates ==
  /\ Invertible
  /\ \A view \in Views : /\ \A p \in Probes : ProjectionsAgree(view, p)
                         /\ ViewVolumeFillsWindow(view.tan, view.aspect, view.near, view.far)
=============================================================================
