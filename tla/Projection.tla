------------------------------ MODULE Projection ------------------------------
(***************************************************************************)
(* The second half of EasyMatrix.h (cameras, projections, frames, tangents)*)
(* and what the rasterizer does with them to a light.                      *)
(***************************************************************************)
EXTENDS EasyMatrix

\* Easy_vector_normalize(float[3]): the SSE code with 0 in the last lane.
Unit(c) == Easy_vector_copy_out(Easy_vector_normalize_sse(Easy_vector_copy(c, Zero)))

\* Three axes as the columns of a rotation.
Columns(a, b, c) ==
  Lanes(LAMBDA j : IF j = 3 THEN IdentityMatrix[3] ELSE Ps(a[j], b[j], c[j], Zero))

\* The axes of a camera as columns: y towards the target, z as far up as it goes.
AxesAlong(y) ==
  LET up == IF y[0] # Zero \/ y[1] # Zero THEN Vec(0, 0, 1, 0) ELSE Vec(-1, 0, 0, 0)
      x == Easy_vector_cross(y, up)
  IN  Columns(Unit(x), y, Unit(Easy_vector_cross(x, y)))

CameraAxes(pos, tgt) == AxesAlong(Unit(Easy_vector_sub(tgt, pos)))

\* Mutant: the position is taken away last
MutantCameraRoll(pos, tgt, half) ==
  LET rolled == Easy_matrix_rotate(IdentityMatrix, half, Vec(0, 1, 0, 0))
      mem == Easy_matrix_mult([matrix |-> rolled, M |-> CameraAxes(pos, tgt)],
                              "matrix", "matrix", "M")
  IN  Easy_matrix_translate_External(mem.matrix, XYZ(LAMBDA i : Neg(pos[i])))

\* With roll, the camera of lib3ds: it takes the position away first.
Easy_matrix_camera_roll(pos, tgt, half) ==
  LET rolled == Easy_matrix_rotate(IdentityMatrix, half, Vec(0, 1, 0, 0))
      mem == Easy_matrix_mult([matrix |-> rolled, M |-> CameraAxes(pos, tgt)],
                              "matrix", "matrix", "M")
  IN  Easy_matrix_translate_Internal(mem.matrix, XYZ(LAMBDA i : Neg(pos[i])))

\* So small that nothing is divided by it.
Negligible(a) == Less(AbsQ(a), Q(1, 10000000))

\* Window coordinates of a point in eye space.  The last row of the projection
\* is taken to be 0 0 -1 0; near the eye plane nothing is divided.
PointProject(eye, projection, viewport) ==
  LET clip == Easy_matrix_mult_vector4X4(projection, eye)
      w == Neg(eye[2])
      r == IF Negligible(w) THEN w ELSE Over(One, w)
      half(c) == Plus(Times(Times(clip[c], r), Q(1, 2)), Q(1, 2))
  IN  V3Q(Plus(Times(half(0), viewport[3]), viewport[1]),
          Plus(Times(half(1), viewport[4]), viewport[2]),
          half(2))

PointProjectD(obj, modelview, projection, viewport) ==
  PointProject(Easy_matrix_mult_vector4X4(modelview, Easy_vector_copy(obj, One)),
               projection, viewport)

EasyOrtho(left, right, bottom, top, n, f) ==
  LET Scale(d, hi, lo) == Over(Int2Q(d), Minus(hi, lo))
      Shift(hi, lo) == Neg(Over(Plus(hi, lo), Minus(hi, lo)))
  IN  Rows(Ps(Scale(2, right, left), Zero, Zero, Zero),
           Ps(Zero, Scale(2, top, bottom), Zero, Zero),
           Ps(Zero, Zero, Scale(-2, f, n), Zero),
           Ps(Shift(right, left), Shift(top, bottom), Shift(f, n), One))

\* Mutant: the aspect ratio is taken as height over width
MutantPerspective(tan, aspectRatio, znear, zfar) ==
  LET ymax == Times(znear, tan)
      depth == Minus(zfar, znear)
  IN  Rows(Ps(Over(znear, Over(ymax, aspectRatio)), Zero, Zero, Zero),
           Ps(Zero, Over(znear, ymax), Zero, Zero),
           Ps(Zero, Zero, Over(Neg(Plus(zfar, znear)), depth), Int2Q(-1)),
           Ps(Zero, Zero, Over(Times(Int2Q(-2), Times(znear, zfar)), depth), Zero))

\* tan is the tangent of half the field of view
EastPerspective(tan, aspectRatio, znear, zfar) ==
  LET ymax == Times(znear, tan)
      xmax == Times(ymax, aspectRatio)
      depth == Minus(zfar, znear)
  IN  Rows(Ps(Over(znear, xmax), Zero, Zero, Zero),
           Ps(Zero, Over(znear, ymax), Zero, Zero),
           Ps(Zero, Zero, Over(Neg(Plus(zfar, znear)), depth), Int2Q(-1)),
           Ps(Zero, Zero, Over(Times(Int2Q(-2), Times(znear, zfar)), depth), Zero))

\* T less its part along the unit vector n.
Aside(T, n) ==
  Easy_vector_copy_out(subps(T, Easy_vector_scalar_mul_sse(n, Easy_vector_dot_sse(T, n))))

\* Mutant: the parts along the normals stay
MutantTangent(V, N, tex) ==
  LET T == Easy_vector_normalize_sse(Easy_vector_copy(Easy_vector_sub(V[1], V[0]), Zero))
  IN  XYZ(LAMBDA k : Easy_vector_copy_out(T))

\* Edges of a triangle, in space and in its texture, from corner 0 to corner k.
Edge(V, k) == Easy_vector_sub(V[k], V[0])
TexEdge(tex, k, c) == Minus(tex[k][c], tex[0][c])

\* Twice the area of the triangle in its texture, with sign.
TexArea(tex) ==
  Minus(Times(TexEdge(tex, 1, 1), TexEdge(tex, 2, 2)), Times(TexEdge(tex, 2, 1), TexEdge(tex, 1, 2)))

\* The direction in space in which u grows (sdir).
TexDirection(V, tex) ==
  LET dir(i) == Times(Minus(Times(TexEdge(tex, 2, 2), Edge(V, 1)[i]),
                            Times(TexEdge(tex, 1, 2), Edge(V, 2)[i])),
                      Over(One, TexArea(tex)))
  IN  Ps(dir(0), dir(1), dir(2), Zero)

\* Three tangents of a triangle with its texture coordinates: the direction in
\* which u grows, less its part along the normal of each corner.
CreateTangent(V, N, tex) ==
  LET T == Easy_vector_normalize_sse(TexDirection(V, tex))
      On(k) == Easy_vector_normalize_sse(Easy_vector_copy(N[k], Zero))
  IN  IF Negligible(TexArea(tex))
      THEN XYZ(LAMBDA k : Easy_vector_copy_out(Vec(1, 0, 0, 0)))
      ELSE XYZ(LAMBDA k : Aside(T, On(k)))

\* Mutant: straight up and down are not told apart from other directions
MutantPosTo(TgtDir) ==
  LET z == [TgtDir EXCEPT ![3] = Zero]
      x == [Easy_vector_normalize_sse(Easy_vector_cross_sse(Vec(0, 1, 0, 1), z)) EXCEPT ![3] = Zero]
  IN  <<x, [Easy_vector_normalize_sse(Easy_vector_cross_sse(z, x)) EXCEPT ![3] = Zero], z>>

\* Rows 0 to 2 of a matrix whose z axis is TgtDir, y as far up as it goes.
Easy_PosTo(TgtDir) ==
  LET Near(v) == Less(Easy_vector_Getlenth_2(TgtDir, v), Q(1, 100000))
      z == [TgtDir EXCEPT ![3] = Zero]
      x == [Easy_vector_normalize_sse(Easy_vector_cross_sse(Vec(0, 1, 0, 1), z)) EXCEPT ![3] = Zero]
      y == [Easy_vector_normalize_sse(Easy_vector_cross_sse(z, x)) EXCEPT ![3] = Zero]
  IN  IF Near(Vec(0, -1, 0, 1)) THEN <<Vec(1, 0, 0, 0), Vec(0, 0, 1, 0), Vec(0, -1, 0, 0)>>
      ELSE IF Near(Vec(0, 1, 0, 1)) THEN <<Vec(1, 0, 0, 0), Vec(0, 0, -1, 0), Vec(0, 1, 0, 0)>>
      ELSE <<x, y, z>>

\* The rotation to a frame whose z axis points from the target to the source.
Easy_ViewTo(SrcPos, TgtPos) ==
  LET z == Easy_vector_normalize_sse([subps(SrcPos, TgtPos) EXCEPT ![3] = Zero])
      Frame(x) == Columns(x, Easy_vector_cross_sse(z, x), z)
  IN  Frame(Easy_vector_normalize_sse(Easy_vector_cross_sse(Vec(0, 1, 0, 0), z)))

\* The matrix to window coordinates the rasterizer's constructor sets up.
matVP(width, height) ==
  Rows([IdentityMatrix[0] EXCEPT ![0] = Q(width, 2)],
       [IdentityMatrix[1] EXCEPT ![1] = Q(-height, 2)], IdentityMatrix[2],
       [IdentityMatrix[3] EXCEPT ![0] = Q(width, 2), ![1] = Q(height, 2)])

\* Where DrawLight puts a light, with which radius, and whether its depth is refused.
DrawLight(pos, range, matProj, width, height) ==
  LET clip == Easy_matrix_mult_vector4X4_sse(matProj, Easy_vector_copy(pos, One))
      r == Over(One, clip[3])
      dst == Easy_matrix_mult_vector4X4_sse(matVP(width, height),
                                            Easy_vector_scalar_mul_sse(clip, r))
      reach == Times(r, range)
  IN  [x |-> dst[0], y |-> dst[1], z |-> dst[2],
       radius |-> Times(reach, Int2Q(height)),
      refused |-> Less(Plus(dst[2], reach), Zero) \/ Less(One, Minus(dst[2], reach))]
=============================================================================
