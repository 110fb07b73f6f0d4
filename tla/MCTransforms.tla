----------------------------- MODULE MCTransforms -----------------------------
(***************************************************************************)
(* Small instances for Transforms: vectors and quaternions of rational     *)
(* length, so that every root the code takes is exact.                     *)
(***************************************************************************)
EXTENDS Transforms

V3(x, y, z) == V3Q(Int2Q(x), Int2Q(y), Int2Q(z))
HalfOf(sn, cn, d) == [sin |-> Q(sn, d), cos |-> Q(cn, d)]

SomeMoves == {V3(1, -2, 3)}
SomeTurns == {[axis |-> V3(0, 0, 2), half |-> HalfOf(3, 4, 5)],
              [axis |-> V3(0, 3, 4), half |-> HalfOf(1, 0, 1)],
              [axis |-> V3(0, 0, 0), half |-> HalfOf(3, 4, 5)]}
SomeQuats == {Vec(-1, 1, 1, 1), Vec(0, 2, 0, 0)}
SomeScales == {V3(2, -1, 3)}
SomeProbes == {V3(1, 0, 2), V3(-1, 3, 1)}
SomeLooks ==
  {[how |-> "camera", from |-> V3(1, 1, 0), to |-> V3(1, 1, -2), half |-> HalfOf(3, 4, 5)],
   [how |-> "camera", from |-> V3(0, 0, 1), to |-> V3(4, 3, 13), half |-> HalfOf(1, 0, 1)],
   [how |-> "view", from |-> V3(1, 1, 0), to |-> V3(5, 1, 3)],
   [how |-> "pos", from |-> V3(0, 0, 0), to |-> V3(0, 1, 0)],
   [how |-> "pos", from |-> V3(0, 0, 0), to |-> V3(0, -1, 0)],
   [how |-> "pos", from |-> V3(0, 0, 0), to |-> V3Q(Q(3, 13), Q(12, 13), Q(4, 13))]}

SomeTriangles ==
  {[corners |-> V3Q(V3(0, 1, 0), V3(1, 3, 2), V3(2, 0, 1)),
    normals |-> V3Q(V3(2, 1, -2), V3(0, 3, 4), V3(2, -2, 1)),
    tex |-> V3Q(<<Zero, Zero>>, <<One, Zero>>, <<One, Int2Q(2)>>)]}

\* A field of view of 90 degrees, near 1 and far 3, on a window of 8 by 4.
SomeViews == {[tan |-> One, aspect |-> Int2Q(2), near |-> One, far |-> Int2Q(3),
               width |-> 8, height |-> 4]}
=============================================================================
