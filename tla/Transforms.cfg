\* Sequences of matrix calls, both sets of overloads against the geometry.
SPECIFICATION Spec
CONSTANTS
  Moves <- SomeMoves
  Turns <- SomeTurns
  Quats <- SomeQuats
  Scales <- SomeScales
  Looks <- SomeLooks
  Probes <- SomeProbes
  Triangles <- SomeTriangles
  Views <- SomeViews
  MaxCalls = 3
  MaxDenominator = 65
INVARIANTS
  TypeOK
  CallsGiveMatrix
  OverloadsAgree
  QuaternionKeepsUp
  JointTurnsBack
  LooksAtTarget
  TangentsFollow
  WindowCoordinates
CHECK_DEADLOCK FALSE
