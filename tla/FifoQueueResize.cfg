SPECIFICATION Spec
CONSTANTS
    Width = 8
    InitialSize = 4
    MaxPushes = 14
    Junk = Junk
INVARIANTS
    ResizeStaysInside
\* An overrun ends the program.
CHECK_DEADLOCK FALSE
