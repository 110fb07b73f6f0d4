SPECIFICATION WhenSpec
CONSTANT
    Count = 2
INVARIANT
    DeletedOnce
\* The registrar returns, and the inputs finish.
CHECK_DEADLOCK FALSE
