SPECIFICATION WhenSpec
CONSTANT
    Count = 2
INVARIANT
    TasksPassedIn
\* The registrar returns, and the inputs finish.
CHECK_DEADLOCK FALSE
