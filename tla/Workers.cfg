SPECIFICATION WorkersSpec
CONSTANTS
    \* ThreadPool
    Workers = {w1, w2}
    Tasks = {1, 2, 3, 4}
    Kids <- KidsOfPairs
    Roots <- TwoRoots
    None = None
    \* WorkStealQueue
    Thieves = {i1, i2}
    Width = 4
    InitialSize = 1
    Start = 14
    MaxPushes = 4
    Null = Null
INVARIANT
    EmptyPopMeansEmpty
PROPERTIES
    TasksFinish
    IsTaskDeque
    OperationsReturn
