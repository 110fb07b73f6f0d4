SPECIFICATION Spec
CONSTANTS
    Workers = {w1, w2, w3}
    Tasks = {1, 2, 3, 4}
    Kids <- KidsOfFour
    Roots <- OneRoot
    None = None
SYMMETRY WorkerSymmetry
INVARIANTS
    WaitersOnce
    NoWorkLeftBehind
    LocalTasksOutlived
    NotifiedAfterExit
