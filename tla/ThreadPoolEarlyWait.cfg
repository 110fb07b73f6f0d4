SPECIFICATION Spec
CONSTANTS
    Workers = {w1, w2}
    Tasks = {1, 2, 3}
    Kids <- KidsOfThree
    Roots <- OneRoot
    None = None
INVARIANTS
    WaitedMeansFinished
