SPECIFICATION FairSpec
CONSTANTS
    Workers = {w1, w2}
    Ranges <- FourAndOne
    Scenarios <- ThreeOfEach
    Grain = 2
    Hardware = 2
    None = None
    Count = 2
INVARIANTS
    EachItemOnce
    Outcome
    FramesOutlive
    ChunksBounded
    DeletedWithLastRef
    CombinedResult
PROPERTY
    Returns
\* The program ends.
CHECK_DEADLOCK FALSE
