SPECIFICATION StructuresSpec
CONSTANTS
    \* LightMap
    NumTiles = 2
    Capacity = 1
    Lights = {l1, l2, l3}
    Junk = Junk
    \* Rasterizer
    Width = 6
    Height = 4
    TileSize = 4
    Disks <- AllDisks
    \* EventTask
    Setters = {s1, s2}
    Conts = {c1, c2, c3}
    Always = {c3}
    Owner = Owner
    None = None
    \* Containers
    Count = 4
    Bits = 8
    InitialSize = 4
    MaxPushes = 14
    Garbage = Garbage
INVARIANTS
    TypeOK
    SlotsExclusive
    JoinedLists
    ListInv
    BuildInBounds
    TexturesMatchLists
    Covered
    Tight
    FreedUnused
    Exclusive
    NextIsFree
    InOrder
PROPERTIES
    ListedStays
    FrameCompletes
    KeepsRacyPromise
    IsFreed
