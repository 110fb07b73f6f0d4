SPECIFICATION DrawSpec
CONSTANTS
    Width = 6
    Height = 4
    TileSize = 4
    Disks <- InnerDisks
INVARIANTS
    RowInMap
