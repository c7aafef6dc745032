SPECIFICATION MallocSpec
CONSTANTS
    ARENA = 12
    SMALL = 4
    LARGE = 16
    MaxSize = 13
INVARIANTS MallocTypeOK Tiled NoAdjacentUnused RefusedOnlyWhenFull
PROPERTY ImplementsHeap
