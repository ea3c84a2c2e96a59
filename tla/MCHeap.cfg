SPECIFICATION Spec
CONSTANTS
    PoolSize = 24
    HeaderSize = 2
    StartOffset = 2
    MinAlloc = 3
    AllocSizes = {1, 3, 5}
    MaxLive = 3
INVARIANTS
    TypeOK
    FreeListIsSortedCircle
    BlocksHoldTheirSizes
    PoolDivided
PROPERTIES
    GrowsOnlyWhenNothingFits
    ImplementsBlocks
