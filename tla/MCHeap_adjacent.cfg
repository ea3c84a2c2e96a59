SPECIFICATION Spec
CONSTANTS
    PoolSize = 24
    HeaderSize = 2
    StartOffset = 2
    MinAlloc = 3
    AllocSizes = {1, 3}
    MaxLive = 3
INVARIANT AdjacentFreeBlocksCombined
