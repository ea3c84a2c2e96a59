SPECIFICATION SpecOverlapping
SYMMETRY HandleSymmetry
VIEW LockState
CONSTANTS
    PoolSize = 5
    PageCount <- Pages112
    PageSize <- Bytes113
    Val = {0, 1}
    h1 = h1
    h2 = h2
    Handles = {h1, h2}
    Varying = {3}
    IOSizes = {2, 3}
    LockSizes = {2}
    MaxCleanSkips = 1
    SkipsModulus = 2
    LocksModulus = 4
CHECK_DEADLOCK FALSE
INVARIANTS
    LocksTypeOK
    NeverStops
    ListsPartitionPages
    LocksCounted
    LockedPagesDisjoint
    BigPagesComeBack
PROPERTIES
    OnlyNewLocksTakeBytes
    LocksImplementFlatMemory
