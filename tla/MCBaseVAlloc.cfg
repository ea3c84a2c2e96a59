SPECIFICATION SpecIO
SYMMETRY ByteSymmetry
VIEW AllocatorState
CONSTANTS
    PoolSize = 7
    b0 = b0
    b1 = b1
    Val = {b0, b1}
    Varying = {1, 3, 6}
    IOSizes = {1, 2}
    PageCount <- TwoBigPages
    PageSize <- TwoBytePages
    MaxCleanSkips = 2
    SkipsModulus = 4
INVARIANTS
    TypeOK
    PagesDisjoint
    CleanPagesMatchStore
    SwapAlwaysPossible
PROPERTIES
    ImplementsFlatMemory
    WritesBackCurrentBytes
    FlushCompletes
