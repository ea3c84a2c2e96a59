SPECIFICATION Spec
CONSTANTS
    ChipSizes <- SquareChip
    ByteBase = 4
    FifoSize = 2
    Sizes = {1, 2}
    MaxCalls = 2
    MaxResets = 1
CHECK_DEADLOCK FALSE
PROPERTY
    ImplementsRemotePool
