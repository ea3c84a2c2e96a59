SPECIFICATION Spec
CONSTANTS
    ChipSizes <- TwoChips
    ByteBase = 4
    FifoSize = 2
    Sizes = {1, 2, 7, 8}
    MaxCalls = 2
    MaxResets = 1
CHECK_DEADLOCK FALSE
INVARIANTS
    TypeOK
    TransfersKeepApart
PROPERTIES
    ImplementsRemotePool
    CallsReturn
