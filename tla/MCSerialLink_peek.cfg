SPECIFICATION PeekingSpec
CONSTANTS
    PoolSize = 2
    CmdStart = 8
    Val = {0, 8}
    Calls = {"read", "peek"}
    StreamIsSerial = TRUE
    WireSize = 6
    BufferSize = 4
    MaxTyped = 1
    MaxFaults = 0
CHECK_DEADLOCK FALSE
PROPERTY CallsReturn
