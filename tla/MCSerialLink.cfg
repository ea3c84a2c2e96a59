SPECIFICATION FairSpec
CONSTANTS
    PoolSize = 2
    CmdStart = 8
    Val = {0, 8}
    Calls = {"read", "write", "ping", "available", "availableAtLeast", "input", "print"}
    StreamIsSerial = TRUE
    WireSize = 6
    BufferSize = 4
    MaxTyped = 2
    MaxFaults = 1
INVARIANTS
    TypeOK
    HostInStep
    InputInOrder
    PromisedInputIsThere
PROPERTIES
    ImplementsRemotePool
    
