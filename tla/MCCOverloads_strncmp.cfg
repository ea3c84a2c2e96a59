SPECIFICATION SpecOverloads
CONSTANTS
    Virtual <- SixBytes
    Regular <- TwoBytes
    Val = {0, 1}
    MaxSize = 7
    Sizes = {0, 2, 3}
    PageSize = 2
    LockModulus = 8
    ShortStrings = {"strncmp"}
    FarApart = FALSE
PROPERTIES
    ImplementsCLibrary
