SPECIFICATION FairSpec
CONSTANTS
    BufferSize = 3
    Key = {k1, k2}
    WireSize = 2
PROPERTIES
    GetcharReturns
CHECK_DEADLOCK FALSE
