SPECIFICATION FairSpec
CONSTANTS
    BufferSize = 3
    Key = {k1, k2}
    WireSize = 2
INVARIANTS
    ReaderOwnsSlot
PROPERTIES
    ImplementsFifo
    ShellGetsKeys
CHECK_DEADLOCK FALSE
