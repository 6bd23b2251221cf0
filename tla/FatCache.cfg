SPECIFICATION Spec
CONSTANTS
    EntriesPerSector = 2
    NumSectors = 2
    NumFats = 2
    bad = bad
    good = good
    Entry <- MCEntry
    Bad = bad
    MaxLosses = 1
INVARIANTS
    CleanBufferMatchesDisk
    MirrorsAgree
PROPERTIES
    ImplementsMap
