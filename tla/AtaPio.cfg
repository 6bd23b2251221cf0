CONSTANTS
    Lba = {1, 2}
    Version = {1, 2}

SPECIFICATION AtaSpec

INVARIANTS
    NothingMisplaced
    WritesArrive

PROPERTIES
    ReadIsRight
