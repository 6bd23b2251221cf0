CONSTANTS
    NumClusters = 3
    PerSector = 2
    Name = {f, g, h}
    MaxEntries = 2
    MaxSize = 3

SPECIFICATION Spec

SYMMETRY Names

INVARIANTS
    ChainsAreOwn
    FilesSurvive
    DiskLinksLead
    NoLostCluster

PROPERTIES
    MkdirReachesDisk
