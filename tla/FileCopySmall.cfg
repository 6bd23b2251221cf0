SPECIFICATION CopySpec
CONSTANTS
    NumClusters = 3
    SectorSize = 2
    SectorsPerCluster = 2
    Tag = {a}
    MaxMove = 2
    MaxSize = 4
    Lost = Lost
    BufferSize = 2
INVARIANTS
    CopyIsFaithful
    FailedCopyLeavesNothing
