SPECIFICATION CopySpec
CONSTANTS
    NumClusters = 3
    SectorSize = 1
    SectorsPerCluster = 2
    Tag = {a}
    MaxMove = 2
    MaxSize = 3
    Lost = Lost
    BufferSize = 2
INVARIANTS
    CopyIsFaithful
