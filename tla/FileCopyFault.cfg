SPECIFICATION CopySpec
CONSTANTS
    NumClusters = 3
    SectorSize = 1
    SectorsPerCluster = 2
    Tag = {a}
    MaxMove = 2
    MaxSize = 2
    Lost = Lost
    BufferSize = 1
INVARIANTS
    SuccessMeansCopied
