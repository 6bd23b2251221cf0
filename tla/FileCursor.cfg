SPECIFICATION Spec
CONSTANTS
    NumClusters = 2
    SectorSize = 1
    SectorsPerCluster = 2
    Tag = {a}
    MaxMove = 2
    MaxSize = 3
    Lost = Lost
PROPERTIES
    ImplementsByteFile
    MirrorKept
