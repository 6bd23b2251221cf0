SPECIFICATION Spec
CONSTANTS
    NumClusters = 2
    SectorSize = 1
    SectorsPerCluster = 2
    Tag = {a}
    MaxMove = 2
    MaxSize = 3
    Lost = Lost
PROPERTIES
    ReadsDeliver

\* One at a time, as TLC stops at the first that is broken:
\*  OnlyFailuresReachMirror
\*  OnlyEdgesReachMirror
