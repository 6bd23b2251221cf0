CONSTANTS
    Limit <- MCLimit
    Start <- MCStart
    Updates = 2
    Window = 3
    ConfFile <- MCConfFile
    Bin <- MCBin
    DefaultBin <- MCDefaultBin
    BufferSize = 3
    ClusterSize = 12
    LineSize = 7
    KeySize = 3
    MaxOpen = 4
    File = {f, g}
    Image <- MCImage
    HeapSize = 6
    Area = {0, 1, 2, 3, 4, 5}
    None = None

SYMMETRY MCSymmetry

SPECIFICATION Spec

INVARIANTS
    CatShowsFile

\* One at a time, as TLC stops at the first that is broken:
\*  WordsAlwaysReachFile
\*  LongConfigIsRight       (under PROPERTIES)
