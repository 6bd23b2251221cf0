CONSTANTS
    f = f
    g = g
    long = long
    NumClusters = 3
    PerCluster = 1
    Name = {f, g}
    Short <- ShortOnly
    Label = {}
    Value = {v, w}
    Absent = Absent
    Overwrite = FALSE

SPECIFICATION Spec

INVARIANTS
    UniqueNames
    NothingBehindEnd

PROPERTIES
    ImplementsDirMap

