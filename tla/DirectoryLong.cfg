CONSTANTS
    f = f
    g = g
    long = long
    NumClusters = 2
    PerCluster = 2
    Name = {f, g, long}
    Short <- ShortAndLong
    Label = {}
    Value = {v}
    Absent = Absent
    Overwrite = FALSE

SPECIFICATION Spec

INVARIANTS
    CreatedIsFound

