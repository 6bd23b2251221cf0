CONSTANTS
    a = a
    b = b
    Dir = {2, 3, 4, 5}
    Root = 2
    Seg = {a, b}
    Child <- Tree
    Up <- DotDots
    NoDir = NoDir
    MaxSegs = 3
    MaxDepth = 3

SPECIFICATION DirSpec

INVARIANTS
    PwdIsRight
    ChangeIsRight
    ParseNeverWrong
