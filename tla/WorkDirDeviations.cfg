CONSTANTS
    a = a
    b = b
    Dir = {2, 3, 4, 5}
    Root = 2
    Seg = {a, b}
    Child <- Tree
    Up <- DotDots
    NoDir = NoDir
    MaxSegs = 3
    MaxDepth = 4

SPECIFICATION DirSpec

INVARIANTS
    PwdAfterSuccess

\* One at a time, as TLC stops at the first that is broken:
\*  PwdAfterFailure
\*  ParseAgreesWithCd
