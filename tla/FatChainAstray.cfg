SPECIFICATION Spec
CONSTANTS
    NumClusters = 4
INVARIANTS
    ChainsStayWhole
