SPECIFICATION FairSpec
CONSTANTS
    NumClusters = 4
INVARIANTS
    NoCrossLink
    NoDanglingLink
    HeadsStartChains
    NoLeak
PROPERTIES
    HeldChainsOnlyGrow
    CallsReturn
