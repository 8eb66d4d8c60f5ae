SPECIFICATION FairSpec
CONSTANTS
    Callers = {c1, c2}
    Paths <- MCPaths
    CallIds = {s1, s2}
    NoCall = NoCall
INVARIANTS
    OneCallPerPath
    NoResultIsUsedTwice
    CompleteBatchesMissNothing
PROPERTIES
    EveryCollectionEnds
    HungMountIsMeasuredAgain
