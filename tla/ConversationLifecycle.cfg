SPECIFICATION FairSpec
CONSTANTS
    p1 = p1  p2 = p2  w1 = w1  w2 = w2
    Apis <- TwoApis
    Workers <- TwoWorkers
    MaxTrouble = 3
INVARIANTS
    NothingLeft
PROPERTIES
    KeepsPromise
    DeletionCompletes
CHECK_DEADLOCK FALSE
