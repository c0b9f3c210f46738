SPECIFICATION FairSpec
CONSTANTS
    w1 = w1
    w2 = w2
    v1 = v1
    Workers <- TwoWorkers
    Values <- OneValue
    MaxStamp = 3
    Lookback = 1
    Lag = 1
    RunIds <- RunPool
    Generations <- GenerationPool
    MaxTrouble = 2
    Changes <- SwitchAndEdit
INVARIANTS
    DocumentsFitState
    OneRun
PROPERTIES
    Released
    Cleared
