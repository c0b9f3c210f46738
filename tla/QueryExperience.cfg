\* Two sync workers, one recorder, three changes of the row.
CONSTANTS
    c1 = c1  w1 = w1  w2 = w2
    Recorders <- OneRecorder
    Workers <- TwoWorkers
    MaxId = 1
    MaxRevision = 3
    MaxEpoch = 2
SPECIFICATION FairSpec
INVARIANTS
    ProjectionIsExact
    PurposesOfOneGeneration
PROPERTIES
    AdministrationIsFinal
    EventuallySynced
CHECK_DEADLOCK FALSE
