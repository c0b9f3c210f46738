\* Two processes, two Sessions, two delegations of the same Session; room for
\* two Sessions, and one execution at a time in each process.
CONSTANTS
    p1 = p1  p2 = p2  s1 = s1  s2 = s2  d1 = d1  d2 = d2  d3 = d3
    Processes <- TwoProcesses
    Sessions <- TwoSessions
    Delegations <- ThreeDelegations
    Target <- SharedTarget
    MaxSessions = 2
    MaxParallel = 1
    MaxCalls = 2
SPECIFICATION Spec
SYMMETRY ProcessesAreAlike
INVARIANTS
    AnswersAreRecorded
    CheckpointHasWorkspace
PROPERTIES
    RecordedResultStands
CHECK_DEADLOCK FALSE
