\* A small instance for liveness; a cancel may overtake the start of a task.
CONSTANTS
    r1 = r1  r2 = r2  s1 = s1  s2 = s2  m1 = m1  none = none
    Runs <- TwoRuns
    Subs <- TwoSubs
    MessageIds <- OneMessage
    NoRun <- none
    MaxEvents = 2
    ReplayEventLimit = 1
    ReplayByteLimit = 2
    MessageBytes = 2
    SubscriberQueueLimit = 2
SPECIFICATION FairSpec
PROPERTIES
    EveryStreamEnds
    StopEndsTheRun
CHECK_DEADLOCK FALSE
