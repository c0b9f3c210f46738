\* Two Runs, two subscriptions, a cancel may overtake the start of a task.
CONSTANTS
    r1 = r1  r2 = r2  s1 = s1  s2 = s2  m1 = m1  none = none
    Runs <- TwoRuns
    Subs <- TwoSubs
    MessageIds <- OneMessage
    NoRun <- none
    MaxEvents = 3
    ReplayEventLimit = 2
    ReplayByteLimit = 3
    MessageBytes = 3
    SubscriberQueueLimit = 3
SPECIFICATION Spec
SYMMETRY Symmetric
INVARIANTS
    OneLiveRun
    EventsStayWhole
    StreamsAreAnswered
CHECK_DEADLOCK FALSE
