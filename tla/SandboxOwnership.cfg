\* Two users with a Conversation each, room for one running container.
CONSTANTS
    t1 = t1  t2 = t2  t3 = t3  u1 = u1  u2 = u2  c1 = c1  c2 = c2
    Threads <- ThreeThreads
    Users <- TwoUsers
    Conversations <- OneEach
    Owner <- OwnerOfEach
    MaxRunning = 1
    MaxCalls = 3
    MaxTrouble = 1
SPECIFICATION Spec
SYMMETRY Alike
INVARIANTS
    RunningWithinCapacity
    UsedContainerRuns
    DeletedStaysDeleted
    NoCircularWait
CHECK_DEADLOCK FALSE
