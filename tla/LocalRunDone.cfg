SPECIFICATION FairSpec
CONSTANTS
    s1 = s1
    s2 = s2
    u1 = u1
    NoTask = NoTask
    Task <- MCTask
    parent <- MCParent
    Concurrency = 1
    MaxPages = 4
    MaxRetries = 2
    MaxFaults = 0
    MaxRecrawls = 1
INVARIANT CompletedRunIsDone
