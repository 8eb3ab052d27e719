SPECIFICATION FairSpec
CONSTANTS
    j1 = j1
    s1 = s1
    s2 = s2
    u1 = u1
    c1 = c1
    c2 = c2
    w1 = w1
    Job = {j1}
    Task <- MCTask
    Caller = {c1, c2}
    Reconciler = {w1}
    NoTask = NoTask
    NoJob = NoJob
    jobOf <- MCJobOf
    parent <- MCParent
    MaxPages = 2
    MaxConcurrent = 1
    MaxFaults = 1
CHECK_DEADLOCK FALSE
INVARIANTS
    NoTaskForgotten
    SettledJobIsReconciled
    EntitiesNotDoubled
PROPERTIES
    JobEnds
