SPECIFICATION Spec
CONSTANTS
    Page = {p1}
    NoPage = NoPage
    GoneAfter = 2
    RefusedAfter = 2
    MissingGoneAfter = 2
    RefuseAfterRuns = 2
    MaxRuns = 1
    MaxOverlap = 1
    MaxEvents = 1
INVARIANT RemovedSourceHasNoPages
CHECK_DEADLOCK FALSE
