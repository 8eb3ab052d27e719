SPECIFICATION Spec
CONSTANTS
    Page = {p1}
    NoPage = NoPage
    GoneAfter = 2
    RefusedAfter = 2
    MissingGoneAfter = 2
    RefuseAfterRuns = 2
    MaxRuns = 3
    MaxOverlap = 2
    MaxEvents = 1
INVARIANTS GoneIsEarned StandingIsEarned BlocksCountOnce CountSaysTheSame
PROPERTY NotFoundStaysGone
CHECK_DEADLOCK FALSE
