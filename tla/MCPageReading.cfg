SPECIFICATION Spec
CONSTANTS
    h1 = h1  h2 = h2  a = a  b = b
    Hash = {h1, h2}
    NoHash = NoHash
    FirstSite = h1
    Value = {a, b}
    Says <- MCSays
    Fills <- MCFills
    Unsaid = Unsaid
    NoCapture = NoCapture
    KeepEarlier = 1
    MaxRuns = 3
    MaxOverlap = 1
    MaxLost = 1
    MaxRev = 2
    MaxEvents = 1
INVARIANTS CurrentMeansRead ConsentHeldUnlessSkipped EvidenceKept ReadsAreNamed TwoRunsRead
CHECK_DEADLOCK FALSE
