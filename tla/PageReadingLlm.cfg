SPECIFICATION Spec
CONSTANTS
    h1 = h1  h2 = h2  a = a  b = b
    Hash = {h1, h2}
    NoHash = NoHash
    FirstSite = h1
    Value = {a, b}
    Says <- MCSays
    Fills <- MCFills
    Unsaid = Unsaid
    NoCapture = NoCapture
    KeepEarlier = 1
    MaxRuns = 3
    MaxOverlap = 1
    MaxLost = 0
    MaxRev = 1
    MaxEvents = 2
INVARIANT LlmReadThisPage
CHECK_DEADLOCK FALSE
