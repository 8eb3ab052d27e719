SPECIFICATION Spec
CONSTANTS
    a = a  b = b  c = c  i1 = i1  i2 = i2  n = n  mark = mark
    Page = {a, b, c}
    NoPage = NoPage
    Order <- MCOrder
    Id = {i1, i2}
    Name = {n, mark}
    NoName = NoName
    Reads <- MCReads
    Alike <- MCAlike
    Marks <- MCMarks
    Mode = {"asks", "none"}
    MaxCandidates = 2
    MaxQuestions = 2
    MaxRuns = 2
    MaxRereads = 1
    MaxAnswers = 2
    MaxRows = 2
    MaxFaults = 1
INVARIANTS NobodyWaitsInVain DecidersAgree
PROPERTIES NameIsSettled PersonOutranks FlagWaitsForOwner
CHECK_DEADLOCK FALSE
