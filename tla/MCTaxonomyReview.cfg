SPECIFICATION Spec
CONSTANTS
    x = x  y = y  z = z  A = A  B = B  C = C  width = width  d1 = d1  d2 = d2  d3 = d3  s1 = s1  s2 = s2  c1 = c1  c2 = c2
    Item = {x, y, z}
    NoItem = NoItem
    Name = {A, B, C}
    NoName = NoName
    Seeded <- MCSeeded
    Kind = {width}
    KindOf <- MCKindOf
    NoKind = NoKind
    Additive = {width}
    Scope = {s1, s2}
    Definition = {d1, d2, d3}
    FirstDefinition = d1
    ScopeOf <- MCScopeOf
    Caller = {c1, c2}
    AutonomyAfter = 1
    Proposable <- MCProposable
    MaxAnswer = 1
    MaxRuns = 2
    MaxVersions = 4
    MaxLogged = 3
    MaxLost = 1
    MaxBusy = 2
SYMMETRY MCSymmetry
CONSTRAINT MCExplored
INVARIANTS AutonomyIsEarned SettledOnce UndoIsExact ScopeKept
CHECK_DEADLOCK FALSE
