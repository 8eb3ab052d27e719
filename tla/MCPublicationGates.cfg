SPECIFICATION Spec
CONSTANTS
    r1 = r1
    r2 = r2
    t1 = t1
    t2 = t2
    t3 = t3
    a1 = a1
    a2 = a2
    p1 = p1
    p2 = p2
    Run <- MCRun
    Try <- MCTry2
    runOf <- MCRunOf2
    Answer <- MCAnswer1
    Product <- MCProduct
    NoRun = NoRun
    Approval = "balanced"
    MaxRemovals = 1
    MaxShare = 50
    MaxRevision = 2
    MaxEdits = 2
SYMMETRY MCSymmetry2
CHECK_DEADLOCK FALSE
INVARIANTS
    OwnerLetsDefinitionIn
    AtMostOneHeld
