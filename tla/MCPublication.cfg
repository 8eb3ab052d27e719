SPECIFICATION Spec
CONSTANTS
    r1 = r1
    r2 = r2
    t1 = t1
    t2 = t2
    t3 = t3
    a1 = a1
    a2 = a2
    p1 = p1
    p2 = p2
    Run <- MCRun
    Try <- MCTry
    runOf <- MCRunOf
    Answer <- MCAnswer
    Product <- MCProduct
    NoRun = NoRun
    Approval = "auto"
    MaxRemovals = 1
    MaxShare = 50
    MaxRevision = 1
    MaxEdits = 2
SYMMETRY MCSymmetry
CHECK_DEADLOCK FALSE
INVARIANTS
    GenerationsContiguous
    PublishedInStartOrder
    QuestionFollowsSnapshot
    FileMatchesRow
    AnswerNeverGivesUp
PROPERTIES
    ImplementsHistory
