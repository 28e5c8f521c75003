CONSTANTS
    Conns = {c1, c2}
    Players = {p1}
    Bots = {}
    NoAuth = {TRUE, FALSE}
    FailOpen = {TRUE, FALSE}
    Sessions = {1, 2, 3}
    Matches = {1}
    JQ = 1
    None = None
    IdunaFails = TRUE
    MallocFails = FALSE
SPECIFICATION Spec
INVARIANTS AdmissionTypeOK AdmittedAsItself QuestionOpen RatingsCurrent
SYMMETRY Symmetry
CHECK_DEADLOCK FALSE
