CONSTANTS
    Conns = {c1}
    Players = {p1}
    Sessions = {1}
    Matches = {m1}
    JQ = 2
    None = None
    IdunaFails = TRUE
    MallocFails = FALSE
SPECIFICATION FairWorkerSpec
INVARIANTS TypeOK WakeKept ReportsOnce ReportsReach
PROPERTIES ServiceKept ShutdownEnds ServiceFair
CHECK_DEADLOCK FALSE
