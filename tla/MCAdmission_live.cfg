CONSTANTS
    Conns = {c1}
    Players = {p1}
    Bots = {}
    NoAuth = {TRUE, FALSE}
    FailOpen = {TRUE, FALSE}
    Sessions = {1, 2}
    Matches = {}
    JQ = 1
    None = None
    IdunaFails = TRUE
    MallocFails = TRUE
SPECIFICATION FairSpec
PROPERTY Decided
CHECK_DEADLOCK FALSE
