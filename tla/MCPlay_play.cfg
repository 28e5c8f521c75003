CONSTANTS
    Clients = {"p1", "p2"}
    Conns <- MCConns
    Modes = {"card", "draft", "constructed"}
    Cards = {k1, k2, k3}
    Buckets <- MCBuckets
    Hands = {{0}}
    MaxRounds <- MCMaxRounds
    Target <- MCTarget
    MaxFaults = 1
    None = None
SPECIFICATION Spec
SYMMETRY Symmetry
INVARIANTS PlayTypeOK LockedAsDecided NeverRefused DecksKeyed
CHECK_DEADLOCK FALSE
