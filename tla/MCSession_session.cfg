CONSTANTS
    Modes <- MCModes
    Picks = 2
    MaxTaps = 3
SPECIFICATION Spec
INVARIANT SearchesWhileQueued
CHECK_DEADLOCK FALSE
