CONSTANTS
    Base = 3
    MaxFrame = 2
    InBuf = 4
    OutBuf = 6
    Room = 3
    Sizes <- MCSizes
    Dirs <- MCDirs
    MaxSent = 3
SPECIFICATION FairSpec
INVARIANTS Undistorted RoomToRead
PROPERTY Arrives
CHECK_DEADLOCK FALSE
