CONSTANTS
    Users = {main, u1, u2, u3}
    Holders = {u1, u2, u3}
    Main = main
    Finalizer = finalizer
    MaxActive = 2
    MaxIdle = 1
    MaxOrphans = 1
SPECIFICATION FairSpec
INVARIANTS
    TypeOK
    ConnectionsCounted
    NoLostWakeup
    PermissionNotLost
    StopIsClean
PROPERTIES
    LimitKept
    StopEnds
CHECK_DEADLOCK FALSE
