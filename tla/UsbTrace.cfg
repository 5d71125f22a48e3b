SPECIFICATION FairSpec
CONSTANTS
    QueueSize = 2
    MaxUnits = 3
    MaxPieces = 2
CHECK_DEADLOCK TRUE
INVARIANTS
    TypeOK
    EndpointsReady
    Enumerates
    BlockedByOvertake
PROPERTY DrainsWhileActive
