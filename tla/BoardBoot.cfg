SPECIFICATION MCSpec
CONSTANTS
    PortTable <- F411Ports
    Ports = {0, 1, 2, 3}
    Masks <- SomeMasks
    Modes <- AllModes
    Reset <- F411Reset
CHECK_DEADLOCK TRUE
INVARIANTS
    TypeOK
    ModeReached
    EdgeFindsSource
    EnabledInSpiMode
    SelectedByDriverOnly
    PadsAsDeclared
PROPERTY ImplementsRoles
