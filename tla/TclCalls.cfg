SPECIFICATION FairSpec
CONSTANTS
    MaxCmd = 3
    MaxResp = 3
    Rooms = {1, 3}
    MaxCalls = 3
    MaxWtx = 1
    Policies = {TRUE, FALSE}
CHECK_DEADLOCK FALSE
INVARIANTS
    TypeOK
    InStep
    OwnAnswer
PROPERTIES
    ImplementsExchange
    CallReturns
    CallBounded
