SPECIFICATION Spec
CONSTANTS
    MaxCmd = 3
    MaxResp = 3
    Rooms = {1, 3}
    MaxCalls = 3
    MaxWtx = 1
    Policies = {FALSE}
CHECK_DEADLOCK FALSE
PROPERTY RuleSix
