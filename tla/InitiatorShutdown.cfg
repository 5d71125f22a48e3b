SPECIFICATION FairSpec
CONSTANTS
    nfc = nfc
    Cancellers = {c1}
    NoThread = NoThread
    Shutdowns <- CloseOrShutdown
    RxSizes = {1}
    MaxAnswer = 1
    FifoSize = 1
    HighWater = 1
    PromptService = FALSE
CHECK_DEADLOCK FALSE
PROPERTIES
    StopUnblocks
