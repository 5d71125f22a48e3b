SPECIFICATION FairSpec
CONSTANTS
    nfc = nfc
    Cancellers = {c1}
    NoThread = NoThread
    Shutdowns <- CloseOnly
    RxSizes = {2, 4}
    MaxAnswer = 3
    FifoSize = 4
    HighWater = 2
    PromptService = TRUE
CHECK_DEADLOCK TRUE
INVARIANT TransmitEnds
PROPERTIES
    TransceiveReturns
    StopReturns
    TimeoutMeansUnanswered
