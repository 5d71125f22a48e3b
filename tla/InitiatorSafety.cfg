SPECIFICATION Spec
CONSTANTS
    nfc = nfc
    Cancellers = {c1}
    NoThread = NoThread
    Shutdowns <- CloseOnly
    RxSizes = {2, 4}
    MaxAnswer = 3
    FifoSize = 4
    HighWater = 2
    PromptService = FALSE
CHECK_DEADLOCK FALSE
INVARIANTS
    TypeOK
    BusDiscipline
    NoLostWakeup
    AnswerIntact
    NoStaleCancel
    FieldMatchesState
PROPERTIES
    HangOnlyIfCoalesced
    ImplementsDevice
    TransceiveBounded
