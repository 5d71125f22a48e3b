SPECIFICATION FairSpec
CONSTANTS
    Cards <- SomeCards
    NoCard = NoCard
    CT = CT
    Junk = Junk
CHECK_DEADLOCK TRUE
INVARIANTS
    TypeOK
    Identified
    OnlyItsOwnBytes
    Ready
    FieldOffBetween
    TimingOfCard
PROPERTY PollsForever
