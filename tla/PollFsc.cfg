SPECIFICATION Spec
CONSTANTS
    Cards <- SomeCards
    NoCard = NoCard
    CT = CT
    Junk = Junk
CHECK_DEADLOCK TRUE
INVARIANT FscOfCard
