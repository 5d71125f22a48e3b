SPECIFICATION Spec
CONSTANTS
    Frames <- FittingFrames
    FifoSize = 5
    LowWater = 2
    SizeT = 16
CHECK_DEADLOCK FALSE
INVARIANT ContinuousTransmit
