SPECIFICATION FairSpec
CONSTANTS
    Traffic <- LongSkip
    Header = 1
    MaxBuffer = 3
    Increment = 2
    MaxQueued = 1
    MaxIov = 2
    Window = 1
    MaxFaults = 0
PROPERTIES PollReturns
CHECK_DEADLOCK FALSE
