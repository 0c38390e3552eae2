SPECIFICATION FairSpec
CONSTANTS
    Traffic <- Mixed
    Header = 2
    MaxBuffer = 3
    Increment = 2
    MaxQueued = 1
    MaxIov = 2
    Window = 1
    MaxFaults = 0
PROPERTIES PollReturns Outbound
CHECK_DEADLOCK FALSE
