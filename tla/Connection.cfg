SPECIFICATION Spec
CONSTANTS
    Traffic <- BothWays
    Header = 2
    MaxBuffer = 3
    Increment = 2
    MaxQueued = 2
    MaxIov = 2
    Window = 2
    MaxFaults = 1
INVARIANTS BytesInStep DispatchedInOrder BufferBound NothingForgotten NoPanic SendIntegrity
CHECK_DEADLOCK FALSE
