SPECIFICATION FairSpec
CONSTANTS
    u1 = u1
    u2 = u2
    s1 = s1
    Rpcs = {u1, s1}
    Streaming = {s1}
    MaxItems = 2
    MaxSent = 2
    MayLose = TRUE
INVARIANTS OneTerminal CancelReaches InFlightIsServed ItemsInOrder FinishedMissesOnlyLate QuietIsClean
PROPERTIES Resolves
CHECK_DEADLOCK FALSE
