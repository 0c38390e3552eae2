SPECIFICATION FairSpec
CONSTANTS
    u1 = u1
    u2 = u2
    s1 = s1
    Rpcs = {u1}
    Streaming = {}
    MaxItems = 1
    MaxSent = 1
    MayLose = TRUE
PROPERTIES AlwaysResolves
CHECK_DEADLOCK FALSE
