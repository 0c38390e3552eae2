SPECIFICATION FairSpec
CONSTANTS
    c1 = c1
    c2 = c2
    Callers = {c1, c2}
    MaxConnects = 9
    MaxTrouble = 3
INVARIANTS TypeOK ConnectIsShared
PROPERTIES LiveIsNotReplaced Settles Answered
CHECK_DEADLOCK FALSE
