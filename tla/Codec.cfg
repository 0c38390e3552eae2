SPECIFICATION FairSpec
CONSTANTS
    Codecs <- Both
    Peers = {"own", "foreign"}
    Messages = {0, 1, 2}
    Known = {0, 2}
    Base = 2
    LengthDigits = 3
    VarintMax = 3
    MaxPooled = 1
    MaxQueued = 2
    MaxSent = 3
    MaxForeign = 5
INVARIANTS RoundTrip AsksForMore
PROPERTIES Delivered
CHECK_DEADLOCK FALSE
