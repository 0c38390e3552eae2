SPECIFICATION Spec
CONSTANTS
    s1 = s1
    s2 = s2
    s3 = s3
    Senders = {s1, s2, s3}
    First = s1
    Nobody = Nobody
    NChutes = 2
    Bounded = TRUE
    Capacity = 3
    BatchSizes = {2}
    Modes = {"next", "batch", "try"}
    MaxSend = 2
SYMMETRY Interchangeable
INVARIANTS TypeOK ExpectHolds NoLostWakeup InFlightBounded SizeIsExact NoneMeansNoSender
PROPERTY FifoSpec
