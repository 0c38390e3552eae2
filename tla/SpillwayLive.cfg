SPECIFICATION FairSpec
CONSTANTS
    s1 = s1
    s2 = s2
    s3 = s3
    Senders = {s1, s2}
    First = s1
    Nobody = Nobody
    NChutes = 2
    Bounded = FALSE
    Capacity = 0
    BatchSizes = {1}
    Modes = {"next", "batch"}
    MaxSend = 2
PROPERTIES Delivery EndIsSeen
