SPECIFICATION LossySpec
CONSTANTS
    A = A
    B = B
    U16 = 8
    NumItems = 1
    None = None
    Workloads <- BothWays2
    MaxQueued = 1
    Chatty = {}
    GivesUp = FALSE
    MaxRetries = 1
    MaxLag = 2
    MaxAckLag = 2
PROPERTY EveryMessageArrives
