SPECIFICATION LossySpec
CONSTANTS
    A = A
    B = B
    U16 = 16
    NumItems = 2
    None = None
    Workloads <- OneWay3
    MaxQueued = 1
    Chatty = {}
    GivesUp = FALSE
    MaxRetries = 1
    MaxLag = 5
    MaxAckLag = 5
PROPERTY EveryMessageArrives
PROPERTY WorkEnds
