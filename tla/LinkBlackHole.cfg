SPECIFICATION Spec
CONSTANTS
    A = A
    B = B
    U16 = 16
    NumItems = 2
    None = None
    Workloads <- OneWay18
    MaxQueued = 2
    Chatty = {}
    GivesUp = TRUE
    MaxRetries = 1
    MaxLag = 5
    MaxAckLag = 5
PROPERTY DuplicateWasReceived
