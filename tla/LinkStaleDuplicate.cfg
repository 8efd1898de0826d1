SPECIFICATION Spec
CONSTANTS
    A = A
    B = B
    U16 = 16
    NumItems = 2
    None = None
    Workloads <- OneWay18
    MaxQueued = 2
    Chatty = {}
    GivesUp = FALSE
    MaxRetries = 1
    MaxLag = 6
    MaxAckLag = 6
INVARIANT DeliveredOnce
