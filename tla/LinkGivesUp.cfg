SPECIFICATION OutageSpec
CONSTANTS
    A = A
    B = B
    U16 = 5
    NumItems = 1
    None = None
    Workloads <- EitherChannel7
    MaxQueued = 1
    Chatty = {}
    GivesUp = TRUE
    MaxRetries = 2
    MaxLag = 2
    MaxAckLag = 4
INVARIANT TypeOK
INVARIANT WindowsAgree
INVARIANT AckSound
INVARIANT DeliveredOnce
INVARIANT DeliveredInOrder
