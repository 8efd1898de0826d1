SPECIFICATION Spec
CONSTANTS
    A = A
    B = B
    U16 = 8
    NumItems = 1
    None = None
    Workloads <- TwoWays
    MaxQueued = 1
    Chatty = {B}
    GivesUp = FALSE
    MaxRetries = 1
    MaxLag = 2
    MaxAckLag = 7
INVARIANT WindowsAgree
INVARIANT AckSound
INVARIANT DeliveredOnce
PROPERTY ImplementsDelivery
