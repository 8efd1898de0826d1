SPECIFICATION Spec
CONSTANTS
    A = A
    B = B
    U16 = 16
    NumItems = 2
    None = None
    Workloads <- EitherChannel18
    MaxQueued = 2
    Chatty = {}
    GivesUp = FALSE
    MaxRetries = 1
    MaxLag = 5
    MaxAckLag = 5
INVARIANT WindowsAgree
INVARIANT AckSound
INVARIANT DeliveredOnce
INVARIANT DeliveredInOrder
PROPERTY DuplicateWasReceived
PROPERTY ImplementsDelivery
