SPECIFICATION Spec
CONSTANTS
    U16 = 8
    NumItems = 1
    None = None
    GivesUp = FALSE
    MaxRetries = 1
    c1 = c1
    c2 = c2
    Client = {c1, c2}
    Server = Server
    Scenarios <- MCScenarios
    MaxDelayed = 2
INVARIANT TypeOK
INVARIANT NothingLost
INVARIANT ReadOnce
INVARIANT HeardAsAddressed
INVARIANT HeardInOrder
