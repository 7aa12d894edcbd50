SPECIFICATION FairSpec
CONSTANTS
    MaxInbox = 1
    MaxIdle = 2
    MaxPauses = 1
    Starts = 1
    Disconnecting = "continue"
    Shared = TRUE
INVARIANTS
    TypeOK
PROPERTIES
    ContinuedAfterStopped
    StopReturns
    SessionsEnd
CHECK_DEADLOCK FALSE
