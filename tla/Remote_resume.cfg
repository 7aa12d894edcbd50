SPECIFICATION FairSpec
CONSTANTS
    MaxInbox = 1
    MaxIdle = 2
    MaxPauses = 1
    Starts = 1
    Disconnecting = "continue"
    Shared = FALSE
PROPERTIES
    ResumeAnnounced
CHECK_DEADLOCK FALSE
