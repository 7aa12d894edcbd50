SPECIFICATION FairSpec
CONSTANTS
    c1 = c1
    c2 = c2
    Clients = {c1, c2}
    NONE = NONE
    MaxPauses = 2
    MaxQueue = 1
INVARIANTS
    TypeOK
    CommandRunsInItsPause
    TerminateOnlyIfTerminated
    FlagsCurrent
PROPERTIES
    EveryRequestAnswered
