SPECIFICATION FairSpec
CONSTANTS
    Unlimited = 3
    ConsoleBudget = 1
    MaxTime = 1
    MaxUnits = 2
    MaxDepth = 1
    Windows = 2
    Consoles = 1
INVARIANTS
    TypeOK
    WithinBudget
PROPERTIES
    NothingAfterTheEnd
    StopsReachHost
CHECK_DEADLOCK FALSE
