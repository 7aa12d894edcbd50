\* tlc -continue: each of the three is violated.
SPECIFICATION Spec
CONSTANTS
    Unlimited = 3
    ConsoleBudget = 1
    MaxTime = 1
    MaxUnits = 2
    MaxDepth = 1
    Windows = 2
    Consoles = 1
INVARIANTS
    MetricsOfTheWindow
    ErrorsAreErrors
PROPERTIES
    CancellationHeeded
CHECK_DEADLOCK FALSE
