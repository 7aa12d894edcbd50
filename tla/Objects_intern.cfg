SPECIFICATION Spec
CONSTANTS
    Objects = {o1, o2, o3}
    Null = Null
    Contents = {s}
    StackSize = 2
    DrainLimit = 1
    InternsDoomed = TRUE
SYMMETRY Symmetry
INVARIANTS PointersAlive
CHECK_DEADLOCK FALSE
