SPECIFICATION Spec
CONSTANTS
    Objects = {o1, o2, o3}
    Null = Null
    Contents = {s}
    StackSize = 2
    DrainLimit = 2
    InternsDoomed = FALSE
SYMMETRY Symmetry
VIEW View
INVARIANTS ListIntact PointersAlive GrayFits
PROPERTIES FinalizedOnce ActsAsMemory
CHECK_DEADLOCK FALSE
