SPECIFICATION Spec
CONSTANTS
    o1 = o1
    o2 = o2
    o3 = o3
    Obj = {o1, o2, o3}
    G = o1
    NULL = NULL
    Kinds = {"table"}
    Metas <- NoMetas
    Edges <- ValueEdges
    MaxEntries = 1
    MaxRegs = 2
    MaxRoots = 2
    SweepAborts = TRUE
    OutOfMemory = TRUE
SYMMETRY Symmetry
INVARIANTS
    TypeOK
    TriColor
    NoDangling
    DoomedUnreachable
PROPERTIES
    FullCollectExact
