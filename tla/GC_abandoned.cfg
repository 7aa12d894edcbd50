SPECIFICATION Spec
CONSTANTS
    o1 = o1
    o2 = o2
    o3 = o3
    Obj = {o1, o2, o3}
    G = o1
    NULL = NULL
    Kinds = {"table", "userdata"}
    Metas <- Finalizers
    Edges <- OwnMetatable
    MaxEntries = 1
    MaxRegs = 2
    MaxRoots = 1
    SweepAborts = TRUE
    OutOfMemory = FALSE
INVARIANTS
    NoDangling
