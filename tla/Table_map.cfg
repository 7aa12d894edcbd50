SPECIFICATION Spec
CONSTANTS
    Indexes = {1, 2, 3}
    MaxIndex = 7
    x = x
    y = y
    Others = {x, y}
    v = v
    w = w
    Values = {v, w}
    NIL = NIL
    Idle = Idle
    Start = Start
    End = End
    Invalid = Invalid
    HashOf <- MCHashOf
    MinNodes = 4
    MaxArray = 3
    MaxHash = 3
    Flush = 2
INVARIANTS
    NodesSound
    ActsAsMap
    LengthIsBorder
PROPERTIES
    TraversalSound
SYMMETRY Symmetry
