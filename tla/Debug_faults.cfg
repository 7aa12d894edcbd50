SPECIFICATION Spec
CONSTANTS
    c1 = c1
    c2 = c2
    Clients = {c1}
    NONE = NONE
    MaxPauses = 2
    MaxQueue = 1
PROPERTIES
    EveryErrorStops
    TerminationStands
