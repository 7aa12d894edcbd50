SPECIFICATION Spec
CONSTANTS
    a = a
    b = b
    Co = {a, b}
    Main = Main
    NONE = NONE
    MaxFrames = 8
    NestedYields = FALSE
    NormalResumes = TRUE
INVARIANTS
    StacksAgree
SYMMETRY Symmetry
