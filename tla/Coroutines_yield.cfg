SPECIFICATION Spec
CONSTANTS
    a = a
    b = b
    Co = {a, b}
    Main = Main
    NONE = NONE
    MaxFrames = 8
    NestedYields = TRUE
    NormalResumes = FALSE
INVARIANT
    YieldsToResume
SYMMETRY Symmetry
