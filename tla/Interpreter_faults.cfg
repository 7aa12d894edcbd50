SPECIFICATION SpecFaults
CONSTANTS
    NumericText <- Texts
    Collation <- Alphabet
    Natives <- Names
    MaxTagLoop = 4
    MaxCallDepth = 8
    CStack = 2
    MaxIndexRK = 3
    BitRK = 32
    FieldsPerFlush = 2
    MaxArgC = 2
    StackSizes = 15
INVARIANTS SaysWhatItMeans MetamethodsAboveRegisters CompilerSatisfiesVerifier
