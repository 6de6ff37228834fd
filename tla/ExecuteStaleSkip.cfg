SPECIFICATION Spec
CONSTANTS
    A = A
    B = B
    Styles = {A, B}
    Inputs <- SkipInputs
    MaxLen = 4
    MaxRanges = 9
    Modulus = 32
INVARIANTS
    MarksFollowCells
