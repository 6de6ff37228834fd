SPECIFICATION FairSpec
CONSTANTS
    A = A
    B = B
    Styles = {A, B}
    Inputs <- ForeverInputs
    MaxLen = 4
    MaxRanges = 9
    Modulus = 32
PROPERTIES
    LineEnds
