SPECIFICATION Spec
CONSTANTS
    A = A
    B = B
    Styles = {A, B}
    PreLen <- TwoEach
    PostLen <- TwoEach
    Inputs <- PrependInputs
    Jobs <- PrependJobs
    MaxLen = 7
    MaxRanges = 9
    Width80 = 80
    Modulus = 256
INVARIANTS
    PrintedAsLaid
