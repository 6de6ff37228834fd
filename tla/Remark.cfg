SPECIFICATION FairSpec
CONSTANTS
    A = A
    B = B
    Styles = {A, B}
    PreLen <- TwoEach
    PostLen <- TwoEach
    Inputs <- AllInputs
    Jobs <- AllJobs
    MaxLen = 7
    MaxRanges = 9
    Width80 = 80
    Modulus = 256
INVARIANTS
    TypeOK
    TextKept
    WidthRespected
    PrintedAsLaid
    NewlineHeld
PROPERTIES
    LinesAdvance
    AllShown
