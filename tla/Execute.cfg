SPECIFICATION FairSpec
CONSTANTS
    A = A
    B = B
    Styles = {A, B}
    Inputs <- AllInputs
    MaxLen = 4
    MaxRanges = 9
    Modulus = 32
INVARIANTS
    TypeOK
    MarksFollowCells
    StylesPrintable
    ContextsNested
    SearchInBuffer
PROPERTIES
    OnlyContextChanges
    SubstMovesOn
    ActionsAreFinal
    LineEnds
