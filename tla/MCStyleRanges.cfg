SPECIFICATION FairSpec
CONSTANTS
    Styles = {A, B}
    N = 3
    MaxRanges = 4
INVARIANTS
    TypeOK
    SortedDisjoint
    NothingLeftBehind
PROPERTIES
    LaysStyles
    CallReturns
