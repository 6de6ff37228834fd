SPECIFICATION Spec
CONSTANTS
    Names = {a, b}
    MaxObjects = 5
    MaxOpen = 3
SYMMETRY NameSymmetry
INVARIANTS
    TypeOK
    NothingLeadsToItself
    RefsCounted
    OneOwner
    FreedOnce
CHECK_DEADLOCK FALSE
