SPECIFICATION Spec
CONSTANTS
    Data = {x, y}
    LNode = {n1, n2, n3, n4, n5}
    NULL = NULL
    Died = Died
SYMMETRY NodeSymmetry
INVARIANTS
    TypeOK
    WellLinked
PROPERTIES
    ImplementsSequence
    CallsDoAsNamed
CHECK_DEADLOCK FALSE
