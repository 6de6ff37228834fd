SPECIFICATION ContainersSpec
CONSTANTS
    k1 = k1
    k2 = k2
    k3 = k3
    k4 = k4
    Keys = {k1, k2, k3, k4}
    Values = {x, y}
    NULL = NULL
    Hash <- Hashes
    DefaultCapacity = 2
    Modulus = 16
    Cells <- Bytes
    NUL = "NUL"
    Garbage = "?"
    Strings <- Abc
    Positions = {0, 1, 2, 15}
    Numbers = {0, 1, 2, 3}
    StrBufCapacity = 1
    MaxLen = 3
INVARIANTS
    ContainersTypeOK
    WellPlaced
    Bounded
PROPERTIES
    ImplementsTable
    ImplementsText
