SPECIFICATION Spec
CONSTANTS
    Names = {a}
    MaxObjects = 5
    MaxOpen = 2
INVARIANTS
    NoUseAfterFree
CHECK_DEADLOCK FALSE
