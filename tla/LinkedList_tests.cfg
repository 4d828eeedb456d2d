SPECIFICATION Spec
CONSTANT
    Largest = 4
INVARIANT
    OnlyInsertedRemain
CHECK_DEADLOCK FALSE
