SPECIFICATION Spec
CONSTANTS
    Keys = {k1, k2}
    MaxTxns = 3
    MaxTimestamp = 8
    NoTxn = NoTxn
INVARIANTS
    Serializable
CHECK_DEADLOCK FALSE
