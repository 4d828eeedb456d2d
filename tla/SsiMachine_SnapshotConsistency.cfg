SPECIFICATION Spec
CONSTANTS
    Txns = {t1, t2, t3}
    Keys = {k1, k2}
    NoTxn = NoTxn
    MaxHistory = 8
INVARIANTS
    SnapshotConsistency
CHECK_DEADLOCK FALSE
