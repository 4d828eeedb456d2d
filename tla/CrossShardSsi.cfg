SPECIFICATION FairSpec
CONSTANTS
    NumShards = 2
    Keys = {k}
    Txns = {t1, t2, t3}
    NoTxn = NoTxn
    MaxOps = 2
INVARIANTS
    IInv
PROPERTIES
    ImplementsSerial
    CommitFinishes
CHECK_DEADLOCK FALSE
