SPECIFICATION MCSpec
CONSTANTS
    Programs = {"ssi machine", "ssi oracle", "election", "election v2", "commit", "commit v1"}
    Txns = {t1, t2, t3}
    Keys = {k1, k2}
    NoTxn = NoTxn
    MaxHistory = 8
    Servers = {t1, t2, t3}
    NoServer = NoServer
    Candidates = {t1, t2, t3}
    MaxTerm = 2
    RMs <- TwoRMs
    Clients = {k1, k2}
    MaxTxns = 2
INVARIANTS
    WritersHoldLocks
    AbortedLeaveNoTrace
    RwConflictsFlagged
    NoCommittedPivot
    ElectionsSound
    Atomicity
    AnswersTrue
PROPERTIES
    ImplementsAtomicCommit
SYMMETRY Symmetry
CHECK_DEADLOCK FALSE
