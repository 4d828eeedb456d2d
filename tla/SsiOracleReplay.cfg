SPECIFICATION MCSpec
CONSTANTS
    Keys = {k1, k2}
    MaxTxns = 3
    MaxTimestamp = 8
    NoTxn = NoTxn
    MaxWrites = 6
    MaxReaders = 2
    MaxClientWrites = 3
    MaxAccesses = 4
    Values = {a, b}
INVARIANTS
    LockGuardsPending
    SnapshotStable
    RwConflictsFlagged
    ListHoldsVersions
    ScanFindsNewest
    LastWriteWins
    RunnerTracksStore
    ViolationsReported
    ReplayHonest
PROPERTIES
    NoPivotCommits
    ImplementsSnapshots
VIEW Unread
SYMMETRY Symmetry
CHECK_DEADLOCK FALSE
