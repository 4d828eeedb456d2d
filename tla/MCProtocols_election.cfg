SPECIFICATION MCSpec
CONSTANTS
    Programs = {"election v2"}
    Txns = {t1}
    Keys = {k1}
    NoTxn = NoTxn
    MaxHistory = 0
    Servers = {s1, s2, s3, s4}
    NoServer = NoServer
    Candidates = {s1, s2}
    MaxTerm = 2
    RMs <- TwoRMs
    Clients = {c1, c2, c3}
    MaxTxns = 1
INVARIANTS
    OneLeaderPerTerm
SYMMETRY ElectionSymmetry
CHECK_DEADLOCK FALSE
