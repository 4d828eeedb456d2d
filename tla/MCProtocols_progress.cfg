SPECIFICATION FairSpec
CONSTANTS
    Programs = {"commit"}
    Txns = {t1}
    Keys = {k1}
    NoTxn = NoTxn
    MaxHistory = 0
    Servers = {s1, s2}
    NoServer = NoServer
    Candidates = {s1, s2}
    MaxTerm = 1
    RMs <- TwoRMs
    Clients = {c1}
    MaxTxns = 1
PROPERTIES
    AbortProgress
CHECK_DEADLOCK FALSE
