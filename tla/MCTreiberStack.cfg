SPECIFICATION FairSpec
CONSTANTS
    Threads = {t1, t2}
    Nodes = {n1, n2}
    Null = Null
    MaxPushes = 3
    MaxPops = 3
    MaxLists = 1
    StackSizeMax = 4
    SizeModulus = 8
    DebugBuild = TRUE
    FairThread = t1
    ThreadsCount = 3
    MaxPerCategory = 2
    GcThreads = {t1, t2, t3}
    MaxObjects = 3
    Capacity = 2
    Producers = {t1, t2}
    Consumer = t3
    Items = 3
    Largest = 4
    Writers = {t1, t2}
    Flusher = t3
    NoWrite = NoWrite
    MaxFlushes = 2
    MaxInstalls = 4
INVARIANTS
    NoUseAfterFree
    ContentExact
    ResultsExact
    ChecksTellTruth
PROPERTIES
    Linearizable
    ModelStepsAreLifo
    FairThreadFinishes
CHECK_DEADLOCK FALSE
