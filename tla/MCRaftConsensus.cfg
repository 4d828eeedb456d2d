SPECIFICATION MCSpec
CONSTANTS
    Programs = {"seed", "v2"}
    Nodes = {n1, n2, n3}
    None = None
    MaxTerm = 2
    MaxData = 2
    MaxOfTerm = 1
    MaxBeats = 1
INVARIANTS
    ElectionSafety
    LogMatching
PROPERTIES
    LeaderForgetsNothing
    CommitProgress
VIEW NodeView
SYMMETRY NodeSymmetry
CHECK_DEADLOCK FALSE
