SPECIFICATION MCSpec
CONSTANTS
    Programs = {"seed"}
    Nodes = {n1, n2, n3}
    None = None
    MaxTerm = 3
    MaxData = 2
    MaxOfTerm = 1
    MaxBeats = 0
INVARIANTS
    LeaderCompleteness
VIEW NodeView
SYMMETRY NodeSymmetry
CHECK_DEADLOCK FALSE
