SPECIFICATION Spec
CONSTANTS
    DefaultMultiPoint <- TheDefault
    OutOfTree = {"L"}
    Converted = {"filter", "score", "postBind"}
    Unconverted = {"queueSort"}
    Implements <- TheImplements
    DefaultArgs = {"A"}
    Pods = {p1, p2}
    Nodes = {n1, n2}
    NoPod = NoPod
    NoNode = NoNode
    Logger = "L"
    MaxAttempts = 0
    MaxRestarts = 1
    MaxFaults = 0
    Instances <- Starting
SYMMETRY Symmetry
INVARIANT RecordsFrameworkWeights
CHECK_DEADLOCK FALSE
