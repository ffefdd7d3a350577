SPECIFICATION Spec
CONSTANTS
    DefaultMultiPoint <- TheDefault
    OutOfTree = {"L"}
    Converted = {"filter", "score", "postBind"}
    Unconverted = {"queueSort"}
    Implements <- TheImplements
    DefaultArgs = {"A"}
    Pods = {p1, p2}
    Nodes = {n1, n2}
    NoPod = NoPod
    NoNode = NoNode
    Logger = "L"
    MaxAttempts = 3
    MaxRestarts = 1
    MaxFaults = 1
    Instances <- StartingAndScheduling
SYMMETRY Symmetry
INVARIANTS
    EffectiveSame
    LogTellsDecisions
    IInv
\* The pods are bound, or have had their attempts.
CHECK_DEADLOCK FALSE
