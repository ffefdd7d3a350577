SPECIFICATION Spec
CONSTANTS
    pods = pods  nodes = nodes
    Kinds = {pods, nodes}
    KindOrder <- MCKindOrder
    Modes = {"page", "raw"}
    NoVersion = NoVersion
    Nothing = Nothing
    MaxRv = 2
    MaxFaults = 1
CHECK_DEADLOCK FALSE
INVARIANTS IInv ShowsAPast
PROPERTY CatchesUp
