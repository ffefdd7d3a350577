SPECIFICATION Spec
CONSTANTS
    a = a
    b = b
    n1 = n1
    n2 = n2
    Nodes = {n1, n2}
    Profile <- TheProfile
    Implements <- TheImplements
    Hooked <- TheHooked
    Weight <- TheWeight
    StoreWeight <- TheWeight
    Extenders <- TheExtenders
    NodeSets <- TheNodeSets
    MaxNode = 2
    MaxExtender = 1
    MaxScore = 1
    Ratings <- TheRatings
    Priorities <- ThePriorities
    MaxCycles = 1
    MaxReflects = 1
    Leftovers <- TheLeftovers
    NoAnswer = NoAnswer
    NoData = NoData
    NoResults = NoResults
    NoNode = NoNode
INVARIANTS
    IInv
    RejectionsExplained
    DecisionExplained
    OutcomeExplained
    FailedHoldsNothing
PROPERTIES
    BehavesAsOriginal
\* The pod is bound, or has had its attempts.
CHECK_DEADLOCK FALSE
