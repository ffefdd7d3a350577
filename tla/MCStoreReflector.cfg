SPECIFICATION Spec
CONSTANTS
    Names = {"p"}
    Stores = {"plugin", "extender"}
    Cells = {"bind", "xfilter"}
    StoreOf <- TwoStoreOf
    CustomCells = {}
    BindCells = {"bind"}
    Empty = Empty
    Absent = Absent
    NoData = NoData
    None = None
    MaxUid = 2
    MaxId = 2
    MaxCycles = 1
    MaxForeign = 1
    MaxFaults = 1
    Decodes = {TRUE}
    RetrySteps = 2
    MaxRv = 30
INVARIANTS
    HistoryOrdered
    IInv
    DropInv
PROPERTIES
    DropsNothingOwed
    KeepsForeignWrites
    HistoryGrowsForEvent
\* The environment's bounds end every behaviour, and an idle reflector waits.
CHECK_DEADLOCK FALSE
