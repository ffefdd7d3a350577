SPECIFICATION Spec
CONSTANTS
    Names = {"p"}
    Stores = {"plugin"}
    Cells = {"filter", "bind", "custom"}
    StoreOf <- OneStoreOf
    CustomCells = {"custom"}
    BindCells = {"bind"}
    Empty = Empty
    Absent = Absent
    NoData = NoData
    None = None
    MaxUid = 1
    MaxId = 2
    MaxCycles = 1
    MaxForeign = 1
    MaxFaults = 0
    Decodes = {TRUE}
    RetrySteps = 2
    MaxRv = 15
INVARIANT
    AllResultsWhenFinished
\* The environment's bounds end every behaviour, and an idle reflector waits.
CHECK_DEADLOCK FALSE
