SPECIFICATION FairSpec
CONSTANTS
    Names = {"p"}
    Stores = {"plugin"}
    Cells = {"filter", "bind", "custom"}
    StoreOf <- OneStoreOf
    CustomCells = {"custom"}
    BindCells = {"bind"}
    Empty = Empty
    Absent = Absent
    NoData = NoData
    None = None
    MaxUid = 1
    MaxId = 2
    MaxCycles = 2
    MaxForeign = 1
    MaxFaults = 1
    Decodes = {TRUE, FALSE}
    RetrySteps = 2
    MaxRv = 7
PROPERTIES
    Quiesces
    StoredIsHandled
\* The environment's bounds end every behaviour, and an idle reflector waits.
CHECK_DEADLOCK FALSE
