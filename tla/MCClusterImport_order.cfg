CONSTANTS
    Kinds <- MCKinds
    Objects <- MCObjects
    KindOf <- MCKindOf
    RefersTo <- MCRefersTo
    Order <- MCOrder
    Selected <- MCObjects
    Scopes <- MCScopes
    Gone = Gone
    Idle = Idle
    Modes = {"sync"}
    MaxChanges = 0
    MaxTroubles = 0
SPECIFICATION Spec
CHECK_DEADLOCK FALSE
INVARIANT FirstSyncIsComplete
