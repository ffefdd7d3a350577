CONSTANTS
    Kinds <- MCKinds
    Objects <- MCObjects
    KindOf <- MCKindOf
    RefersTo <- MCRefersTo
    Order <- MCOrder
    Selected <- MCObjects
    Scopes <- MCScopes
    Gone = Gone
    Idle = Idle
    Modes = {"sync", "oneshot"}
    MaxChanges = 3
    MaxTroubles = 1
SPECIFICATION Spec
CHECK_DEADLOCK FALSE
INVARIANT IInv
INVARIANT SameObjects
INVARIANT SameVersions
INVARIANT ClaimReferencesAreLocal
INVARIANT ImportIsComplete
PROPERTY RemovedStaysRemoved
PROPERTY Settles
