SPECIFICATION Spec
CONSTANTS
    kube = kube  ns = ns  pc = pc  pvc = pvc  pod = pod  pv = pv
    Gone = Gone  Unasked = Unasked
    r1 = r1  r2 = r2
    Reqs = {r1, r2}
    Procs = 2
    Objects <- MCObjects
    KindOf <- MCKindOf
    Needs <- MCNeeds
    ClaimOf <- MCClaimOf
    System = {kube}
    InitialClusters <- MCInitialClusters
    Files <- MCFiles
    MaxUid = 4
    MaxEvents = 1
CHECK_DEADLOCK FALSE
INVARIANTS IInv LoadApplies ClaimsAreLocal RefusedForAReason ResetRestores NoOrphans
PROPERTY SnapHasNamespaces
SYMMETRY Perms
