-------------------------- MODULE RestoredCluster ---------------------------
(***************************************************************************)
(* The simulated cluster that Snapshot and Reset restore: its objects, the *)
(* API server's checks, everyone else who writes, and the requests to the  *)
(* simulator server that are being handled.                                *)
(***************************************************************************)
EXTENDS Naturals, Sequences, FiniteSets

CONSTANTS
    Objects,     \* a sequence: all objects by name, in the order Load starts them
    KindOf,      \* object -> kind
    Needs,       \* object -> objects that must be there to create it
    ClaimOf,     \* volume -> its claim
    System,      \* kube-* and default namespaces, system-* priority classes
    Reqs,        \* the requests
    Procs,       \* GOMAXPROCS: how many goroutines of a group run at a time
    Gone, Unasked,
    MaxUid, MaxEvents  \* bounds

Objs == {Objects[i] : i \in DOMAIN Objects}
Rank == [o \in Objs |-> CHOOSE i \in DOMAIN Objects : Objects[i] = o]
Volumes == {o \in Objs : KindOf[o] = "PersistentVolume"}
Pods == {o \in Objs : KindOf[o] = "Pod"}
Claims == {ClaimOf[v] : v \in Volumes}

ASSUME ObjectsAssumption ==
    /\ \A i, j \in DOMAIN Objects : Objects[i] = Objects[j] => i = j
    /\ Needs \in [Objs -> SUBSET Objs]
    /\ ClaimOf \in [Volumes -> Objs]
    /\ System \subseteq Objs
    /\ Procs \in Nat \ {0}

VARIABLES
    db,      \* etcd: object -> Gone or [uid, claim, bound, placed]
    initial, \* initialData of the reset service
    file,    \* a snapshot: object -> Gone or [claim, bound, placed, ver]
    req,     \* request -> what it is about to do
    lastUid,
    events   \* others' writes, failed calls and crashes, so far

vars == <<db, initial, file, req, lastUid, events>>

Event == events < MaxEvents /\ events' = events + 1

\* uid is told apart for claims only; claim is the uid that a volume's claimRef
\* names, 0 for none, and bound that its phase is Bound; placed: nodeName is set.
Object == [uid : 0..MaxUid, claim : 0..MaxUid, bound : BOOLEAN, placed : BOOLEAN]

\* What was saved of an object.  ver: whether it has a resourceVersion, and
\* whether this is the object's still; a version does not come back.
Saved == [claim : 0..MaxUid, bound : BOOLEAN, placed : BOOLEAN, ver : {"none", "current", "old"}]

\* snap: the snapshot a request builds or loads.  found: the claims' uids that
\* Load looked up.  For the properties only: touched (objects others wrote
\* meanwhile), missed (look-ups that got no answer), refused (by the API server).
Idle == [op |-> "none", pc |-> "idle", tasks |-> {}, err |-> FALSE,
         snap |-> [o \in Objs |-> Gone], found |-> [v \in Volumes |-> Unasked],
         touched |-> {}, missed |-> {}, refused |-> {}]
Running(r) == req[r].pc \notin {"idle", "ok", "error"}

There(o) == db[o] # Gone
IsNamespace(o) == KindOf[o] = "Namespace"

\* The objects are written: what was saved of them has their version no longer.
Outdated(snap, written) ==
    [o \in Objs |-> IF o \in written /\ snap[o] # Gone /\ snap[o].ver = "current"
                    THEN [snap[o] EXCEPT !.ver = "old"] ELSE snap[o]]

\* Every other request is told of the objects that someone writes.
Touched(by, written, s) ==
    [r \in Reqs |-> IF s[r].pc \in {"idle", "error"} THEN s[r]
                    ELSE [s[r] EXCEPT !.snap = Outdated(@, written),
                                      !.touched = IF r = by THEN @ ELSE @ \cup written]]

\* The API server: an object that is there must have the version that is sent,
\* if one is, and a pod cannot be moved to a node; what any other object needs
\* must be there.
Admits(o, s) == IF There(o) THEN s.ver # "old" /\ (s.placed => db[o].placed)
                            ELSE \A n \in Needs[o] : There(n)

NewUid(o) == IF o \in Claims THEN lastUid + 1 ELSE 0
Counted(o) == IF o \in Claims /\ ~There(o) THEN lastUid + 1 ELSE lastUid
HasUid(o) == o \in Claims => lastUid < MaxUid

\* Server-side apply: what the request does not name is dropped if this manager
\* had set it, and kept otherwise.
Applied(o, s, claim) ==
    IF There(o)
    THEN {[db[o] EXCEPT !.claim = c] : c \in IF claim # 0 THEN {claim} ELSE {0, db[o].claim}}
    ELSE {[uid |-> NewUid(o), claim |-> claim, bound |-> FALSE, placed |-> s.placed]}

------------------------------------------------------------------------------
\* The others: users, controllers, the scheduler.

Write(o, v) ==
    /\ Event
    /\ db' = [db EXCEPT ![o] = v]
    /\ req' = Touched("others", {o}, req) /\ file' = Outdated(file, {o})
    /\ UNCHANGED initial

Create(o) ==
    /\ ~There(o) /\ (\A n \in Needs[o] : There(n)) /\ HasUid(o)
    /\ Write(o, [uid |-> NewUid(o), claim |-> 0, bound |-> FALSE, placed |-> FALSE])
    /\ lastUid' = Counted(o)

\* A namespace goes only when it is empty; system objects stay.
Delete(o) ==
    /\ There(o) /\ o \notin System
    /\ IsNamespace(o) => \A x \in Objs : There(x) => o \notin Needs[x]
    /\ Write(o, Gone) /\ UNCHANGED lastUid

\* Any other change, to labels or a status: the version is another one.
Update(o) == There(o) /\ Write(o, db[o]) /\ UNCHANGED lastUid

\* The scheduler places a pod; the volume controller writes a volume's claimRef,
\* and sets its phase after that: Bound, or Released when the claim has gone.
Place(o) ==
    /\ o \in Pods /\ There(o) /\ ~db[o].placed
    /\ Write(o, [db[o] EXCEPT !.placed = TRUE]) /\ UNCHANGED lastUid
BindVolume(o) ==
    /\ o \in Volumes /\ There(o) /\ There(ClaimOf[o]) /\ db[o].claim = 0
    /\ Write(o, [db[o] EXCEPT !.claim = db[ClaimOf[o]].uid]) /\ UNCHANGED lastUid
SetPhase(o) ==
    /\ o \in Volumes /\ There(o)
    /\ Write(o, [db[o] EXCEPT !.bound = There(ClaimOf[o]) /\ db[ClaimOf[o]].uid = db[o].claim])
    /\ UNCHANGED lastUid

OthersStep == \E o \in Objs : \/ Create(o) \/ Delete(o) \/ Update(o)
                              \/ Place(o) \/ BindVolume(o) \/ SetPhase(o)

------------------------------------------------------------------------------
\* Requests.

Begin(r, op, pc, tasks, snap) ==
    /\ req[r].op = "none"
    /\ req' = [req EXCEPT ![r] = [Idle EXCEPT !.op = op, !.pc = pc, !.tasks = tasks, !.snap = snap]]

\* SemaphoredErrGroup: Go waits until fewer than Procs of the functions that
\* were started are running, so those that run are the first unfinished ones.
\* A function that fails gives its place back, too.
Runs(r, o) == Cardinality({x \in req[r].tasks : Rank[x] < Rank[o]}) < Procs

\* Mutant: the error is logged and dropped.
MutTaskEnds(s, o, failed) == [s EXCEPT !.tasks = @ \ {o}]

\* A function of the group ends; the group keeps an error for Wait.
TaskEnds(s, o, failed) == [s EXCEPT !.tasks = @ \ {o}, !.err = @ \/ failed]

Failed(s) == [Idle EXCEPT !.op = s.op, !.pc = "error"]

\* Wait has returned: with an error the request ends there.
WaitReturns(r, pc, tasks) ==
    /\ req[r].tasks = {}
    /\ req' = [req EXCEPT ![r] = IF @.err THEN Failed(@)
                                 ELSE [@ EXCEPT !.pc = pc, !.tasks = tasks]]

\* A call to etcd, to the API server or to the scheduler fails.
Fault == Event

=============================================================================
