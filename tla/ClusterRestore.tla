--------------------------- MODULE ClusterRestore ---------------------------
(***************************************************************************)
(* Snapshots are taken and loaded, and the cluster is reset, by requests   *)
(* that nothing keeps apart, while everyone else goes on writing.          *)
(***************************************************************************)
EXTENDS Snapshot, Reset

CONSTANTS InitialClusters, \* the clusters a server may start with
          Files            \* the snapshots users may have kept

\* Claims have uids that were given out before, other objects do not need one.
ASSUME RestoreAssumption ==
    /\ MaxUid \in Nat \ {0} /\ MaxEvents \in Nat
    /\ Gone \notin Object \cup Saved /\ Unasked \notin 0..MaxUid /\ "others" \notin Reqs
    /\ \A c \in Claims : KindOf[c] = "PersistentVolumeClaim"
    /\ Files \subseteq [Objs -> Saved \cup {Gone}]
    /\ \A d \in InitialClusters :
          /\ d \in [Objs -> Object \cup {Gone}]
          /\ \A o \in Objs : d[o] # Gone => d[o].uid <= 1 /\ (o \in Claims => d[o].uid # 0)

\* Of an object and the namespace that it is in.
InNamespace(o, n) == n \in Needs[o] /\ IsNamespace(n)
OnlyPodsPlaced(d) == \A o \in Objs \ Pods : d[o] # Gone => ~d[o].placed

\* The API server asks for more than a namespace only of pods (their priority
\* classes), and what users kept, or a server finds, came through it.
ASSUME AdmissionAssumption ==
    /\ \A o \in Objs \ Pods : \A n \in Needs[o] : IsNamespace(n)
    /\ \A o, n \in Objs : IsNamespace(o) => n \notin Needs[o]
    /\ \A d \in InitialClusters \cup Files : OnlyPodsPlaced(d)
    /\ \A d \in InitialClusters, o, n \in Objs : InNamespace(o, n) /\ d[o] # Gone => d[n] # Gone

Init ==
    /\ db \in InitialClusters /\ initial = db
    /\ file \in Files
    /\ req = [r \in Reqs |-> Idle]
    /\ lastUid = 1 /\ events = 0

\* The server dies with the requests it handles, and starts anew: etcd and the
\* cluster have stayed, and NewResetService reads what is there now.
ServerRestart ==
    /\ Fault /\ \E r \in Reqs : Running(r)
    /\ initial' = db
    /\ req' = [r \in Reqs |-> IF Running(r) THEN Failed(req[r]) ELSE req[r]]
    /\ UNCHANGED <<db, file, lastUid>>

RequestStep(r) == SnapshotStep(r) \/ ResetStep(r)

Next == \/ \E r \in Reqs : Snap(r) \/ Load(r) \/ ResetRequest(r) \/ RequestStep(r)
        \/ OthersStep \/ ServerRestart

Spec == Init /\ [][Next]_vars

------------------------------------------------------------------------------
\* Properties.

Requests ==
    [op : {"none", "snap", "load", "reset"},
     pc : {"idle", "list", "restart", "delete", "put", "scheduler", "ok", "error"} \cup ApplyPhases,
     tasks : SUBSET Objs, err : BOOLEAN, snap : [Objs -> Saved \cup {Gone}],
     found : [Volumes -> 0..MaxUid \cup {Unasked}],
     touched : SUBSET Objs, missed : SUBSET Objs, refused : SUBSET Objs]

\* Every variable has its type; a uid is one that was given out.
TypeOK ==
    /\ db \in [Objs -> Object \cup {Gone}] /\ initial \in [Objs -> Object \cup {Gone}]
    /\ file \in [Objs -> Saved \cup {Gone}]
    /\ req \in [Reqs -> Requests]
    /\ lastUid \in 0..MaxUid /\ events \in 0..MaxEvents
    /\ \A o \in Objs : There(o) => db[o].uid <= lastUid

Done(op) == {r \in Reqs : req[r].op = op /\ req[r].pc = "ok"}

\* A Load that answers with success has brought in every object of its file,
\* and its pods are on nodes if they were, except what others wrote after it.
LoadApplies ==
    \A r \in Done("load"), o \in Objs :
        InFile(r, o) /\ o \notin req[r].touched =>
            There(o) /\ (req[r].snap[o].placed => db[o].placed)

\* A volume that was bound names, after Load, the uid that its claim has in
\* this cluster, if neither was written since and the look-up had its answer.
ClaimsAreLocal ==
    \A r \in Done("load"), v \in Volumes :
        /\ InFile(r, v) /\ req[r].snap[v].bound /\ v \notin req[r].missed
        /\ InFile(r, ClaimOf[v]) /\ {v, ClaimOf[v]} \cap req[r].touched = {}
        => db[v].claim = db[ClaimOf[v]].uid

ResetNotUnderWay == \A r \in Reqs : req[r].op = "reset" => req[r].pc \in {"delete", "scheduler", "ok"}

Orphans == {o \in Objs : There(o) /\ \E n \in Objs : InNamespace(o, n) /\ ~There(n)}

\* A file has the namespaces of what it holds.
HasNamespaces(snap) ==
    \A o \in Objs : snap[o] # Gone =>
        \A n \in Objs : InNamespace(o, n) => n \in System \/ snap[n] # Gone

\* The API server refuses a Load another object than a pod (whose priority class
\* may come too late, or which is elsewhere already) for one of two reasons, and
\* never because of the order in which Load applies: for want of its namespace,
\* which someone else wrote meanwhile, or which is a system one that a Reset took
\* away, or which the file does not have; or because the object is there, and
\* was written since it was saved.
Missing(q, d, n) == \/ n \in q.touched
                    \/ n \in System /\ d[n] = Gone
                    \/ n \notin System /\ q.snap[n] = Gone
Conflicts(q, d, o) == q.snap[o].ver = "old" /\ (d[o] # Gone \/ o \in q.touched)
RefusedSoFar(q, d) ==
    \A o \in q.refused \ Pods : \/ Conflicts(q, d, o)
                               \/ \E n \in Objs : InNamespace(o, n) /\ Missing(q, d, n)
RefusedForAReason == \A r \in Reqs : RefusedSoFar(req[r], db)

\* A snapshot that nobody wrote during holds the namespaces of its objects, so
\* that loading it is not refused for want of them.
SnapHasNamespaces ==
    [][\A r \in Reqs :
         SnapReturns(r) /\ req'[r].pc = "ok" /\ req[r].touched = {} /\ Orphans = {}
             => HasNamespaces(file')]_vars

\* A Reset that answers with success has put every object back as it was when
\* the server started, except what others wrote meanwhile.
ResetRestores ==
    \A r \in Done("reset"), o \in Objs :
        o \notin req[r].touched => db[o] = initial[o]

\* Unless a reset is under way or failed, what is in a namespace has one: only
\* the namespace's deletion in the middle of a reset can leave it without.
NoOrphans ==
    ResetNotUnderWay =>
        \A o \in Orphans, n \in Objs :
            InNamespace(o, n) /\ ~There(n) => \E r \in Reqs : req[r].op = "reset" /\ n \in req[r].touched

------------------------------------------------------------------------------
\* The inductive invariant: what holds of a request q while it goes on, in a
\* cluster d.

\* Which request is where.
Stages(q) ==
    /\ q.pc \in {"delete", "put", "scheduler"} => q.op = "reset"
    /\ q.pc \in {"restart"} \cup ApplyPhases => q.op = "load"
    /\ q.pc = "list" => q.op = "snap"

\* What a Reset has put back, and nobody wrote since, is as it was at first; so
\* is what was not there then.
PutSoFar(q, d, i) ==
    q.op = "reset" /\ q.pc \in {"put", "scheduler", "ok"} =>
        /\ q.pc # "put" => q.tasks = {} /\ ~q.err
        /\ ~q.err => \A o \in Objs : o \notin q.touched \cup q.tasks => d[o] = i[o]

\* The phases a Load has done with, and the objects it has applied without an
\* error, and that nobody wrote since.
PhasesDone(pc) == CASE pc = "objects" -> {"namespaces"}
                    [] pc = "volumes" -> {"namespaces", "objects"}
                    [] pc = "ok" -> ApplyPhases
                    [] OTHER -> {}
Asked(q, o) == q.snap[o] # Gone /\ ~Ignored(o)
Handled(q, o) ==
    /\ Asked(q, o) /\ ~q.err
    /\ PhaseOf(o) \in PhasesDone(q.pc) \/ (PhaseOf(o) = q.pc /\ o \notin q.tasks)

TasksInPhase(q) ==
    q.op = "load" =>
        /\ q.pc \in ApplyPhases => \A o \in q.tasks : Asked(q, o) /\ PhaseOf(o) = q.pc
        /\ q.pc \in {"restart", "namespaces", "objects"} => \A v \in Volumes : q.found[v] = Unasked
        /\ q.pc = "ok" => ~q.err

AppliedSoFar(q, d) ==
    q.op = "load" => \A o \in Objs :
        Handled(q, o) /\ o \notin q.touched => d[o] # Gone /\ (q.snap[o].placed => d[o].placed)

\* What a Load has looked up is the claim's uid still, and what it has applied
\* names it.
NamesSoFar(q, d) ==
    q.op = "load" => \A v \in Volumes :
        q.snap[v] # Gone /\ q.snap[v].bound /\ v \notin q.missed
        /\ Handled(q, ClaimOf[v]) /\ ClaimOf[v] \notin q.touched =>
            /\ q.pc = "volumes" /\ q.found[v] # Unasked => q.found[v] = d[ClaimOf[v]].uid
            /\ Handled(q, v) /\ v \notin q.touched => d[v].claim = d[ClaimOf[v]].uid

\* No object has a uid that was not given out, and claims have one.  A volume may
\* name any: its file's.
Given(o, v) == v # Gone => v.uid <= lastUid /\ (o \in Claims => v.uid # 0)
UidsGiven ==
    /\ \A o \in Objs : Given(o, db[o]) /\ Given(o, initial[o])
    /\ \A r \in Reqs, v \in Volumes : req[r].found[v] # Unasked => req[r].found[v] <= lastUid

RequestInv(q, d, i) ==
    Stages(q) /\ PutSoFar(q, d, i) /\ TasksInPhase(q) /\ AppliedSoFar(q, d) /\ NamesSoFar(q, d)

\* The types, the uids, and where each request stands, together: each restored
\* or loaded object stays so until someone else writes it.
RestoreInv == TypeOK /\ UidsGiven /\ \A r \in Reqs : RequestInv(req[r], db, initial)

\* A Reset puts back what was there at first.
PutsInitial(q, i) == q.op = "reset" /\ q.pc = "put" => \A o \in q.tasks : i[o] # Gone

\* What a Snap has listed, and nobody wrote since, is as it was listed.
ListedSoFar(q, d) ==
    q.op = "snap" /\ q.pc = "list" /\ ~q.err =>
        \A o \in Objs \ (q.tasks \cup q.touched) :
            q.snap[o] = IF d[o] = Gone \/ Ignored(o) THEN Gone
                        ELSE [claim |-> d[o].claim, bound |-> d[o].bound, placed |-> d[o].placed,
                              ver |-> "current"]

\* A Load goes on to objects only when all its namespaces are there, and ends the
\* phase in which it is refused something: the first one, if it is a namespace.
NamespacesFirst(q, d) ==
    /\ q.pc \in {"objects", "volumes"} =>
          \A n \in Objs : IsNamespace(n) /\ Asked(q, n) /\ n \notin q.touched => d[n] # Gone
    /\ q.refused # {} => q.pc \in ApplyPhases /\ q.err
    /\ q.pc = "namespaces" => \A o \in q.refused : IsNamespace(o)

OrderInv(q, d, i) ==
    PutsInitial(q, i) /\ ListedSoFar(q, d) /\ NamespacesFirst(q, d) /\ RefusedSoFar(q, d)

\* The Resets that answer for a namespace being away: they failed, or will, or
\* someone else has written it since they deleted everything, or they are going
\* to put it back.
Lost(q, n) ==
    q.op = "reset" /\ \/ q.pc = "error"
                      \/ q.pc = "put" /\ q.err
                      \/ q.pc \in {"put", "scheduler", "ok"} /\ n \in q.touched
Awaited(q, n) == q.op = "reset" /\ q.pc = "put" /\ n \in q.tasks

NamespaceInv ==
    \A o, n \in Objs : InNamespace(o, n) =>
        /\ db[o] # Gone /\ db[n] = Gone => \E r \in Reqs : Lost(req[r], n) \/ Awaited(req[r], n)
        /\ initial[o] # Gone /\ initial[n] = Gone => \E r \in Reqs : Lost(req[r], n)

PlacedInv == /\ OnlyPodsPlaced(db) /\ OnlyPodsPlaced(initial) /\ OnlyPodsPlaced(file)
             /\ \A r \in Reqs : OnlyPodsPlaced(req[r].snap)

\* What the order of the steps adds: why an object may be without its namespace,
\* in the cluster, in a file or in front of the API server.
Ordered == NamespaceInv /\ PlacedInv /\ \A r \in Reqs : OrderInv(req[r], db, initial)

IInv == RestoreInv /\ Ordered

=============================================================================
