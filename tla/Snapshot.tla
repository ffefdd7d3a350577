------------------------------ MODULE Snapshot ------------------------------
(***************************************************************************)
(* The snapshot service: Snap lists all kinds side by side, Load restarts  *)
(* the scheduler and applies the kinds in three phases, the objects of a   *)
(* phase side by side.  No caller passes the options IgnoreErr and         *)
(* IgnoreSchedulerConfiguration.                                           *)
(***************************************************************************)
EXTENDS RestoredCluster

Kinds == {KindOf[o] : o \in Objs}
OfKind(k) == {o \in Objs : KindOf[o] = k}

\* isIgnoreNamespace and isSystemPriorityClass.
Ignored(o) == o \in System

\* What a list response says of an object.
Exported(o) ==
    IF ~There(o) \/ Ignored(o) THEN Gone
    ELSE [claim |-> db[o].claim, bound |-> db[o].bound, placed |-> db[o].placed, ver |-> "current"]

Snap(r) ==
    /\ Begin(r, "snap", "list", Objs, Idle.snap)
    /\ UNCHANGED <<db, initial, file, lastUid, events>>

\* The list calls are started in this order.
ListOrder == <<"Pod", "Node", "PersistentVolume", "PersistentVolumeClaim", "StorageClass",
               "PriorityClass", "Namespace">>
ListRank == [k \in Kinds |-> CHOOSE i \in DOMAIN ListOrder : ListOrder[i] = k]
Unlisted(r, k) == OfKind(k) \cap req[r].tasks # {}
ListRuns(r, k) ==
    /\ Unlisted(r, k)
    /\ Cardinality({j \in Kinds : ListRank[j] < ListRank[k] /\ Unlisted(r, j)}) < Procs

\* One list call: its kind as it is at that moment.
List(r, k) ==
    /\ req[r].pc = "list" /\ ListRuns(r, k)
    /\ req' = [req EXCEPT ![r].tasks = @ \ OfKind(k),
                          ![r].snap = [o \in Objs |-> IF o \in OfKind(k) THEN Exported(o) ELSE @[o]]]
    /\ UNCHANGED <<db, initial, file, lastUid, events>>

\* Mutant: a failed list is an empty one, as if IgnoreErr were set.
MutListFails(r, k) ==
    /\ req[r].pc = "list" /\ ListRuns(r, k) /\ Fault
    /\ req' = [req EXCEPT ![r].tasks = @ \ OfKind(k)]
    /\ UNCHANGED <<db, initial, file, lastUid>>

ListFails(r, k) ==
    /\ req[r].pc = "list" /\ ListRuns(r, k) /\ Fault
    /\ req' = [req EXCEPT ![r].tasks = @ \ OfKind(k), ![r].err = TRUE]
    /\ UNCHANGED <<db, initial, file, lastUid>>

SnapReturns(r) ==
    /\ req[r].pc = "list" /\ req[r].tasks = {}
    /\ IF req[r].err THEN WaitReturns(r, "ok", {}) /\ UNCHANGED file
       ELSE /\ file' = req[r].snap
            /\ req' = [req EXCEPT ![r] = [Idle EXCEPT !.op = "snap", !.pc = "ok"]]
    /\ UNCHANGED <<db, initial, lastUid, events>>

------------------------------------------------------------------------------
\* Load.  The phases: namespaces; then everything else; then volumes, which
\* name the uid of their claims.
InFile(r, o) == req[r].snap[o] # Gone /\ ~Ignored(o)

\* Mutants: volumes go with everything else, side by side with their claims;
\* namespaces do.
MutPhaseOf(o) == IF IsNamespace(o) THEN "namespaces" ELSE "objects"
MutNamespacePhase(o) == IF o \in Volumes THEN "volumes" ELSE "objects"

PhaseOf(o) == CASE IsNamespace(o) -> "namespaces"
                [] o \in Volumes -> "volumes"
                [] OTHER -> "objects"
TasksOf(r, pc) == {o \in Objs : InFile(r, o) /\ PhaseOf(o) = pc}

Load(r) ==
    /\ Begin(r, "load", "restart", {}, file)
    /\ UNCHANGED <<db, initial, file, lastUid, events>>

\* The scheduler restarts with the file's configuration (or is disabled); if it
\* cannot, nothing is applied.
RestartScheduler(r) ==
    /\ req[r].pc = "restart"
    /\ \/ req' = [req EXCEPT ![r].pc = "namespaces", ![r].tasks = TasksOf(r, "namespaces")]
          /\ UNCHANGED events
       \/ Fault /\ req' = [req EXCEPT ![r] = Failed(@)]
    /\ UNCHANGED <<db, initial, file, lastUid>>

ApplyPhases == {"namespaces", "objects", "volumes"}
Applying(r, o) == req[r].pc \in ApplyPhases /\ o \in req[r].tasks /\ Runs(r, o)

\* A bound volume's claim is looked up, in a call of its own; without an answer
\* the volume names no uid.
LooksUp(r, o) == o \in Volumes /\ req[r].snap[o].bound /\ req[r].found[o] = Unasked
LookUpClaim(r, o) ==
    /\ Applying(r, o) /\ LooksUp(r, o)
    /\ \/ /\ req' = [req EXCEPT ![r].found[o] = IF There(ClaimOf[o]) THEN db[ClaimOf[o]].uid ELSE 0]
          /\ UNCHANGED events
       \/ Fault /\ req' = [req EXCEPT ![r].found[o] = 0, ![r].missed = @ \cup {o}]
    /\ UNCHANGED <<db, initial, file, lastUid>>

\* The uid that the applied object names: of a volume that was not Bound, the
\* one in the file, whichever cluster that is from.
Named(r, o) == IF o \in Volumes /\ req[r].found[o] # Unasked THEN req[r].found[o]
               ELSE req[r].snap[o].claim

Ends(s, o) == [TaskEnds(s, o, FALSE) EXCEPT !.touched = @ \ {o},
                    !.found = [v \in Volumes |-> IF v = o THEN Unasked ELSE @[v]]]
Refused(s, o) == [TaskEnds(s, o, TRUE) EXCEPT !.refused = @ \cup {o}]

\* Any of the Apply calls.  The object's UID is taken out, its resourceVersion is
\* not.  An apply that changes nothing is no write.
Apply(r, o) ==
    LET s == req[r].snap[o] IN
    /\ Applying(r, o) /\ ~LooksUp(r, o) /\ HasUid(o)
    /\ IF Admits(o, s)
       THEN \E v \in Applied(o, s, Named(r, o)), written \in {{}, {o}} :
              /\ v # db[o] => written = {o}
              /\ db' = [db EXCEPT ![o] = v] /\ lastUid' = Counted(o)
              /\ req' = Touched(r, written, [req EXCEPT ![r] = Ends(@, o)])
              /\ file' = Outdated(file, written)
       ELSE /\ req' = [req EXCEPT ![r] = Refused(@, o)]
            /\ UNCHANGED <<db, file, lastUid>>
    /\ UNCHANGED <<initial, events>>

ApplyFails(r, o) ==
    /\ Applying(r, o) /\ ~LooksUp(r, o) /\ Fault
    /\ req' = [req EXCEPT ![r] = TaskEnds(@, o, TRUE)]
    /\ UNCHANGED <<db, initial, file, lastUid>>

\* Wait after each phase.
NextPhase(r) ==
    /\ req[r].pc \in ApplyPhases
    /\ CASE req[r].pc = "namespaces" -> WaitReturns(r, "objects", TasksOf(r, "objects"))
         [] req[r].pc = "objects" -> WaitReturns(r, "volumes", TasksOf(r, "volumes"))
         [] OTHER -> WaitReturns(r, "ok", {})
    /\ UNCHANGED <<db, initial, file, lastUid, events>>

SnapshotStep(r) ==
    \/ SnapReturns(r) \/ RestartScheduler(r) \/ NextPhase(r)
    \/ \E k \in Kinds : List(r, k) \/ ListFails(r, k)
    \/ \E o \in Objs : LookUpClaim(r, o) \/ Apply(r, o) \/ ApplyFails(r, o)

=============================================================================
