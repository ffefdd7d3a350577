-------------------------- MODULE ResourceApplier --------------------------
(***************************************************************************)
(* The resource applier: what Service.Create, Update and Delete do with an *)
(* object of the source cluster.  They are called by the syncer's event    *)
(* handlers and by the importer's goroutines, which log the errors they    *)
(* return and go on.                                                       *)
(*                                                                         *)
(* A call ends with one request to the destination's API server; the       *)
(* mutating function for a bound volume asks it for the claim before that. *)
(***************************************************************************)
EXTENDS Clusters

CONSTANT Idle   \* no call

VARIABLES
    job,    \* the call in progress for each object
    behind  \* history: objects whose last event was not carried out

applierVars == <<job, behind>>

\* obj is the object as it was read from the source; claim is the UID of the
\* volume's claim at the destination, 0 before it is looked up.
Job == [op : {"create", "update", "delete"}, obj : Instance \cup {Gone},
        claim : Nat]

ASSUME ApplierAssumption == Idle \notin Job

ApplierTypeOK ==
    /\ job \in [Objects -> Job \cup {Idle}]
    /\ behind \in SUBSET Objects

ApplierInit ==
    /\ job = [o \in Objects |-> Idle]
    /\ behind = {}

\* Mutant: only pods that are on a node are updated.
MutBegin(o, op, obj) ==
    IF op = "update" /\ o \in Pods /\ obj.at = Nowhere
      THEN Idle
      ELSE [op |-> op, obj |-> obj, claim |-> 0]

\* A call for o, up to its first request.  Updates of pods that are on a node
\* are filtered.
Begin(o, op, obj) ==
    IF op = "update" /\ o \in Pods /\ obj.at # Nowhere
      THEN Idle
      ELSE [op |-> op, obj |-> obj, claim |-> 0]

\* The call in progress for o ends; only its effect at the destination and
\* whether it succeeded remain.
End(o) == job' = [job EXCEPT ![o] = Idle]
Succeeds(o) == End(o) /\ behind' = behind \ {o}
Fails(o) == End(o) /\ behind' = behind \cup {o}

\* mutatePV has to look up the claim of a volume whose phase is Bound.
LooksUp(o) ==
    /\ o \in Volumes
    /\ job[o].op \in {"create", "update"}
    /\ job[o].obj.bound
    /\ job[o].claim = 0

\* Mutant: mutatePV waits until the claim is there.
MutLookUpClaim(o) ==
    /\ job[o] # Idle
    /\ LooksUp(o)
    /\ Exists(dst, ClaimOf(o))
    /\ job' = [job EXCEPT ![o].claim = dst[ClaimOf(o)].uid]
    /\ UNCHANGED <<srcVars, dstVars, troubles, behind>>

LookUpClaim(o) ==
    /\ job[o] # Idle
    /\ LooksUp(o)
    /\ LET c == ClaimOf(o) IN
         IF Exists(dst, c)
           THEN /\ job' = [job EXCEPT ![o].claim = dst[c].uid]
                /\ UNCHANGED behind
           ELSE Fails(o)
    /\ UNCHANGED <<srcVars, dstVars, troubles>>

\* A call that its filtering and mutating functions have let through is about to
\* send its request.
Calls(o, op) ==
    /\ job[o] # Idle
    /\ job[o].op = op
    /\ ~LooksUp(o)
    /\ UNCHANGED <<srcVars, troubles>>

\* Mutant: mutatePV leaves the source's UID in the claim reference.
MutMutated(o) == job[o].obj

\* The object that is written.  No UID and no resource version go with it, so
\* the API server neither compares versions nor keeps the source's UID.  The
\* claimRef of a volume that is not bound goes as it is.
Mutated(o) ==
    IF job[o].obj.bound
      THEN [job[o].obj EXCEPT !.at = job[o].claim]
      ELSE job[o].obj

CreateResource(o) ==
    /\ Calls(o, "create")
    /\ IF ~Exists(dst, o) /\ Admitted(o)
         THEN /\ dst' = [dst EXCEPT ![o] =
                           [Mutated(o) EXCEPT !.uid = DstUid(@)]]
              /\ made' = [made EXCEPT ![o] = dst'[o].uid]
              /\ Succeeds(o)
         ELSE /\ Fails(o)
              /\ UNCHANGED dstVars

\* Mutant: an object that is not found is created.
MutUpdateResource(o) ==
    /\ Calls(o, "update")
    /\ IF Exists(dst, o)
         THEN Mutable(o) /\ dst' = [dst EXCEPT ![o] =
                                      [Mutated(o) EXCEPT !.uid = dst[o].uid]]
         ELSE dst' = [dst EXCEPT ![o] = [Mutated(o) EXCEPT !.uid = DstUid(@)]]
    /\ made' = [made EXCEPT ![o] = dst'[o].uid]
    /\ Succeeds(o)

\* An object that is not found stays away: it was preempted or removed.
UpdateResource(o) ==
    /\ Calls(o, "update")
    /\ IF ~Exists(dst, o)
         THEN End(o) /\ UNCHANGED <<dst, behind>>
       ELSE IF Mutable(o)
         THEN /\ dst' = [dst EXCEPT ![o] =
                           [Mutated(o) EXCEPT !.uid = dst[o].uid]]
              /\ Succeeds(o)
         ELSE Fails(o) /\ UNCHANGED dst
    /\ UNCHANGED made

DeleteResource(o) ==
    /\ Calls(o, "delete")
    /\ IF Exists(dst, o)
         THEN dst' = [dst EXCEPT ![o] = AfterDelete(o)]
         ELSE UNCHANGED dst
    /\ Succeeds(o)
    /\ UNCHANGED made

\* The request, or the one that looks up the claim, fails; the error is logged.
CallFails(o) ==
    /\ job[o] # Idle
    /\ Trouble
    /\ Fails(o)
    /\ UNCHANGED <<srcVars, dstVars>>

Apply(o) ==
    \/ LookUpClaim(o)
    \/ CreateResource(o)
    \/ UpdateResource(o)
    \/ DeleteResource(o)
=============================================================================
