------------------------------ MODULE Clusters ------------------------------
(***************************************************************************)
(* The two clusters resources are copied between, as the importer, the     *)
(* syncer and the resource applier see them: a source cluster that they    *)
(* only read, and the simulator's own cluster, the destination.  Both are  *)
(* external: API servers with the clients and controllers around them.     *)
(*                                                                         *)
(* An object is a name in a kind.  What it holds is a version, and `at':   *)
(* for a pod whether it is on a node, for a volume the UID its claimRef    *)
(* holds, and 0 when there is none.  `bound' tells whether the phase of    *)
(* the volume is Bound: it is written after the claimRef, and a volume     *)
(* that is released keeps the claimRef.  Copying does not write the phase: *)
(* at the destination `bound' tells what it was in the version copied last.*)
(***************************************************************************)
EXTENDS Naturals, FiniteSets

CONSTANTS
    Kinds,       \* the kinds that are copied
    Objects,     \* the names of the objects
    KindOf,      \* the kind of each object
    RefersTo,    \* the priority class of a pod, the claim of a volume
    Gone,        \* no object
    Scopes,      \* bound: the sets of objects a behaviour is about
    MaxChanges,  \* bound: changes in the source cluster
    MaxTroubles  \* bound: failed calls, lost watches and removals

Pods == {o \in Objects : KindOf[o] = "pods"}
Volumes == {o \in Objects : KindOf[o] = "persistentvolumes"}

ASSUME ClustersAssumption ==
    /\ KindOf \in [Objects -> Kinds]
    /\ RefersTo \in [Objects -> SUBSET Objects]
    /\ IsFiniteSet(Objects)
    /\ \A v \in Volumes : RefersTo[v] # {}
    /\ \A o \in Objects : RefersTo[o] \cap (Pods \cup Volumes) = {}
    /\ Scopes \subseteq SUBSET Objects
    /\ MaxChanges \in Nat
    /\ MaxTroubles \in Nat
    /\ Gone \notin [uid : Nat, ver : Nat, at : Nat, bound : BOOLEAN]

VARIABLES
    src,       \* the objects of the source cluster
    version,   \* the resource version each of them got last
    dst,       \* the objects of the destination cluster
    made,      \* history: the UID each of them was created with last
    scope,     \* the objects that may exist in this behaviour
    changes,   \* changes in the source cluster so far
    troubles   \* troubles so far

srcVars == <<src, version, scope, changes>>
dstVars == <<dst, made>>

Instance == [uid : Nat, ver : Nat, at : Nat, bound : BOOLEAN]

ClustersTypeOK ==
    /\ src \in [Objects -> Instance \cup {Gone}]
    /\ version \in [Objects -> Nat]
    /\ dst \in [Objects -> Instance \cup {Gone}]
    /\ made \in [Objects -> Nat]
    /\ scope \in Scopes
    /\ changes \in 0 .. MaxChanges
    /\ troubles \in 0 .. MaxTroubles

Exists(cluster, o) == cluster[o] # Gone

\* The claim of a volume.
ClaimOf(v) == CHOOSE c \in RefersTo[v] : TRUE

Nowhere == 0
OnNode == 1
\* A pod of the destination that is waiting for its kubelet to let go of it.
Terminating == 2

\* The destination gives a UID of its own to what is created from the source's
\* object with UID u: one no source object has.
DstUid(u) == MaxChanges + 1 + u

\* A new object, with its first version.
FirstVersion(v) == [uid |-> v, ver |-> v, at |-> Nowhere, bound |-> FALSE]

\* Some of the objects exist before the copying starts; there may have been others
\* before, whose claims volumes still name.
ClustersInit ==
    /\ scope \in Scopes
    /\ src \in [Objects -> {Gone, FirstVersion(1),
                             [FirstVersion(1) EXCEPT !.at = 1],
                             [FirstVersion(1) EXCEPT !.at = 1, !.bound = TRUE]}]
    /\ \A o \in Objects : Exists(src, o) =>
          /\ o \in scope
          /\ o \notin Pods \cup Volumes => src[o].at = Nowhere
          /\ src[o].bound => o \in Volumes
          /\ o \in Pods \/ src[o].bound => \A n \in RefersTo[o] : Exists(src, n)
    /\ version = [o \in Objects |-> 1]
    /\ dst = [o \in Objects |-> Gone]
    /\ made = [o \in Objects |-> 0]
    /\ changes = 0
    /\ troubles = 0

-----------------------------------------------------------------------------
(***************************************************************************)
(* The source cluster.  Every change gives the object a new version.       *)
(***************************************************************************)

SrcWrite(o, value) ==
    /\ o \in scope
    /\ changes < MaxChanges
    /\ changes' = changes + 1
    /\ version' = [version EXCEPT ![o] = @ + 1]
    /\ src' = [src EXCEPT ![o] = value]
    /\ UNCHANGED scope

SrcCreate(o) ==
    /\ ~Exists(src, o)
    /\ o \in Pods => \A n \in RefersTo[o] : Exists(src, n)
    /\ SrcWrite(o, FirstVersion(version[o] + 1))

SrcUpdate(o) ==
    /\ Exists(src, o)
    /\ SrcWrite(o, [src[o] EXCEPT !.ver = version[o] + 1])

\* A pod is scheduled; a volume is given to its claim.
SrcPlace(o) ==
    /\ Exists(src, o)
    /\ src[o].at = Nowhere
    /\ \/ /\ o \in Pods
          /\ SrcWrite(o, [src[o] EXCEPT !.ver = version[o] + 1, !.at = OnNode])
       \/ /\ o \in Volumes
          /\ Exists(src, ClaimOf(o))
          /\ SrcWrite(o, [src[o] EXCEPT !.ver = version[o] + 1,
                                        !.at = src[ClaimOf(o)].uid])

\* The claim that a volume names is there, and is the one it names.
ClaimIsThere(v) ==
    Exists(src, ClaimOf(v)) /\ src[ClaimOf(v)].uid = src[v].at

\* The phase of a volume follows its claimRef: a volume that names its claim is
\* bound, one whose claim is gone is released and goes on naming it.
SrcBind(v) ==
    /\ v \in Volumes
    /\ Exists(src, v)
    /\ src[v].at # Nowhere
    /\ src[v].bound # ClaimIsThere(v)
    /\ SrcWrite(v, [src[v] EXCEPT !.ver = version[v] + 1,
                                  !.bound = ClaimIsThere(v)])

\* Someone makes a released volume available again.
SrcReclaim(v) ==
    /\ v \in Volumes
    /\ Exists(src, v)
    /\ src[v].at # Nowhere
    /\ ~src[v].bound
    /\ SrcWrite(v, [src[v] EXCEPT !.ver = version[v] + 1, !.at = Nowhere])

SrcDelete(o) ==
    /\ Exists(src, o)
    /\ SrcWrite(o, Gone)

SrcChange(o) ==
    \/ SrcCreate(o)
    \/ SrcUpdate(o)
    \/ SrcPlace(o)
    \/ SrcBind(o)
    \/ SrcReclaim(o)
    \/ SrcDelete(o)

-----------------------------------------------------------------------------
(***************************************************************************)
(* The destination cluster.                                                *)
(***************************************************************************)

Trouble ==
    /\ troubles < MaxTroubles
    /\ troubles' = troubles + 1

\* The API server admits a pod only if its priority class exists.
Admitted(o) == o \in Pods => \A n \in RefersTo[o] : Exists(dst, n)

\* It lets nobody take a pod off its node, which writing the source's pod would
\* do.
Mutable(o) == o \in Pods => dst[o].at = Nowhere

\* A deleted pod stays until it is off its node.
AfterDelete(o) ==
    IF o \in Pods /\ dst[o].at # Nowhere
      THEN [dst[o] EXCEPT !.at = Terminating]
      ELSE Gone

\* The simulator's scheduler schedules a pod.
DstSchedule(p) ==
    /\ p \in Pods
    /\ Exists(dst, p)
    /\ dst[p].at = Nowhere
    /\ dst' = [dst EXCEPT ![p].at = OnNode]
    /\ UNCHANGED <<srcVars, made, troubles>>

\* A terminating pod is gone.
DstTerminate(p) ==
    /\ p \in Pods
    /\ Exists(dst, p)
    /\ dst[p].at = Terminating
    /\ dst' = [dst EXCEPT ![p] = Gone]
    /\ UNCHANGED <<srcVars, made, troubles>>

\* A user, or preemption, removes an object.
DstRemove(o) ==
    /\ Exists(dst, o)
    /\ Trouble
    /\ dst' = [dst EXCEPT ![o] = AfterDelete(o)]
    /\ UNCHANGED <<srcVars, made>>
=============================================================================
