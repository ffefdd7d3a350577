--------------------------- MODULE ClusterImport ---------------------------
(***************************************************************************)
(* A simulator that copies a source cluster: with the one-shot importer or *)
(* with the syncer (config.NewConfig refuses both), over one applier.      *)
(***************************************************************************)
EXTENDS Syncer, OneShotImporter

CONSTANT Modes   \* the modes the simulator may be started in

ASSUME ModesAssumption == Modes \subseteq {"sync", "oneshot"}

VARIABLE mode

clusterVars == <<srcVars, dstVars, troubles>>
vars == <<clusterVars, applierVars, syncerVars, importerVars, mode>>

TypeOK ==
    /\ ClustersTypeOK
    /\ ApplierTypeOK
    /\ SyncerTypeOK
    /\ ImporterTypeOK
    /\ mode \in Modes

Init ==
    /\ ClustersInit
    /\ ApplierInit
    /\ SyncerInit
    /\ ImporterInit
    /\ mode \in Modes

\* The source cluster changes; only the syncer is told.
SourceStep ==
    /\ \E o \in Objects :
          /\ SrcChange(o)
          /\ IF mode = "sync" THEN Notify(o) ELSE UNCHANGED syncerVars
    /\ UNCHANGED <<dstVars, troubles, applierVars, importerVars, mode>>

\* The scheduler and the kubelets of the destination.
DestinationStep ==
    /\ \E p \in Pods : DstSchedule(p) \/ DstTerminate(p)
    /\ UNCHANGED <<applierVars, syncerVars, importerVars, mode>>

\* Someone removes an object from the destination; it is not to come back.
RemovalStep ==
    /\ \E o \in Objects : DstRemove(o) /\ behind' = behind \cup {o}
    /\ UNCHANGED <<job, syncerVars, importerVars, mode>>

ApplierStep ==
    /\ \E o \in Objects : Apply(o)
    /\ UNCHANGED <<syncerVars, importerVars, mode>>

SyncStep ==
    /\ mode = "sync"
    /\ \E k \in Kinds : SyncerStep(k)
    /\ UNCHANGED <<importerVars, mode>>

ImportStep ==
    /\ mode = "oneshot"
    /\ ImporterStep
    /\ UNCHANGED <<syncerVars, mode>>

FaultStep ==
    \/ /\ \E o \in Objects : CallFails(o)
       /\ UNCHANGED <<syncerVars, importerVars, mode>>
    \/ /\ mode = "sync"
       /\ \E k \in Kinds : LoseWatch(k)
       /\ UNCHANGED <<importerVars, mode>>
    \/ /\ mode = "oneshot"
       /\ ListFails
       /\ UNCHANGED <<syncerVars, mode>>

Next ==
    \/ SourceStep
    \/ DestinationStep
    \/ RemovalStep
    \/ ApplierStep
    \/ SyncStep
    \/ ImportStep
    \/ FaultStep

\* The goroutines of the simulator and the kubelets go on while any of them has
\* something to do.  There is no need to be fair to each: what they have to do is
\* made by the source, and used up by their steps.
Fairness == WF_vars(DestinationStep \/ ApplierStep \/ SyncStep \/ ImportStep)

Spec == Init /\ [][Next]_vars /\ Fairness

-----------------------------------------------------------------------------
(***************************************************************************)
(* Properties.                                                             *)
(***************************************************************************)

\* The syncer has nothing left to do.
InSync ==
    /\ mode = "sync"
    /\ \A k \in Kinds : queue[k] = <<>> /\ watch[k] = "on"
    /\ \A o \in Objects : job[o] = Idle
    /\ \A p \in Pods : Exists(dst, p) => dst[p].at # Terminating

\* Once the syncer has caught up, the destination has exactly the objects of the
\* source, leaving out those whose last event it could not carry out or that
\* someone removed: no event is lost or applied out of order across relists.
SameObjects ==
    InSync => \A o \in Objects \ behind : Exists(src, o) <=> Exists(dst, o)

\* And they are of the source's latest version, unless they are pods that the
\* source has scheduled, of which the syncer copies no more.
SameVersions ==
    InSync =>
        \A o \in Objects \ behind :
            /\ Exists(src, o)
            /\ Exists(dst, o)
            /\ o \in Pods => src[o].at = Nowhere
            => dst[o].ver = src[o].ver

\* syncer.go:101: what the scheduler preempts or a user removes at the
\* destination is not brought back; only a new object of the source's is.
RemovedStaysRemoved ==
    [][\A o \in Objects :
          ~Exists(dst, o) /\ Exists(dst', o) => dst'[o].uid > made[o]]_vars

\* A UID that a claim of the destination, or of the source, has or had.
IsLocal(uid, c) == DstUid(1) <= uid /\ uid <= made[c]
IsForeign(uid, c) == uid \in 1 .. version[c]
NamesClaim(v, obj) ==
    IF obj.bound
      THEN IsLocal(obj.at, ClaimOf(v))
      ELSE obj.at # Nowhere => IsForeign(obj.at, ClaimOf(v))

\* A volume that was copied when its phase was Bound names its claim, and by the
\* UID the claim has, or had, at the destination (resource.go:45-57).  Any other
\* that names a claim was copied while it was being bound or after it had been
\* released, and still names it by its UID in the source: nothing but another
\* copy of a Bound version makes the reference local.
ClaimReferencesAreLocal ==
    \A v \in Volumes : Exists(dst, v) => NamesClaim(v, dst[v])

\* Importing in order creates what others refer to before them: an import from a
\* cluster at rest, without a failing call, leaves nothing behind that was
\* selected together with what it refers to.
ImportIsComplete ==
    outcome = "done" /\ changes = 0 /\ troubles = 0
    => \A o \in Selected :
          Exists(src, o) /\ RefersTo[o] \subseteq Selected => Exists(dst, o)

\* Whatever is missing, refused or gone at the destination, the syncer comes to
\* rest when the source does, and the importer returns: no call waits for
\* another kind's.
Settles == <>[](InSync \/ outcome # "running")

\* syncer.go:22: "this order matters - When first importing resources, we want
\* to sync namespaces first, then priorityclasses": what the source held when
\* the syncer started is there when it has caught up for the first time.
FirstSyncIsComplete ==
    InSync /\ changes = 0 /\ troubles = 0
    => \A o \in Objects : Exists(src, o) => Exists(dst, o)
-----------------------------------------------------------------------------
(***************************************************************************)
(* Why they hold: the inductive invariant.                                 *)
(***************************************************************************)

\* The events of o that wait for its handler, as indices of the kind's queue,
\* the one taken first and the one that came last.
Q(o) == queue[KindOf[o]]
Waiting(o) == {i \in DOMAIN Q(o) : Q(o)[i].o = o}
IsFirst(o, i) == i \in Waiting(o) /\ \A j \in Waiting(o) : i <= j
IsLast(o, i) == i \in Waiting(o) /\ \A j \in Waiting(o) : j <= i
IsNext(o, i, j) ==
    /\ i \in Waiting(o) /\ j \in Waiting(o) /\ i < j
    /\ \A m \in Waiting(o) : m <= i \/ j <= m

Drops == {"delete", "tombstone"}
Alive(o) == Exists(dst, o) /\ (o \in Pods => dst[o].at # Terminating)
Watched(o) == watch[KindOf[o]] = "on"

\* What the source says of an object: a pod there is never terminating, a volume
\* that is bound names a claim, and one that names a claim does so by a UID the
\* claim has or had there.
ObjectKnown(o, obj) ==
    /\ o \in Pods => obj.at \in {Nowhere, OnNode}
    /\ obj.bound => o \in Volumes /\ obj.at # Nowhere
    /\ o \in Volumes /\ obj.at # Nowhere => IsForeign(obj.at, ClaimOf(o))

\* An object of the source has the version it got last.
SourceVersions ==
    \A o \in Objects :
        Exists(src, o) => /\ o \in scope
                          /\ src[o].ver = version[o]
                          /\ src[o].uid \in 1 .. version[o]
                          /\ ObjectKnown(o, src[o])

\* A UID at the destination was made from one of the source.
UidsMade ==
    \A o \in Objects :
        /\ made[o] = 0 \/ \E u \in 1 .. version[o] : made[o] = DstUid(u)
        /\ Exists(dst, o) => dst[o].uid = made[o] /\ made[o] # 0

\* What a call works on.
JobsKnown ==
    \A o \in Objects : job[o] # Idle =>
        /\ job[o].obj = Gone <=> job[o].op = "delete"
        /\ job[o].op # "delete" =>
              /\ job[o].obj.uid \in 1 .. version[o]
              /\ ObjectKnown(o, job[o].obj)
        /\ job[o].op = "update" /\ o \in Pods => job[o].obj.at = Nowhere
        /\ job[o].op = "create" => made[o] < DstUid(job[o].obj.uid)
        /\ job[o].claim # 0 =>
              /\ o \in Volumes
              /\ job[o].claim >= DstUid(1) /\ job[o].claim <= made[ClaimOf(o)]

\* What an event holds.
EventsKnown ==
    \A k \in Kinds : \A i \in DOMAIN queue[k] :
        LET e == queue[k][i] IN
        /\ KindOf[e.o] = k
        /\ e.obj = Gone <=> e.type \in Drops
        /\ e.obj # Gone => /\ e.obj.uid \in 1 .. version[e.o]
                           /\ ObjectKnown(e.o, e.obj)

\* The source's object with UID u is newer than all that is known of o.
NewerThanAll(o, u) ==
    /\ \A i \in Waiting(o) : Q(o)[i].obj # Gone => Q(o)[i].obj.uid < u
    /\ made[o] < DstUid(u)
    /\ job[o] # Idle /\ job[o].obj # Gone => job[o].obj.uid < u

\* Every creation that is still to be carried out is of a newer object than all
\* that came before it.
AddsAreNewer(o) ==
    /\ \A i, j \in Waiting(o) :
          i < j /\ Q(o)[j].type = "add" /\ Q(o)[i].obj # Gone
          => Q(o)[i].obj.uid < Q(o)[j].obj.uid
    /\ \A j \in Waiting(o) : Q(o)[j].type = "add" =>
          /\ made[o] < DstUid(Q(o)[j].obj.uid)
          /\ job[o] # Idle /\ job[o].obj # Gone => job[o].obj.uid < Q(o)[j].obj.uid
    /\ o \notin known /\ Exists(src, o) => NewerThanAll(o, src[o].uid)

\* The events of an object alternate, from what the call in progress or, if no
\* trouble befell it, the destination makes of it, to what the informer knows.
There(o) == IF job[o] # Idle THEN job[o].op # "delete" ELSE Alive(o)
Followed(o) == job[o] # Idle \/ o \notin behind
EventsAlternate(o) ==
    /\ \A i, j \in Waiting(o) : IsNext(o, i, j) =>
          (Q(o)[j].type = "add" <=> Q(o)[i].type \in Drops)
    /\ \A i \in Waiting(o) : IsFirst(o, i) /\ Followed(o) =>
          (Q(o)[i].type = "add" <=> ~There(o))
    /\ \A i \in Waiting(o) : IsLast(o, i) =>
          (o \in known <=> Q(o)[i].type \notin Drops)
    /\ Waiting(o) = {} /\ Followed(o) => (o \in known <=> There(o))
    /\ o \notin behind /\ job[o] # Idle /\ job[o].op = "update" => Alive(o)

\* While an informer watches, what comes last is the object as it is.
LastIsCurrent(o) ==
    Watched(o) =>
        /\ o \in known <=> Exists(src, o)
        /\ \A i \in Waiting(o) : IsLast(o, i) => Q(o)[i].obj = src[o]
        /\ Waiting(o) = {} /\ job[o] # Idle => job[o].obj = src[o]
        /\ /\ Waiting(o) = {} /\ job[o] = Idle /\ o \notin behind
           /\ Exists(src, o) /\ Exists(dst, o)
           /\ o \in Pods => src[o].at = Nowhere
           => dst[o].ver = src[o].ver

Synced ==
    mode = "sync" => \A o \in Objects :
        AddsAreNewer(o) /\ EventsAlternate(o) /\ LastIsCurrent(o)

\* The importer has listed the kinds of what is being created or was, and
\* nothing but creations is in progress.
Listed(o) == \E i \in 1 .. phase : Order[i] = KindOf[o]
ImporterOnly ==
    /\ mode = "sync" => outcome = "running"
    /\ mode = "oneshot" =>
          /\ \A k \in Kinds : queue[k] = <<>>
          /\ \A o \in Objects : made[o] # 0 \/ job[o] # Idle => Listed(o)
          /\ \A o \in Objects : job[o] # Idle => job[o].op = "create"
          /\ outcome = "done" => phase = Len(Order) /\ AllCreated
          /\ troubles = 0 =>
                \A p \in Pods : Exists(dst, p) => dst[p].at # Terminating

\* In a source at rest what refers has what it refers to; and what was listed is
\* there, or its creation is under way and what it refers to is there.
Importing(o) ==
    /\ job[o] # Idle
    /\ o \in Pods \/ job[o].obj.bound => \A n \in RefersTo[o] : Exists(dst, n)
ImportGoesOn ==
    changes = 0 =>
        /\ \A o \in Objects : Exists(src, o) /\ (o \in Pods \/ src[o].bound)
              => \A n \in RefersTo[o] : Exists(src, n)
        /\ mode = "oneshot" /\ troubles = 0 =>
              \A o \in Selected :
                  /\ Exists(src, o) /\ Listed(o)
                  /\ o \in Pods \cup Volumes => RefersTo[o] \subseteq Selected
                  => Exists(dst, o) \/ Importing(o)

IInv ==
    /\ TypeOK
    /\ SourceVersions /\ UidsMade
    /\ JobsKnown /\ EventsKnown
    /\ ClaimReferencesAreLocal
    /\ Synced
    /\ ImporterOnly /\ ImportGoesOn
=============================================================================
