------------------------ MODULE ClusterImport_proofs ------------------------
(***************************************************************************)
(* Proofs about ClusterImport, for any kinds, objects, references, order   *)
(* and bounds: the inductive invariant, and from it that the syncer        *)
(* catches up with the source, that nothing removed comes back, that       *)
(* volumes name claims of the destination, and that an import is complete. *)
(***************************************************************************)
EXTENDS ClusterImport, TLAPS, FiniteSetTheorems, FunctionTheorems

-----------------------------------------------------------------------------
(***************************************************************************)
(* What waits for the handler of an object o, before and after a step.     *)
(***************************************************************************)

\* The step leaves the events of o as they are.
SameEvents(o) ==
    /\ Waiting(o)' = Waiting(o)
    /\ \A i \in Waiting(o) : Q(o)'[i] = Q(o)[i]

\* The step adds event e of o, as the p-th of its kind.
OneMore(o, p, e) ==
    /\ p \in Nat /\ \A i \in Waiting(o) : i < p
    /\ Waiting(o)' = Waiting(o) \cup {p}
    /\ \A i \in Waiting(o) : Q(o)'[i] = Q(o)[i]
    /\ Q(o)'[p] = e

\* The step takes the first event of o's kind.
OneLess(o) ==
    /\ Waiting(o)' = {i \in Nat \ {0} : i + 1 \in Waiting(o)}
    /\ \A i \in Waiting(o)' : Q(o)'[i] = Q(o)[i + 1]

\* The three parts of Synced.
SyncedFor(o) == AddsAreNewer(o) /\ EventsAlternate(o) /\ LastIsCurrent(o)

\* A kind's queue holds events, of that kind.
LEMMA Waits ==
    ASSUME TypeOK, NEW o \in Objects
    PROVE  /\ Q(o) \in Seq(Event)
           /\ Waiting(o) \subseteq 1 .. Len(Q(o))
           /\ \A i \in Waiting(o) : Q(o)[i] \in Event /\ Q(o)[i].o = o /\ i \in Nat \ {0}
BY ClustersAssumption DEF TypeOK, SyncerTypeOK, Q, Waiting

\* The types of what is known of one object.
LEMMA Types ==
    ASSUME TypeOK, NEW o \in Objects
    PROVE  /\ MaxChanges \in Nat /\ MaxTroubles \in Nat
           /\ src[o] \in Instance \cup {Gone}
           /\ Exists(src, o) => src[o] \in Instance
           /\ dst[o] \in Instance \cup {Gone}
           /\ Exists(dst, o) => dst[o] \in Instance
           /\ version[o] \in Nat /\ made[o] \in Nat
           /\ job[o] # Idle => job[o] \in Job
           /\ KindOf[o] \in Kinds
BY ClustersAssumption DEF TypeOK, ClustersTypeOK, ApplierTypeOK, Exists

\* What is known of the clusters and of events, when neither cluster changes and
\* no event is added.
LEMMA ClustersKept ==
    ASSUME UNCHANGED <<src, version, scope, dst, made>>
    PROVE  /\ SourceVersions => SourceVersions'
           /\ UidsMade => UidsMade'
           /\ ClaimReferencesAreLocal => ClaimReferencesAreLocal'
           /\ EventsKnown
              /\ (\A k \in Kinds : \A i \in DOMAIN queue'[k] :
                     \E n \in DOMAIN queue[k] : queue'[k][i] = queue[k][n])
              => EventsKnown'
<1>1. SourceVersions => SourceVersions'
    BY DEF SourceVersions, Exists, ObjectKnown, IsForeign, ClaimOf
<1>2. UidsMade => UidsMade'
    BY DEF UidsMade, Exists, DstUid
<1>3. ClaimReferencesAreLocal => ClaimReferencesAreLocal'
    BY DEF ClaimReferencesAreLocal, Exists, DstUid, ClaimOf, NamesClaim, IsLocal, IsForeign
<1>4. ASSUME EventsKnown,
             \A k \in Kinds : \A i \in DOMAIN queue'[k] :
                \E n \in DOMAIN queue[k] : queue'[k][i] = queue[k][n]
      PROVE  EventsKnown'
    <2>1. ASSUME NEW k \in Kinds, NEW i \in DOMAIN queue'[k]
          PROVE  LET e == queue'[k][i] IN
                 /\ KindOf[e.o] = k
                 /\ e.obj = Gone <=> e.type \in Drops
                 /\ e.obj # Gone => /\ e.obj.uid \in 1 .. version[e.o]
                                    /\ ObjectKnown(e.o, e.obj)
        BY <1>4, <2>1 DEF EventsKnown
    <2> QED
        BY <2>1 DEF EventsKnown, ObjectKnown, IsForeign, ClaimOf
<1> QED
    BY <1>1, <1>2, <1>3, <1>4

\* What a step that is about another object, or that changes nothing the events
\* of o depend on, leaves of Synced.
LEMMA Steady ==
    ASSUME NEW o \in Objects, SameEvents(o), SyncedFor(o),
           UNCHANGED <<src[o], made[o]>>,
           o \in known' <=> o \in known,
           Watched(o)' => Watched(o),
           job'[o] = Idle <=> job[o] = Idle,
           job[o] # Idle => job'[o].op = job[o].op /\ job'[o].obj = job[o].obj,
           o \in behind => o \in behind',
           o \in behind' \/ Alive(o)' = Alive(o),
           Exists(dst', o) => Exists(dst, o) /\ dst'[o].ver = dst[o].ver
    PROVE  SyncedFor(o)'
<1>1. AddsAreNewer(o)'
    BY DEF SyncedFor, SameEvents, AddsAreNewer, NewerThanAll, Exists, DstUid
<1>2. EventsAlternate(o)'
    <2>1. /\ \A i, j : IsNext(o, i, j)' <=> IsNext(o, i, j)
          /\ \A i : IsFirst(o, i)' <=> IsFirst(o, i)
          /\ \A i : IsLast(o, i)' <=> IsLast(o, i)
        BY DEF SameEvents, IsNext, IsFirst, IsLast
    <2>2. Followed(o)' => Followed(o) /\ There(o)' = There(o)
        BY DEF Followed, There
    <2>3. o \notin behind' => o \notin behind /\ Alive(o)' = Alive(o)
        OBVIOUS
    <2> QED
        BY <2>1, <2>2, <2>3 DEF SyncedFor, SameEvents, EventsAlternate
<1>3. LastIsCurrent(o)'
    <2>1. \A i : IsLast(o, i)' <=> i \in Waiting(o) /\ IsLast(o, i)
        BY DEF SameEvents, IsLast
    <2> QED
        BY <2>1 DEF SyncedFor, SameEvents, LastIsCurrent, Exists
<1> QED
    BY <1>1, <1>2, <1>3 DEF SyncedFor

\* The informer of o's kind reads the object anew and reports it.
LEMMA Told ==
    ASSUME TypeOK, NEW o \in Objects, NEW p, NEW gone \in Drops,
           SyncedFor(o), OneMore(o, p, EventOf(o, src'[o], gone)),
           UNCHANGED <<job[o], made[o], dst[o]>>,
           o \in behind' <=> o \in behind,
           Exists(src', o) \/ o \in known,
           o \notin known /\ Exists(src', o) => NewerThanAll(o, src'[o].uid),
           o \in known' <=> Exists(src', o)
    PROVE  SyncedFor(o)'
<1> DEFINE e == EventOf(o, src'[o], gone)
<1>0. \A i \in Waiting(o) : i \in Nat
    BY Waits
<1>1. /\ e.obj = src'[o]
      /\ e.type \in Drops <=> ~Exists(src', o)
      /\ e.type = "add" <=> Exists(src', o) /\ o \notin known
    BY DEF EventOf, Exists, Drops
<1> HIDE DEF e
<1>2. /\ p \in Nat /\ p \notin Waiting(o) /\ Waiting(o)' = Waiting(o) \cup {p}
      /\ \A i \in Waiting(o) : i < p /\ Q(o)'[i] = Q(o)[i]
      /\ Q(o)'[p] = e
    BY <1>0 DEF OneMore, e
<1>3. AddsAreNewer(o)'
    <2>1. ASSUME NEW i \in Waiting(o)', NEW j \in Waiting(o)', i < j,
                 Q(o)'[j].type = "add", Q(o)'[i].obj # Gone
          PROVE  Q(o)'[i].obj.uid < Q(o)'[j].obj.uid
        <3>1. i \in Waiting(o)
            BY <2>1, <1>0, <1>2
        <3>2. CASE j \in Waiting(o)
            BY <2>1, <3>1, <3>2, <1>2 DEF SyncedFor, AddsAreNewer
        <3>3. CASE j = p
            BY <2>1, <3>1, <3>3, <1>1, <1>2 DEF NewerThanAll
        <3> QED
            BY <3>2, <3>3, <1>2
    <2>2. ASSUME NEW j \in Waiting(o)', Q(o)'[j].type = "add"
          PROVE  /\ made'[o] < DstUid(Q(o)'[j].obj.uid)
                 /\ job'[o] # Idle /\ job'[o].obj # Gone => job'[o].obj.uid < Q(o)'[j].obj.uid
        <3>1. CASE j \in Waiting(o)
            BY <2>2, <3>1, <1>2 DEF SyncedFor, AddsAreNewer
        <3>2. CASE j = p
            BY <2>2, <3>2, <1>1, <1>2 DEF NewerThanAll
        <3> QED
            BY <3>1, <3>2, <1>2
    <2> QED
        BY <2>1, <2>2 DEF AddsAreNewer, DstUid
<1>4. EventsAlternate(o)'
    <2>1. ASSUME NEW i, NEW j, IsNext(o, i, j)'
          PROVE  Q(o)'[j].type = "add" <=> Q(o)'[i].type \in Drops
        <3>1. i \in Waiting(o) /\ j \in Waiting(o) \cup {p} /\ i < j
            BY <2>1, <1>0, <1>2 DEF IsNext
        <3>2. CASE j \in Waiting(o)
            <4>1. IsNext(o, i, j)
                BY <2>1, <3>1, <3>2, <1>2 DEF IsNext
            <4> QED
                BY <3>1, <3>2, <4>1, <1>2 DEF SyncedFor, EventsAlternate
        <3>3. CASE j = p
            <4>1. IsLast(o, i)
                BY <2>1, <3>1, <3>3, <1>0, <1>2 DEF IsNext, IsLast
            <4>2. o \in known <=> Q(o)[i].type \notin Drops
                BY <3>1, <4>1 DEF SyncedFor, EventsAlternate
            <4> QED
                BY <3>1, <3>3, <4>2, <1>1, <1>2
        <3> QED
            BY <3>1, <3>2, <3>3
    <2>2. There(o)' = There(o) /\ Followed(o)' = Followed(o) /\ Alive(o)' = Alive(o)
        BY DEF There, Followed, Alive, Exists
    <2>3. ASSUME NEW i \in Waiting(o)', IsFirst(o, i)', Followed(o)'
          PROVE  (Q(o)'[i].type = "add" <=> ~There(o)')
        <3>1. CASE i \in Waiting(o)
            <4>1. IsFirst(o, i)
                BY <2>3, <3>1, <1>2 DEF IsFirst
            <4> QED
                BY <2>2, <2>3, <3>1, <4>1, <1>2 DEF SyncedFor, EventsAlternate
        <3>2. CASE i = p
            <4>1. Waiting(o) = {}
                BY <2>3, <3>2, <1>0, <1>2 DEF IsFirst
            <4>2. o \in known <=> There(o)
                BY <2>2, <2>3, <4>1 DEF SyncedFor, EventsAlternate
            <4> QED
                BY <2>2, <3>2, <4>2, <1>1, <1>2
        <3> QED
            BY <3>1, <3>2, <1>2
    <2>4. ASSUME NEW i \in Waiting(o)', IsLast(o, i)'
          PROVE  o \in known' <=> Q(o)'[i].type \notin Drops
        <3>1. i = p
            BY <2>4, <1>0, <1>2 DEF IsLast
        <3> QED
            BY <3>1, <1>1, <1>2
    <2>5. o \notin behind' /\ job'[o] # Idle /\ job'[o].op = "update" => Alive(o)'
        BY <2>2 DEF SyncedFor, EventsAlternate
    <2>6. Waiting(o)' # {}
        BY <1>2
    <2> QED
        BY <2>1, <2>3, <2>4, <2>5, <2>6 DEF EventsAlternate, IsNext
<1>5. LastIsCurrent(o)'
    <2>1. \A i \in Waiting(o)' : IsLast(o, i)' => i = p
        BY <1>0, <1>2 DEF IsLast
    <2> QED
        BY <2>1, <1>1, <1>2 DEF LastIsCurrent
<1> QED
    BY <1>3, <1>4, <1>5 DEF SyncedFor

\* The first event of another object is taken.
LEMMA Passed ==
    ASSUME TypeOK, NEW o \in Objects, OneLess(o), 1 \notin Waiting(o), SyncedFor(o),
           UNCHANGED <<src[o], made[o], job[o], dst[o]>>,
           o \in known' <=> o \in known, o \in behind' <=> o \in behind,
           Watched(o)' => Watched(o)
    PROVE  SyncedFor(o)'
<1>0. \A i \in Waiting(o) : i \in Nat \ {0}
    BY Waits
<1>1. /\ \A i \in Waiting(o)' : /\ i \in Nat /\ i + 1 \in Waiting(o)
                                /\ Q(o)'[i] = Q(o)[i + 1]
      /\ \A i \in Waiting(o) : i - 1 \in Waiting(o)' /\ i - 1 \in Nat
    BY <1>0 DEF OneLess
<1>2. AddsAreNewer(o)'
    <2>1. ASSUME NewerThanAll(o, src[o].uid)
          PROVE  NewerThanAll(o, src[o].uid)'
        BY <2>1, <1>1 DEF NewerThanAll, DstUid
    <2>2. \A i, j \in Waiting(o)' : i < j => i + 1 < j + 1
        BY <1>1
    <2> QED
        BY <2>1, <2>2, <1>1 DEF SyncedFor, AddsAreNewer, Exists, DstUid
<1>3. \A i \in Waiting(o)' : IsLast(o, i)' => IsLast(o, i + 1)
    BY <1>0, <1>1 DEF IsLast
<1>4. EventsAlternate(o)'
    <2>1. ASSUME NEW i \in Waiting(o)', NEW j \in Waiting(o)', IsNext(o, i, j)'
          PROVE  IsNext(o, i + 1, j + 1)
        BY <2>1, <1>0, <1>1 DEF IsNext
    <2>2. \A i \in Waiting(o)' : IsFirst(o, i)' => IsFirst(o, i + 1)
        BY <1>0, <1>1 DEF IsFirst
    <2>3. There(o)' = There(o) /\ Followed(o)' = Followed(o) /\ Alive(o)' = Alive(o)
        BY DEF There, Followed, Alive, Exists
    <2>4. Waiting(o)' = {} => Waiting(o) = {}
        BY <1>1
    <2> QED
        BY <1>1, <1>3, <2>1, <2>2, <2>3, <2>4 DEF SyncedFor, EventsAlternate
<1>5. LastIsCurrent(o)'
    <2>1. Waiting(o)' = {} => Waiting(o) = {}
        BY <1>1
    <2> QED
        BY <1>1, <1>3, <2>1 DEF SyncedFor, LastIsCurrent, Exists
<1> QED
    BY <1>2, <1>4, <1>5 DEF SyncedFor

\* The handler takes the first event of o, and calls the applier unless it is a
\* tombstone or the update of a pod that is on a node.
LEMMA Handled ==
    ASSUME TypeOK, NEW o \in Objects, OneLess(o), 1 \in Waiting(o), SyncedFor(o),
           UNCHANGED <<src[o], made[o], dst[o]>>,
           o \in known' <=> o \in known, o \in behind => o \in behind',
           Watched(o)' => Watched(o),
           job[o] = Idle,
           job'[o] # Idle => /\ job'[o].obj = Q(o)[1].obj
                             /\ job'[o].op = "delete" <=> Q(o)[1].type \in Drops
                             /\ job'[o].op = "update" => Q(o)[1].type = "update"
                             /\ o \in behind' <=> o \in behind,
           job'[o] = Idle =>
              \/ o \in behind'
              \/ Q(o)[1].type = "update" /\ o \in Pods /\ Q(o)[1].obj.at # Nowhere
    PROVE  SyncedFor(o)'
<1>0. \A i \in Waiting(o) : i \in Nat \ {0}
    BY Waits
<1>1. /\ \A i \in Waiting(o)' : /\ i \in Nat /\ i + 1 \in Waiting(o) /\ 1 < i + 1
                                /\ Q(o)'[i] = Q(o)[i + 1]
      /\ \A i \in Waiting(o) : i = 1 \/ (i - 1 \in Waiting(o)' /\ i - 1 \in Nat)
    BY <1>0 DEF OneLess
<1>2. AddsAreNewer(o)'
    <2>1. ASSUME NewerThanAll(o, src[o].uid)
          PROVE  NewerThanAll(o, src[o].uid)'
        BY <2>1, <1>1 DEF NewerThanAll, DstUid
    <2>2. \A i, j \in Waiting(o)' : i < j => i + 1 < j + 1
        BY <1>1
    <2>3. ASSUME NEW j \in Waiting(o)', Q(o)'[j].type = "add"
          PROVE  /\ made'[o] < DstUid(Q(o)'[j].obj.uid)
                 /\ job'[o] # Idle /\ job'[o].obj # Gone => job'[o].obj.uid < Q(o)'[j].obj.uid
        BY <2>3, <1>1 DEF SyncedFor, AddsAreNewer
    <2> QED
        BY <2>1, <2>2, <2>3, <1>1 DEF SyncedFor, AddsAreNewer, Exists, DstUid
<1>3. /\ \A i \in Waiting(o)' : IsLast(o, i)' => IsLast(o, i + 1)
      /\ Waiting(o)' = {} => IsLast(o, 1)
    BY <1>0, <1>1 DEF IsLast
<1>4. EventsAlternate(o)'
    <2>1. ASSUME NEW i \in Waiting(o)', NEW j \in Waiting(o)', IsNext(o, i, j)'
          PROVE  IsNext(o, i + 1, j + 1)
        BY <2>1, <1>0, <1>1 DEF IsNext
    <2>2. \A i \in Waiting(o)' : IsFirst(o, i)' => IsNext(o, 1, i + 1)
        BY <1>0, <1>1 DEF IsFirst, IsNext
    <2>3. IsFirst(o, 1)
        BY <1>0 DEF IsFirst
    <2>4. o \notin behind => (Q(o)[1].type = "add" <=> ~Alive(o))
        BY <2>3 DEF SyncedFor, EventsAlternate, Followed, There
    <2>5. Alive(o)' = Alive(o)
        BY DEF Alive, Exists
    <2>6. Followed(o)' => (There(o)' <=> Q(o)[1].type \notin Drops)
        BY <2>4, <2>5 DEF Followed, There, Drops
    <2>7. o \notin behind' /\ job'[o] # Idle /\ job'[o].op = "update" => Alive(o)'
        BY <2>4, <2>5
    <2> QED
        BY <1>1, <1>3, <2>1, <2>2, <2>6, <2>7 DEF SyncedFor, EventsAlternate, IsNext
<1>5. LastIsCurrent(o)'
    BY <1>1, <1>3 DEF SyncedFor, LastIsCurrent, Exists
<1> QED
    BY <1>2, <1>4, <1>5 DEF SyncedFor

\* The call in progress for o ends.
LEMMA Ended ==
    ASSUME TypeOK, EventsKnown, NEW o \in Objects, SameEvents(o), SyncedFor(o),
           UNCHANGED src[o],
           o \in known' <=> o \in known, Watched(o)' => Watched(o),
           job[o] # Idle, job'[o] = Idle,
           \/ made'[o] = made[o]
           \/ job[o].obj # Gone /\ made'[o] = DstUid(job[o].obj.uid),
           o \notin behind' => (Alive(o)' <=> job[o].op # "delete"),
           o \notin behind' /\ Exists(dst', o) /\ job[o].obj # Gone
              => dst'[o].ver = job[o].obj.ver
    PROVE  SyncedFor(o)'
<1>0. /\ MaxChanges \in Nat /\ made[o] \in Nat
      /\ job[o].obj # Gone => job[o].obj.uid \in Nat
      /\ Exists(src, o) => src[o].uid \in Nat
      /\ \A i \in Waiting(o) : Q(o)[i].obj # Gone => Q(o)[i].obj.uid \in Nat
    <2>1. /\ \A e \in Event : e.obj # Gone => e.obj.uid \in Nat
          /\ \A j \in Job : j.obj # Gone => j.obj.uid \in Nat
          /\ \A s \in Instance : s.uid \in Nat
        BY DEF Event, Job, Instance
    <2>2. \A i \in Waiting(o) : Q(o)[i] \in Event
        BY Waits
    <2> QED
        BY <2>1, <2>2, Types
<1>1. \A i \in Waiting(o) : Q(o)[i].type = "add" => Q(o)[i].obj # Gone
    BY ClustersAssumption DEF EventsKnown, Waiting, Q, Drops
<1>2. AddsAreNewer(o)'
    <2>1. ASSUME NEW j \in Waiting(o), Q(o)[j].type = "add"
          PROVE  made'[o] < DstUid(Q(o)[j].obj.uid)
        BY <2>1, <1>0, <1>1 DEF SyncedFor, AddsAreNewer, DstUid
    <2>2. ASSUME NewerThanAll(o, src[o].uid), Exists(src, o)
          PROVE  NewerThanAll(o, src[o].uid)'
        BY <2>2, <1>0 DEF NewerThanAll, SameEvents, DstUid
    <2> QED
        BY <2>1, <2>2 DEF SyncedFor, AddsAreNewer, SameEvents, Exists
<1>3. /\ \A i, j : IsNext(o, i, j)' <=> IsNext(o, i, j)
      /\ \A i : IsFirst(o, i)' <=> IsFirst(o, i)
      /\ \A i : IsLast(o, i)' <=> i \in Waiting(o) /\ IsLast(o, i)
    BY DEF SameEvents, IsNext, IsFirst, IsLast
<1>4. EventsAlternate(o)'
    <2>1. Followed(o) /\ (Followed(o)' => (There(o)' <=> There(o)))
        BY DEF Followed, There
    <2> QED
        BY <1>3, <2>1 DEF SyncedFor, SameEvents, EventsAlternate
<1>5. LastIsCurrent(o)'
    BY <1>3 DEF SyncedFor, SameEvents, LastIsCurrent, Exists
<1> QED
    BY <1>2, <1>4, <1>5 DEF SyncedFor

-----------------------------------------------------------------------------
(***************************************************************************)
(* What the syncer's steps do to the queues.                               *)
(***************************************************************************)

\* A queue that is left alone.
LEMMA QueueKept ==
    ASSUME NEW o \in Objects, UNCHANGED queue[KindOf[o]]
    PROVE  SameEvents(o)
BY DEF SameEvents, Waiting, Q

\* A watch reports the change of c.
LEMMA NotifyAdds ==
    ASSUME TypeOK, NEW c \in Objects, src'[c] \in Instance \cup {Gone},
           watch[KindOf[c]] = "on", Notify(c)
    PROVE  /\ SyncerTypeOK'
           /\ \A k \in Kinds : \A i \in DOMAIN queue'[k] :
                 \/ i \in DOMAIN queue[k] /\ queue'[k][i] = queue[k][i]
                 \/ k = KindOf[c] /\ queue'[k][i] = EventOf(c, src'[c], "delete")
           /\ OneMore(c, Len(Q(c)) + 1, EventOf(c, src'[c], "delete"))
           /\ \A o \in Objects \ {c} : SameEvents(o)
<1> DEFINE k == KindOf[c]
           e == EventOf(c, src'[c], "delete")
<1>1. k \in Kinds /\ queue[k] \in Seq(Event)
    BY Types DEF TypeOK, SyncerTypeOK
<1>2. e \in Event /\ e.o = c
    BY DEF EventOf, Event
<1>3. /\ queue' = [queue EXCEPT ![k] = Append(@, e)]
      /\ known' \in SUBSET Objects
      /\ watch' = watch
    BY DEF Notify, TypeOK, SyncerTypeOK
<1> HIDE DEF e
<1>4. /\ \A x \in Kinds : queue'[x] = IF x = k THEN Append(queue[k], e) ELSE queue[x]
      /\ DOMAIN queue' = Kinds
      /\ queue' = [x \in Kinds |-> IF x = k THEN Append(queue[k], e) ELSE queue[x]]
    BY <1>3 DEF TypeOK, SyncerTypeOK
<1>5. /\ Append(queue[k], e) \in Seq(Event)
      /\ DOMAIN Append(queue[k], e) = DOMAIN queue[k] \cup {Len(queue[k]) + 1}
      /\ DOMAIN queue[k] = 1 .. Len(queue[k]) /\ Len(queue[k]) \in Nat
      /\ \A i \in DOMAIN queue[k] : Append(queue[k], e)[i] = queue[k][i]
      /\ Append(queue[k], e)[Len(queue[k]) + 1] = e
    BY <1>1, <1>2
<1>6. SyncerTypeOK'
    BY <1>3, <1>4, <1>5 DEF TypeOK, SyncerTypeOK
<1>7. \A x \in Kinds : \A i \in DOMAIN queue'[x] :
         \/ i \in DOMAIN queue[x] /\ queue'[x][i] = queue[x][i]
         \/ x = k /\ queue'[x][i] = e
    BY <1>4, <1>5
<1>8. OneMore(c, Len(Q(c)) + 1, e)
    BY <1>1, <1>2, <1>4, <1>5 DEF OneMore, Waiting, Q
<1>9. ASSUME NEW o \in Objects \ {c}
      PROVE  SameEvents(o)
    <2>1. CASE KindOf[o] = k
        BY <1>1, <1>2, <1>4, <1>5, <2>1 DEF SameEvents, Waiting, Q
    <2>2. CASE KindOf[o] # k
        BY <1>4, <2>2, QueueKept, Types
    <2> QED
        BY <2>1, <2>2
<1> QED
    BY <1>6, <1>7, <1>8, <1>9 DEF e

\* A handler takes an event of kind k.
LEMMA TakeRemoves ==
    ASSUME TypeOK, NEW k \in Kinds, NEW types, Takes(k, types)
    PROVE  /\ queue' \in [Kinds -> Seq(Event)]
           /\ \A x \in Kinds : \A i \in DOMAIN queue'[x] :
                 \E j \in DOMAIN queue[x] : queue'[x][i] = queue[x][j]
           /\ Head(queue[k]) \in Event /\ Head(queue[k]) = queue[k][1]
           /\ 1 \in DOMAIN queue[k]
           /\ \A o \in Objects : KindOf[o] # k => SameEvents(o)
           /\ \A o \in Objects : KindOf[o] = k =>
                 /\ OneLess(o)
                 /\ 1 \in Waiting(o) <=> Head(queue[k]).o = o
                 /\ Q(o)[1] = Head(queue[k])
<1> DEFINE q == queue[k]
<1>1. q \in Seq(Event) /\ q # <<>>
    BY DEF TypeOK, SyncerTypeOK, Takes
<1>2. /\ \A x \in Kinds : queue'[x] = IF x = k THEN Tail(q) ELSE queue[x]
      /\ queue' = [x \in Kinds |-> IF x = k THEN Tail(q) ELSE queue[x]]
    BY DEF TypeOK, SyncerTypeOK, Takes
<1>3. /\ Tail(q) \in Seq(Event) /\ Head(q) = q[1] /\ Head(q) \in Event
      /\ Len(q) \in Nat \ {0} /\ DOMAIN q = 1 .. Len(q)
      /\ DOMAIN Tail(q) = 1 .. (Len(q) - 1)
      /\ \A i \in 1 .. (Len(q) - 1) : Tail(q)[i] = q[i + 1]
    BY <1>1
<1> HIDE DEF q
<1>4. queue' \in [Kinds -> Seq(Event)]
    BY <1>2, <1>3 DEF TypeOK, SyncerTypeOK
<1>5. \A x \in Kinds : \A i \in DOMAIN queue'[x] :
         \E j \in DOMAIN queue[x] : queue'[x][i] = queue[x][j]
    <2>1. \A i \in DOMAIN Tail(q) : i + 1 \in DOMAIN q
        BY <1>3
    <2> QED
        BY <1>2, <1>3, <2>1 DEF q
<1>6. \A o \in Objects : KindOf[o] # k => SameEvents(o)
    BY <1>2, QueueKept, Types
<1>7. ASSUME NEW o \in Objects, KindOf[o] = k
      PROVE  /\ OneLess(o)
             /\ 1 \in Waiting(o) <=> Head(q).o = o
             /\ Q(o)[1] = Head(q)
    <2>1. /\ Q(o) = q /\ Q(o)' = Tail(q)
          /\ Waiting(o) = {i \in 1 .. Len(q) : q[i].o = o}
          /\ Waiting(o)' = {i \in 1 .. (Len(q) - 1) : Tail(q)[i].o = o}
        BY <1>2, <1>3, <1>7 DEF Q, Waiting, q
    <2> QED
        BY <1>3, <2>1 DEF OneLess
<1> QED
    BY <1>3, <1>4, <1>5, <1>6, <1>7 DEF q

\* An ordering of a finite set has each of its elements exactly once.
LEMMA Orderings ==
    ASSUME NEW S, IsFiniteSet(S), NEW f \in SetToSeqs(S)
    PROVE  /\ DOMAIN f = 1 .. Len(f) /\ Len(f) \in Nat /\ f \in Seq(S)
           /\ \A x \in S : \E i \in DOMAIN f : f[i] = x
           /\ \A i, j \in DOMAIN f : f[i] = f[j] => i = j
<1> DEFINE D == 1 .. Cardinality(S)
<1>1. Cardinality(S) \in Nat
    BY FS_CardinalityType
<1>2. f \in [D -> S] /\ \A i, j \in D : i # j => f[i] # f[j]
    BY DEF SetToSeqs
<1>3. IsFiniteSet(D) /\ Cardinality(D) = Cardinality(S)
    BY <1>1, FS_Interval
<1>4. f \in Injection(D, S)
    BY <1>2 DEF Injection, IsInjective
<1>5. f \in Surjection(D, S)
    BY <1>3, <1>4, FS_Injection
<1>6. \A x \in S : \E i \in D : f[i] = x
    BY <1>5 DEF Surjection
<1>7. f \in Seq(S) /\ Len(f) = Cardinality(S)
    BY <1>1, <1>2
<1> QED
    BY <1>1, <1>2, <1>6, <1>7

\* An informer lists kind k.
LEMMA ListAdds ==
    ASSUME TypeOK, NEW k \in Kinds, ListAndWatch(k)
    PROVE  /\ SyncerTypeOK'
           /\ \A x \in Kinds : \A i \in DOMAIN queue'[x] :
                 \/ i \in DOMAIN queue[x] /\ queue'[x][i] = queue[x][i]
                 \/ x = k /\ \E o \in ObjectsOf(k) : 
                       queue'[x][i] = EventOf(o, src[o], "tombstone")
           /\ \A o \in Objects :
                 IF KindOf[o] = k /\ (Exists(src, o) \/ o \in known)
                   THEN \E p : OneMore(o, p, EventOf(o, src[o], "tombstone"))
                   ELSE SameEvents(o)
<1> DEFINE S == {o \in ObjectsOf(k) : Exists(src, o)} \cup (known \cap ObjectsOf(k))
<1>1. PICK order \in SetToSeqs(S) :
         queue' = [queue EXCEPT ![k] = @ \o
                     [i \in DOMAIN order |-> EventOf(order[i], src[order[i]], "tombstone")]]
    BY DEF ListAndWatch
<1> DEFINE q == queue[k]
           f == [i \in DOMAIN order |-> EventOf(order[i], src[order[i]], "tombstone")]
<1>2. S \subseteq Objects /\ IsFiniteSet(S)
    BY ClustersAssumption, FS_Subset DEF ObjectsOf
<1>3. /\ DOMAIN order = 1 .. Len(order) /\ Len(order) \in Nat
      /\ \A i \in DOMAIN order : order[i] \in S
      /\ \A x \in S : \E i \in DOMAIN order : order[i] = x
      /\ \A i, j \in DOMAIN order : order[i] = order[j] => i = j
    <2> HIDE DEF S
    <2>1. order \in Seq(S)
        BY <1>2, Orderings
    <2> QED
        BY <1>2, <2>1, Orderings
<1>4. \A i \in DOMAIN order : f[i] \in Event /\ f[i].o = order[i]
    <2>1. \A o \in S : o \in Objects /\ src[o] \in Instance \cup {Gone}
        BY <1>2, Types
    <2> HIDE DEF S
    <2> QED
        BY <1>3, <2>1 DEF EventOf, Event
<1>5. q \in Seq(Event)
    BY DEF TypeOK, SyncerTypeOK
<1>6. f \in Seq(Event) /\ Len(f) = Len(order)
    <2> HIDE DEF S
    <2> QED
        BY <1>3, <1>4
<1> HIDE DEF S
<1>7. /\ \A x \in Kinds : queue'[x] = IF x = k THEN q \o f ELSE queue[x]
      /\ queue' = [x \in Kinds |-> IF x = k THEN q \o f ELSE queue[x]]
    BY <1>1 DEF TypeOK, SyncerTypeOK
<1>8. \A i \in DOMAIN order : f[i] = EventOf(order[i], src[order[i]], "tombstone")
    OBVIOUS
<1> HIDE DEF q, f
<1>9. /\ q \o f \in Seq(Event)
      /\ DOMAIN (q \o f) = 1 .. (Len(q) + Len(f)) /\ DOMAIN q = 1 .. Len(q)
      /\ Len(q) \in Nat /\ Len(f) \in Nat
      /\ \A i \in 1 .. Len(q) : (q \o f)[i] = q[i]
      /\ \A i \in 1 .. (Len(q) + Len(f)) : i > Len(q) => (q \o f)[i] = f[i - Len(q)]
    BY <1>5, <1>6
<1>10. SyncerTypeOK'
    <2>1. watch' \in [Kinds -> {"none", "on", "lost"}]
        BY DEF TypeOK, SyncerTypeOK, ListAndWatch
    <2>2. known' \in SUBSET Objects
        BY DEF TypeOK, SyncerTypeOK, ListAndWatch, ObjectsOf
    <2> QED
        BY <1>7, <1>9, <2>1, <2>2 DEF TypeOK, SyncerTypeOK
<1>11. ASSUME NEW x \in Kinds, NEW i \in DOMAIN queue'[x]
       PROVE  \/ i \in DOMAIN queue[x] /\ queue'[x][i] = queue[x][i]
              \/ x = k /\ \E o \in ObjectsOf(k) :
                    queue'[x][i] = EventOf(o, src[o], "tombstone")
    <2>1. CASE x # k
        BY <1>7, <2>1
    <2>2. CASE x = k /\ i \in 1 .. Len(q)
        BY <1>7, <1>9, <2>2 DEF q
    <2>3. CASE x = k /\ i \notin 1 .. Len(q)
        <3>1. i - Len(q) \in DOMAIN order /\ queue'[x][i] = f[i - Len(q)]
            BY <1>3, <1>6, <1>7, <1>9, <2>3
        <3>2. order[i - Len(q)] \in ObjectsOf(k)
            BY <1>3, <3>1 DEF S
        <3> QED
            BY <1>8, <2>3, <3>1, <3>2
    <2> QED
        BY <2>1, <2>2, <2>3
<1>12. ASSUME NEW o \in Objects, KindOf[o] = k
       PROVE  IF Exists(src, o) \/ o \in known
                THEN \E p : OneMore(o, p, EventOf(o, src[o], "tombstone"))
                ELSE SameEvents(o)
    <2>1. Q(o) = q /\ Q(o)' = q \o f
        BY <1>7, <1>12 DEF Q, q
    <2>2. o \in S <=> Exists(src, o) \/ o \in known
        BY <1>12 DEF S, ObjectsOf
    <2>3. Waiting(o) = {i \in 1 .. Len(q) : q[i].o = o}
        BY <1>9, <2>1 DEF Waiting
    <2>4. \A i \in 1 .. (Len(q) + Len(f)) :
             i > Len(q) => (q \o f)[i].o = order[i - Len(q)] /\ i - Len(q) \in DOMAIN order
        BY <1>3, <1>4, <1>6, <1>9
    <2>5. CASE o \in S
        <3>1. PICK j \in DOMAIN order : order[j] = o
            BY <1>3, <2>5
        <3> DEFINE p == Len(q) + j
        <3>2. /\ p \in 1 .. (Len(q) + Len(f)) /\ p > Len(q) /\ p - Len(q) = j
              /\ (q \o f)[p] = EventOf(o, src[o], "tombstone")
            BY <1>3, <1>6, <1>8, <1>9, <3>1
        <3>3. ASSUME NEW i \in 1 .. (Len(q) + Len(f)), i > Len(q)
              PROVE  (q \o f)[i].o = o <=> i = p
            <4>1. (q \o f)[i].o = order[i - Len(q)] /\ i - Len(q) \in DOMAIN order
                BY <2>4, <3>3
            <4>2. order[i - Len(q)] = o <=> i - Len(q) = j
                BY <1>3, <3>1, <4>1
            <4>3. i \in Nat /\ j \in Nat /\ Len(q) \in Nat
                BY <1>3, <1>9
            <4> QED
                BY <4>1, <4>2, <4>3
        <3>4. Waiting(o)' = Waiting(o) \cup {p}
            <4>1. Waiting(o)' = {i \in 1 .. (Len(q) + Len(f)) : (q \o f)[i].o = o}
                BY <1>9, <2>1 DEF Waiting
            <4> HIDE DEF p
            <4> QED
                BY <1>9, <2>3, <3>2, <3>3, <4>1
        <3> HIDE DEF p
        <3>5. OneMore(o, p, EventOf(o, src[o], "tombstone"))
            BY <1>9, <2>1, <2>3, <3>2, <3>4 DEF OneMore
        <3> QED
            BY <2>2, <2>5, <3>5
    <2>6. CASE o \notin S
        <3>1. \A i \in 1 .. (Len(q) + Len(f)) : i > Len(q) => (q \o f)[i].o # o
            BY <1>3, <2>4, <2>6
        <3>2. Waiting(o)' = {i \in 1 .. (Len(q) + Len(f)) : (q \o f)[i].o = o}
            BY <1>9, <2>1 DEF Waiting
        <3>3. Waiting(o)' = Waiting(o)
            BY <1>9, <2>3, <3>1, <3>2
        <3> QED
            BY <1>9, <2>1, <2>2, <2>3, <2>6, <3>3 DEF SameEvents
    <2> QED
        BY <2>5, <2>6
<1>13. ASSUME NEW o \in Objects, KindOf[o] # k
       PROVE  SameEvents(o)
    BY <1>7, <1>13, QueueKept, Types
<1> QED
    BY <1>10, <1>11, <1>12, <1>13

-----------------------------------------------------------------------------
(***************************************************************************)
(* The source changes.                                                     *)
(***************************************************************************)

\* What the source may write of c.
SrcWrites(c, value) ==
    /\ c \in scope /\ UNCHANGED scope
    /\ changes' = changes + 1 /\ changes' <= MaxChanges
    /\ version' = [version EXCEPT ![c] = @ + 1]
    /\ src' = [src EXCEPT ![c] = value]
    /\ value = Gone => Exists(src, c)
    /\ value # Gone =>
          /\ value \in Instance
          /\ value.ver = version[c] + 1
          /\ value.uid = IF Exists(src, c) THEN src[c].uid ELSE version[c] + 1
          /\ ObjectKnown(c, value)

\* Its claim is an object, for a volume.
LEMMA Claims ==
    ASSUME NEW v \in Volumes
    PROVE  v \in Objects /\ v \notin Pods /\ ClaimOf(v) \in RefersTo[v] /\ ClaimOf(v) \in Objects
BY ClustersAssumption DEF Volumes, Pods, ClaimOf

\* Every change of the source writes an object.
LEMMA ChangeWrites ==
    ASSUME TypeOK, SourceVersions, NEW c \in Objects, SrcChange(c)
    PROVE  \E value : SrcWrites(c, value)
<1>0. changes \in Nat /\ MaxChanges \in Nat
    BY ClustersAssumption DEF TypeOK, ClustersTypeOK
<1>1. \A value : SrcWrite(c, value) => /\ c \in scope /\ UNCHANGED scope
                                       /\ changes' = changes + 1 /\ changes' <= MaxChanges
                                       /\ version' = [version EXCEPT ![c] = @ + 1]
                                       /\ src' = [src EXCEPT ![c] = value]
    BY <1>0 DEF SrcWrite
<1>2. /\ version[c] \in Nat
      /\ \A i \in Instance : i.uid \in Nat /\ i.ver \in Nat /\ i.at \in Nat
      /\ Exists(src, c) => src[c] \in Instance /\ ObjectKnown(c, src[c])
    BY Types DEF Instance, SourceVersions
<1>3. CASE SrcCreate(c)
    <2> DEFINE value == FirstVersion(version[c] + 1)
    <2>1. value \in Instance /\ ~Exists(src, c) /\ ~value.bound /\ value.at = Nowhere
        BY <1>2, <1>3 DEF Instance, FirstVersion, Nowhere, SrcCreate
    <2>2. SrcWrite(c, value)
        BY <1>3 DEF SrcCreate
    <2>3. value.uid = version[c] + 1 /\ value.ver = version[c] + 1
        BY DEF FirstVersion
    <2> HIDE DEF value
    <2>4. ObjectKnown(c, value)
        BY <2>1 DEF ObjectKnown
    <2>5. SrcWrites(c, value)
        BY <1>1, <2>1, <2>2, <2>3, <2>4, ClustersAssumption DEF SrcWrites, Instance
    <2> QED
        BY <2>5
<1>4. ASSUME NEW a \in Nat, NEW b \in BOOLEAN, Exists(src, c),
             SrcWrite(c, [src[c] EXCEPT !.ver = version[c] + 1, !.at = a, !.bound = b]),
             c \in Pods => a \in {Nowhere, OnNode},
             b => c \in Volumes /\ a # Nowhere,
             c \in Volumes /\ a # Nowhere => IsForeign(a, ClaimOf(c))
      PROVE  \E value : SrcWrites(c, value)
    <2> DEFINE value == [src[c] EXCEPT !.ver = version[c] + 1, !.at = a, !.bound = b]
    <2>0. src[c] \in Instance /\ version[c] + 1 \in Nat
        BY <1>2, <1>4
    <2>1. /\ value \in Instance /\ value.ver = version[c] + 1 /\ value.at = a
          /\ value.uid = src[c].uid /\ value.bound = b
        BY <2>0 DEF Instance
    <2> HIDE DEF value
    <2>2. SrcWrites(c, value)
        <3>1. value # Gone
            BY <2>1, ClustersAssumption DEF Instance
        <3>2. SrcWrite(c, value)
            BY <1>4 DEF value
        <3>3. ObjectKnown(c, value)
            BY <1>4, <2>1 DEF ObjectKnown
        <3> QED
            BY <1>1, <1>4, <2>1, <3>1, <3>2, <3>3 DEF SrcWrites
    <2> QED
        BY <2>2
\* A field that is written with what it has.
<1>9. Exists(src, c) =>
         /\ [src[c] EXCEPT !.ver = version[c] + 1]
              = [src[c] EXCEPT !.ver = version[c] + 1, !.at = src[c].at,
                               !.bound = src[c].bound]
         /\ \A a : [src[c] EXCEPT !.ver = version[c] + 1, !.at = a]
              = [src[c] EXCEPT !.ver = version[c] + 1, !.at = a, !.bound = src[c].bound]
         /\ \A b : [src[c] EXCEPT !.ver = version[c] + 1, !.bound = b]
              = [src[c] EXCEPT !.ver = version[c] + 1, !.at = src[c].at, !.bound = b]
         /\ src[c].bound \in BOOLEAN
    BY <1>2 DEF Instance
<1>5. CASE SrcUpdate(c)
    BY <1>2, <1>4, <1>5, <1>9 DEF SrcUpdate, ObjectKnown
<1>6. CASE SrcPlace(c)
    <2>0. Exists(src, c) /\ src[c].at = Nowhere /\ ~src[c].bound
        BY <1>2, <1>6 DEF SrcPlace, ObjectKnown
    <2>1. CASE c \in Pods
        <3>1. /\ SrcWrite(c, [src[c] EXCEPT !.ver = version[c] + 1, !.at = OnNode])
              /\ c \notin Volumes
            BY <1>6, <2>1, Claims DEF SrcPlace
        <3> QED
            BY <1>4, <1>9, <2>0, <3>1 DEF OnNode
    <2>2. CASE c \in Volumes
        <3>1. c \notin Pods /\ ClaimOf(c) \in Objects
            BY <2>2, Claims
        <3>2. /\ Exists(src, ClaimOf(c))
              /\ SrcWrite(c, [src[c] EXCEPT !.ver = version[c] + 1, !.at = src[ClaimOf(c)].uid])
            BY <1>6, <3>1 DEF SrcPlace
        <3>3. src[ClaimOf(c)].uid \in Nat /\ IsForeign(src[ClaimOf(c)].uid, ClaimOf(c))
            BY <1>2, <3>1, <3>2, Types DEF SourceVersions, IsForeign
        <3> QED
            BY <1>4, <1>9, <2>0, <3>1, <3>2, <3>3
    <2> QED
        BY <1>6, <2>1, <2>2 DEF SrcPlace
<1>7. CASE SrcBind(c)
    <2>1. c \in Volumes /\ c \notin Pods /\ src[c].at # Nowhere /\ ClaimIsThere(c) \in BOOLEAN
          /\ Exists(src, c)
        BY <1>7, Claims DEF SrcBind, ClaimIsThere
    <2> QED
        BY <1>2, <1>4, <1>7, <1>9, <2>1 DEF SrcBind, ObjectKnown
<1>10. CASE SrcReclaim(c)
    <2>1. c \in Volumes /\ c \notin Pods /\ ~src[c].bound /\ Exists(src, c)
        BY <1>10, Claims DEF SrcReclaim
    <2> QED
        BY <1>4, <1>9, <1>10, <2>1 DEF SrcReclaim, Nowhere
<1>8. CASE SrcDelete(c)
    BY <1>1, <1>8 DEF SrcDelete, SrcWrites
<1> QED
    BY <1>3, <1>5, <1>6, <1>7, <1>8, <1>10 DEF SrcChange

\* A UID that the source gives next is newer than all that is known.
LEMMA NextUidIsNewer ==
    ASSUME TypeOK, EventsKnown, UidsMade, JobsKnown, NEW c \in Objects
    PROVE  NewerThanAll(c, version[c] + 1)
<1>1. version[c] \in Nat /\ made[c] \in Nat /\ MaxChanges \in Nat
    BY Types
<1>2. ASSUME NEW i \in Waiting(c), Q(c)[i].obj # Gone
      PROVE  Q(c)[i].obj.uid < version[c] + 1
    <2>1. KindOf[c] \in Kinds /\ i \in DOMAIN queue[KindOf[c]] /\ Q(c)[i].o = c
        BY Types DEF Waiting, Q
    <2>2. Q(c)[i].obj.uid \in 1 .. version[c]
        BY <1>2, <2>1 DEF EventsKnown, Q
    <2> QED
        BY <1>1, <2>2
<1>3. made[c] < DstUid(version[c] + 1)
    BY <1>1 DEF UidsMade, DstUid
<1>4. job[c] # Idle /\ job[c].obj # Gone => job[c].obj.uid < version[c] + 1
    <2>1. job[c] # Idle /\ job[c].obj # Gone => job[c].obj.uid \in 1 .. version[c]
        BY DEF JobsKnown
    <2> QED
        BY <1>1, <2>1
<1> QED
    BY <1>2, <1>3, <1>4 DEF NewerThanAll

\* The source changes, and the syncer is told if its watch is on.
LEMMA SourceKeeps ==
    ASSUME IInv, SourceStep
    PROVE  IInv'
<1>1. PICK c \in Objects : /\ SrcChange(c)
                           /\ IF mode = "sync" THEN Notify(c) ELSE UNCHANGED syncerVars
    BY DEF SourceStep
<1>2. PICK value : SrcWrites(c, value)
    BY <1>1, ChangeWrites DEF IInv
<1>3. UNCHANGED <<dst, made, troubles, job, behind, phase, outcome, mode>>
    BY DEF SourceStep, dstVars, applierVars, importerVars
<1>4. /\ \A o \in Objects : version'[o] = IF o = c THEN version[o] + 1 ELSE version[o]
      /\ \A o \in Objects : src'[o] = IF o = c THEN value ELSE src[o]
      /\ \A o \in Objects : 1 .. version[o] \subseteq 1 .. version'[o]
      /\ src' \in [Objects -> Instance \cup {Gone}] /\ version' \in [Objects -> Nat]
    <2>1. src \in [Objects -> Instance \cup {Gone}] /\ version \in [Objects -> Nat]
        BY DEF IInv, TypeOK, ClustersTypeOK
    <2> QED
        BY <1>2, <2>1 DEF SrcWrites
<1>5. /\ \/ UNCHANGED <<queue, known, watch>>
         \/ mode = "sync" /\ watch[KindOf[c]] = "on" /\ Notify(c)
      /\ mode = "sync" /\ watch[KindOf[c]] = "on" => Notify(c)
    BY <1>1 DEF Notify, syncerVars
<1>6. src'[c] \in Instance \cup {Gone}
    BY <1>4
<1>7. TypeOK'
    <2>1. ClustersTypeOK'
        <3>1. changes' \in 0 .. MaxChanges
            BY <1>2, ClustersAssumption DEF IInv, TypeOK, ClustersTypeOK, SrcWrites
        <3> QED
            BY <1>2, <1>3, <1>4, <3>1 DEF IInv, TypeOK, ClustersTypeOK, SrcWrites
    <2>2. SyncerTypeOK'
        BY <1>5, <1>6, NotifyAdds DEF IInv, TypeOK, SyncerTypeOK
    <2> QED
        BY <1>3, <2>1, <2>2 DEF IInv, TypeOK, ApplierTypeOK, ImporterTypeOK
<1>17. \A v \in Volumes : \A uid :
          uid \in 1 .. version[ClaimOf(v)] => uid \in 1 .. version'[ClaimOf(v)]
    BY <1>4, Claims
<1>8. SourceVersions'
    <2>1. ASSUME NEW o \in Objects, Exists(src', o)
          PROVE  /\ o \in scope'
                 /\ src'[o].ver = version'[o]
                 /\ src'[o].uid \in 1 .. version'[o]
                 /\ ObjectKnown(o, src[o])'
        <3>1. CASE o # c
            BY <1>2, <1>4, <2>1, <3>1, Claims
               DEF IInv, SourceVersions, SrcWrites, Exists, ObjectKnown, IsForeign, ClaimOf
        <3>2. CASE o = c
            <4>1. version[c] \in Nat /\ (Exists(src, c) => src[c].uid \in 1 .. version[c])
                BY Types DEF IInv, SourceVersions
            <4> QED
                BY <1>2, <1>4, <1>17, <2>1, <3>2, <4>1
                   DEF SrcWrites, Exists, ObjectKnown, IsForeign
        <3> QED
            BY <3>1, <3>2
    <2> QED
        BY <2>1 DEF SourceVersions, Exists
<1>9. UidsMade'
    BY <1>3, <1>4 DEF IInv, UidsMade, Exists
<1>10. JobsKnown'
    BY <1>3, <1>4, Claims DEF IInv, JobsKnown, ObjectKnown, IsForeign, ClaimOf, DstUid
<1>11. EventsKnown'
    <2>1. ASSUME NEW k \in Kinds, NEW i \in DOMAIN queue'[k]
          PROVE  LET e == queue'[k][i] IN
                 /\ KindOf[e.o] = k
                 /\ e.obj = Gone <=> e.type \in Drops
                 /\ e.obj # Gone => /\ e.obj.uid \in 1 .. version'[e.o]
                                    /\ ObjectKnown(e.o, e.obj)
        <3>1. CASE i \in DOMAIN queue[k] /\ queue'[k][i] = queue[k][i]
            <4>1. queue[k][i].o \in Objects
                <5>1. queue[k] \in Seq(Event)
                    BY DEF IInv, TypeOK, SyncerTypeOK
                <5>2. queue[k][i] \in Event
                    BY <3>1, <5>1
                <5> QED
                    BY <5>2 DEF Event
            <4> QED
                BY <1>4, <3>1, <4>1 DEF IInv, EventsKnown
        <3>2. CASE k = KindOf[c] /\ queue'[k][i] = EventOf(c, src'[c], "delete")
            <4>1. Exists(src', c) => ObjectKnown(c, src'[c])
                BY <1>2, <1>4 DEF SrcWrites, Exists
            <4> QED
                BY <1>8, <3>2, <4>1 DEF SourceVersions, EventOf, Drops, Exists
        <3> QED
            BY <1>5, <1>6, <3>1, <3>2, NotifyAdds DEF IInv
    <2> QED
        BY <1>17, <2>1 DEF EventsKnown, ObjectKnown, IsForeign
<1>12. ClaimReferencesAreLocal'
    BY <1>3, <1>4, Claims
       DEF IInv, ClaimReferencesAreLocal, Exists, NamesClaim, IsLocal, IsForeign, ClaimOf, DstUid
<1>13. ASSUME mode' = "sync", NEW o \in Objects
       PROVE  SyncedFor(o)'
    <2>1. mode = "sync" /\ SyncedFor(o)
        BY <1>3, <1>13 DEF IInv, Synced, SyncedFor
    <2>2. CASE o # c
        <3>1. SameEvents(o) /\ (o \in known' <=> o \in known) /\ watch' = watch
            <4>1. CASE UNCHANGED <<queue, known, watch>>
                BY <4>1, QueueKept
            <4>2. CASE watch[KindOf[c]] = "on" /\ Notify(c)
                BY <1>6, <2>2, <4>2, NotifyAdds DEF IInv, Notify
            <4> QED
                BY <1>5, <4>1, <4>2
        <3> QED
            BY <1>3, <1>4, <2>1, <2>2, <3>1, Steady DEF Watched, Alive, Exists
    <2>3. CASE o = c /\ Watched(c)
        <3>1. /\ OneMore(c, Len(Q(c)) + 1, EventOf(c, src'[c], "delete"))
              /\ c \in known' <=> Exists(src', c)
              /\ watch' = watch
            BY <1>5, <1>6, <2>1, <2>3, NotifyAdds DEF IInv, Notify, Watched
        <3>2. c \in known <=> Exists(src, c)
            BY <2>1, <2>3 DEF SyncedFor, LastIsCurrent
        <3>3. Exists(src', c) \/ c \in known
            BY <1>2, <1>4, <3>2 DEF SrcWrites, Exists
        <3>4. c \notin known /\ Exists(src', c) => NewerThanAll(c, src'[c].uid)
            BY <1>2, <1>4, <3>2, NextUidIsNewer DEF IInv, SrcWrites, Exists
        <3>5. "delete" \in Drops /\ UNCHANGED <<job[c], made[c], dst[c]>>
            BY <1>3 DEF Drops
        <3> QED
            BY <1>3, <2>1, <2>3, <3>1, <3>3, <3>4, <3>5, Told DEF IInv
    <2>4. CASE o = c /\ ~Watched(c)
        <3>1. UNCHANGED <<queue, known, watch>>
            BY <1>5, <2>4 DEF Watched
        <3>2. SameEvents(c)
            BY <3>1, QueueKept
        <3>3. ASSUME c \notin known, Exists(src', c)
              PROVE  NewerThanAll(c, src[c].uid)'
            <4>1. NewerThanAll(c, src'[c].uid)
                <5>1. CASE Exists(src, c)
                    BY <1>2, <1>4, <2>1, <2>4, <3>3, <5>1
                       DEF SrcWrites, SyncedFor, AddsAreNewer, Exists
                <5>2. CASE ~Exists(src, c)
                    BY <1>2, <1>4, <3>3, <5>2, NextUidIsNewer DEF IInv, SrcWrites, Exists
                <5> QED
                    BY <5>1, <5>2
            <4> QED
                BY <1>3, <3>2, <4>1 DEF NewerThanAll, SameEvents, DstUid
        <3>4. AddsAreNewer(c)'
            BY <1>3, <2>1, <2>4, <3>1, <3>2, <3>3
               DEF SyncedFor, SameEvents, AddsAreNewer, Exists, DstUid
        <3>5. EventsAlternate(c)'
            BY <1>3, <2>1, <2>4, <3>1
               DEF SyncedFor, EventsAlternate, IsNext, IsFirst, IsLast, Followed, There, Alive,
                   Waiting, Q, Exists
        <3>6. LastIsCurrent(c)'
            BY <2>4, <3>1 DEF LastIsCurrent, Watched
        <3> QED
            BY <2>4, <3>4, <3>5, <3>6 DEF SyncedFor
    <2> QED
        BY <2>2, <2>3, <2>4
<1>14. Synced'
    BY <1>13 DEF Synced, SyncedFor
<1>15. ImporterOnly'
    <2>1. mode = "oneshot" => queue' = queue
        BY <1>5
    <2> QED
        BY <1>3, <2>1 DEF IInv, ImporterOnly, Listed, AllCreated, Exists
<1>16. ImportGoesOn'
    <2>1. changes' # 0
        BY <1>2 DEF IInv, TypeOK, ClustersTypeOK, SrcWrites
    <2> QED
        BY <2>1 DEF ImportGoesOn
<1> QED
    BY <1>7, <1>8, <1>9, <1>10, <1>11, <1>12, <1>14, <1>15, <1>16 DEF IInv

-----------------------------------------------------------------------------
(***************************************************************************)
(* The destination, and the calls of the applier: the steps that are about *)
(* one object there and leave the queues alone.                            *)
(***************************************************************************)

\* What such a step has to see to: for the object it is about, c.
LEMMA ObjectStep ==
    ASSUME IInv, NEW c \in Objects,
           UNCHANGED <<srcVars, syncerVars, importerVars, mode>>,
           dst' \in [Objects -> Instance \cup {Gone}], made' \in [Objects -> Nat],
           ApplierTypeOK', troubles' \in 0 .. MaxTroubles, troubles <= troubles',
           \A o \in Objects \ {c} : /\ dst'[o] = dst[o] /\ made'[o] = made[o]
                                    /\ job'[o] = job[o]
                                    /\ o \in behind' <=> o \in behind,
           made[c] <= made'[c],
           made'[c] = made[c] \/ \E u \in 1 .. version[c] : made'[c] = DstUid(u),
           made'[c] # 0 => made[c] # 0 \/ job[c] # Idle,
           Exists(dst', c) => dst'[c].uid = made'[c] /\ made'[c] # 0,
           c \in Volumes /\ Exists(dst', c) => NamesClaim(c, dst'[c]),
           job'[c] # Idle =>
              /\ job[c] # Idle
              /\ job'[c].op = job[c].op /\ job'[c].obj = job[c].obj /\ made'[c] = made[c]
              /\ \/ job'[c].claim = job[c].claim
                 \/ /\ c \in Volumes /\ job'[c].claim >= DstUid(1)
                    /\ job'[c].claim <= made[ClaimOf(c)],
           mode = "sync" => SyncedFor(c)',
           mode = "oneshot" /\ troubles' = 0 =>
              /\ c \in Pods /\ Exists(dst', c) => dst'[c].at # Terminating
              /\ changes = 0 /\ (Exists(dst, c) \/ Importing(c))
                    => Exists(dst', c) \/ job'[c] # Idle
              /\ Exists(dst, c) => Exists(dst', c)
    PROVE  IInv'
<1>1. UNCHANGED <<src, version, scope, changes, queue, known, watch, phase, outcome, mode>>
    BY DEF srcVars, syncerVars, importerVars
<1>2. /\ MaxChanges \in Nat /\ \A o \in Objects : made[o] \in Nat /\ made'[o] \in Nat
      /\ \A o \in Objects : made[o] <= made'[o]
      /\ troubles \in Nat /\ (troubles' = 0 => troubles = 0)
    <2>1. made \in [Objects -> Nat] /\ troubles \in Nat /\ MaxChanges \in Nat
          /\ MaxTroubles \in Nat
        BY ClustersAssumption DEF IInv, TypeOK, ClustersTypeOK
    <2> QED
        BY <2>1
<1>3. TypeOK'
    BY <1>1 DEF IInv, TypeOK, ClustersTypeOK, SyncerTypeOK, ImporterTypeOK
<1>4. SourceVersions'
    BY <1>1 DEF IInv, SourceVersions, Exists, ObjectKnown, IsForeign, ClaimOf
<1>5. UidsMade'
    BY <1>1 DEF IInv, UidsMade, Exists, DstUid
<1>6. JobsKnown'
    <2>1. ASSUME NEW o \in Objects, job'[o] # Idle
          PROVE  /\ job'[o].obj = Gone <=> job'[o].op = "delete"
                 /\ job'[o].op # "delete" =>
                       /\ job'[o].obj.uid \in 1 .. version'[o]
                       /\ ObjectKnown(o, job[o].obj)'
                 /\ job'[o].op = "update" /\ o \in Pods => job'[o].obj.at = Nowhere
                 /\ job'[o].op = "create" => made'[o] < DstUid(job'[o].obj.uid)
                 /\ job'[o].claim # 0 => o \in Volumes /\ job'[o].claim >= DstUid(1)
        BY <1>1, <2>1 DEF IInv, JobsKnown, DstUid, ObjectKnown, IsForeign, ClaimOf
    <2>2. ASSUME NEW o \in Objects, job'[o] # Idle, job'[o].claim # 0
          PROVE  job'[o].claim <= made'[ClaimOf(o)]
        <3>1. o \in Volumes
            BY <2>1, <2>2
        <3>2. ClaimOf(o) \in Objects /\ job'[o].claim \in Nat
            BY <2>2, <3>1, Claims DEF ApplierTypeOK, Job
        <3>3. job'[o].claim <= made[ClaimOf(o)]
            BY <2>2 DEF IInv, JobsKnown
        <3> QED
            BY <1>2, <3>2, <3>3
    <2> QED
        BY <2>1, <2>2 DEF JobsKnown, DstUid, ClaimOf
<1>7. EventsKnown'
    BY <1>1 DEF IInv, EventsKnown, ObjectKnown, IsForeign, ClaimOf
<1>8. ClaimReferencesAreLocal'
    <2>1. ASSUME NEW v \in Volumes, Exists(dst', v)
          PROVE  NamesClaim(v, dst[v])'
        <3>1. v \in Objects /\ ClaimOf(v) \in Objects
            BY Claims
        <3>2. dst'[v].at \in Nat
            BY <2>1, <3>1 DEF Exists, Instance
        <3>3. NamesClaim(v, dst'[v])
            BY <2>1, <3>1 DEF IInv, ClaimReferencesAreLocal, Exists
        <3> QED
            BY <1>1, <1>2, <3>1, <3>2, <3>3 DEF NamesClaim, IsLocal, IsForeign, DstUid, ClaimOf
    <2> QED
        BY <2>1 DEF ClaimReferencesAreLocal, Exists
<1>9. ASSUME mode' = "sync", NEW o \in Objects
      PROVE  SyncedFor(o)'
    <2>1. mode = "sync" /\ SyncedFor(o)
        BY <1>1, <1>9 DEF IInv, Synced, SyncedFor
    <2>2. CASE o # c
        <3>1. SameEvents(o)
            BY <1>1, QueueKept
        <3> QED
            BY <1>1, <2>1, <2>2, <3>1, Steady DEF Watched, Alive, Exists
    <2> QED
        BY <2>1, <2>2
<1>10. Synced'
    BY <1>9 DEF Synced, SyncedFor
<1>11. ImporterOnly'
    <2>1. ASSUME mode' = "oneshot"
          PROVE  /\ \A k \in Kinds : queue'[k] = <<>>
                 /\ \A o \in Objects : made'[o] # 0 \/ job'[o] # Idle => Listed(o)'
                 /\ \A o \in Objects : job'[o] # Idle => job'[o].op = "create"
                 /\ outcome' = "done" => phase' = Len(Order) /\ AllCreated'
        BY <1>1, <2>1 DEF IInv, ImporterOnly, Listed, AllCreated
    <2>2. ASSUME mode' = "oneshot", troubles' = 0, NEW p \in Pods, Exists(dst', p)
          PROVE  dst'[p].at # Terminating
        BY <1>1, <1>2, <2>2 DEF IInv, ImporterOnly, Exists, Pods
    <2>3. mode' = "sync" => outcome' = "running"
        BY <1>1 DEF IInv, ImporterOnly
    <2> QED
        BY <2>1, <2>2, <2>3 DEF ImporterOnly, Exists
<1>12. ImportGoesOn'
    <2>1. ASSUME changes' = 0
          PROVE  \A o \in Objects : Exists(src', o) /\ (o \in Pods \/ src'[o].bound)
                    => \A n \in RefersTo[o] : Exists(src', n)
        BY <1>1, <2>1 DEF IInv, ImportGoesOn, Exists
    <2>2. ASSUME changes' = 0, mode' = "oneshot", troubles' = 0, NEW o \in Selected,
                 Exists(src', o), Listed(o)',
                 o \in Pods \cup Volumes => RefersTo[o] \subseteq Selected
          PROVE  Exists(dst', o) \/ Importing(o)'
        <3>1. /\ o \in Objects
              /\ Exists(dst, o) \/ Importing(o)
              /\ changes = 0 /\ mode = "oneshot" /\ troubles = 0
              /\ RefersTo[o] \subseteq Objects
            BY <1>1, <1>2, <2>2, ImporterAssumption, ClustersAssumption
               DEF IInv, ImportGoesOn, Exists, Listed
        <3>2. \A n \in Objects : Exists(dst, n) => Exists(dst', n)
            BY <2>2, <1>1 DEF Exists
        <3>3. job'[o] # Idle => job'[o].obj = job[o].obj
            <4>1. CASE o = c
                BY <4>1
            <4>2. CASE o # c
                BY <3>1, <4>2
            <4> QED
                BY <4>1, <4>2
        <3>4. Importing(o) /\ job'[o] # Idle => Importing(o)'
            BY <3>1, <3>2, <3>3 DEF Importing, Exists
        <3>5. CASE o # c
            <4>1. job'[o] = job[o]
                BY <3>1, <3>5
            <4> QED
                BY <3>1, <3>2, <3>4, <4>1 DEF Importing
        <3>6. CASE o = c
            BY <1>1, <2>2, <3>1, <3>2, <3>4, <3>6
        <3> QED
            BY <3>5, <3>6
    <2> QED
        BY <2>1, <2>2 DEF ImportGoesOn, Exists
<1> QED
    BY <1>3, <1>4, <1>5, <1>6, <1>7, <1>8, <1>10, <1>11, <1>12 DEF IInv

\* The types of what such a step leaves alone.
LEMMA ObjectStepTypes ==
    ASSUME IInv
    PROVE  /\ dst \in [Objects -> Instance \cup {Gone}] /\ made \in [Objects -> Nat]
           /\ ApplierTypeOK /\ troubles \in 0 .. MaxTroubles /\ troubles <= troubles
           /\ MaxChanges \in Nat /\ MaxTroubles \in Nat
           /\ \A p \in Pods : p \in Objects /\ p \notin Volumes
           /\ \A i \in Instance : i.at \in Nat /\ i.uid \in Nat /\ i.ver \in Nat
           /\ \A i \in Instance : i # Gone
BY ClustersAssumption DEF IInv, TypeOK, ClustersTypeOK, Pods, Volumes, Instance

\* A pod of the destination is scheduled, or gone.
LEMMA DestinationKeeps ==
    ASSUME IInv, DestinationStep
    PROVE  IInv'
<1>1. PICK p \in Pods : DstSchedule(p) \/ DstTerminate(p)
    BY DEF DestinationStep
<1>2. /\ p \in Objects /\ p \notin Volumes /\ Exists(dst, p) /\ dst[p] \in Instance
      /\ dst[p].uid = made[p] /\ made[p] # 0
    BY <1>1, ObjectStepTypes, Types DEF DstSchedule, DstTerminate, IInv, UidsMade
<1>3. /\ UNCHANGED <<srcVars, made, troubles, applierVars, syncerVars, importerVars, mode>>
      /\ UNCHANGED <<src, job, behind, queue, known, watch>>
    BY <1>1 DEF DestinationStep, DstSchedule, DstTerminate, applierVars, syncerVars, srcVars
<1>4. /\ dst' \in [Objects -> Instance \cup {Gone}]
      /\ \A o \in Objects \ {p} : dst'[o] = dst[o]
      /\ \/ /\ dst[p].at = Nowhere /\ dst'[p] \in Instance /\ dst'[p].at = OnNode
            /\ dst'[p].uid = dst[p].uid /\ dst'[p].ver = dst[p].ver
         \/ dst[p].at = Terminating /\ dst'[p] = Gone
    <2>1. CASE DstSchedule(p)
        <3>1. [dst[p] EXCEPT !.at = OnNode] \in Instance
            BY <1>2 DEF Instance, OnNode
        <3>2. dst' = [dst EXCEPT ![p] = [dst[p] EXCEPT !.at = OnNode]]
            BY <2>1, ObjectStepTypes, <1>2 DEF DstSchedule
        <3>3. \A o \in Objects : dst'[o] = IF o = p THEN [dst[p] EXCEPT !.at = OnNode] ELSE dst[o]
            BY <3>2, ObjectStepTypes
        <3> QED
            BY <1>2, <2>1, <3>1, <3>2, <3>3, ObjectStepTypes DEF DstSchedule, Instance
    <2>2. CASE DstTerminate(p)
        BY <1>2, <2>2, ObjectStepTypes DEF DstTerminate
    <2> QED
        BY <1>1, <2>1, <2>2
<1>5. ASSUME mode = "sync"
      PROVE  SyncedFor(p)'
    <2>1. SyncedFor(p) /\ SameEvents(p)
        BY <1>2, <1>3, <1>5, QueueKept DEF IInv, Synced, SyncedFor
    <2>2. Alive(p)' = Alive(p)
        BY <1>1, <1>2, <1>4, ObjectStepTypes DEF Alive, Exists, Nowhere, OnNode, Terminating
    <2>3. Exists(dst', p) => Exists(dst, p) /\ dst'[p].ver = dst[p].ver
        BY <1>2, <1>4 DEF Exists
    <2> QED
        BY <1>2, <1>3, <2>1, <2>2, <2>3, Steady DEF Watched
<1>6. ASSUME mode = "oneshot", troubles' = 0
      PROVE  Exists(dst', p) /\ dst'[p].at # Terminating
    <2>1. dst[p].at # Terminating
        BY <1>1, <1>2, <1>3, <1>6 DEF IInv, ImporterOnly
    <2> QED
        BY <1>4, <2>1, ObjectStepTypes DEF Exists, OnNode, Terminating
<1>7. Exists(dst', p) => dst'[p].uid = made'[p] /\ made'[p] # 0
    BY <1>2, <1>3, <1>4 DEF Exists
<1>8. /\ ApplierTypeOK' /\ made' \in [Objects -> Nat] /\ troubles' \in 0 .. MaxTroubles
      /\ troubles <= troubles' /\ made[p] <= made'[p] /\ made'[p] = made[p] /\ job'[p] = job[p]
    BY <1>2, <1>3, ObjectStepTypes DEF ApplierTypeOK
<1> QED
    BY <1>2, <1>3, <1>4, <1>5, <1>6, <1>7, <1>8, ObjectStep

\* Someone removes an object of the destination.
LEMMA RemovalKeeps ==
    ASSUME IInv, RemovalStep
    PROVE  IInv'
<1>1. PICK c \in Objects : DstRemove(c) /\ behind' = behind \cup {c}
    BY DEF RemovalStep
<1>2. /\ Exists(dst, c) /\ dst[c] \in Instance /\ dst[c].uid = made[c] /\ made[c] # 0
    BY <1>1, Types DEF DstRemove, IInv, UidsMade
<1>3. /\ UNCHANGED <<srcVars, made, job, syncerVars, importerVars, mode>>
      /\ UNCHANGED <<src, queue, known, watch>>
    BY <1>1 DEF RemovalStep, DstRemove, syncerVars, srcVars
<1>4. troubles' \in 0 .. MaxTroubles /\ troubles <= troubles' /\ troubles' # 0
    BY <1>1, ObjectStepTypes DEF DstRemove, Trouble
<1>5. /\ dst' \in [Objects -> Instance \cup {Gone}]
      /\ \A o \in Objects \ {c} : dst'[o] = dst[o]
      /\ \/ dst'[c] = Gone
         \/ c \in Pods /\ dst'[c].uid = dst[c].uid /\ dst'[c].ver = dst[c].ver
    <2>1. AfterDelete(c) = Gone
          \/ /\ c \in Pods /\ AfterDelete(c) \in Instance
             /\ AfterDelete(c).uid = dst[c].uid
             /\ AfterDelete(c).ver = dst[c].ver
        BY <1>2 DEF AfterDelete, Instance, Terminating
    <2>2. dst' = [dst EXCEPT ![c] = AfterDelete(c)]
        BY <1>1 DEF DstRemove
    <2> QED
        BY <2>1, <2>2, ObjectStepTypes
<1>6. ASSUME mode = "sync"
      PROVE  SyncedFor(c)'
    <2>1. SyncedFor(c) /\ SameEvents(c)
        BY <1>3, <1>6, QueueKept DEF IInv, Synced, SyncedFor
    <2> QED
        BY <1>1, <1>2, <1>3, <1>5, <2>1, Steady DEF Watched, Exists
<1>7. Exists(dst', c) => dst'[c].uid = made'[c] /\ made'[c] # 0
    BY <1>2, <1>3, <1>5 DEF Exists
<1>8. /\ ApplierTypeOK' /\ made' \in [Objects -> Nat]
      /\ made[c] <= made'[c] /\ made'[c] = made[c] /\ job'[c] = job[c]
    BY <1>1, <1>3, ObjectStepTypes DEF ApplierTypeOK
<1>9. c \in Volumes => ~Exists(dst', c)
    BY <1>5, ObjectStepTypes DEF Exists
<1>10. \A o \in Objects \ {c} : o \in behind' <=> o \in behind
    BY <1>1
<1> QED
    BY <1>3, <1>4, <1>5, <1>6, <1>7, <1>8, <1>9, <1>10, ObjectStep

\* The call for c ends, with d as the object at the destination and m the UID
\* it was created with last.
LEMMA EndKeeps ==
    ASSUME IInv, NEW c \in Objects, job[c] # Idle, End(c),
           behind' \in {behind, behind \ {c}, behind \cup {c}},
           UNCHANGED <<srcVars, syncerVars, importerVars, mode>>,
           troubles' \in 0 .. MaxTroubles, troubles <= troubles',
           NEW d \in Instance \cup {Gone}, NEW m \in Nat,
           dst' = [dst EXCEPT ![c] = d], made' = [made EXCEPT ![c] = m],
           \/ m = made[c]
           \/ job[c].op = "create" /\ m = DstUid(job[c].obj.uid),
           d # Gone => d.uid = m /\ m # 0,
           c \in Volumes /\ d # Gone => NamesClaim(c, d),
           mode = "sync" /\ c \notin behind' => (Alive(c)' <=> job[c].op # "delete"),
           mode = "sync" /\ c \notin behind' /\ d # Gone /\ job[c].obj # Gone
              => d.ver = job[c].obj.ver,
           mode = "oneshot" /\ troubles' = 0 =>
              /\ c \in Pods /\ d # Gone => d.at # Terminating
              /\ Exists(dst, c) \/ (changes = 0 /\ Importing(c)) => d # Gone
    PROVE  IInv'
<1>1. /\ dst'[c] = d /\ made'[c] = m /\ job'[c] = Idle
      /\ dst' \in [Objects -> Instance \cup {Gone}] /\ made' \in [Objects -> Nat]
      /\ \A o \in Objects \ {c} : /\ dst'[o] = dst[o] /\ made'[o] = made[o]
                                  /\ job'[o] = job[o]
                                  /\ o \in behind' <=> o \in behind
      /\ ApplierTypeOK'
    BY ObjectStepTypes DEF ApplierTypeOK, End
<1>2. /\ job[c].op = "create" => /\ job[c].obj # Gone
                                 /\ job[c].obj.uid \in 1 .. version[c]
                                 /\ made[c] < DstUid(job[c].obj.uid)
      /\ version[c] \in Nat /\ made[c] \in Nat /\ MaxChanges \in Nat
    BY Types DEF IInv, JobsKnown
<1>3. made[c] <= m
    BY <1>2
<1>4. m = made[c] \/ \E u \in 1 .. version[c] : m = DstUid(u)
    BY <1>2
<1>5. ASSUME mode = "sync"
      PROVE  SyncedFor(c)'
    <2>1. UNCHANGED <<src, queue, known, watch>>
        BY DEF srcVars, syncerVars
    <2>2. SyncedFor(c) /\ SameEvents(c)
        BY <1>5, <2>1, QueueKept DEF IInv, Synced, SyncedFor
    <2>3. m = made[c] \/ (job[c].obj # Gone /\ m = DstUid(job[c].obj.uid))
        BY <1>2
    <2> QED
        BY <1>1, <1>5, <2>1, <2>2, <2>3, Ended DEF IInv, Watched, Exists
<1>6. Exists(dst', c) <=> d # Gone
    BY <1>1 DEF Exists
<1>7. mode = "oneshot" /\ troubles' = 0 =>
         /\ c \in Pods /\ Exists(dst', c) => dst'[c].at # Terminating
         /\ changes = 0 /\ (Exists(dst, c) \/ Importing(c))
               => Exists(dst', c) \/ job'[c] # Idle
         /\ Exists(dst, c) => Exists(dst', c)
    BY <1>1, <1>6
<1>8. Exists(dst', c) => dst'[c].uid = made'[c] /\ made'[c] # 0
    BY <1>1, <1>6
<1>9. c \in Volumes /\ Exists(dst', c) => NamesClaim(c, dst'[c])
    BY <1>1, <1>6
<1> QED
    BY <1>1, <1>3, <1>4, <1>5, <1>7, <1>8, <1>9, ObjectStep

\* The call for c ends, and leaves the destination alone.
LEMMA FailKeeps ==
    ASSUME IInv, NEW c \in Objects, job[c] # Idle, End(c), c \in behind',
           behind' \in {behind, behind \cup {c}},
           UNCHANGED <<srcVars, dstVars, syncerVars, importerVars, mode>>,
           troubles' \in 0 .. MaxTroubles, troubles <= troubles',
           mode = "oneshot" /\ troubles' = 0 /\ changes = 0 /\ Importing(c) => Exists(dst, c)
    PROVE  IInv'
<1> DEFINE d == dst[c]
           m == made[c]
<1>1. /\ dst' = [dst EXCEPT ![c] = d] /\ made' = [made EXCEPT ![c] = m]
      /\ d \in Instance \cup {Gone} /\ m \in Nat
    BY ObjectStepTypes DEF dstVars
<1>2. d # Gone => d.uid = m /\ m # 0
    BY DEF IInv, UidsMade, Exists
<1>3. c \in Volumes /\ d # Gone => NamesClaim(c, d)
    BY DEF IInv, ClaimReferencesAreLocal, Exists
<1>4. mode = "oneshot" /\ troubles' = 0 =>
         /\ c \in Pods /\ d # Gone => d.at # Terminating
         /\ Exists(dst, c) \/ (changes = 0 /\ Importing(c)) => d # Gone
    <2>1. troubles' = 0 => troubles = 0
        BY ObjectStepTypes
    <2> QED
        BY <2>1 DEF IInv, ImporterOnly, Exists
<1>5. m = made[c] /\ behind' \in {behind, behind \ {c}, behind \cup {c}}
    OBVIOUS
<1> HIDE DEF d, m
<1> QED
    BY <1>1, <1>2, <1>3, <1>4, <1>5, EndKeeps

\* The object that a call writes.
LEMMA MutatedIs ==
    ASSUME IInv, NEW c \in Objects, job[c] # Idle, job[c].op # "delete", NEW u \in Nat
    PROVE  LET d == [Mutated(c) EXCEPT !.uid = u] IN
           /\ d \in Instance /\ d # Gone /\ d.uid = u /\ d.ver = job[c].obj.ver
           /\ c \in Pods => d.at = job[c].obj.at
           /\ c \in Volumes /\ ~LooksUp(c) => NamesClaim(c, d)
<1>1. /\ job[c] \in Job /\ job[c].obj # Gone
      /\ job[c].op \in {"create", "update"} /\ ObjectKnown(c, job[c].obj)
    BY Types DEF IInv, JobsKnown, Job
<1>2. job[c].obj \in Instance /\ job[c].claim \in Nat
    BY <1>1 DEF Job
<1>3. /\ Mutated(c) \in Instance /\ Mutated(c).ver = job[c].obj.ver
      /\ Mutated(c).bound = job[c].obj.bound
      /\ Mutated(c).at = IF job[c].obj.bound THEN job[c].claim ELSE job[c].obj.at
    BY <1>2 DEF Mutated, Instance
<1> DEFINE d == [Mutated(c) EXCEPT !.uid = u]
<1>4. /\ d \in Instance /\ d # Gone /\ d.uid = u /\ d.ver = job[c].obj.ver
      /\ d.bound = job[c].obj.bound /\ d.at = Mutated(c).at
    BY <1>3, ClustersAssumption DEF Instance
<1>5. c \in Pods => d.at = job[c].obj.at
    BY <1>1, <1>3, <1>4, ObjectStepTypes DEF ObjectKnown
<1>6. ASSUME c \in Volumes, ~LooksUp(c)
      PROVE  NamesClaim(c, d)
    <2>1. CASE job[c].obj.bound
        <3>1. job[c].claim # 0
            BY <1>1, <1>6, <2>1 DEF LooksUp
        <3>2. IsLocal(job[c].claim, ClaimOf(c))
            BY <3>1 DEF IInv, JobsKnown, IsLocal
        <3> QED
            BY <1>3, <1>4, <2>1, <3>2 DEF NamesClaim
    <2>2. CASE ~job[c].obj.bound
        BY <1>1, <1>3, <1>4, <1>6, <2>2 DEF NamesClaim, ObjectKnown
    <2> QED
        BY <2>1, <2>2
<1> QED
    BY <1>4, <1>5, <1>6

\* The request to create.
LEMMA CreateKeeps ==
    ASSUME IInv, NEW c \in Objects, CreateResource(c),
           UNCHANGED <<syncerVars, importerVars, mode>>
    PROVE  IInv'
<1>1. /\ job[c] # Idle /\ job[c].op = "create" /\ ~LooksUp(c)
      /\ UNCHANGED <<srcVars, troubles>>
    BY DEF CreateResource, Calls
<1>2. /\ job[c].obj # Gone /\ job[c].obj.uid \in 1 .. version[c] /\ job[c].obj.uid \in Nat
      /\ c \in Pods => job[c].obj.at \in {Nowhere, OnNode}
      /\ DstUid(job[c].obj.uid) \in Nat /\ DstUid(job[c].obj.uid) # 0
    BY <1>1, Types DEF IInv, JobsKnown, ObjectKnown, DstUid
<1>3. troubles' \in 0 .. MaxTroubles /\ troubles <= troubles'
    BY <1>1, ObjectStepTypes
<1>4. CASE ~Exists(dst, c) /\ Admitted(c)
    <2> DEFINE m == DstUid(job[c].obj.uid)
               d == [Mutated(c) EXCEPT !.uid = m]
    <2>0. Mutated(c).uid = job[c].obj.uid
        <3>1. job[c].obj \in Instance
            BY <1>1, <1>2, Types DEF IInv, Job
        <3> QED
            BY <3>1 DEF Mutated, Instance
    <2>1. dst' = [dst EXCEPT ![c] = d] /\ dst'[c] = d
        <3>1. dst' = [dst EXCEPT ![c] = [Mutated(c) EXCEPT !.uid = DstUid(Mutated(c).uid)]]
            BY <1>4 DEF CreateResource
        <3> QED
            BY <2>0, <3>1, ObjectStepTypes
    <2>2. /\ d \in Instance /\ d # Gone /\ d.uid = m /\ d.ver = job[c].obj.ver
          /\ c \in Pods => d.at = job[c].obj.at
          /\ c \in Volumes /\ ~LooksUp(c) => NamesClaim(c, d)
        BY <1>1, <1>2, MutatedIs
    <2> HIDE DEF d
    <2>3. made' = [made EXCEPT ![c] = m] /\ End(c) /\ behind' = behind \ {c}
        BY <1>4, <2>1, <2>2 DEF CreateResource, Succeeds
    <2>4. c \in Pods => d.at \in {Nowhere, OnNode} /\ d.at # Terminating
        BY <1>2, <2>2, ObjectStepTypes DEF Nowhere, OnNode, Terminating
    <2>5. Alive(c)'
        BY <2>1, <2>2, <2>4 DEF Alive, Exists
    <2>6. c \in Volumes => NamesClaim(c, d)
        BY <1>1, <2>2
    <2> QED
        BY <1>1, <1>2, <1>3, <2>1, <2>2, <2>3, <2>4, <2>5, <2>6, EndKeeps
<1>5. CASE Exists(dst, c) \/ ~Admitted(c)
    <2>1. End(c) /\ behind' = behind \cup {c} /\ UNCHANGED dstVars
        BY <1>5 DEF CreateResource, Fails
    <2>2. Importing(c) => Exists(dst, c)
        BY <1>5 DEF Importing, Admitted
    <2> QED
        BY <1>1, <1>3, <2>1, <2>2, FailKeeps
<1> QED
    BY <1>4, <1>5

\* The request to update.
LEMMA UpdateKeeps ==
    ASSUME IInv, NEW c \in Objects, UpdateResource(c),
           UNCHANGED <<syncerVars, importerVars, mode>>
    PROVE  IInv'
<1>1. /\ job[c] # Idle /\ job[c].op = "update" /\ ~LooksUp(c)
      /\ UNCHANGED <<srcVars, troubles, made>> /\ End(c)
    BY DEF UpdateResource, Calls, Succeeds, Fails
<1>2. troubles' \in 0 .. MaxTroubles /\ troubles <= troubles'
    BY <1>1, ObjectStepTypes
<1>3. mode # "oneshot"
    BY <1>1 DEF IInv, ImporterOnly
<1>4. mode \in {"sync", "oneshot"} /\ made[c] \in Nat /\ made' = [made EXCEPT ![c] = made[c]]
    BY <1>1, ObjectStepTypes, ModesAssumption DEF IInv, TypeOK
<1>5. CASE ~Exists(dst, c)
    <2>1. UNCHANGED <<dst, behind>>
        BY <1>5 DEF UpdateResource
    <2>2. c \in behind
        BY <1>1, <1>3, <1>4, <1>5 DEF IInv, Synced, EventsAlternate, Alive
    <2> QED
        BY <1>1, <1>2, <1>3, <2>1, <2>2, FailKeeps DEF dstVars
<1>6. CASE Exists(dst, c) /\ Mutable(c)
    <2> DEFINE d == [Mutated(c) EXCEPT !.uid = dst[c].uid]
    <2>1. dst' = [dst EXCEPT ![c] = d] /\ behind' = behind \ {c}
        BY <1>6 DEF UpdateResource, Succeeds
    <2>2. dst[c].uid \in Nat /\ dst[c].uid = made[c] /\ made[c] # 0
        BY <1>6, Types, ObjectStepTypes DEF IInv, UidsMade
    <2>3. /\ d \in Instance /\ d # Gone /\ d.uid = made[c] /\ d.ver = job[c].obj.ver
          /\ c \in Pods => d.at = job[c].obj.at
          /\ c \in Volumes /\ ~LooksUp(c) => NamesClaim(c, d)
        BY <1>1, <2>2, MutatedIs
    <2> HIDE DEF d
    <2>4. c \in Pods => d.at = Nowhere
        BY <1>1, <2>3, ObjectStepTypes DEF IInv, JobsKnown
    <2>5. Alive(c)'
        BY <2>1, <2>3, <2>4, ObjectStepTypes DEF Alive, Exists, Nowhere, Terminating
    <2>6. c \in Volumes => NamesClaim(c, d)
        BY <1>1, <2>3
    <2> QED
        BY <1>1, <1>2, <1>3, <1>4, <2>1, <2>2, <2>3, <2>5, <2>6, EndKeeps
<1>7. CASE Exists(dst, c) /\ ~Mutable(c)
    <2>1. behind' = behind \cup {c} /\ UNCHANGED dst
        BY <1>7 DEF UpdateResource, Fails
    <2> QED
        BY <1>1, <1>2, <1>3, <2>1, FailKeeps DEF dstVars
<1> QED
    BY <1>5, <1>6, <1>7

\* The request to delete.
LEMMA DeleteKeeps ==
    ASSUME IInv, NEW c \in Objects, DeleteResource(c),
           UNCHANGED <<syncerVars, importerVars, mode>>
    PROVE  IInv'
<1>1. /\ job[c] # Idle /\ job[c].op = "delete" /\ job[c].obj = Gone
      /\ UNCHANGED <<srcVars, troubles, made>> /\ End(c) /\ behind' = behind \ {c}
    BY DEF DeleteResource, Calls, Succeeds, IInv, JobsKnown
<1>2. troubles' \in 0 .. MaxTroubles /\ troubles <= troubles'
    BY <1>1, ObjectStepTypes
<1>3. mode # "oneshot"
    BY <1>1 DEF IInv, ImporterOnly
<1>4. made[c] \in Nat /\ made' = [made EXCEPT ![c] = made[c]]
    BY <1>1, ObjectStepTypes
<1> DEFINE d == IF Exists(dst, c) THEN AfterDelete(c) ELSE dst[c]
<1>5. dst' = [dst EXCEPT ![c] = d]
    BY ObjectStepTypes DEF DeleteResource
<1>6. \/ d = Gone
      \/ /\ c \in Pods /\ d \in Instance /\ d.at = Terminating
         /\ d.uid = made[c] /\ made[c] # 0
    <2>1. CASE Exists(dst, c)
        <3>1. dst[c] \in Instance /\ dst[c].uid = made[c] /\ made[c] # 0
            BY <2>1, Types DEF IInv, UidsMade
        <3> QED
            BY <2>1, <3>1 DEF AfterDelete, Instance, Terminating
    <2>2. CASE ~Exists(dst, c)
        BY <2>2 DEF Exists
    <2> QED
        BY <2>1, <2>2
<1> HIDE DEF d
<1>7. ~Alive(c)' /\ dst'[c] = d
    BY <1>5, <1>6, ObjectStepTypes DEF Alive, Exists
<1>8. c \notin Volumes \/ d = Gone
    BY <1>6, ObjectStepTypes
<1>9. d \in Instance \cup {Gone}
    BY <1>6
<1> QED
    BY <1>1, <1>2, <1>3, <1>4, <1>5, <1>6, <1>7, <1>8, <1>9, EndKeeps

\* The request for the claim of a volume.
LEMMA LookUpKeeps ==
    ASSUME IInv, NEW c \in Objects, LookUpClaim(c),
           UNCHANGED <<syncerVars, importerVars, mode>>
    PROVE  IInv'
<1>1. /\ job[c] # Idle /\ c \in Volumes /\ job[c].obj.bound
      /\ UNCHANGED <<srcVars, dstVars, troubles>> /\ dst' = dst /\ made' = made
      /\ troubles' = troubles
    BY DEF LookUpClaim, LooksUp, dstVars
<1>2. troubles' \in 0 .. MaxTroubles /\ troubles <= troubles'
    BY <1>1, ObjectStepTypes
<1>3. c \notin Pods /\ ClaimOf(c) \in Objects /\ ClaimOf(c) \in RefersTo[c]
    BY <1>1, Claims
<1>4. CASE ~Exists(dst, ClaimOf(c))
    <2>1. End(c) /\ behind' = behind \cup {c}
        BY <1>4 DEF LookUpClaim, Fails
    <2>2. ~Importing(c)
        BY <1>1, <1>3, <1>4 DEF Importing
    <2> QED
        BY <1>1, <1>2, <2>1, <2>2, FailKeeps
<1>5. CASE Exists(dst, ClaimOf(c))
    <2> DEFINE u == dst[ClaimOf(c)].uid
               j == [job[c] EXCEPT !.claim = u]
    <2>1. job' = [job EXCEPT ![c] = j] /\ behind' = behind
        <3>1. job' = [job EXCEPT ![c].claim = dst[ClaimOf(c)].uid] /\ behind' = behind
            BY <1>5 DEF LookUpClaim
        <3> QED
            BY <3>1
    <2>2. /\ dst[ClaimOf(c)] \in Instance /\ u = made[ClaimOf(c)] /\ made[ClaimOf(c)] # 0
          /\ u \in Nat
        BY <1>3, <1>5, Types, ObjectStepTypes DEF IInv, UidsMade
    <2>3. u >= DstUid(1) /\ u <= made[ClaimOf(c)]
        <3>1. PICK n \in 1 .. version[ClaimOf(c)] : made[ClaimOf(c)] = DstUid(n)
            BY <1>3, <2>2 DEF IInv, UidsMade
        <3>2. version[ClaimOf(c)] \in Nat /\ MaxChanges \in Nat
            BY <1>3, Types DEF IInv
        <3> QED
            BY <2>2, <3>1, <3>2 DEF DstUid
    <2> HIDE DEF u
    <2>4. j \in Job /\ j # Idle /\ j.op = job[c].op /\ j.obj = job[c].obj /\ j.claim = u
        <3>1. job[c] \in Job
            BY <1>1, Types DEF IInv
        <3>2. j \in Job /\ j.op = job[c].op /\ j.obj = job[c].obj /\ j.claim = u
            BY <2>2, <3>1 DEF Job
        <3> QED
            BY <3>2, ApplierAssumption
    <2> HIDE DEF j
    <2>5. /\ job'[c] = j /\ \A o \in Objects \ {c} : job'[o] = job[o]
          /\ ApplierTypeOK'
        BY <2>1, <2>4, ObjectStepTypes DEF ApplierTypeOK
    <2>6. ASSUME mode = "sync"
          PROVE  SyncedFor(c)'
        <3>1. UNCHANGED <<src, queue, known, watch>>
            BY <1>1 DEF srcVars, syncerVars
        <3>2. SyncedFor(c) /\ SameEvents(c)
            BY <2>6, <3>1, QueueKept DEF IInv, Synced, SyncedFor
        <3> QED
            BY <1>1, <2>1, <2>4, <2>5, <3>1, <3>2, Steady DEF Watched, Alive, Exists
    <2>7. /\ Exists(dst', c) => dst'[c].uid = made'[c] /\ made'[c] # 0
          /\ Exists(dst', c) => NamesClaim(c, dst'[c])
          /\ Exists(dst', c) <=> Exists(dst, c)
          /\ made'[c] = made[c] /\ made[c] <= made'[c]
        BY <1>1, Types DEF IInv, UidsMade, ClaimReferencesAreLocal, Exists
    <2>8. dst' \in [Objects -> Instance \cup {Gone}] /\ made' \in [Objects -> Nat]
        BY <1>1, ObjectStepTypes
    <2> QED
        BY <1>1, <1>2, <1>3, <2>1, <2>3, <2>4, <2>5, <2>6, <2>7, <2>8, ObjectStep
<1> QED
    BY <1>4, <1>5

\* A step of the applier.
LEMMA ApplierKeeps ==
    ASSUME IInv, ApplierStep
    PROVE  IInv'
BY LookUpKeeps, CreateKeeps, UpdateKeeps, DeleteKeeps DEF ApplierStep, Apply

\* A request fails.
LEMMA CallFailsKeeps ==
    ASSUME IInv, NEW c \in Objects, CallFails(c),
           UNCHANGED <<syncerVars, importerVars, mode>>
    PROVE  IInv'
<1>1. /\ job[c] # Idle /\ End(c) /\ behind' = behind \cup {c}
      /\ UNCHANGED <<srcVars, dstVars>>
    BY DEF CallFails, Fails
<1>2. troubles' \in 0 .. MaxTroubles /\ troubles <= troubles' /\ troubles' # 0
    BY ObjectStepTypes DEF CallFails, Trouble
<1> QED
    BY <1>1, <1>2, FailKeeps

-----------------------------------------------------------------------------
(***************************************************************************)
(* The syncer.                                                             *)
(***************************************************************************)

\* An informer lists its kind.
LEMMA ListKeeps ==
    ASSUME IInv, mode = "sync", NEW k \in Kinds, ListAndWatch(k),
           UNCHANGED <<importerVars, mode>>
    PROVE  IInv'
<1>1. /\ UNCHANGED <<src, version, scope, changes, dst, made, troubles, job, behind,
                     phase, outcome, mode>>
      /\ watch' = [watch EXCEPT ![k] = "on"]
    BY DEF ListAndWatch, srcVars, dstVars, applierVars, importerVars
<1>2. /\ \A o \in Objects : KindOf[o] # k => (o \in known' <=> o \in known)
      /\ \A o \in Objects : KindOf[o] = k => (o \in known' <=> Exists(src, o))
    BY DEF ListAndWatch, ObjectsOf
<1>3. TypeOK'
    BY <1>1, ListAdds
       DEF IInv, TypeOK, ClustersTypeOK, ApplierTypeOK, ImporterTypeOK
<1>4. SourceVersions' /\ UidsMade' /\ JobsKnown' /\ ClaimReferencesAreLocal'
    <2>1. JobsKnown'
        BY <1>1 DEF IInv, JobsKnown, DstUid, ClaimOf, ObjectKnown, IsForeign
    <2> QED
        BY <1>1, <2>1, ClustersKept DEF IInv
<1>5. EventsKnown'
    <2>1. ASSUME NEW x \in Kinds, NEW i \in DOMAIN queue'[x]
          PROVE  LET e == queue'[x][i] IN
                 /\ KindOf[e.o] = x
                 /\ e.obj = Gone <=> e.type \in Drops
                 /\ e.obj # Gone => /\ e.obj.uid \in 1 .. version'[e.o]
                                    /\ ObjectKnown(e.o, e.obj)
        <3>1. CASE i \in DOMAIN queue[x] /\ queue'[x][i] = queue[x][i]
            BY <1>1, <3>1 DEF IInv, EventsKnown
        <3>2. ASSUME x = k, NEW o \in ObjectsOf(k),
                     queue'[x][i] = EventOf(o, src[o], "tombstone")
              PROVE  LET e == queue'[x][i] IN
                     /\ KindOf[e.o] = x
                     /\ e.obj = Gone <=> e.type \in Drops
                     /\ e.obj # Gone => /\ e.obj.uid \in 1 .. version'[e.o]
                                        /\ ObjectKnown(e.o, e.obj)
            BY <1>1, <3>2 DEF IInv, SourceVersions, EventOf, Drops, Exists, ObjectsOf
        <3>3. \/ i \in DOMAIN queue[x] /\ queue'[x][i] = queue[x][i]
              \/ x = k /\ \E o \in ObjectsOf(k) :
                    queue'[x][i] = EventOf(o, src[o], "tombstone")
            BY ListAdds DEF IInv
        <3> QED
            BY <3>1, <3>2, <3>3
    <2> QED
        BY <1>1, <2>1 DEF EventsKnown, ObjectKnown, IsForeign, ClaimOf
<1>6. ASSUME NEW o \in Objects
      PROVE  SyncedFor(o)'
    <2>1. SyncedFor(o)
        BY DEF IInv, Synced, SyncedFor
    <2>2. IF KindOf[o] = k /\ (Exists(src, o) \/ o \in known)
            THEN \E p : OneMore(o, p, EventOf(o, src[o], "tombstone"))
            ELSE SameEvents(o)
        BY ListAdds DEF IInv
    <2>3. CASE KindOf[o] # k
        <3>1. Watched(o)' = Watched(o)
            BY <1>1, <2>3, Types DEF Watched, IInv, TypeOK, SyncerTypeOK
        <3> QED
            BY <1>1, <1>2, <2>1, <2>2, <2>3, <3>1, Steady DEF Alive, Exists
    <2>4. CASE KindOf[o] = k /\ (Exists(src, o) \/ o \in known)
        <3>1. PICK p : OneMore(o, p, EventOf(o, src'[o], "tombstone"))
            BY <1>1, <2>2, <2>4
        <3>2. o \notin known /\ Exists(src', o) => NewerThanAll(o, src'[o].uid)
            BY <1>1, <2>1 DEF SyncedFor, AddsAreNewer, Exists
        <3>3. /\ UNCHANGED <<job[o], made[o], dst[o]>>
              /\ o \in behind' <=> o \in behind
              /\ Exists(src', o) \/ o \in known
              /\ o \in known' <=> Exists(src', o)
              /\ "tombstone" \in Drops
            BY <1>1, <1>2, <2>4 DEF Exists, Drops
        <3> QED
            BY <2>1, <3>1, <3>2, <3>3, Told DEF IInv
    <2>5. CASE KindOf[o] = k /\ ~(Exists(src, o) \/ o \in known)
        <3>1. SameEvents(o) /\ o \notin known'
            BY <1>2, <2>2, <2>5
        <3>2. AddsAreNewer(o)' /\ EventsAlternate(o)'
            <4>1. /\ \A i, j : IsNext(o, i, j)' <=> IsNext(o, i, j)
                  /\ \A i : IsFirst(o, i)' <=> IsFirst(o, i)
                  /\ \A i : IsLast(o, i)' <=> i \in Waiting(o) /\ IsLast(o, i)
                BY <3>1 DEF SameEvents, IsNext, IsFirst, IsLast
            <4>2. There(o)' = There(o) /\ Followed(o)' = Followed(o) /\ Alive(o)' = Alive(o)
                BY <1>1 DEF There, Followed, Alive, Exists
            <4>3. EventsAlternate(o)'
                BY <1>1, <2>1, <2>5, <3>1, <4>1, <4>2 DEF SyncedFor, EventsAlternate, SameEvents
            <4>4. AddsAreNewer(o)'
                BY <1>1, <2>1, <2>5, <3>1 DEF SyncedFor, AddsAreNewer, SameEvents, Exists, DstUid
            <4> QED
                BY <4>3, <4>4
        <3>3. LastIsCurrent(o)'
            <4>1. ASSUME NEW i \in Waiting(o)', IsLast(o, i)'
                  PROVE  Q(o)'[i].obj = src'[o]
                <5>1. IsLast(o, i) /\ i \in Waiting(o) /\ Q(o)'[i] = Q(o)[i]
                    BY <3>1, <4>1 DEF SameEvents, IsLast
                <5>2. Q(o)[i].type \in Drops
                    BY <2>1, <2>5, <5>1 DEF SyncedFor, EventsAlternate
                <5>3. Q(o)[i].obj = Gone
                    BY <2>5, <5>1, <5>2 DEF IInv, EventsKnown, Waiting, Q
                <5> QED
                    BY <1>1, <2>5, <5>1, <5>3 DEF Exists
            <4>2. ASSUME Waiting(o)' = {}, job'[o] # Idle
                  PROVE  job'[o].obj = src'[o]
                <5>1. Waiting(o) = {} /\ job[o] # Idle
                    BY <1>1, <3>1, <4>2 DEF SameEvents
                <5>2. job[o].op = "delete"
                    BY <2>1, <2>5, <5>1 DEF SyncedFor, EventsAlternate, Followed, There
                <5>3. job[o].obj = Gone
                    BY <5>1, <5>2 DEF IInv, JobsKnown
                <5> QED
                    BY <1>1, <2>5, <5>3 DEF Exists
            <4> QED
                BY <1>1, <2>5, <3>1, <4>1, <4>2 DEF LastIsCurrent, Exists
        <3> QED
            BY <3>2, <3>3 DEF SyncedFor
    <2> QED
        BY <2>3, <2>4, <2>5
<1>7. Synced' /\ ImporterOnly' /\ ImportGoesOn'
    <2>1. Synced'
        BY <1>6 DEF Synced, SyncedFor
    <2>2. ImporterOnly'
        BY <1>1 DEF IInv, ImporterOnly
    <2>3. ImportGoesOn'
        BY <1>1 DEF IInv, ImportGoesOn, Exists
    <2> QED
        BY <2>1, <2>2, <2>3
<1> QED
    BY <1>3, <1>4, <1>5, <1>7 DEF IInv

\* An informer loses its watch.
LEMMA LoseKeeps ==
    ASSUME IInv, mode = "sync", NEW k \in Kinds, LoseWatch(k),
           UNCHANGED <<importerVars, mode>>
    PROVE  IInv'
<1>1. /\ UNCHANGED <<src, version, scope, changes, dst, made, job, behind, queue, known,
                     phase, outcome, mode>>
      /\ watch' = [watch EXCEPT ![k] = "lost"]
      /\ troubles' \in 0 .. MaxTroubles
    BY ObjectStepTypes
       DEF LoseWatch, Trouble, srcVars, dstVars, applierVars, importerVars
<1>2. TypeOK'
    BY <1>1 DEF IInv, TypeOK, ClustersTypeOK, ApplierTypeOK, SyncerTypeOK, ImporterTypeOK
<1>3. SourceVersions' /\ UidsMade' /\ JobsKnown' /\ EventsKnown' /\ ClaimReferencesAreLocal'
    <2>1. SourceVersions' /\ UidsMade' /\ EventsKnown' /\ ClaimReferencesAreLocal'
        BY <1>1, ClustersKept DEF IInv
    <2>2. JobsKnown'
        BY <1>1 DEF IInv, JobsKnown, DstUid, ClaimOf, ObjectKnown, IsForeign
    <2> QED
        BY <2>1, <2>2
<1>4. ASSUME NEW o \in Objects
      PROVE  SyncedFor(o)'
    <2>1. SyncedFor(o) /\ SameEvents(o)
        BY <1>1, QueueKept DEF IInv, Synced, SyncedFor
    <2>2. Watched(o)' => Watched(o)
        BY <1>1, Types DEF Watched, IInv, TypeOK, SyncerTypeOK
    <2> QED
        BY <1>1, <2>1, <2>2, Steady DEF Alive, Exists
<1>5. Synced'
    BY <1>4 DEF Synced, SyncedFor
<1>6. ImporterOnly' /\ ImportGoesOn'
    BY <1>1 DEF IInv, ImporterOnly, ImportGoesOn, Exists
<1> QED
    BY <1>2, <1>3, <1>5, <1>6 DEF IInv

\* A handler takes the event e, and with j calls the applier.
LEMMA TakeKeeps ==
    ASSUME IInv, mode = "sync", NEW k \in Kinds, NEW types, Takes(k, types),
           UNCHANGED <<importerVars, mode>>,
           NEW e, e = Head(queue[k]),
           NEW j \in Job \cup {Idle}, job' = [job EXCEPT ![e.o] = j],
           behind' \in {behind, behind \cup {e.o}},
           j # Idle => /\ j.obj = e.obj /\ j.claim = 0 /\ behind' = behind
                       /\ j.op = "delete" <=> e.type \in Drops
                       /\ j.op = "update" <=> e.type = "update"
                       /\ j.op = "update" /\ e.o \in Pods => e.obj.at = Nowhere,
           j = Idle => \/ e.o \in behind'
                       \/ e.type = "update" /\ e.o \in Pods /\ e.obj.at # Nowhere
    PROVE  IInv'
<1>1. /\ UNCHANGED <<src, version, scope, changes, dst, made, troubles, known, watch,
                     phase, outcome, mode>>
      /\ \A o \in Objects : KindOf[o] = k => job[o] = Idle
    BY DEF Takes, ObjectsOf, srcVars, dstVars, importerVars
<1>2. /\ e \in Event /\ e = queue[k][1] /\ 1 \in DOMAIN queue[k]
      /\ queue' \in [Kinds -> Seq(Event)]
    BY TakeRemoves DEF IInv
<1>3. /\ e.o \in Objects /\ KindOf[e.o] = k
      /\ e.obj = Gone <=> e.type \in Drops
      /\ e.obj # Gone => /\ e.obj.uid \in 1 .. version[e.o]
                         /\ ObjectKnown(e.o, e.obj)
      /\ e.type \in {"add", "update", "delete", "tombstone"}
    BY <1>2 DEF IInv, EventsKnown, Event
<1>4. job'[e.o] = j /\ \A o \in Objects \ {e.o} : job'[o] = job[o]
    BY <1>3, ObjectStepTypes DEF ApplierTypeOK
<1>5. TypeOK'
    <2>1. ApplierTypeOK'
        BY <1>3, ObjectStepTypes DEF ApplierTypeOK
    <2>2. SyncerTypeOK'
        BY <1>1, <1>2 DEF IInv, TypeOK, SyncerTypeOK
    <2> QED
        BY <1>1, <2>1, <2>2 DEF IInv, TypeOK, ClustersTypeOK, ImporterTypeOK
<1>6. SourceVersions' /\ UidsMade' /\ ClaimReferencesAreLocal'
    BY <1>1, ClustersKept DEF IInv
<1>7. EventsKnown'
    BY <1>1, TakeRemoves, ClustersKept DEF IInv
<1>8. SyncedFor(e.o) /\ 1 \in Waiting(e.o) /\ Q(e.o)[1] = e /\ OneLess(e.o)
    BY <1>3, TakeRemoves DEF IInv, Synced, SyncedFor
<1>9. JobsKnown'
    <2>1. e.type = "add" => made[e.o] < DstUid(e.obj.uid)
        BY <1>8 DEF SyncedFor, AddsAreNewer
    <2>2. j # Idle => j.op \in {"create", "update", "delete"}
        BY DEF Job
    <2>3. j # Idle /\ j.op = "create" => e.type = "add"
        BY <1>3, <2>2 DEF Drops
    <2>4. ASSUME NEW o \in Objects, job'[o] # Idle
          PROVE  /\ job'[o].obj = Gone <=> job'[o].op = "delete"
                 /\ job'[o].op # "delete" =>
                       /\ job'[o].obj.uid \in 1 .. version'[o]
                       /\ ObjectKnown(o, job[o].obj)'
                 /\ job'[o].op = "update" /\ o \in Pods => job'[o].obj.at = Nowhere
                 /\ job'[o].op = "create" => made'[o] < DstUid(job'[o].obj.uid)
                 /\ job'[o].claim # 0 =>
                       /\ o \in Volumes
                       /\ job'[o].claim >= DstUid(1)
                       /\ job'[o].claim <= made'[ClaimOf(o)]
        <3>1. CASE o = e.o
            BY <1>1, <1>3, <1>4, <2>1, <2>3, <2>4, <3>1 DEF ObjectKnown, IsForeign, ClaimOf
        <3>2. CASE o # e.o
            BY <1>1, <1>4, <2>4, <3>2 DEF IInv, JobsKnown, ObjectKnown, IsForeign, ClaimOf
        <3> QED
            BY <3>1, <3>2
    <2> QED
        BY <2>4 DEF JobsKnown, DstUid, ClaimOf
<1>10. ASSUME NEW o \in Objects
       PROVE  SyncedFor(o)'
    <2>1. SyncedFor(o) /\ (Watched(o)' => Watched(o))
        BY <1>1 DEF IInv, Synced, SyncedFor, Watched
    <2>2. CASE o = e.o
        <3>1. UNCHANGED <<src[o], made[o], dst[o]>> /\ (o \in known' <=> o \in known)
            BY <1>1
        <3>2. job'[o] # Idle => /\ job'[o].obj = Q(o)[1].obj
                                /\ job'[o].op = "delete" <=> Q(o)[1].type \in Drops
                                /\ job'[o].op = "update" => Q(o)[1].type = "update"
                                /\ o \in behind' <=> o \in behind
            BY <1>4, <1>8, <2>2
        <3>3. job'[o] = Idle =>
                 \/ o \in behind'
                 \/ Q(o)[1].type = "update" /\ o \in Pods /\ Q(o)[1].obj.at # Nowhere
            BY <1>4, <1>8, <2>2
        <3>4. job[o] = Idle /\ (o \in behind => o \in behind')
            BY <1>1, <1>3, <2>2
        <3> QED
            BY <1>8, <2>1, <2>2, <3>1, <3>2, <3>3, <3>4, Handled DEF IInv
    <2>3. CASE o # e.o
        <3>1. /\ UNCHANGED <<src[o], made[o], dst[o], job[o]>>
              /\ o \in known' <=> o \in known
              /\ o \in behind' <=> o \in behind
            BY <1>1, <1>4, <2>3
        <3>2. CASE KindOf[o] = k
            <4>1. OneLess(o) /\ 1 \notin Waiting(o)
                BY <2>3, <3>2, TakeRemoves DEF IInv
            <4> QED
                BY <2>1, <3>1, <4>1, Passed DEF IInv
        <3>3. CASE KindOf[o] # k
            <4>1. SameEvents(o)
                BY <3>3, TakeRemoves DEF IInv
            <4> QED
                BY <2>1, <3>1, <4>1, Steady DEF Alive, Exists
        <3> QED
            BY <3>2, <3>3
    <2> QED
        BY <2>2, <2>3
<1>11. Synced'
    BY <1>10 DEF Synced, SyncedFor
<1>12. ImporterOnly' /\ ImportGoesOn'
    BY <1>1 DEF IInv, ImporterOnly, ImportGoesOn, Exists
<1> QED
    BY <1>5, <1>6, <1>7, <1>9, <1>11, <1>12 DEF IInv

\* The handlers.
LEMMA HandlersKeep ==
    ASSUME IInv, mode = "sync", NEW k \in Kinds, AddFunc(k) \/ UpdateFunc(k) \/ DeleteFunc(k),
           UNCHANGED <<importerVars, mode>>
    PROVE  IInv'
<1> DEFINE e == Head(queue[k])
<1>0. PICK types \in {{"add"}, {"update"}, {"delete", "tombstone"}} : Takes(k, types)
    BY DEF AddFunc, UpdateFunc, DeleteFunc
<1>1. /\ e \in Event /\ e.o \in Objects /\ e.obj \in Instance \cup {Gone}
      /\ KindOf[e.o] = k /\ job[e.o] = Idle
    <2>1. e \in Event /\ e = queue[k][1] /\ 1 \in DOMAIN queue[k]
        BY <1>0, TakeRemoves DEF IInv
    <2>2. KindOf[e.o] = k
        BY <2>1 DEF IInv, EventsKnown
    <2> QED
        BY <1>0, <2>1, <2>2 DEF Event, Takes, ObjectsOf
<1>2. \A op \in {"create", "update", "delete"} :
         LET j == Begin(e.o, op, e.obj) IN
         /\ j \in Job \cup {Idle}
         /\ j = Idle => op = "update" /\ e.o \in Pods /\ e.obj.at # Nowhere
         /\ j # Idle => /\ j.op = op /\ j.obj = e.obj /\ j.claim = 0
                        /\ op = "update" /\ e.o \in Pods => e.obj.at = Nowhere
    BY <1>1, ApplierAssumption DEF Begin, Job
<1> HIDE DEF e
<1>3. CASE AddFunc(k)
    <2> DEFINE j == Begin(e.o, "create", e.obj)
    <2>1. Takes(k, {"add"}) /\ e.type = "add" /\ job' = [job EXCEPT ![e.o] = j] /\ behind' = behind
        BY <1>3 DEF AddFunc, Takes, e
    <2>2. /\ j \in Job \cup {Idle} /\ j # Idle
          /\ j # Idle => j.op = "create" /\ j.obj = e.obj /\ j.claim = 0
        BY <1>2
    <2> HIDE DEF j
    <2> QED
        BY <2>1, <2>2, TakeKeeps DEF Drops, e
<1>4. CASE UpdateFunc(k)
    <2> DEFINE j == Begin(e.o, "update", e.obj)
    <2>1. Takes(k, {"update"}) /\ e.type = "update" /\ job' = [job EXCEPT ![e.o] = j]
          /\ behind' = behind
        BY <1>4 DEF UpdateFunc, Takes, e
    <2>2. /\ j \in Job \cup {Idle}
          /\ j = Idle => e.o \in Pods /\ e.obj.at # Nowhere
          /\ j # Idle => /\ j.op = "update" /\ j.obj = e.obj /\ j.claim = 0
                         /\ e.o \in Pods => e.obj.at = Nowhere
        BY <1>2
    <2> HIDE DEF j
    <2> QED
        BY <2>1, <2>2, TakeKeeps DEF Drops, e
<1>5. CASE DeleteFunc(k) /\ e.type = "tombstone"
    <2> DEFINE j == Idle
    <2>1. Takes(k, {"delete", "tombstone"}) /\ UNCHANGED job /\ behind' = behind \cup {e.o}
        BY <1>5 DEF DeleteFunc, e
    <2>2. job' = [job EXCEPT ![e.o] = j]
        BY <1>1, <2>1, ObjectStepTypes DEF ApplierTypeOK
    <2> QED
        BY <2>1, <2>2, TakeKeeps DEF e
<1>6. CASE DeleteFunc(k) /\ e.type # "tombstone"
    <2> DEFINE j == Begin(e.o, "delete", e.obj)
    <2>1. Takes(k, {"delete", "tombstone"}) /\ e.type = "delete"
          /\ job' = [job EXCEPT ![e.o] = j] /\ behind' = behind
        BY <1>6 DEF DeleteFunc, Takes, e
    <2>2. /\ j \in Job \cup {Idle} /\ j # Idle
          /\ j # Idle => j.op = "delete" /\ j.obj = e.obj /\ j.claim = 0
        BY <1>2
    <2> HIDE DEF j
    <2> QED
        BY <2>1, <2>2, TakeKeeps DEF Drops, e
<1> QED
    BY <1>3, <1>4, <1>5, <1>6

-----------------------------------------------------------------------------
(***************************************************************************)
(* The importer.                                                           *)
(***************************************************************************)

\* The importer lists the next kind and begins to create its objects.
LEMMA ImportKeeps ==
    ASSUME IInv, mode = "oneshot", ImportResource, UNCHANGED <<syncerVars, mode>>
    PROVE  IInv'
<1>1. /\ UNCHANGED <<src, version, scope, changes, dst, made, troubles, behind, queue,
                     known, watch, outcome, mode>>
      /\ outcome = "running" /\ phase' = phase + 1 /\ phase < Len(Order) /\ AllCreated
    BY DEF ImportResource, srcVars, dstVars, syncerVars
<1>2. phase \in Nat /\ Len(Order) \in Nat /\ DOMAIN Order = 1 .. Len(Order)
      /\ phase + 1 \in DOMAIN Order
    BY <1>1, ImporterAssumption DEF IInv, TypeOK, ImporterTypeOK
<1> DEFINE New(o) == KindOf[o] = Order[phase + 1] /\ o \in Selected /\ Exists(src, o)
           j(o) == [op |-> "create", obj |-> src[o], claim |-> 0]
<1>3. /\ DOMAIN job' = Objects
      /\ \A o \in Objects : job'[o] = IF New(o) THEN j(o) ELSE Idle
    BY <1>1 DEF ImportResource, AllCreated, Begin
<1>4. \A o \in Objects : New(o) =>
         /\ j(o) \in Job /\ j(o) # Idle
         /\ j(o).op = "create" /\ j(o).obj = src[o] /\ j(o).claim = 0
    BY Types, ApplierAssumption DEF IInv, Job
<1>5. TypeOK'
    <2>1. job' \in [Objects -> Job \cup {Idle}]
        <3>1. \A o \in Objects : job'[o] \in Job \cup {Idle}
            BY <1>3, <1>4
        <3>2. job' = [o \in Objects |-> job'[o]]
            BY DEF ImportResource
        <3> QED
            BY <3>1, <3>2
    <2> QED
        BY <1>1, <1>2, <2>1
           DEF IInv, TypeOK, ClustersTypeOK, ApplierTypeOK, SyncerTypeOK, ImporterTypeOK
<1> HIDE DEF j
<1>6. \A o \in Objects : job'[o] # Idle =>
         /\ New(o) /\ Exists(src, o) /\ job'[o].op = "create"
         /\ job'[o].obj = src[o] /\ job'[o].claim = 0
    BY <1>3, <1>4
<1>7. SourceVersions' /\ UidsMade' /\ EventsKnown' /\ ClaimReferencesAreLocal'
    BY <1>1, ClustersKept DEF IInv
<1>8. /\ \A o \in Objects : Listed(o) => Listed(o)'
      /\ \A o \in Objects : Listed(o)' => Listed(o) \/ KindOf[o] = Order[phase + 1]
      /\ \A o \in Objects : KindOf[o] = Order[phase + 1] => Listed(o)' /\ ~Listed(o)
    <2>1. 1 .. phase' = 1 .. phase \cup {phase + 1} /\ phase + 1 \notin 1 .. phase
          /\ 1 .. phase \subseteq DOMAIN Order
        BY <1>1, <1>2
    <2> QED
        BY <1>2, <2>1, ImporterAssumption DEF Listed
<1>9. JobsKnown'
    <2>1. ASSUME NEW o \in Objects, job'[o] # Idle
          PROVE  /\ job'[o].obj # Gone /\ job'[o].op = "create" /\ job'[o].claim = 0
                 /\ job'[o].obj.uid \in 1 .. version'[o]
                 /\ ObjectKnown(o, job[o].obj)'
                 /\ made'[o] < DstUid(job'[o].obj.uid)
        <3>1. /\ New(o) /\ Exists(src, o) /\ job'[o].op = "create" /\ job'[o].obj = src[o]
              /\ job'[o].claim = 0
            BY <1>6, <2>1
        <3>2. made[o] = 0
            BY <1>8, <3>1 DEF IInv, ImporterOnly
        <3>3. src[o].uid \in 1 .. version[o] /\ version[o] \in Nat /\ MaxChanges \in Nat
            BY <3>1, Types DEF IInv, SourceVersions
        <3>4. made'[o] < DstUid(job'[o].obj.uid)
            BY <1>1, <3>1, <3>2, <3>3 DEF DstUid
        <3> QED
            BY <1>1, <3>1, <3>4 DEF IInv, SourceVersions, Exists, ObjectKnown, IsForeign, ClaimOf
    <2> QED
        BY <2>1 DEF JobsKnown, DstUid, ClaimOf
<1>10. Synced' /\ ImporterOnly'
    <2>1. \A o \in Objects : made'[o] # 0 \/ job'[o] # Idle => Listed(o)'
        BY <1>1, <1>6, <1>8 DEF IInv, ImporterOnly
    <2>2. \A o \in Objects : job'[o] # Idle => job'[o].op = "create"
        BY <1>6
    <2> QED
        BY <1>1, <2>1, <2>2 DEF IInv, Synced, ImporterOnly, Exists
<1>11. ImportGoesOn'
    <2>1. ASSUME changes' = 0
          PROVE  \A o \in Objects : Exists(src', o) /\ (o \in Pods \/ src'[o].bound)
                    => \A n \in RefersTo[o] : Exists(src', n)
        BY <1>1, <2>1 DEF IInv, ImportGoesOn, Exists
    <2>2. ASSUME changes = 0, troubles = 0, NEW o \in Selected,
                 Exists(src, o), Listed(o), o \in Pods \cup Volumes => RefersTo[o] \subseteq Selected
          PROVE  Exists(dst, o)
        BY <1>1, <2>2, ImporterAssumption DEF IInv, ImportGoesOn, Importing, AllCreated
    <2>3. ASSUME changes' = 0, troubles' = 0, NEW o \in Selected,
                 Exists(src', o), Listed(o)',
                 o \in Pods \cup Volumes => RefersTo[o] \subseteq Selected
          PROVE  Exists(dst', o) \/ Importing(o)'
        <3>1. o \in Objects /\ Exists(src, o) /\ changes = 0 /\ troubles = 0
            BY <1>1, <2>3, ImporterAssumption DEF Exists
        <3>2. CASE Listed(o)
            BY <1>1, <2>2, <2>3, <3>1, <3>2 DEF Exists
        <3>3. CASE ~Listed(o)
            <4>1. KindOf[o] = Order[phase + 1] /\ New(o)
                BY <1>8, <2>3, <3>1, <3>3
            <4>2. job'[o] # Idle /\ job'[o].obj = src[o]
                BY <1>3, <1>4, <3>1, <4>1
            <4>3. ASSUME o \in Pods \/ src[o].bound, NEW n \in RefersTo[o]
                  PROVE  Exists(dst, n)
                <5>1. n \in Objects /\ n \in Selected /\ n \notin Pods \cup Volumes
                    <6>1. o \in Pods \cup Volumes
                        BY <3>1, <4>3 DEF IInv, SourceVersions, ObjectKnown
                    <6> QED
                        BY <2>3, <3>1, <4>3, <6>1, ClustersAssumption
                <5>2. Exists(src, n)
                    BY <3>1, <4>3 DEF IInv, ImportGoesOn
                <5>3. Listed(n)
                    <6>1. PICK i \in DOMAIN Order : Order[i] = KindOf[n]
                        BY <5>1, ImporterAssumption, ClustersAssumption
                    <6>2. i < phase + 1
                        BY <1>2, <3>1, <4>1, <4>3, <6>1, ImporterAssumption
                    <6> QED
                        BY <1>2, <6>1, <6>2 DEF Listed
                <5> QED
                    BY <2>2, <3>1, <5>1, <5>2, <5>3
            <4> QED
                BY <1>1, <4>2, <4>3 DEF Importing, Exists
        <3> QED
            BY <3>2, <3>3
    <2> QED
        BY <2>1, <2>3 DEF ImportGoesOn, Exists
<1> QED
    BY <1>5, <1>7, <1>9, <1>10, <1>11 DEF IInv

\* The importer returns, or fails to list a kind.
LEMMA ReturnKeeps ==
    ASSUME IInv, mode = "oneshot", ImportReturns \/ ListFails, UNCHANGED <<syncerVars, mode>>
    PROVE  IInv'
<1>1. /\ UNCHANGED <<src, version, scope, changes, dst, made, job, behind, queue,
                     known, watch, phase, mode>>
      /\ AllCreated /\ phase <= Len(Order) /\ outcome' \in {"done", "failed"}
      /\ outcome' = "done" => phase = Len(Order)
      /\ troubles' \in 0 .. MaxTroubles /\ (troubles' = 0 => troubles = 0)
    BY ObjectStepTypes, ImporterAssumption
       DEF ImportReturns, ListFails, Trouble, srcVars, dstVars, syncerVars, applierVars,
           IInv, TypeOK, ImporterTypeOK
<1>2. TypeOK'
    BY <1>1 DEF IInv, TypeOK, ClustersTypeOK, ApplierTypeOK, SyncerTypeOK, ImporterTypeOK
<1>3. SourceVersions' /\ UidsMade' /\ JobsKnown' /\ EventsKnown' /\ ClaimReferencesAreLocal'
    <2>1. SourceVersions' /\ UidsMade' /\ EventsKnown' /\ ClaimReferencesAreLocal'
        BY <1>1, ClustersKept DEF IInv
    <2>2. JobsKnown'
        BY <1>1 DEF IInv, JobsKnown, DstUid, ClaimOf, ObjectKnown, IsForeign
    <2> QED
        BY <2>1, <2>2
<1>4. Synced'
    BY <1>1 DEF Synced
<1>5. ImporterOnly'
    BY <1>1 DEF IInv, ImporterOnly, Listed, AllCreated, Exists
<1>6. ImportGoesOn'
    BY <1>1 DEF IInv, ImportGoesOn, Listed, Importing, Exists
<1> QED
    BY <1>2, <1>3, <1>4, <1>5, <1>6 DEF IInv

-----------------------------------------------------------------------------
(***************************************************************************)
(* The theorems.                                                           *)
(***************************************************************************)

LEMMA InitOK ==
    ASSUME Init
    PROVE  IInv
<1>1. /\ src \in [Objects -> Instance \cup {Gone}]
      /\ \A o \in Objects : Exists(src, o) =>
            /\ src[o].uid = 1 /\ src[o].ver = 1 /\ src[o].at \in {Nowhere, OnNode}
            /\ src[o].bound => o \in Volumes /\ src[o].at # Nowhere
            /\ o \in scope
    <2> DEFINE f == FirstVersion(1)
    <2>1. f \in Instance /\ f.uid = 1 /\ f.ver = 1 /\ f.at = Nowhere /\ f.bound = FALSE
        BY DEF FirstVersion, Instance, Nowhere
    <2>2. src \in [Objects -> {Gone, f, [f EXCEPT !.at = 1],
                               [f EXCEPT !.at = 1, !.bound = TRUE]}]
        BY DEF Init, ClustersInit
    <2> HIDE DEF f
    <2>3. ASSUME NEW i \in {f, [f EXCEPT !.at = 1], [f EXCEPT !.at = 1, !.bound = TRUE]}
          PROVE  /\ i \in Instance
                 /\ i.uid = 1 /\ i.ver = 1 /\ i.at \in {Nowhere, OnNode}
                 /\ i.bound => i.at # Nowhere
        <3>1. CASE i = f
            BY <2>1, <3>1 DEF Nowhere
        <3>2. CASE i = [f EXCEPT !.at = 1]
            <4>1. i.uid = f.uid /\ i.ver = f.ver /\ i.at = 1 /\ i.bound = f.bound
                BY <2>1, <3>2 DEF Instance
            <4>2. i \in Instance
                BY <2>1, <3>2 DEF Instance
            <4> QED
                BY <2>1, <4>1, <4>2 DEF Nowhere, OnNode
        <3>3. CASE i = [f EXCEPT !.at = 1, !.bound = TRUE]
            <4>1. i.uid = f.uid /\ i.ver = f.ver /\ i.at = 1 /\ i.bound = TRUE
                BY <2>1, <3>3 DEF Instance
            <4>2. i \in Instance
                BY <2>1, <3>3 DEF Instance
            <4> QED
                BY <2>1, <4>1, <4>2 DEF Nowhere, OnNode
        <3> QED
            BY <2>3, <3>1, <3>2, <3>3
    <2>4. \A o \in Objects : Exists(src, o) => o \in scope /\ (src[o].bound => o \in Volumes)
        BY DEF Init, ClustersInit
    <2> QED
        BY <2>2, <2>3, <2>4 DEF Exists
<1>2. /\ version = [o \in Objects |-> 1]
      /\ dst = [o \in Objects |-> Gone] /\ made = [o \in Objects |-> 0]
      /\ job = [o \in Objects |-> Idle] /\ behind = {}
      /\ queue = [k \in Kinds |-> <<>>] /\ known = {}
      /\ watch = [k \in Kinds |-> IF Idling(k) THEN "on" ELSE "none"]
      /\ phase = 0 /\ outcome = "running" /\ changes = 0 /\ troubles = 0
      /\ scope \in Scopes /\ mode \in Modes
    BY DEF Init, ClustersInit, ApplierInit, SyncerInit, ImporterInit
<1>3. TypeOK
    BY <1>1, <1>2, ClustersAssumption, ImporterAssumption
       DEF TypeOK, ClustersTypeOK, ApplierTypeOK, SyncerTypeOK, ImporterTypeOK
<1>4. SourceVersions
    BY <1>1, <1>2, Claims DEF SourceVersions, ObjectKnown, IsForeign, OnNode, Nowhere
<1>5. UidsMade /\ JobsKnown /\ EventsKnown /\ ClaimReferencesAreLocal
    <2>1. UidsMade /\ JobsKnown
        BY <1>2 DEF UidsMade, JobsKnown, Exists
    <2>2. EventsKnown
        BY <1>2 DEF EventsKnown
    <2>3. ClaimReferencesAreLocal
        BY <1>2, Claims DEF ClaimReferencesAreLocal, Exists
    <2> QED
        BY <2>1, <2>2, <2>3
<1>6. Synced
    <2>1. ASSUME NEW o \in Objects
          PROVE  AddsAreNewer(o) /\ EventsAlternate(o) /\ LastIsCurrent(o)
        <3>1. Waiting(o) = {} /\ ~Alive(o) /\ job[o] = Idle /\ o \notin known
            BY <1>2, Types, <1>3 DEF Waiting, Q, Alive, Exists
        <3>2. AddsAreNewer(o)
            BY <1>1, <1>2, <3>1, ClustersAssumption DEF AddsAreNewer, NewerThanAll, DstUid
        <3>3. EventsAlternate(o)
            BY <3>1 DEF EventsAlternate, IsNext, There
        <3>4. LastIsCurrent(o)
            <4>1. Watched(o) => ~Exists(src, o)
                BY <1>1, <1>2, <1>3, Types DEF Watched, Idling, ObjectsOf
            <4> QED
                BY <3>1, <4>1 DEF LastIsCurrent
        <3> QED
            BY <3>2, <3>3, <3>4
    <2> QED
        BY <2>1 DEF Synced
<1>7. ImporterOnly
    BY <1>2 DEF ImporterOnly, Exists, Pods
<1>8. ImportGoesOn
    <2>1. \A o \in Objects : Exists(src, o) /\ (o \in Pods \/ src[o].bound)
             => \A n \in RefersTo[o] : Exists(src, n)
        BY DEF Init, ClustersInit
    <2>2. \A o \in Objects : ~Listed(o)
        BY <1>2 DEF Listed
    <2> QED
        BY <2>1, <2>2, ImporterAssumption DEF ImportGoesOn
<1> QED
    BY <1>3, <1>4, <1>5, <1>6, <1>7, <1>8 DEF IInv

LEMMA StepKeeps ==
    ASSUME IInv, [Next]_vars
    PROVE  IInv'
<1>1. CASE SourceStep
    BY <1>1, SourceKeeps
<1>2. CASE DestinationStep
    BY <1>2, DestinationKeeps
<1>3. CASE RemovalStep
    BY <1>3, RemovalKeeps
<1>4. CASE ApplierStep
    BY <1>4, ApplierKeeps
<1>5. CASE SyncStep
    BY <1>5, ListKeeps, HandlersKeep DEF SyncStep, SyncerStep
<1>6. CASE ImportStep
    BY <1>6, ImportKeeps, ReturnKeeps DEF ImportStep, ImporterStep
<1>7. CASE FaultStep
    BY <1>7, CallFailsKeeps, LoseKeeps, ReturnKeeps DEF FaultStep
<1>8. CASE UNCHANGED vars
    <2>1. UNCHANGED <<src, version, scope, changes, dst, made, troubles, job, behind, queue,
                      known, watch, phase, outcome, mode>>
        BY <1>8 DEF vars, clusterVars, srcVars, dstVars, applierVars, syncerVars, importerVars
    <2>2. TypeOK'
        BY <2>1 DEF IInv, TypeOK, ClustersTypeOK, ApplierTypeOK, SyncerTypeOK, ImporterTypeOK
    <2>3. SourceVersions' /\ UidsMade' /\ JobsKnown' /\ EventsKnown' /\ ClaimReferencesAreLocal'
        <3>1. SourceVersions' /\ UidsMade' /\ EventsKnown' /\ ClaimReferencesAreLocal'
            BY <2>1, ClustersKept DEF IInv
        <3>2. JobsKnown'
            BY <2>1 DEF IInv, JobsKnown, DstUid, ClaimOf, ObjectKnown, IsForeign
        <3> QED
            BY <3>1, <3>2
    <2>4. ASSUME mode = "sync", NEW o \in Objects
          PROVE  SyncedFor(o)'
        <3>1. SyncedFor(o) /\ SameEvents(o)
            BY <2>1, <2>4, QueueKept DEF IInv, Synced, SyncedFor
        <3> QED
            BY <2>1, <3>1, Steady DEF Watched, Alive, Exists
    <2>5. Synced'
        BY <2>1, <2>4 DEF Synced, SyncedFor
    <2>6. ImporterOnly' /\ ImportGoesOn'
        BY <2>1 DEF IInv, ImporterOnly, ImportGoesOn, Listed, AllCreated, Importing, Exists
    <2> QED
        BY <2>2, <2>3, <2>5, <2>6 DEF IInv
<1> QED
    BY <1>1, <1>2, <1>3, <1>4, <1>5, <1>6, <1>7, <1>8 DEF Next

\* Every step keeps the invariant, in every behaviour: the types, what a call
\* and an event hold, and, with the syncer, that the events of an object
\* alternate from what the destination has to what the informer knows.
THEOREM Invariant == Spec => []IInv
<1>1. Init => IInv
    BY InitOK
<1>2. IInv /\ [Next]_vars => IInv'
    BY StepKeeps
<1> QED
    BY <1>1, <1>2, PTL DEF Spec

\* Once the syncer has caught up, the destination has exactly the objects of the
\* source, whatever watches were lost, but for those whose last event failed or
\* that someone removed (syncer.go: the three handlers).
THEOREM SourceIsCopied == Spec => []SameObjects
<1>1. ASSUME IInv, InSync, NEW o \in Objects \ behind
      PROVE  Exists(src, o) <=> Exists(dst, o)
    <2>1. KindOf[o] \in Kinds /\ queue[KindOf[o]] = <<>> /\ watch[KindOf[o]] = "on"
          /\ job[o] = Idle
        BY <1>1, Types DEF IInv, InSync
    <2>2. Waiting(o) = {} /\ Watched(o)
        BY <2>1 DEF Waiting, Q, Watched
    <2>3. EventsAlternate(o) /\ LastIsCurrent(o)
        BY <1>1 DEF IInv, Synced, InSync
    <2>4. o \in known <=> Exists(src, o)
        BY <2>2, <2>3 DEF LastIsCurrent
    <2>5. o \in known <=> Alive(o)
        BY <1>1, <2>1, <2>2, <2>3 DEF EventsAlternate, Followed, There
    <2>6. Alive(o) <=> Exists(dst, o)
        BY <1>1 DEF Alive, InSync
    <2> QED
        BY <2>4, <2>5, <2>6
<1>2. IInv => SameObjects
    BY <1>1 DEF SameObjects
<1> QED
    BY <1>2, Invariant, PTL

\* And they are of the latest version, but for pods on a node.
THEOREM LatestIsCopied == Spec => []SameVersions
<1>1. ASSUME IInv, InSync, NEW o \in Objects \ behind, Exists(src, o), Exists(dst, o),
             o \in Pods => src[o].at = Nowhere
      PROVE  dst[o].ver = src[o].ver
    <2>1. KindOf[o] \in Kinds /\ queue[KindOf[o]] = <<>> /\ watch[KindOf[o]] = "on"
          /\ job[o] = Idle
        BY <1>1, Types DEF IInv, InSync
    <2>2. Waiting(o) = {} /\ Watched(o)
        BY <2>1 DEF Waiting, Q, Watched
    <2>3. LastIsCurrent(o)
        BY <1>1 DEF IInv, Synced, InSync
    <2> QED
        BY <1>1, <2>1, <2>2, <2>3 DEF LastIsCurrent
<1>2. IInv => SameVersions
    BY <1>1 DEF SameVersions
<1> QED
    BY <1>2, Invariant, PTL

\* A volume that was copied as Bound refers to its claim by a UID the claim has or had
\* at the destination; any other that names a claim goes on naming it by its UID in the
\* source (resource.go:45).
THEOREM ClaimsAreLocal == Spec => []ClaimReferencesAreLocal
<1>1. IInv => ClaimReferencesAreLocal
    BY DEF IInv
<1> QED
    BY <1>1, Invariant, PTL

\* An import that nothing disturbed has created everything that was selected
\* together with what it refers to.
THEOREM AllIsImported == Spec => []ImportIsComplete
<1>1. ASSUME IInv, outcome = "done", changes = 0, troubles = 0, NEW o \in Selected,
             Exists(src, o), RefersTo[o] \subseteq Selected
      PROVE  Exists(dst, o)
    <2>1. mode = "oneshot"
        BY <1>1, ModesAssumption DEF IInv, ImporterOnly, TypeOK
    <2>2. phase = Len(Order) /\ AllCreated
        BY <1>1, <2>1 DEF IInv, ImporterOnly
    <2>3. o \in Objects /\ KindOf[o] \in Kinds
        BY ImporterAssumption, ClustersAssumption
    <2>4. Listed(o)
        BY <2>2, <2>3, ImporterAssumption DEF Listed
    <2>5. Exists(dst, o) \/ Importing(o)
        BY <1>1, <2>1, <2>4 DEF IInv, ImportGoesOn
    <2> QED
        BY <2>2, <2>3, <2>5 DEF AllCreated, Importing
<1>2. IInv => ImportIsComplete
    BY <1>1 DEF ImportIsComplete
<1> QED
    BY <1>2, Invariant, PTL

\* No step brings back an object that is gone at the destination: what a step
\* creates was made from an object of the source that is newer than all that was
\* created of it before (syncer.go:101).
THEOREM NothingComesBack == Spec => RemovedStaysRemoved
<1>1. ASSUME IInv, [Next]_vars, NEW o \in Objects, ~Exists(dst, o), Exists(dst', o)
      PROVE  dst'[o].uid > made[o]
    <2>1. PICK c \in Objects : CreateResource(c)
        <3>1. \A c \in Objects : \A value :
                 dst' = [dst EXCEPT ![c] = value] /\ (Exists(dst, c) \/ value = Gone) => FALSE
            BY <1>1, ObjectStepTypes DEF Exists
        <3>2. dst' # dst
            BY <1>1 DEF Exists
        <3>3. ~DestinationStep
            <4>1. ASSUME NEW p \in Pods, DstSchedule(p) \/ DstTerminate(p)
                  PROVE  FALSE
                BY <1>1, <3>1, <4>1, ObjectStepTypes DEF DstSchedule, DstTerminate
            <4> QED
                BY <4>1 DEF DestinationStep
        <3>4. ~RemovalStep
            BY <3>1 DEF RemovalStep, DstRemove
        <3>5. ~SourceStep /\ ~SyncStep /\ ~ImportStep /\ ~FaultStep /\ ~UNCHANGED vars
            BY <3>2 DEF SourceStep, SyncStep, SyncerStep, ListAndWatch, AddFunc, UpdateFunc,
               DeleteFunc, Takes, ImportStep, ImporterStep, ImportResource, ImportReturns,
               FaultStep, CallFails, LoseWatch, ListFails, dstVars, vars, clusterVars
        <3>6. PICK c \in Objects : Apply(c)
            BY <1>1, <3>3, <3>4, <3>5 DEF Next, ApplierStep
        <3>7. ~LookUpClaim(c)
            BY <3>2 DEF LookUpClaim, dstVars
        <3>8. ~UpdateResource(c)
            BY <3>1, <3>2 DEF UpdateResource
        <3>9. ~DeleteResource(c)
            BY <3>1, <3>2 DEF DeleteResource
        <3> QED
            BY <3>6, <3>7, <3>8, <3>9 DEF Apply
    <2>2. /\ ~Exists(dst, c) /\ Admitted(c)
          /\ dst' = [dst EXCEPT ![c] = [Mutated(c) EXCEPT !.uid = DstUid(Mutated(c).uid)]]
          /\ job[c] # Idle /\ job[c].op = "create"
        BY <1>1, <2>1 DEF CreateResource, Calls, dstVars, Exists
    <2>3. o = c
        BY <1>1, <2>2, ObjectStepTypes DEF Exists
    <2>4. made[c] < DstUid(job[c].obj.uid) /\ job[c].obj # Gone
        BY <1>1, <2>2 DEF IInv, JobsKnown
    <2>5. job[c].obj \in Instance
        BY <1>1, <2>2, <2>4, Types DEF IInv, Job
    <2>6. /\ Mutated(c).uid = job[c].obj.uid
          /\ Mutated(c) \in [uid : Nat, ver : Nat, at : {Mutated(c).at}, bound : BOOLEAN]
        BY <2>5 DEF Mutated, Instance
    <2>7. dst'[c].uid = DstUid(job[c].obj.uid)
        BY <1>1, <2>2, <2>6, ObjectStepTypes
    <2>8. made[c] \in Nat /\ DstUid(job[c].obj.uid) \in Nat
        BY <1>1, <2>5, Types DEF IInv, DstUid, Instance
    <2> QED
        BY <2>3, <2>4, <2>7, <2>8
<1>2. IInv /\ [Next]_vars =>
         [\A o \in Objects :
             ~Exists(dst, o) /\ Exists(dst', o) => dst'[o].uid > made[o]]_vars
    BY <1>1
<1> QED
    BY <1>2, Invariant, PTL DEF Spec, RemovedStaysRemoved
=============================================================================
