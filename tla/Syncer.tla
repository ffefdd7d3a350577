------------------------------- MODULE Syncer -------------------------------
(***************************************************************************)
(* The syncer: one informer per kind, and the handler that passes each of  *)
(* its events to the resource applier.                                     *)
(*                                                                         *)
(* Run starts the informers one after another.  It waits for the factory's *)
(* caches in between, but the factory has started none of them, so that    *)
(* the informers list and watch side by side.  Each of them has a handler  *)
(* goroutine that works off its events one at a time.                      *)
(***************************************************************************)
EXTENDS ResourceApplier, SequencesExt

VARIABLES
    queue,  \* the events of each kind that its handler has yet to take
    known,  \* the objects in the informers' stores
    watch   \* the state of each kind's watch

syncerVars == <<queue, known, watch>>

Event == [type : {"add", "update", "delete", "tombstone"}, o : Objects,
          obj : Instance \cup {Gone}]

SyncerTypeOK ==
    /\ queue \in [Kinds -> Seq(Event)]
    /\ known \in SUBSET Objects
    /\ watch \in [Kinds -> {"none", "on", "lost"}]

ObjectsOf(k) == {o \in Objects : KindOf[o] = k}

\* Kinds whose objects are all out of scope: their watches never matter.
Idling(k) == ObjectsOf(k) \cap scope = {}

SyncerInit ==
    /\ queue = [k \in Kinds |-> <<>>]
    /\ known = {}
    /\ watch = [k \in Kinds |-> IF Idling(k) THEN "on" ELSE "none"]

-----------------------------------------------------------------------------
(***************************************************************************)
(* The informers (client-go).                                              *)
(***************************************************************************)

\* The event that takes an informer's store to the object it has read now.
EventOf(o, now, gone) ==
    [type |-> IF now = Gone THEN gone
              ELSE IF o \in known THEN "update" ELSE "add",
     o |-> o, obj |-> now]

\* A watch reports the change of o that is part of this step.
Notify(o) ==
    LET k == KindOf[o] IN
    /\ IF watch[k] = "on"
         THEN /\ queue' = [queue EXCEPT ![k] =
                             Append(@, EventOf(o, src'[o], "delete"))]
              /\ known' = IF Exists(src', o) THEN known \cup {o}
                                             ELSE known \ {o}
         ELSE UNCHANGED <<queue, known>>
    /\ UNCHANGED watch

\* An informer lists its kind, for the first time or after it lost its watch,
\* and watches it from there on.  What is no longer in the list was deleted
\* without the informer seeing it, and is reported by a tombstone.
ListAndWatch(k) ==
    /\ watch[k] # "on"
    /\ LET listed == {o \in ObjectsOf(k) : Exists(src, o)}
           missed == known \cap ObjectsOf(k)
       IN /\ \E order \in SetToSeqs(listed \cup missed) :
                queue' = [queue EXCEPT ![k] = @ \o
                            [i \in DOMAIN order |->
                               EventOf(order[i], src[order[i]], "tombstone")]]
          /\ known' = (known \ missed) \cup listed
    /\ watch' = [watch EXCEPT ![k] = "on"]
    /\ UNCHANGED <<srcVars, dstVars, troubles, applierVars>>

LoseWatch(k) ==
    /\ watch[k] = "on"
    /\ ~Idling(k)
    /\ Trouble
    /\ watch' = [watch EXCEPT ![k] = "lost"]
    /\ UNCHANGED <<srcVars, dstVars, applierVars, queue, known>>

-----------------------------------------------------------------------------
(***************************************************************************)
(* The event handlers.                                                     *)
(***************************************************************************)

\* The handler of kind k is free and takes its next event, e.
Takes(k, types) ==
    /\ queue[k] # <<>>
    /\ Head(queue[k]).type \in types
    /\ \A o \in ObjectsOf(k) : job[o] = Idle
    /\ queue' = [queue EXCEPT ![k] = Tail(@)]
    /\ UNCHANGED <<srcVars, dstVars, troubles, known, watch>>

AddFunc(k) ==
    /\ Takes(k, {"add"})
    /\ LET e == Head(queue[k]) IN
         job' = [job EXCEPT ![e.o] = Begin(e.o, "create", e.obj)]
    /\ UNCHANGED behind

UpdateFunc(k) ==
    /\ Takes(k, {"update"})
    /\ LET e == Head(queue[k]) IN
         job' = [job EXCEPT ![e.o] = Begin(e.o, "update", e.obj)]
    /\ UNCHANGED behind

\* Mutant: deletions are not handled.
MutDeleteFunc(k) ==
    /\ Takes(k, {"delete", "tombstone"})
    /\ UNCHANGED applierVars

\* Mutant: a tombstone is passed on like an object.
MutTombstone(k) ==
    /\ Takes(k, {"delete", "tombstone"})
    /\ LET e == Head(queue[k]) IN
         job' = [job EXCEPT ![e.o] = Begin(e.o, e.type, e.obj)]
    /\ UNCHANGED behind

\* A tombstone is not an object and is dropped.
DeleteFunc(k) ==
    /\ Takes(k, {"delete", "tombstone"})
    /\ LET e == Head(queue[k]) IN
         IF e.type = "tombstone"
           THEN /\ behind' = behind \cup {e.o}
                /\ UNCHANGED job
           ELSE /\ job' = [job EXCEPT ![e.o] = Begin(e.o, "delete", e.obj)]
                /\ UNCHANGED behind

SyncerStep(k) ==
    \/ ListAndWatch(k)
    \/ AddFunc(k)
    \/ UpdateFunc(k)
    \/ DeleteFunc(k)
=============================================================================
