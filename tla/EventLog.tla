------------------------------ MODULE EventLog ------------------------------
(***************************************************************************)
(* The API server as a watcher sees it: every change is an event with the  *)
(* next resource version; old events are compacted away.                   *)
(***************************************************************************)
EXTENDS Naturals, Sequences, SequencesExt

CONSTANTS Kinds,   \* of resources
          MaxRv    \* bound: changes

VARIABLES log,     \* event i has resource version i
          floor    \* the resource version up to which events are compacted

logVars == <<log, floor>>

\* A uid is the version that created the object.
Event == [kind : Kinds, type : {"ADDED", "MODIFIED", "DELETED"}, uid : 1..MaxRv]

IsEvent(i, k) == log[i].kind = k

\* The objects of a kind as of a version: uid -> version of its last change.
Uids(k, rv) ==
    {u \in 1..rv : IsEvent(u, k) /\ log[u].type = "ADDED"
                   /\ ~\E i \in u..rv : log[i].uid = u /\ log[i].type = "DELETED"}
LastChange(u, rv) == CHOOSE i \in u..rv :
                        log[i].uid = u /\ \A j \in (i + 1)..rv : log[j].uid # u
AsOf(k, rv) == {[uid |-> u, rv |-> LastChange(u, rv)] : u \in Uids(k, rv)}
Now(k) == AsOf(k, Len(log))

\* A list response: its items, and its version.  Items come in the order of
\* their names, which says nothing of their versions.
Listings(k) == SetToSeqs(Now(k))

\* The versions of the events that a watch from rv still has to deliver.
Pending(k, rv) == {i \in (rv + 1)..Len(log) : IsEvent(i, k)}
NextEvent(k, rv) == CHOOSE i \in Pending(k, rv) : \A j \in Pending(k, rv) : i <= j

Change(k) ==
    /\ Len(log) < MaxRv
    /\ \/ log' = Append(log, [kind |-> k, type |-> "ADDED", uid |-> Len(log) + 1])
       \/ \E u \in Uids(k, Len(log)), type \in {"MODIFIED", "DELETED"} :
            log' = Append(log, [kind |-> k, type |-> type, uid |-> u])
    /\ UNCHANGED floor

Compact == floor < Len(log) /\ floor' = Len(log) /\ UNCHANGED log

=============================================================================
