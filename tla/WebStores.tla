------------------------------ MODULE WebStores -----------------------------
(***************************************************************************)
(* The web page: it lists every kind into its store, watches from there,   *)
(* and applies what it reads.  A store is the sequence of its items; the   *)
(* pods' one, which is split by node, finds an item in any of the parts.   *)
(* Another client gives no versions.  One that gives them under the names  *)
(* of docs/api.md, which are not those the handler reads, is served alike. *)
(***************************************************************************)
EXTENDS ResourceWatcher

CONSTANTS KindOrder,  \* in which the page lists the kinds
          Modes       \* of clients: "page", "raw"

\* Versions are numbers, and a page lists every kind.
ASSUME ViewAssumption ==
    /\ MaxRv \in Nat /\ MaxFaults \in Nat /\ NoVersion \notin Nat /\ Nothing \notin Nat
    /\ Modes \subseteq {"page", "raw"}
    /\ KindOrder \in Seq(Kinds) /\ KindOrder # <<>>
    /\ \A k \in Kinds : \E i \in 1..Len(KindOrder) : KindOrder[i] = k

VARIABLES mode,
          page,   \* [pc, at]: what the client is about to do
          store,  \* kind -> the items shown
          lrv     \* kind -> lastResourceVersion

pageVars == <<mode, page, store, lrv>>

\* addResourceToState and addPodToState push, whatever is there.
Added(items, x) == Append(items, x)

IndexOf(items, uid) == SelectInSeq(items, LAMBDA x : x.uid = uid)

\* The pods' functions throw for want of the item only after they added it, and
\* nobody looks at the exception.
Modified(items, x) ==
    LET i == IndexOf(items, x.uid)
    IN  IF i = 0 THEN Added(items, x) ELSE Added(RemoveAt(items, i), x)

Deleted(items, x) ==
    LET i == IndexOf(items, x.uid)
    IN  IF i = 0 THEN items ELSE RemoveAt(items, i)

\* watchEventHandler, then setLastResourceVersion.
Handle(e) ==
    LET x == [uid |-> e.uid, rv |-> e.rv] IN
    /\ store' = [store EXCEPT ![e.kind] = CASE e.type = "ADDED" -> Added(@, x)
                                            [] e.type = "MODIFIED" -> Modified(@, x)
                                            [] e.type = "DELETED" -> Deleted(@, x)]
    /\ lrv' = [lrv EXCEPT ![e.kind] = e.rv]

\* onMounted: initList of one kind after the other, then the watch.  (A list
\* that fails leaves a page without a watch; it is not modelled.)
InitList ==
    /\ page.pc = "init"
    /\ LET k == KindOrder[page.at]
       IN  /\ \E items \in Listings(k) : store' = [store EXCEPT ![k] = items]
           /\ lrv' = [lrv EXCEPT ![k] = Len(log)]
    /\ page' = IF page.at = Len(KindOrder) THEN [pc |-> "fetch", at |-> 0]
                                           ELSE [page EXCEPT !.at = @ + 1]
    /\ UNCHANGED <<mode, serverVars, wire, mixed, faults, logVars>>

\* The versions that the handler reads: its parameters are those of the page.
LastResourceVersions == IF mode = "page" THEN lrv ELSE [k \in Kinds |-> NoVersion]

\* watchResources, now or five seconds after an error.  The former handler need not
\* have returned.
WatchResources ==
    /\ page.pc = "fetch"
    /\ ListWatch(LastResourceVersions) /\ wire' = <<>>
    /\ page' = [page EXCEPT !.pc = "read"]
    /\ UNCHANGED <<mode, store, lrv, mixed, faults, logVars>>

\* processText: one line of the stream.
ProcessText ==
    /\ page.pc = "read" /\ wire # <<>>
    /\ Handle(Head(wire)) /\ wire' = Tail(wire)
    /\ UNCHANGED <<mode, page, serverVars, mixed, faults, logVars>>

\* The stream has ended: the page says so, and does not watch any more.
Done ==
    /\ page.pc = "read" /\ wire = <<>> /\ handler = "returned"
    /\ page' = [page EXCEPT !.pc = "terminated"]
    /\ UNCHANGED <<mode, store, lrv, serverVars, wire, mixed, faults, logVars>>

\* The connection breaks: the page watches again from the versions it has; a
\* client without versions starts anew.
Begin(m) == IF m = "raw" THEN [pc |-> "fetch", at |-> 0] ELSE [pc |-> "init", at |-> 1]
Fresh(m) == /\ page' = Begin(m)
            /\ store' = [k \in Kinds |-> <<>>] /\ lrv' = [k \in Kinds |-> NoVersion]
            /\ mixed' = FALSE
            /\ UNCHANGED mode
Breaks ==
    /\ page.pc = "read" /\ Fault
    /\ hungUp' = TRUE /\ wire' = <<>>
    /\ IF mode = "raw" THEN Fresh(mode)
       ELSE page' = [page EXCEPT !.pc = "fetch"] /\ UNCHANGED <<mode, store, lrv, mixed>>
    /\ UNCHANGED <<handler, stop, proxy, poolVars, logVars>>

\* The user reloads a page that says so.
Reload ==
    /\ page.pc = "terminated" /\ Fault /\ Fresh(mode) /\ wire' = <<>>
    /\ UNCHANGED <<serverVars, logVars>>

PageStep == InitList \/ WatchResources \/ ProcessText \/ Done

=============================================================================
