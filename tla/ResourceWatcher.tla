--------------------------- MODULE ResourceWatcher --------------------------
(***************************************************************************)
(* The server's side of the watch API: ListWatch and its goroutines, one   *)
(* for each kind, which share the stream of the response.  Nobody waits    *)
(* for the goroutines when ListWatch returns: they keep the Response of    *)
(* their request, which echo gives to a later one.                         *)
(***************************************************************************)
EXTENDS EventLog

CONSTANTS NoVersion,  \* the client gave no resource version
          Nothing,
          MaxFaults   \* bound: failed lists, broken connections, closed watches

VARIABLES handler,  \* "none", "open", or "returned": ListWatch
          hungUp,   \* the request's context is done
          stop,     \* runctx is: some goroutine has called cancel
          proxy,    \* kind -> its eventProxy and its goroutine
          context,  \* request -> the echo context it was given; the last one is this one
          pooled,   \* the contexts that wait in echo's pool
          left,     \* the goroutines of earlier requests
          wire,     \* what was written and not read yet
          mixed,    \* history: something of it, or of what was read, was not of this request
          faults

poolVars == <<context, pooled, left>>
serverVars == <<handler, hungUp, stop, proxy, poolVars>>

Fault == faults < MaxFaults /\ faults' = faults + 1

\* items: what the list left to send; held: the event taken from the watch.
NewEventProxy(lrv) == [pc |-> "start", lrv |-> lrv, listed |-> 0, items |-> <<>>, held |-> Nothing]
NoProxies == [k \in Kinds |-> [NewEventProxy(NoVersion) EXCEPT !.pc = "ended"]]

\* What a goroutine may still write: items of its list, and events since a version; or all
\* of it, if it has not listed.
Leftover(r, k, p) ==
    [request |-> r, kind |-> k, since |-> IF p.pc = "list" THEN p.listed ELSE p.lrv,
     items |-> IF p.pc = "list" THEN p.items ELSE <<>>]

\* The context is new or from the pool; what runs of the former request is left over.
ListWatch(lrvs) ==
    /\ handler' = "open" /\ hungUp' = FALSE /\ stop' = FALSE
    /\ proxy' = [k \in Kinds |-> NewEventProxy(lrvs[k])]
    /\ \E c \in pooled \cup {Len(context) + 1} :
        context' = Append(context, c) /\ pooled' = pooled \ {c}
    /\ left' = left \cup {Leftover(Len(context), k, proxy[k]) :
                            k \in {j \in Kinds : proxy[j].pc # "ended"}}

\* Either Done channel; the goroutines are not waited for.  The context goes back.
ListWatchReturns ==
    /\ handler = "open" /\ (stop \/ hungUp)
    /\ handler' = "returned" /\ stop' = TRUE
    /\ pooled' = pooled \cup {Last(context)}
    /\ UNCHANGED <<hungUp, proxy, context, left, wire, mixed, faults, logVars>>

\* So does that of an earlier request that was still open.
FormerReturns ==
    /\ context # <<>>
    /\ \E c \in ToSet(context) \ (pooled \cup {Last(context)}) : pooled' = pooled \cup {c}
    /\ UNCHANGED <<handler, hungUp, stop, proxy, context, left, wire, mixed, faults, logVars>>

\* Mutant: a goroutine that ends does not cancel the others.
MutEnds(k) ==
    /\ proxy' = [proxy EXCEPT ![k].pc = "ended", ![k].items = <<>>, ![k].held = Nothing]
    /\ UNCHANGED <<handler, hungUp, stop, poolVars>>

\* run's deferred cancel.
Ends(k) ==
    /\ proxy' = [proxy EXCEPT ![k].pc = "ended", ![k].items = <<>>, ![k].held = Nothing]
    /\ stop' = TRUE
    /\ UNCHANGED <<handler, hungUp, poolVars>>

Goes(k, pc) ==
    /\ proxy' = [proxy EXCEPT ![k].pc = pc]
    /\ UNCHANGED <<handler, hungUp, stop, poolVars>>

\* Mutant: it always lists.
MutDoListAndWatch(k) ==
    /\ proxy[k].pc = "start"
    /\ \E items \in Listings(k) :
        proxy' = [proxy EXCEPT ![k].pc = "list", ![k].items = items, ![k].listed = Len(log)]
    /\ UNCHANGED <<handler, hungUp, stop, poolVars, faults, wire, mixed, logVars>>

\* doListAndWatch lists only when the client gave no version.
DoListAndWatch(k) ==
    /\ proxy[k].pc = "start"
    /\ IF proxy[k].lrv = NoVersion
       THEN \/ /\ \E items \in Listings(k) :
                    proxy' = [proxy EXCEPT ![k].pc = "list", ![k].items = items, ![k].listed = Len(log)]
               /\ UNCHANGED <<handler, hungUp, stop, poolVars, faults>>
            \/ Fault /\ Ends(k)
       ELSE Goes(k, "connect") /\ UNCHANGED faults
    /\ UNCHANGED <<wire, mixed, logVars>>

\* What is written reaches the client.
Live == handler = "open" /\ ~hungUp

\* StreamWriter.Write, one at a time: once nobody listens it fails, or what was
\* written is lost.
Written(e) == wire' = IF Live THEN Append(wire, e) ELSE wire
WriteFails(k) == (hungUp \/ handler = "returned") /\ Ends(k) /\ UNCHANGED wire

\* sendListedItems: the items go out as ADDED events.
SendListedItem(k) ==
    /\ proxy[k].pc = "list" /\ proxy[k].items # <<>>
    /\ \/ LET item == Head(proxy[k].items)
          IN  /\ Written([kind |-> k, type |-> "ADDED", uid |-> item.uid, rv |-> item.rv])
              /\ proxy' = [proxy EXCEPT ![k].items = Tail(@)]
              /\ UNCHANGED <<handler, hungUp, stop, poolVars>>
       \/ WriteFails(k)
    /\ UNCHANGED <<mixed, faults, logVars>>

\* Mutant: the list's version is dropped.
MutListSent(k) ==
    /\ proxy[k].pc = "list" /\ proxy[k].items = <<>>
    /\ proxy' = [proxy EXCEPT ![k].pc = "connect", ![k].listed = 0]
    /\ UNCHANGED <<handler, hungUp, stop, poolVars, wire, mixed, faults, logVars>>

ListSent(k) ==
    /\ proxy[k].pc = "list" /\ proxy[k].items = <<>>
    /\ proxy' = [proxy EXCEPT ![k].pc = "connect", ![k].lrv = proxy[k].listed, ![k].listed = 0]
    /\ UNCHANGED <<handler, hungUp, stop, poolVars, wire, mixed, faults, logVars>>

\* The RetryWatcher starts a watch from its version.  If that is too old it
\* sends an error event, whose object is a Status: the handler cannot cast it,
\* and the goroutine ends.
Connect(k) ==
    /\ proxy[k].pc = "connect"
    /\ IF proxy[k].lrv < floor THEN Ends(k) ELSE Goes(k, "watch")
    /\ UNCHANGED <<wire, mixed, faults, logVars>>

\* The API server closes the watch; the RetryWatcher starts another.
WatchCloses(k) ==
    /\ proxy[k].pc = "watch" /\ proxy[k].held = Nothing /\ Fault
    /\ Goes(k, "connect")
    /\ UNCHANGED <<wire, mixed, logVars>>

\* The select of watchHandlerFunc: an event, even if stopCh is closed as well.
Receive(k) ==
    /\ proxy[k].pc = "watch" /\ proxy[k].held = Nothing /\ Pending(k, proxy[k].lrv) # {}
    /\ proxy' = [proxy EXCEPT ![k].held = NextEvent(k, proxy[k].lrv)]
    /\ UNCHANGED <<handler, hungUp, stop, poolVars, wire, mixed, faults, logVars>>

StopCh(k) ==
    /\ proxy[k].pc = "watch" /\ proxy[k].held = Nothing /\ (stop \/ hungUp) /\ Ends(k)
    /\ UNCHANGED <<wire, mixed, faults, logVars>>

\* The event goes to the client, and the proxy's version with it.
WriteEvent(k) ==
    LET i == proxy[k].held IN
    /\ i # Nothing
    /\ \/ /\ Written([kind |-> k, type |-> log[i].type, uid |-> log[i].uid, rv |-> i])
          /\ proxy' = [proxy EXCEPT ![k].held = Nothing, ![k].lrv = i]
          /\ UNCHANGED <<handler, hungUp, stop, poolVars>>
       \/ WriteFails(k)
    /\ UNCHANGED <<mixed, faults, logVars>>

ProxyStep(k) ==
    \/ DoListAndWatch(k) \/ SendListedItem(k) \/ ListSent(k) \/ Connect(k)
    \/ Receive(k) \/ StopCh(k) \/ WriteEvent(k)

(* The goroutines of earlier requests, which go on until they see that they are to stop. *)

\* It writes to the request that has its context now.
Sends(l, e, since, items) ==
    /\ Live /\ context[l.request] = Last(context)
    /\ wire' = Append(wire, e) /\ mixed' = TRUE
    /\ left' = (left \ {l}) \cup {[l EXCEPT !.since = since, !.items = items]}
    /\ UNCHANGED <<handler, hungUp, stop, proxy, context, pooled, faults, logVars>>

\* An item of its list, which it may have to get first,
LeftoverItem(l) ==
    \E items \in IF l.since = NoVersion THEN Listings(l.kind) ELSE {l.items} :
        /\ items # <<>>
        /\ Sends(l, [kind |-> l.kind, type |-> "ADDED", uid |-> Head(items).uid, rv |-> Head(items).rv],
                 IF l.since = NoVersion THEN Len(log) ELSE l.since, Tail(items))

\* or an event: what came before, it may have written when nobody had the context.
LeftoverEvent(l) ==
    /\ l.since # NoVersion
    /\ \E i \in Pending(l.kind, l.since) :
        Sends(l, [kind |-> l.kind, type |-> log[i].type, uid |-> log[i].uid, rv |-> i], i, <<>>)

LeftoverWrites == \E l \in left : LeftoverItem(l) \/ LeftoverEvent(l)

=============================================================================
