---------------------------- MODULE ResourceView ----------------------------
(***************************************************************************)
(* A client watches the cluster through the server: the cluster changes,   *)
(* the server's goroutines write what they see, the client applies it.     *)
(***************************************************************************)
EXTENDS WebStores

vars == <<logVars, serverVars, wire, mixed, faults, pageVars>>

Init ==
    /\ log = <<>> /\ floor = 0 /\ faults = 0
    /\ handler = "none" /\ hungUp = FALSE /\ stop = FALSE /\ proxy = NoProxies
    /\ context = <<>> /\ pooled = {} /\ left = {} /\ wire = <<>> /\ mixed = FALSE
    /\ mode \in Modes /\ page = Begin(mode)
    /\ store = [k \in Kinds |-> <<>>] /\ lrv = [k \in Kinds |-> NoVersion]

Next ==
    \/ \E k \in Kinds : Change(k) /\ UNCHANGED <<serverVars, wire, mixed, faults, pageVars>>
    \/ Compact /\ UNCHANGED <<serverVars, wire, mixed, faults, pageVars>>
    \/ \E k \in Kinds : (ProxyStep(k) \/ WatchCloses(k)) /\ UNCHANGED pageVars
    \/ (ListWatchReturns \/ FormerReturns \/ LeftoverWrites) /\ UNCHANGED pageVars
    \/ PageStep \/ Breaks \/ Reload

\* Goroutines that can go on do, the page reads, and calls return; changes,
\* faults and reloads need not happen.
Fairness ==
    /\ \A k \in Kinds : WF_vars(ProxyStep(k) /\ UNCHANGED pageVars)
    /\ WF_vars(ListWatchReturns /\ UNCHANGED pageVars)
    /\ WF_vars(PageStep)

Spec == Init /\ [][Next]_vars /\ Fairness

------------------------------------------------------------------------------
\* Properties.

Version == 0..MaxRv \cup {NoVersion}
Item == [uid : 1..MaxRv, rv : 1..MaxRv]
WireEvent == [kind : Kinds, type : {"ADDED", "MODIFIED", "DELETED"}, uid : 1..MaxRv, rv : 1..MaxRv]

Proxy == [pc : {"start", "list", "connect", "watch", "ended"}, lrv : Version, listed : 0..MaxRv,
          items : Seq(Item), held : 1..MaxRv \cup {Nothing}]

\* Every variable has its type.
TypeOK ==
    /\ log \in Seq(Event) /\ Len(log) <= MaxRv /\ floor \in 0..Len(log)
    /\ handler \in {"none", "open", "returned"} /\ hungUp \in BOOLEAN /\ stop \in BOOLEAN
    /\ proxy \in [Kinds -> Proxy]
    /\ context \in Seq(Nat) /\ (handler # "none" => context # <<>>)
    /\ pooled \subseteq Nat /\ mixed \in BOOLEAN
    /\ left \subseteq [request : Nat, kind : Kinds, since : Version, items : Seq(Item)]
    /\ wire \in Seq(WireEvent) /\ faults \in 0..MaxFaults
    /\ mode \in Modes /\ page \in [pc : {"init", "fetch", "read", "terminated"}, at : 0..Len(KindOrder)]
    /\ store \in [Kinds -> Seq(Item)] /\ lrv \in [Kinds -> Version]

\* No goroutine of an earlier request wrote to what the client read since it began.
Undisturbed == ~mixed

\* Until one does, a client shows no object twice, whether it gives the versions of its
\* lists, as the handler reads them, or none and begins with nothing; and what the page
\* shows of a kind is the cluster as it was at the version that it keeps for that kind,
\* nothing missing, across reconnections.
ShowsAPast ==
    \A k \in Kinds : Undisturbed =>
        /\ \A i, j \in DOMAIN store[k] : store[k][i].uid = store[k][j].uid => i = j
        /\ mode = "page" /\ lrv[k] # NoVersion => ToSet(store[k]) = AsOf(k, lrv[k])

------------------------------------------------------------------------------
\* Why ShowsAPast holds: the parts of an inductive invariant.

\* An object is created once, by the event that gives it its uid, keeps its kind, and
\* nothing happens to it after it was deleted.
LogIsReadable ==
    \A i \in 1..Len(log) :
        /\ log[i].uid \in 1..i /\ IsEvent(log[i].uid, log[i].kind) /\ log[log[i].uid].type = "ADDED"
        /\ log[i].type = "ADDED" <=> log[i].uid = i
        /\ \A j \in 1..(i - 1) : log[j].uid = log[i].uid => log[j].type # "DELETED"

\* A goroutine has no version only until its list is out; what it holds is the next
\* event after its version.  A page's goroutines never list.
ProxyInStep(k) ==
    LET p == proxy[k] IN
    /\ p.lrv \in 0..Len(log) \cup {NoVersion} /\ p.listed <= Len(log)
    /\ p.pc \in {"connect", "watch"} => p.lrv # NoVersion
    /\ p.pc = "list" => p.lrv = NoVersion
    /\ p.held # Nothing =>
        /\ p.pc = "watch" /\ p.held \in Pending(k, p.lrv)
        /\ \A j \in Pending(k, p.lrv) : p.held <= j
    /\ mode = "page" /\ p.pc # "ended" => p.lrv # NoVersion

\* Whatever is written was read from the log.
LeftoverInStep(l) ==
    mode = "page" => l.since # NoVersion /\ l.items = <<>>
WrittenOfLog == mode = "page" => \A n \in 1..Len(wire) : wire[n].rv <= Len(log)

\* Only a client that reads has a stream; a page watches when it has listed all kinds;
\* a client without versions begins with nothing.
PageInStep ==
    /\ page.pc # "read" => wire = <<>> /\ ~Live
    /\ page.pc = "init" => /\ mode # "raw" /\ page.at > 0
                           /\ \A i \in 1..(page.at - 1) : lrv[KindOrder[i]] # NoVersion
    /\ page.pc # "init" /\ mode = "page" => \A k \in Kinds : lrv[k] # NoVersion
    /\ page.pc = "fetch" /\ mode = "raw" => \A k \in Kinds : lrv[k] = NoVersion /\ store[k] = <<>>
    /\ mode = "page" => \A k \in Kinds : lrv[k] # NoVersion => lrv[k] <= Len(log)

\* The objects that a client was told of, whether it has read that or not.
Told(k) ==
    {store[k][j].uid : j \in 1..Len(store[k])}
        \cup {wire[n].uid : n \in {m \in 1..Len(wire) : wire[m].kind = k}}

\* Nothing is sent as new to a client that was told of it,
FirstSent(k) ==
    Undisturbed => \A n \in 1..Len(wire) : wire[n].kind = k /\ wire[n].type = "ADDED" =>
        /\ \A j \in 1..Len(store[k]) : store[k][j].uid # wire[n].uid
        /\ \A m \in 1..(n - 1) : wire[m].kind = k => wire[m].uid # wire[n].uid

\* because a list is of what the client was not told, and what the watch adds is newer
\* than all that it was told.
NewToClient(k) ==
    LET p == proxy[k] IN
    Live /\ Undisturbed =>
        /\ p.pc = "start" /\ p.lrv = NoVersion => Told(k) = {}
        /\ p.pc = "list" =>
            /\ \A u \in Told(k) : u <= p.listed /\ \A j \in 1..Len(p.items) : p.items[j].uid # u
            /\ \A j \in 1..Len(p.items) : p.items[j].uid <= p.listed
            /\ \A i, j \in 1..Len(p.items) : p.items[i].uid = p.items[j].uid => i = j
        /\ p.pc # "ended" /\ p.lrv # NoVersion => \A u \in Told(k) : u <= p.lrv

Sent(k) == {n \in 1..Len(wire) : wire[n].kind = k}
After(k) == {i \in 1..Len(log) : IsEvent(i, k) /\ i > lrv[k]}

\* What a page has still to read of a kind are events of the log after its version, in
\* their order, and none is missing,
Streamed(k) ==
    \A n \in Sent(k) :
        /\ wire[n].rv \in After(k)
        /\ log[wire[n].rv].type = wire[n].type /\ log[wire[n].rv].uid = wire[n].uid
        /\ \A m \in Sent(k) : m < n => wire[m].rv < wire[n].rv
        /\ \A i \in After(k) : i < wire[n].rv => \E m \in Sent(k) : wire[m].rv = i

\* up to the version of the goroutine, while that runs.
StreamedUpToProxy(k) ==
    Live /\ proxy[k].pc # "ended" =>
        /\ lrv[k] <= proxy[k].lrv
        /\ \A n \in Sent(k) : wire[n].rv <= proxy[k].lrv
        /\ \A i \in After(k) : i <= proxy[k].lrv => \E m \in Sent(k) : wire[m].rv = i

\* The inductive invariant.
IInv ==
    /\ TypeOK /\ LogIsReadable /\ PageInStep /\ WrittenOfLog /\ ShowsAPast
    /\ \A l \in left : LeftoverInStep(l)
    /\ \A k \in Kinds :
        /\ ProxyInStep(k) /\ FirstSent(k) /\ NewToClient(k)
        /\ mode = "page" /\ page.pc = "read" /\ ~mixed => Streamed(k) /\ StreamedUpToProxy(k)

------------------------------------------------------------------------------
\* When the cluster changes no more, a client ends up with what is there, or is
\* told that the stream has ended, unless another request's goroutine wrote to it.
CatchesUp ==
    <>[](page.pc = "terminated" \/ mixed \/ \A k \in Kinds : ToSet(store[k]) = Now(k))

=============================================================================
