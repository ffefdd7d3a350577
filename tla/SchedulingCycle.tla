-------------------------- MODULE SchedulingCycle ---------------------------
(***************************************************************************)
(* The scheduling of one pod by the debuggable scheduler: the framework    *)
(* calls wrapped plugins, all of them at every point, and extenders        *)
(* through the proxy; the wrapper calls the user's hooks and the original  *)
(* plugin, and records what the original said.  The reflector may empty    *)
(* the stores at any moment (StoreReflector has its steps).                *)
(***************************************************************************)
EXTENDS PluginResults, ExtenderProxy, SequencesExt

CONSTANTS
    Nodes,
    Profile,     \* the plugins of the profile, in order
    Implements,  \* the points that each original plugin implements
    Hooked,      \* <<plugin, point>> for which the user has a PluginExtender
    NodeSets,    \* bound: the sets of nodes that a PreFilter may leave
    Weight,      \* the scheduler's own weights
    MaxScore,    \* the highest score a plugin gives
    Ratings,     \* bound: the scores that a plugin may give a node
    Priorities,  \* bound: the priorities that an extender may answer
    MaxCycles,   \* bound: scheduling attempts of the pod
    Leftovers,   \* what earlier attempts may have left in the store, or NoData
    MaxReflects, \* bound: how often the reflector deletes an entry
    NoAnswer

VARIABLES
    point, todo, lane, alive, skipped, waiting, score, extScore, node, cycles,
    answer,   \* what an original plugin or a real extender said last
    held,     \* originals that hold a reservation
    store,    \* the pod's entry in the plugin result store
    extStore, \* the pod's entry in the extender result store
    reflects, \* deletions so far
    whole,    \* history: the entries hold this cycle's results, and only them
    dryRun    \* history: a preemption tried filters on imagined nodes

Plugins == {Profile[i] : i \in DOMAIN Profile}
Scale == MaxNode \div MaxExtender
ExtPoints == {"ExtFilter", "ExtPrioritize", "ExtBind"}
PluginPoints == {"PreFilter", "Filter", "PostFilter", "PreScore", "Score", "Normalize",
                 "Reserve", "Permit", "PreBind", "Bind", "PostBind", "Unreserve"}

ASSUME ProfileAssumption ==
    /\ Profile \in Seq(Plugins)
    /\ Weight \in [Plugins -> Nat]
    /\ Implements \in [Plugins -> SUBSET PluginPoints]
    /\ Hooked \subseteq Plugins \X PluginPoints
    /\ \A i, j \in DOMAIN Profile : Profile[i] = Profile[j] => i = j

\* NewWrappedPlugin keeps the original under each interface it implements
\* (Unreserve is a method of the Reserve plugins).
Original(p, pt) == (IF pt = "Unreserve" THEN "Reserve" ELSE pt) \in Implements[p]

\* wrappedPlugin has every method but QueueSort's, so a profile of wrapped
\* plugins has all of them at every point; only its score extensions are
\* there or not as the original's are.
ScoreExtensions(p) == Original(p, "Score") /\ Original(p, "Normalize")
ListAt == [pt \in PluginPoints \cup ExtPoints |->
    CASE pt = "ExtFilter" -> Calling("filter")
      [] pt = "ExtPrioritize" -> Calling("prioritize")
      [] pt = "ExtBind" -> Calling("bind")
      [] pt = "Normalize" -> Selected(Profile, {p \in Plugins : ScoreExtensions(p)})
      [] pt = "Unreserve" -> Reverse(Profile)
      [] OTHER -> Profile]

\* The cluster, and what may be answered: a score, and what the normalization
\* makes of it, lies between 0 and MaxScore.
ASSUME CycleAssumption ==
    /\ IsFiniteSet(Nodes) /\ Nodes # {} /\ NoNode \notin Nodes
    /\ MaxCycles \in Nat /\ MaxReflects \in Nat
    /\ NodeSets \subseteq SUBSET Nodes
    /\ MaxScore \in Nat /\ Ratings \in [Plugins -> [Nodes -> SUBSET (0..MaxScore)]]
    /\ Priorities \subseteq [Nodes -> Nat]

ExtWeight == [i \in Ids |-> Extenders[i].weight]

fw == <<point, todo, lane, alive, skipped, waiting, score, extScore, node, cycles>>

\* The scheduler that drives the wrapped plugins.
FW == INSTANCE Framework WITH Exts <- Ids

\* What is left to be called, for a scheduler that has the originals only.
Unwrapped(ps, pt) ==
    IF pt \in PluginPoints THEN Selected(ps, {p \in Plugins : Original(p, pt)}) ELSE ps
Promise == INSTANCE OriginalCycle WITH
    Exts <- Ids,
    Served <- [v \in Verbs |-> [i \in Ids |-> [url |-> Extenders[i].url, verb |-> Extenders[i].verb[v]]]],
    ProxyFactor <- [i \in Ids |-> prioritized(i, 1)],
    ListAt <- [pt \in DOMAIN ListAt |-> Unwrapped(ListAt[pt], pt)],
    todo <- Unwrapped(todo, point),
    lane <- [n \in Nodes |-> Unwrapped(lane[n], point)]

------------------------------------------------------------------------------
\* The ways through a wrapped method: the original is not there and the
\* neutral answer is returned; or a Before hook returns another status than
\* Success, and the original is not run; or the original is run, and an After
\* hook may return something else than it.
Unran(s, v) == [ran |-> FALSE, s |-> s, v |-> v, said |-> NoAnswer]
Ran(a, b) == [ran |-> TRUE, s |-> b.s, v |-> b.v, said |-> a]

Before(p, pt, says) ==
    IF <<p, pt>> \in Hooked THEN {Unran(b.s, b.v) : b \in {c \in says : c.s # "Success"}} ELSE {}
AfterHook(p, pt, a, says) == IF <<p, pt>> \in Hooked THEN says ELSE {a}

Ways(p, pt, says, neutral) ==
    IF Original(p, pt)
    THEN Before(p, pt, says) \cup UNION {{Ran(a, b) : b \in AfterHook(p, pt, a, says)} : a \in says}
    ELSE {neutral}

\* What comes of a way: the original's answer, and its recording.
Heard(w) == answer' = IF w.ran THEN w.said ELSE answer
Recorded(w, r) == store' = IF w.ran THEN r ELSE store
Rest == UNCHANGED <<held, extStore, reflects, whole, dryRun>>

\* The message recorded with a status: "success" or "passed", "wait", or the
\* status' own.
Message(s) == s

\* Mutant of PreFilter: like a score, recorded only on success.
MutPreFilter(p) ==
    \E w \in Ways(p, "PreFilter", Promise!PreFilterSays, Unran("Success", Nodes)) :
        /\ FW!PreFilterReturned(p, w.s, w.v)
        /\ Recorded(w, IF w.said.s = "Success"
                       THEN AddPreFilterResult(store, p, Message(w.said.s), w.said.v # Nodes, w.said.v)
                       ELSE store)
        /\ Heard(w) /\ Rest

PreFilter(p) ==
    \E w \in Ways(p, "PreFilter", Promise!PreFilterSays, Unran("Success", Nodes)) :
        /\ FW!PreFilterReturned(p, w.s, w.v)
        /\ Recorded(w, AddPreFilterResult(store, p, Message(w.said.s), w.said.v # Nodes, w.said.v))
        /\ Heard(w) /\ Rest

FilterWays(p) == Ways(p, "Filter", Promise!FilterSays, Unran("Success", "none"))
Filter(p, n) ==
    \E w \in FilterWays(p) :
        /\ FW!FilterReturned(p, n, w.s)
        /\ Recorded(w, AddFilterResult(store, n, p, Message(w.said.s)))
        /\ Heard(w) /\ Rest

\* The neutral answer makes the scheduler go on to the next plugin.
PostFilter(p) ==
    \E w \in Ways(p, "PostFilter", Promise!PostFilterSays, Unran("Unschedulable", NoNode)) :
        /\ FW!PostFilterReturned(p, w.s)
        /\ Recorded(w, AddPostFilterResult(store, w.said.v, p, Nodes))
        /\ Heard(w) /\ Rest

PreScore(p) ==
    \E w \in Ways(p, "PreScore", Promise!PreScoreSays, Unran("Success", "none")) :
        /\ FW!PreScoreReturned(p, w.s)
        /\ Recorded(w, AddPreScoreResult(store, p, Message(w.said.s)))
        /\ Heard(w) /\ Rest

\* A score is recorded only if the original succeeded.
Score(p, n) ==
    \E w \in Ways(p, "Score", Promise!ScoreSays(p, n), Unran("Success", 0)) :
        /\ FW!ScoreReturned(p, n, w.s, w.v)
        /\ Recorded(w, IF w.said.s = "Success" THEN AddScoreResult(store, n, p, w.said.v) ELSE store)
        /\ Heard(w) /\ Rest

\* The scores are normalized in place, and recorded one by one (the reflector
\* cannot empty the store between two of them here).
NormalizeScore(p) ==
    \E w \in Ways(p, "Normalize", Promise!NormalizeSays, Unran("Success", "none")) :
        LET v == IF w.ran THEN Promise!Normalized(p) ELSE score[p]
        IN  /\ FW!NormalizeReturned(p, w.s, v)
            /\ Recorded(w, IF w.said.s = "Success"
                           THEN AddNormalizedScoreResult(store, alive, p, v)
                           ELSE store)
            /\ Heard(w) /\ Rest

\* The selected node is recorded before anything else, by every plugin.
Reserve(p) ==
    \E w \in Ways(p, "Reserve", Promise!ReserveSays, Unran("Success", "none")) :
        LET selected == AddSelectedNode(store, node)
        IN  /\ FW!ReserveReturned(p, w.s)
            /\ store' = IF w.ran THEN AddReserveResult(selected, p, Message(w.said.s)) ELSE selected
            /\ held' = IF w.ran THEN held \cup {p} ELSE held
            /\ Heard(w) /\ UNCHANGED <<extStore, reflects, whole, dryRun>>

Permit(p) ==
    \E w \in Ways(p, "Permit", Promise!PermitSays, Unran("Success", "none")) :
        /\ FW!PermitReturned(p, w.s)
        /\ Recorded(w, AddPermitResult(store, p, Message(w.said.s)))
        /\ Heard(w) /\ Rest

PreBind(p) ==
    \E w \in Ways(p, "PreBind", Promise!PreBindSays, Unran("Success", "none")) :
        /\ FW!PreBindReturned(p, w.s)
        /\ Recorded(w, AddPreBindResult(store, p, Message(w.said.s)))
        /\ Heard(w) /\ Rest

\* Mutant of Bind: without an original, Success instead of Skip.
MutBind(p) ==
    \E w \in Ways(p, "Bind", Promise!BindSays, Unran("Success", "none")) :
        /\ FW!BindReturned(p, w.s)
        /\ Recorded(w, AddBindResult(store, p, Message(w.said.s)))
        /\ Heard(w) /\ Rest

Bind(p) ==
    \E w \in Ways(p, "Bind", Promise!BindSays, Unran("Skip", "none")) :
        /\ FW!BindReturned(p, w.s)
        /\ Recorded(w, AddBindResult(store, p, Message(w.said.s)))
        /\ Heard(w) /\ Rest

\* Both return nothing, and record nothing; a hook may keep the original out.
PostBind(p) == FW!VoidReturned("PostBind", p) /\ UNCHANGED <<answer, store>> /\ Rest

\* Mutant of UnreserveRuns: the check for an original is another point's.
MutUnreserveRuns(p) == {Original(p, "PreBind")}

UnreserveRuns(p) == IF ~Original(p, "Unreserve") THEN {FALSE}
                    ELSE {TRUE} \cup (IF <<p, "Unreserve">> \in Hooked THEN {FALSE} ELSE {})
Unreserve(p) ==
    /\ FW!VoidReturned("Unreserve", p)
    /\ \E ran \in UnreserveRuns(p) : held' = IF ran THEN held \ {p} ELSE held
    /\ UNCHANGED <<answer, store, extStore, reflects, whole, dryRun>>

\* Preemption tries the profile's filters, wrapped like everywhere, on copies
\* of the nodes without some of their pods (by an original that is not hooked).
Preempting == /\ point = "PostFilter" /\ todo # <<>>
              /\ Original(Head(todo), "PostFilter") /\ <<Head(todo), "PostFilter">> \notin Hooked
DryRunFilter(p, n) ==
    /\ Preempting
    /\ \E w \in FilterWays(p) : Recorded(w, AddFilterResult(store, n, p, Message(w.said.s)))
    /\ dryRun' = TRUE
    /\ UNCHANGED <<fw, answer, held, extStore, reflects, whole>>

------------------------------------------------------------------------------
\* The proxy.  The answer comes from the extender that the call was routed to,
\* and is recorded unless the call failed.
Answered(v, i, a, res) ==
    /\ answer' = [from |-> Route(v, i), says |-> a]
    /\ extStore' = IF a.s THEN AddResult(extStore, v, i, res) ELSE extStore
    /\ UNCHANGED <<held, store, reflects, whole, dryRun>>

ExtFilter(i) ==
    \E a \in Promise!ExtFilterSays :
        FW!ExtFilterReturned(i, a.s, a.v) /\ Answered("filter", i, a, a.v)

Ranks(i, v) == [n \in Nodes |-> prioritized(i, v[n])]
ExtPrioritize(i) ==
    \E a \in Promise!ExtPrioritizeSays :
        LET res == Ranks(i, a.v)
        IN  FW!ExtPrioritizeReturned(i, a.s, res) /\ Answered("prioritize", i, a, res)

ExtBind(i) ==
    \E a \in Promise!ExtBindSays :
        FW!ExtBindReturned(i, a.s) /\ Answered("bind", i, a, "bound")

\* Preemption asks the extenders that have the verb.
ExtPreempt(i) ==
    /\ Preempting /\ Calls(i, "preempt")
    /\ extStore' = AddResult(extStore, "preempt", i, "victims")
    /\ UNCHANGED <<fw, answer, held, store, reflects, whole, dryRun>>

------------------------------------------------------------------------------
Init ==
    /\ FW!FrameworkInit
    /\ answer = NoAnswer /\ held = {}
    /\ store \in Leftovers /\ extStore = NoResults /\ reflects = 0
    /\ whole = FALSE /\ dryRun = FALSE

Begin ==
    /\ FW!Begin
    /\ whole' = (store = NoData /\ extStore = NoResults) /\ dryRun' = FALSE
    /\ answer' = NoAnswer /\ UNCHANGED <<held, store, extStore, reflects>>

Scheduler ==
    /\ FW!Advance \/ FW!WaitOnPermit
    /\ answer' = NoAnswer /\ UNCHANGED <<held, store, extStore, reflects, whole, dryRun>>

\* The reflector has reflected a store's entry and deletes it.
Reflect ==
    /\ reflects < MaxReflects /\ reflects' = reflects + 1
    /\ \/ store # NoData /\ store' = NoData /\ UNCHANGED extStore
       \/ extStore # NoResults /\ extStore' = NoResults /\ UNCHANGED store
    /\ whole' = FALSE
    /\ UNCHANGED <<fw, answer, held, dryRun>>

Next ==
    \/ Begin \/ Scheduler \/ Reflect
    \/ \E p \in Plugins :
        \/ PreFilter(p) \/ PostFilter(p) \/ PreScore(p) \/ NormalizeScore(p)
        \/ Reserve(p) \/ Permit(p) \/ PreBind(p) \/ Bind(p) \/ PostBind(p) \/ Unreserve(p)
        \/ \E n \in Nodes : Filter(p, n) \/ Score(p, n) \/ DryRunFilter(p, n)
    \/ \E i \in Ids : ExtFilter(i) \/ ExtPrioritize(i) \/ ExtBind(i) \/ ExtPreempt(i)

vars == <<fw, answer, held, store, extStore, reflects, whole, dryRun>>

Spec == Init /\ [][Next]_vars

------------------------------------------------------------------------------
\* Properties.

\* The maps that the stores hold for a pod.
MapOf(K, V) == UNION {[D -> V] : D \in SUBSET K}
StatusMap == MapOf(Plugins, FW!Statuses)
NodeMap(V) == MapOf(Nodes, MapOf(Plugins, V))
Weighted == {applyWeightOnScore(p, v) : p \in Plugins, v \in 0..MaxScore}
PodResults ==
    [selectedNode : Nodes \cup {NoNode}, preFilterStatus : StatusMap,
     preFilterResult : MapOf(Plugins, SUBSET Nodes), filter : NodeMap(FW!Statuses),
     postFilter : NodeMap({"nominated"}), preScore : StatusMap, score : NodeMap(0..MaxScore),
     finalScore : NodeMap(Weighted), reserve : StatusMap, permit : StatusMap,
     prebind : StatusMap, bind : StatusMap]
Ranked == {Ranks(i, v) : i \in Ids, v \in Priorities}
Urls == {Extenders[i].url : i \in Ids}
ExtResults ==
    [filter : MapOf(Urls, SUBSET Nodes),
     prioritize : MapOf(Urls, Ranked),
     preempt : MapOf(Urls, {"victims"}), bind : MapOf(Urls, {"bound"})]

ASSUME StoreAssumption ==
    /\ NoData \notin PodResults /\ NoResults \notin ExtResults
    /\ Leftovers \subseteq PodResults \cup {NoData}

\* Types: the scheduler's state, and stores that only know the profile's
\* plugins, the cluster's nodes and the configured extenders.
TypeOK ==
    /\ FW!FrameworkTypeOK
    /\ held \subseteq Plugins
    /\ reflects \in 0..MaxReflects /\ whole \in BOOLEAN /\ dryRun \in BOOLEAN
    /\ store \in PodResults \cup {NoData}
    /\ extStore \in ExtResults \cup {NoResults}

\* The wrapped plugin "behaves as if it is original plugin": the scheduler
\* takes the decisions it would take with the original plugins and the real
\* extenders, but for hooks, and for the proxy's factor on priorities.
BehavesAsOriginal == Promise!Spec

\* What the annotations would say of this cycle.
Unhooked(pt) == \A p \in Plugins : <<p, pt>> \notin Hooked
OneUrlEach == \A i, j \in Ids : Extenders[i].url = Extenders[j].url => i = j
Recording(f, p, s) == p \in DOMAIN Data(store)[f] /\ Data(store)[f][p] = s
PassedPreFilter(n) ==
    /\ \A p \in Plugins : ~Recording("preFilterStatus", p, "Unschedulable")
    /\ \A p \in DOMAIN Data(store).preFilterResult : n \in Data(store).preFilterResult[p]
PassedFilter(n) ==
    \A p \in DOMAIN At(Data(store).filter, n) : At(Data(store).filter, n)[p] = "Success"
PassedExtenders(n) ==
    \A u \in DOMAIN Results(extStore)["filter"] : n \in Results(extStore)["filter"][u]

\* The recorded results tell which nodes the scheduler has rejected: each
\* rejection has its reason among them, and none of the others does, until a
\* preemption tries the filters on imagined nodes.  A hook may overrule what is
\* recorded, and extenders under one URL write over each other's nodes.
RejectionsExplained ==
    whole /\ ~dryRun /\ Unhooked("PreFilter") /\ Unhooked("Filter") /\ OneUrlEach =>
        alive = {n \in Nodes : PassedPreFilter(n) /\ PassedFilter(n) /\ PassedExtenders(n)}

\* What the recorded results count for a node.  The result store knows the
\* weights from NewRegistry, the scheduler from its profile.
WeightsKnown == \A p \in Plugins : p \in DOMAIN StoreWeight /\ StoreWeight[p] = Weight[p]
finalScores == Data(store).finalScore
priorities == Results(extStore)["prioritize"]
Counted(i, n) ==
    LET u == Extenders[i].url
    IN  IF u \in DOMAIN priorities THEN priorities[u][n] * ExtWeight[i] * Scale ELSE 0
Explained(n) ==
    SumFunctionOnSet(finalScores[n], DOMAIN finalScores[n]) +
    SumFunctionOnSet([i \in Ids |-> Counted(i, n)], Ids)

\* The recorded final scores explain the choice: no scored node has more than
\* the selected one, with the extenders' recorded priorities counted as the
\* scheduler counts them, if both know the same weights.  Again a hook may
\* overrule what is recorded, and extenders under one URL write over each other.
Explaining == whole /\ WeightsKnown /\ Unhooked("Score") /\ Unhooked("Normalize") /\ OneUrlEach
DecisionExplained ==
    Explaining /\ node # NoNode /\ DOMAIN finalScores # {} =>
        /\ node \in DOMAIN finalScores
        /\ \A n \in DOMAIN finalScores : Explained(n) <= Explained(node)

\* A bound pod's results say on which node and by whom (a plugin or an extender,
\* unless a hook had its way), and hold no refusal of a plugin but one that a
\* hook overruled.
BoundByPlugin == \E p \in Plugins : Recording("bind", p, "Success")
BoundByExtender == DOMAIN Results(extStore)["bind"] # {}
NoneRefused ==
    \A p \in Plugins :
        /\ Recording("prebind", p, "Unschedulable") => <<p, "PreBind">> \in Hooked
        /\ Recording("reserve", p, "Unschedulable") => <<p, "Reserve">> \in Hooked
        /\ Recording("permit", p, "Unschedulable") => <<p, "Permit">> \in Hooked
OutcomeExplained ==
    whole /\ point = "Bound" =>
        /\ store # NoData => store.selectedNode = node
        /\ Unhooked("Bind") => BoundByPlugin # BoundByExtender
        /\ NoneRefused

\* When an attempt has failed no original holds a reservation for the pod, but
\* for one whose hook kept Unreserve from it.
FailedHoldsNothing == point = "Idle" => \A p \in held : <<p, "Unreserve">> \in Hooked

------------------------------------------------------------------------------
\* The inductive invariant.

\* Who is called at a point.
Callable(pt) ==
    CASE pt = "ExtFilter" -> {i \in Ids : Calls(i, "filter")}
      [] pt = "ExtPrioritize" -> {i \in Ids : Calls(i, "prioritize")}
      [] pt = "ExtBind" -> {i \in Ids : Calls(i, "bind")}
      [] pt = "Normalize" -> {p \in Plugins : ScoreExtensions(p)}
      [] pt \in PluginPoints \ {"Normalize"} -> Plugins
      [] OTHER -> {}
NoneTwice(s) == \A j, k \in DOMAIN s : s[j] = s[k] => j = k

\* What is left to be called, and on which nodes.
CallsLeft ==
    /\ todo \in Seq(Callable(point))
    /\ point \in {"PreFilter", "ExtFilter", "ExtPrioritize"} => NoneTwice(todo)
    /\ point = "PreFilter" => alive # {}
    /\ point = "Filter" => \A n \in Nodes : lane[n] # <<>> => n \in alive

\* A plugin gives no higher score than the highest, and none that it has not got.
Scored ==
    \A p \in Plugins, n \in Nodes :
        score[p][n] <= MaxScore /\ (~Original(p, "Score") => score[p][n] = 0)

\* Where a reservation may be held.
BeforeReserve == {"Idle", "PreFilter", "Filter", "ExtFilter", "PostFilter", "PreScore",
                  "Score", "Normalize", "ExtPrioritize"}
Reserved ==
    \A p \in held :
        /\ Original(p, "Reserve")
        /\ \/ <<p, "Unreserve">> \in Hooked
           \/ point \notin BeforeReserve /\ (point = "Unreserve" => \E k \in DOMAIN todo : todo[k] = p)

\* What the stores cannot have recorded yet.
NotYetFiltered ==
    whole =>
        /\ point = "PreFilter" =>
            \A k \in DOMAIN todo : todo[k] \notin DOMAIN Data(store).preFilterResult
        /\ point \in {"PreFilter", "Filter"} => DOMAIN Results(extStore)["filter"] = {}
        /\ point = "ExtFilter" /\ OneUrlEach =>
            \A k \in DOMAIN todo : Extenders[todo[k]].url \notin DOMAIN Results(extStore)["filter"]

\* How far the attempt has come.
OutcomeKnown ==
    whole =>
        /\ point \in {"Permit", "Waiting", "PreBind", "ExtBind", "Bind", "PostBind", "Bound"}
           \/ (point = "Reserve" /\ todo # Profile)
           => Plugins = {} \/ Data(store).selectedNode = node
        /\ Plugins = {} => store = NoData
        /\ Unhooked("Bind") =>
            IF point \in {"PostBind", "Bound"} THEN BoundByPlugin # BoundByExtender
            ELSE ~BoundByPlugin /\ ~BoundByExtender
        /\ point \notin {"Unreserve", "Idle"} => NoneRefused

\* While the nodes are scored the stores hold what the scheduler holds: the
\* weighted score of each plugin that has been recorded, and no other's counts.
BeforeScore == {"PreFilter", "Filter", "ExtFilter", "PreScore"}
Scoring == BeforeScore \cup {"Score", "Normalize", "ExtPrioritize"}
ToScore(n, p) == \E k \in DOMAIN lane[n] : lane[n][k] = p
RecordedScores ==
    \A n \in alive :
        /\ \A p \in Plugins : IF p \in DOMAIN At(finalScores, n)
                            THEN finalScores[n][p] = Weight[p] * score[p][n]
                            ELSE score[p][n] = 0
        /\ extScore[n] = SumFunctionOnSet([i \in Ids |-> Counted(i, n)], Ids)
ScoresHeld ==
    Explaining =>
        /\ point \in BeforeScore => DOMAIN finalScores = {}
        /\ point \in Scoring =>
            node = NoNode /\ DOMAIN finalScores \subseteq alive /\ RecordedScores
        /\ point \in Scoring \ {"ExtPrioritize"} => DOMAIN priorities = {}

\* Each node is scored by the same plugins.
EachScored ==
    Explaining =>
        /\ point = "Score" =>
            /\ \A n \in Nodes : lane[n] # <<>> => n \in alive
            /\ \A n \in Nodes, p \in skipped : ~ToScore(n, p)
            /\ \A n \in alive, p \in Plugins \ skipped :
                Original(p, "Score") => p \in DOMAIN At(finalScores, n) \/ ToScore(n, p)
            /\ DOMAIN finalScores # {} => \E p \in Plugins \ skipped : Original(p, "Score")
        /\ point \in {"Normalize", "ExtPrioritize"} => DOMAIN finalScores \in {{}, alive}
        /\ point = "ExtPrioritize" =>
            \A k \in DOMAIN todo : Extenders[todo[k]].url \notin DOMAIN priorities

\* The inductive invariant that the proofs are about.
IInv ==
    /\ TypeOK /\ CallsLeft /\ Scored /\ Reserved
    /\ RejectionsExplained /\ NotYetFiltered /\ OutcomeKnown
    /\ ScoresHeld /\ EachScored /\ DecisionExplained

=============================================================================
