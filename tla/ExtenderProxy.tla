--------------------------- MODULE ExtenderProxy ----------------------------
(***************************************************************************)
(* The extender service: the scheduler's configuration is rewritten so     *)
(* that calls to extender i reach the proxy under "<verb>/i", the proxy    *)
(* forwards them to the real extender and records the answers by the       *)
(* extender's URL.  A configured extender is its position, its URL and the *)
(* verbs it has; "" is a verb it lacks.                                    *)
(***************************************************************************)
EXTENDS Selection

CONSTANTS
    Extenders,   \* KubeSchedulerConfiguration.Extenders: [url, weight, verb]
    MaxNode,     \* MaxNodeScore
    MaxExtender, \* MaxExtenderPriority
    NoResults    \* the extender store has no entry for the pod

Ids == 1..Len(Extenders)
Verbs == {"filter", "prioritize", "preempt", "bind"}
Simulator == "simulator"

ASSUME ExtenderAssumption ==
    /\ Extenders \in Seq([url : STRING, weight : Nat, verb : [Verbs -> STRING]])
    /\ Simulator \notin {Extenders[i].url : i \in Ids}
    /\ MaxExtender \in Nat \ {0} /\ MaxNode \in Nat

\* The clients are built from the configuration as the user wrote it, before
\* it is rewritten.
createExtenders == Extenders

\* The verb becomes a path, the empty path when the extender lacks it.
OverrideExtendersCfgToSimulator ==
    [i \in Ids |-> [Extenders[i] EXCEPT
        !.url = Simulator,
        !.verb = [v \in Verbs |-> IF @[v] # "" THEN <<v, i>> ELSE <<>>]]]

\* The extenders that the scheduler calls at a point, by their position.
Calls(i, v) == OverrideExtendersCfgToSimulator[i].verb[v] # <<>>
Calling(v) == Selected([i \in Ids |-> i], {i \in Ids : Calls(i, v)})

\* Where a call of the scheduler ends up: the handler takes the position from
\* the path and the service that extender's client, which fails on a verb it
\* lacks.
Route(v, i) ==
    LET path == OverrideExtendersCfgToSimulator[i].verb[v]
        client == createExtenders[path[2]]
    IN  [url |-> client.url, verb |-> client.verb[path[1]]]

\* The clients' own factor for priorities; every other answer passes as it is.
prioritized(i, v) == v * createExtenders[i].weight * (MaxNode \div MaxExtender)

\* The pod's entry in the extender store.
emptyResults == [v \in Verbs |-> [u \in {} |-> u]]
Results(r) == IF r = NoResults THEN emptyResults ELSE r
AddResult(r, v, i, res) ==
    LET name == createExtenders[i].url
    IN  [Results(r) EXCEPT ![v] = [u \in DOMAIN @ \cup {name} |-> IF u = name THEN res ELSE @[u]]]

=============================================================================
