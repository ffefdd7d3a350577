--------------------------- MODULE PluginResults ----------------------------
(***************************************************************************)
(* The struct that the plugin result store keeps for one pod, and its Add  *)
(* operations: here with the maps under each annotation key, which         *)
(* ResultData abstracts to the last recording.  A Go map is a function     *)
(* over the keys it holds.                                                 *)
(***************************************************************************)
EXTENDS Naturals

CONSTANTS
    StoreWeight,  \* scorePluginWeight: plugin name -> weight, from NewRegistry
    NoData,       \* the store has no entry for the pod
    NoNode

EmptyMap == [x \in {} |-> x]
At(m, k) == IF k \in DOMAIN m THEN m[k] ELSE EmptyMap
Put(m, k, v) == [x \in DOMAIN m \cup {k} |-> IF x = k THEN v ELSE m[x]]
Put2(m, k, l, v) == Put(m, k, Put(At(m, k), l, v))

newData ==
    [selectedNode |-> NoNode, preFilterStatus |-> EmptyMap, preFilterResult |-> EmptyMap,
     filter |-> EmptyMap, postFilter |-> EmptyMap, preScore |-> EmptyMap,
     score |-> EmptyMap, finalScore |-> EmptyMap, reserve |-> EmptyMap,
     permit |-> EmptyMap, prebind |-> EmptyMap, bind |-> EmptyMap]

\* Every Add creates the struct on a pod's first result.
Data(r) == IF r = NoData THEN newData ELSE r

\* The nodes are recorded if the plugin named any.
AddPreFilterResult(r, p, reason, named, nodes) ==
    [Data(r) EXCEPT !.preFilterStatus = Put(@, p, reason),
                    !.preFilterResult = IF named THEN Put(@, p, nodes) ELSE @]

\* Mutant of AddFilterResult: plugin name and node name swapped.
MutAddFilterResult(r, n, p, reason) == [Data(r) EXCEPT !.filter = Put2(@, p, n, reason)]

AddFilterResult(r, n, p, reason) == [Data(r) EXCEPT !.filter = Put2(@, n, p, reason)]

\* Every node that was filtered out gets a map, the nominated one an entry.
AddPostFilterResult(r, nominated, p, nodes) ==
    [Data(r) EXCEPT !.postFilter =
        [n \in DOMAIN @ \cup nodes |->
            IF n = nominated /\ n \in nodes THEN Put(At(@, n), p, "nominated") ELSE At(@, n)]]

AddPreScoreResult(r, p, reason) == [Data(r) EXCEPT !.preScore = Put(@, p, reason)]

\* Mutant of applyWeightOnScore: no weight.
MutApplyWeight(p, v) == v

\* A plugin without a known weight counts nothing.
applyWeightOnScore(p, v) == IF p \in DOMAIN StoreWeight THEN v * StoreWeight[p] ELSE 0

\* The scores v of the nodes ns, one after the other.
AddNormalizedScoreResult(r, ns, p, v) ==
    [Data(r) EXCEPT !.finalScore =
        [n \in DOMAIN @ \cup ns |->
            IF n \in ns THEN Put(At(@, n), p, applyWeightOnScore(p, v[n])) ELSE @[n]]]

\* Until the score is normalized, the score itself is the final one.
AddScoreResult(r, n, p, v) ==
    AddNormalizedScoreResult([Data(r) EXCEPT !.score = Put2(@, n, p, v)], {n}, p, [m \in {n} |-> v])

AddSelectedNode(r, n) == [Data(r) EXCEPT !.selectedNode = n]
AddReserveResult(r, p, status) == [Data(r) EXCEPT !.reserve = Put(@, p, status)]
AddPermitResult(r, p, status) == [Data(r) EXCEPT !.permit = Put(@, p, status)]
AddPreBindResult(r, p, status) == [Data(r) EXCEPT !.prebind = Put(@, p, status)]

\* Mutant of AddBindResult: the map of another point.
MutAddBindResult(r, p, status) == [Data(r) EXCEPT !.prebind = Put(@, p, status)]

AddBindResult(r, p, status) == [Data(r) EXCEPT !.bind = Put(@, p, status)]

=============================================================================
