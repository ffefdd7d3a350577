------------------------- MODULE MCSchedulingCycle --------------------------
(***************************************************************************)
(* Instances of SchedulingCycle for TLC.                                   *)
(***************************************************************************)
EXTENDS SchedulingCycle

CONSTANTS a, b, n1, n2

\* b comes first: where only a has an original, b's neutral answer is first.
TheProfile == <<b, a>>
TheHooked == {<<b, "Reserve">>, <<b, "Unreserve">>, <<b, "Permit">>}
TheImplements ==
    (a :> {"PreFilter", "Filter", "PostFilter", "PreScore", "Score", "Normalize", "Reserve", "Bind"}) @@
    (b :> {"Filter", "Score", "Reserve", "Permit", "PreBind", "PostBind"})

TheWeight == (a :> 6) @@ (b :> 1)
\* The position decides whom a call is forwarded to; both share no verb.
TheExtenders ==
    << [url |-> "u1", weight |-> 1, verb |-> [filter |-> "f", prioritize |-> "", preempt |-> "v", bind |-> ""]],
       [url |-> "u2", weight |-> 1, verb |-> [filter |-> "", prioritize |-> "p", preempt |-> "", bind |-> "b"]] >>

TheNodeSets == {{n1, n2}, {n1}}
TheRatings == (a :> ((n1 :> {0, 1}) @@ (n2 :> {1}))) @@ (b :> ((n1 :> {1}) @@ (n2 :> {0, 1})))
ThePriorities == {(n1 :> 0) @@ (n2 :> 1)}

\* An earlier attempt was rejected by a Permit plugin after it chose n2.
TheLeftovers ==
    {NoData,
     [newData EXCEPT
        !.selectedNode = n2,
        !.filter = [n \in {n1, n2} |-> [p \in {a, b} |-> "Success"]],
        !.finalScore = [n \in {n1, n2} |->
            [p \in {a, b} |-> applyWeightOnScore(p, IF n = n1 THEN 0 ELSE 1)]],
        !.permit = (b :> "Unschedulable")]}

=============================================================================
