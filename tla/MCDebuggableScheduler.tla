----------------------- MODULE MCDebuggableScheduler ------------------------
(***************************************************************************)
(* Profiles that enable, disable, reorder and weigh plugins at MultiPoint  *)
(* and at single points, as users write them and as defaulting leaves      *)
(* them; and the ones with which pods are scheduled and logged: the Logger *)
(* at both of its points, at one, or at none.                           *)
(***************************************************************************)
EXTENDS DebuggableScheduler

TheDefault == <<Entry("Q", 0), Entry("A", 2), Entry("B", 0)>>
TheImplements ==
    [p \in {"Q", "A", "B", "L"} |->
        CASE p = "Q" -> {"queueSort"}
          [] p = "A" -> {"filter", "score"}
          [] p = "B" -> {"score"}
          [] p = "L" -> {"score", "postBind"}]

Set(enabled, disabled) == [enabled |-> enabled, disabled |-> disabled]
Profile(multi, score, filter, postBind) ==
    [pt \in {"multiPoint", "score", "filter", "postBind", "queueSort"} |->
        CASE pt = "multiPoint" -> multi [] pt = "score" -> score [] pt = "filter" -> filter
          [] pt = "postBind" -> postBind [] OTHER -> Empty]

\* No list names a plugin twice: kube-scheduler refuses that.
Lists(entries) ==
    {<<>>} \cup {<<x>> : x \in entries}
    \cup {<<x[1], x[2]>> : x \in {y \in entries \X entries : y[1].name # y[2].name}}

MultiSets ==
    {Set(e, d) : e \in Lists({Entry("A", 3), Entry("B", 0), Entry("L", 0), Entry("L", 5)}),
                 d \in {{}, {Name("A")}, {All}}}
ScoreSets ==
    {Set(e, d) : e \in {<<>>, <<Entry("A", 4)>>, <<Entry("L", 2)>>, <<Entry("L", 0), Entry("A", 0)>>},
                 d \in {{}, {Name("A")}, {Name("L")}, {All}}}
OtherSets ==
    {<<Empty, Empty>>, <<Set(<<Entry("A", 0)>>, {All}), Empty>>, <<Empty, Set(<<Entry("L", 0)>>, {})>>,
     <<Set(<<>>, {Name("A")}), Set(<<>>, {Name("L")})>>}

Profiles == {Profile(m, s, o[1], o[2]) : m \in MultiSets, s \in ScoreSets, o \in OtherSets}

Starting ==
    {[profile |-> p, args |-> {}, pods |-> {}] : p \in Profiles}
    \cup {[profile |-> SetDefaults(p, DefaultPlugins), args |-> {"A", "L"}, pods |-> {}] : p \in Profiles}

NotLogger == Set(<<>>, {Name("L")})
Scheduling ==
    {[profile |-> Profile(Set(<<Entry("L", 1)>>, {}), at[1], Empty, at[2]), args |-> {}, pods |-> Pods] :
        at \in {<<Empty, Empty>>, <<NotLogger, Empty>>, <<NotLogger, NotLogger>>}}

StartingAndScheduling == Starting \cup Scheduling

Symmetry == Permutations(Pods) \cup Permutations(Nodes)

=============================================================================
