--------------------------- MODULE OriginalCycle ----------------------------
(***************************************************************************)
(* What the simulator promises about scheduling: a scheduler that runs the *)
(* original plugins and calls the real extenders itself, at each point     *)
(* only those that implement it, and records nothing.  SchedulingCycle,    *)
(* where every plugin is wrapped and every extender called through a       *)
(* proxy, is to behave like it.                                            *)
(***************************************************************************)
EXTENDS Framework

CONSTANTS
    Hooked,       \* <<plugin, point>> with user hooks before and after the original
    NodeSets,     \* bound: the sets of nodes that a PreFilter may leave
    MaxScore,     \* MaxNodeScore, as a normalized score
    Ratings,      \* bound: the scores that a plugin may give a node
    Priorities,   \* bound: the priorities that an extender may answer
    Served,       \* the service behind each verb of an extender
    ProxyFactor,  \* what a priority is multiplied by on its way to the scheduler
    NoAnswer

VARIABLES
    answer,       \* what an original plugin or a real extender said last
    held          \* plugins that hold a reservation for the pod

cvars == <<fw, answer, held>>

\* What a plugin may say at a point, and what it hands over with it.
Said(ss, vs) == [s : ss, v : vs]
None == {"none"}
PreFilterSays == Said({"Success"}, NodeSets) \cup Said({"Skip", "Unschedulable"}, {Nodes})
FilterSays == Said({"Success", "Unschedulable"}, None)
PostFilterSays == Said({"Success"}, Nodes) \cup Said({"Unschedulable"}, {NoNode})
PreScoreSays == Said({"Success", "Skip", "Unschedulable"}, None)
ScoreSays(p, n) == Said({"Success"}, Ratings[p][n]) \cup Said({"Unschedulable"}, {0})
NormalizeSays == Said({"Success", "Unschedulable"}, None)
ReserveSays == Said({"Success", "Unschedulable"}, None)
PermitSays == Said({"Success", "Wait", "Unschedulable"}, None)
PreBindSays == Said({"Success", "Unschedulable"}, None)
BindSays == Said({"Success", "Skip", "Unschedulable"}, None)
ExtFilterSays == Said({TRUE}, SUBSET Nodes) \cup Said({FALSE}, {{}})
ExtPrioritizeSays == Said({TRUE}, Priorities) \cup Said({FALSE}, {[n \in Nodes |-> 0]})
ExtBindSays == Said(BOOLEAN, None)

\* Normalization of a plugin's scores: reversed, as plugins that score a cost do.
Normalized(p) == [n \in Nodes |-> IF n \in alive THEN MaxScore - score[p][n] ELSE 0]

\* The original is called, and the scheduler acts on a: on what the original
\* said, unless the plugin is hooked, when a hook may have its own way.
Call(p, says, a) ==
    \/ answer' \in says /\ a = answer'
    \/ <<p, point>> \in Hooked /\ answer' \in says \cup {answer}

\* The same at a point where the plugin has nothing to hold.
Ask(p, says, a) == Call(p, says, a) /\ UNCHANGED held

PreFilter(p) == \E a \in PreFilterSays :
    PreFilterReturned(p, a.s, a.v) /\ Ask(p, PreFilterSays, a)
Filter(p, n) == \E a \in FilterSays :
    FilterReturned(p, n, a.s) /\ Ask(p, FilterSays, a)
PostFilter(p) == \E a \in PostFilterSays :
    PostFilterReturned(p, a.s) /\ Ask(p, PostFilterSays, a)
PreScore(p) == \E a \in PreScoreSays :
    PreScoreReturned(p, a.s) /\ Ask(p, PreScoreSays, a)
Score(p, n) == \E a \in ScoreSays(p, n) :
    ScoreReturned(p, n, a.s, a.v) /\ Ask(p, ScoreSays(p, n), a)
NormalizeScore(p) == \E a \in NormalizeSays, v \in {Normalized(p), score[p]} :
    /\ NormalizeReturned(p, a.s, v) /\ Ask(p, NormalizeSays, a)
    /\ <<p, point>> \in Hooked \/ v = Normalized(p)
Permit(p) == \E a \in PermitSays :
    PermitReturned(p, a.s) /\ Ask(p, PermitSays, a)
PreBind(p) == \E a \in PreBindSays :
    PreBindReturned(p, a.s) /\ Ask(p, PreBindSays, a)
Bind(p) == \E a \in BindSays :
    BindReturned(p, a.s) /\ Ask(p, BindSays, a)
PostBind(p) == VoidReturned("PostBind", p) /\ UNCHANGED <<answer, held>>

\* A plugin reserves, and must be told when the pod is not bound after all.
Reserve(p) == \E a \in ReserveSays :
    /\ ReserveReturned(p, a.s) /\ Call(p, ReserveSays, a)
    /\ held' = held \cup {p} \/ (<<p, point>> \in Hooked /\ held' = held)
Unreserve(p) ==
    /\ VoidReturned("Unreserve", p)
    /\ held' = held \ {p} \/ (<<p, point>> \in Hooked /\ held' = held)
    /\ UNCHANGED answer

ExtFilter(e) == \E a \in ExtFilterSays :
    /\ ExtFilterReturned(e, a.s, a.v)
    /\ answer' = [from |-> Served["filter"][e], says |-> a] /\ UNCHANGED held
ExtPrioritize(e) == \E a \in ExtPrioritizeSays :
    /\ ExtPrioritizeReturned(e, a.s, [n \in Nodes |-> a.v[n] * ProxyFactor[e]])
    /\ answer' = [from |-> Served["prioritize"][e], says |-> a] /\ UNCHANGED held
ExtBind(e) == \E a \in ExtBindSays :
    /\ ExtBindReturned(e, a.s)
    /\ answer' = [from |-> Served["bind"][e], says |-> a] /\ UNCHANGED held

Init == FrameworkInit /\ answer = NoAnswer /\ held = {}

\* A new attempt, and the scheduler's own steps.
Steps == Begin \/ Advance \/ WaitOnPermit

Next ==
    \/ Steps /\ answer' = NoAnswer /\ UNCHANGED held
    \/ \E p \in Plugins :
        \/ PreFilter(p) \/ PostFilter(p) \/ PreScore(p) \/ NormalizeScore(p)
        \/ Reserve(p) \/ Permit(p) \/ PreBind(p) \/ Bind(p) \/ PostBind(p) \/ Unreserve(p)
        \/ \E n \in Nodes : Filter(p, n) \/ Score(p, n)
    \/ \E e \in Exts : ExtFilter(e) \/ ExtPrioritize(e) \/ ExtBind(e)

Spec == Init /\ [][Next]_cvars

=============================================================================
