----------------------------- MODULE Framework ------------------------------
(***************************************************************************)
(* The scheduler framework of kube-scheduler, as the plugins see it: the   *)
(* points of one pod's scheduling cycle, and what each answer of a plugin  *)
(* or an extender does to the cycle.  It is a library to this repository   *)
(* (external), which decides only WHICH plugins a profile holds            *)
(* (ListAt) and what they answer.                                          *)
(***************************************************************************)
EXTENDS Selection, FiniteSets, Functions

CONSTANTS
    Nodes,
    Plugins,    \* the plugins of the profile
    Exts,       \* the configured extenders
    ListAt,     \* the plugins (extenders) called at each point, in order
    Weight,     \* the weight of each plugin's score
    ExtWeight,  \* the weight of each extender's score
    Scale,      \* MaxNodeScore \div MaxExtenderPriority
    MaxCycles,  \* bound: scheduling attempts of the pod
    NoNode

Points == {"PreFilter", "Filter", "ExtFilter", "PostFilter", "PreScore", "Score",
           "Normalize", "ExtPrioritize", "Reserve", "Permit", "PreBind",
           "ExtBind", "Bind", "PostBind", "Unreserve"}
NodePoints == {"Filter", "Score"}   \* called for every node, nodes in parallel
Statuses == {"Success", "Unschedulable", "Skip", "Wait"}

\* What is assumed of them; who instantiates this module has to show it.  No
\* plugin is asked when the cluster has no node.
FrameworkAssumption ==
    /\ IsFiniteSet(Nodes) /\ Nodes # {}
    /\ NoNode \notin Nodes
    /\ ListAt \in [Points -> Seq(Plugins \cup Exts)]
    /\ Weight \in [Plugins -> Nat]
    /\ ExtWeight \in [Exts -> Nat]
    /\ Scale \in Nat
    /\ MaxCycles \in Nat

VARIABLES
    point,     \* the extension point, or Idle, Waiting, Bound
    todo,      \* who is still to be called at this point
    lane,      \* the same for each node, at a point called per node
    alive,     \* nodes no filter has rejected in this cycle
    skipped,   \* plugins whose Pre point said Skip
    waiting,   \* a Permit plugin said Wait
    score,     \* the score that the scheduler holds for a plugin and a node
    extScore,  \* the extenders' part of a node's score
    node,      \* the node the pod is being bound to
    cycles

fw == <<point, todo, lane, alive, skipped, waiting, score, extScore, node, cycles>>

FrameworkTypeOK ==
    /\ point \in Points \cup {"Idle", "Waiting", "Bound"}
    /\ todo \in Seq(Plugins \cup Exts)
    /\ lane \in [Nodes -> Seq(Plugins)]
    /\ alive \subseteq Nodes
    /\ skipped \subseteq Plugins
    /\ waiting \in BOOLEAN
    /\ score \in [Plugins -> [Nodes -> Nat]]
    /\ extScore \in [Nodes -> Nat]
    /\ node \in Nodes \cup {NoNode}
    /\ cycles \in 0..MaxCycles

NoScore == [p \in Plugins |-> [n \in Nodes |-> 0]]
NoLane == [n \in Nodes |-> <<>>]

FrameworkInit ==
    /\ point = "Idle" /\ todo = <<>> /\ lane = NoLane
    /\ alive = {} /\ skipped = {} /\ waiting = FALSE
    /\ score = NoScore /\ extScore = [n \in Nodes |-> 0]
    /\ node = NoNode /\ cycles = 0

\* Who is called at a point: a plugin that skipped itself is not, and the
\* extenders are not once no node is left.
Called(pt, as, sk) ==
    IF pt = "ExtFilter" /\ as = {} THEN <<>>
    ELSE IF pt \in NodePoints \cup {"Normalize"}
         THEN Selected(ListAt[pt], (Plugins \cup Exts) \ sk)
         ELSE ListAt[pt]

Enter(pt, as, sk) ==
    /\ point' = pt
    /\ todo' = IF pt \in NodePoints THEN <<>> ELSE Called(pt, as, sk)
    /\ lane' = [n \in Nodes |-> IF pt \in NodePoints /\ n \in as
                                THEN Called(pt, as, sk) ELSE <<>>]

Done(pt) == point' = pt /\ todo' = <<>> /\ lane' = NoLane
Drained == todo = <<>> /\ lane = NoLane

Total(n) == extScore[n] + SumFunctionOnSet([p \in Plugins |-> Weight[p] * score[p][n]], Plugins)
Best == {n \in alive : \A o \in alive : Total(o) <= Total(n)}

\* The pod is taken from the queue.
Begin ==
    /\ point = "Idle" /\ cycles < MaxCycles
    /\ cycles' = cycles + 1
    /\ alive' = Nodes /\ skipped' = {} /\ waiting' = FALSE
    /\ score' = NoScore /\ extScore' = [n \in Nodes |-> 0] /\ node' = NoNode
    /\ Enter("PreFilter", Nodes, {})

\* Everyone has been called: on to the next point.  A single feasible node is
\* taken without scoring; the scores are used once.  An extender binds the pod
\* if one that can is interested in it (bound).
After(pt, bound) ==
    CASE pt = "PreFilter" -> IF alive = {} THEN "PostFilter" ELSE "Filter"
      [] pt = "Filter" -> "ExtFilter"
      [] pt = "ExtFilter" -> IF alive = {} THEN "PostFilter"
                             ELSE IF Cardinality(alive) = 1 THEN "Reserve" ELSE "PreScore"
      [] pt = "PreScore" -> "Score"
      [] pt = "Score" -> "Normalize"
      [] pt = "Normalize" -> "ExtPrioritize"
      [] pt = "ExtPrioritize" -> "Reserve"
      [] pt = "Reserve" -> "Permit"
      [] pt = "Permit" -> IF waiting THEN "Waiting" ELSE "PreBind"
      [] pt = "PreBind" -> IF bound THEN "ExtBind" ELSE "Bind"
      [] pt = "Bind" -> "Unreserve"     \* every bind plugin skipped
      [] pt = "PostBind" -> "Bound"
      [] OTHER -> "Idle"                \* PostFilter, Unreserve: the cycle failed

Advance ==
    /\ point \in Points \ {"ExtBind"} /\ Drained
    /\ \E bound \in {FALSE, ListAt["ExtBind"] # <<>>} :
       LET to == After(point, bound)
       IN /\ IF to \in Points THEN Enter(to, alive, skipped) ELSE Done(to)
          /\ IF to = "Reserve"
             THEN node' \in Best /\ score' = NoScore /\ extScore' = [n \in Nodes |-> 0]
             ELSE UNCHANGED <<node, score, extScore>>
          /\ skipped' = IF to = "PreScore" THEN {} ELSE skipped
    /\ UNCHANGED <<alive, waiting, cycles>>

\* Another plugin lets the waiting pod go, rejects it, or lets it time out.
WaitOnPermit ==
    /\ point = "Waiting"
    /\ Enter("PreBind", alive, skipped) \/ Enter("Unreserve", alive, skipped)
    /\ UNCHANGED <<alive, skipped, waiting, score, extScore, node, cycles>>

------------------------------------------------------------------------------
\* What each point does with the status s that a plugin's method returned.

Next_(pt) == point = pt /\ todo # <<>>
Pop == todo' = Tail(todo) /\ UNCHANGED <<point, lane>>
Unschedulable == Enter("PostFilter", {}, {})
Undo == Enter("Unreserve", alive, skipped)
PopOr(s, fail) == IF s = "Success" THEN Pop ELSE fail

PreFilterReturned(p, s, ns) ==
    /\ Next_("PreFilter") /\ p = Head(todo)
    /\ alive' = CASE s = "Unschedulable" -> {} [] s = "Skip" -> alive [] OTHER -> alive \cap ns
    /\ skipped' = IF s = "Skip" THEN skipped \cup {p} ELSE skipped
    /\ IF alive' = {} THEN Unschedulable ELSE Pop
    /\ UNCHANGED <<waiting, score, extScore, node, cycles>>

FilterReturned(p, n, s) ==
    /\ point = "Filter" /\ lane[n] # <<>> /\ p = Head(lane[n])
    /\ alive' = IF s = "Success" THEN alive ELSE alive \ {n}
    /\ lane' = [lane EXCEPT ![n] = IF s = "Success" THEN Tail(@) ELSE <<>>]
    /\ UNCHANGED <<point, todo, skipped, waiting, score, extScore, node, cycles>>

\* Success ends the point with a nominated node, Unschedulable goes on.
PostFilterReturned(p, s) ==
    /\ Next_("PostFilter") /\ p = Head(todo)
    /\ IF s = "Success" THEN Done("Idle") ELSE Pop
    /\ UNCHANGED <<alive, skipped, waiting, score, extScore, node, cycles>>

PreScoreReturned(p, s) ==
    /\ Next_("PreScore") /\ p = Head(todo)
    /\ skipped' = IF s = "Skip" THEN skipped \cup {p} ELSE skipped
    /\ IF s = "Unschedulable" THEN Done("Idle") ELSE Pop
    /\ UNCHANGED <<alive, waiting, score, extScore, node, cycles>>

ScoreReturned(p, n, s, v) ==
    /\ point = "Score" /\ lane[n] # <<>> /\ p = Head(lane[n])
    /\ score' = [score EXCEPT ![p][n] = v]
    /\ IF s = "Success" THEN lane' = [lane EXCEPT ![n] = Tail(@)] /\ UNCHANGED <<point, todo>>
                        ELSE Done("Idle")
    /\ UNCHANGED <<alive, skipped, waiting, extScore, node, cycles>>

NormalizeReturned(p, s, v) ==
    /\ Next_("Normalize") /\ p = Head(todo)
    /\ score' = [score EXCEPT ![p] = v]
    /\ PopOr(s, Done("Idle"))
    /\ UNCHANGED <<alive, skipped, waiting, extScore, node, cycles>>

ReserveReturned(p, s) ==
    /\ Next_("Reserve") /\ p = Head(todo)
    /\ PopOr(s, Undo)
    /\ UNCHANGED <<alive, skipped, waiting, score, extScore, node, cycles>>

PermitReturned(p, s) ==
    /\ Next_("Permit") /\ p = Head(todo)
    /\ waiting' = (waiting \/ s = "Wait")
    /\ IF s = "Unschedulable" THEN Undo ELSE Pop
    /\ UNCHANGED <<alive, skipped, score, extScore, node, cycles>>

PreBindReturned(p, s) ==
    /\ Next_("PreBind") /\ p = Head(todo)
    /\ PopOr(s, Undo)
    /\ UNCHANGED <<alive, skipped, waiting, score, extScore, node, cycles>>

\* The first plugin that does not skip binds, or fails to.
BindReturned(p, s) ==
    /\ Next_("Bind") /\ p = Head(todo)
    /\ CASE s = "Skip" -> Pop
         [] s = "Success" -> Enter("PostBind", alive, skipped)
         [] OTHER -> Undo
    /\ UNCHANGED <<alive, skipped, waiting, score, extScore, node, cycles>>

\* PostBind and Unreserve return nothing.
VoidReturned(pt, p) ==
    /\ Next_(pt) /\ p = Head(todo) /\ Pop
    /\ UNCHANGED <<alive, skipped, waiting, score, extScore, node, cycles>>

\* The extenders: a failed filter call ends the cycle, a failed prioritize call
\* only goes without the extender, the first binder decides.
ExtFilterReturned(e, ok, ns) ==
    /\ Next_("ExtFilter") /\ e = Head(todo)
    /\ alive' = IF ok THEN alive \cap ns ELSE alive
    /\ IF ~ok THEN Done("Idle") ELSE IF alive' = {} THEN Unschedulable ELSE Pop
    /\ UNCHANGED <<skipped, waiting, score, extScore, node, cycles>>

ExtPrioritizeReturned(e, ok, v) ==
    /\ Next_("ExtPrioritize") /\ e = Head(todo)
    /\ extScore' = [n \in Nodes |-> IF ok /\ n \in alive
                                    THEN extScore[n] + v[n] * ExtWeight[e] * Scale
                                    ELSE extScore[n]]
    /\ Pop
    /\ UNCHANGED <<alive, skipped, waiting, score, node, cycles>>

ExtBindReturned(e, ok) ==
    /\ Next_("ExtBind") /\ e = Head(todo)
    /\ IF ok THEN Enter("PostBind", alive, skipped) ELSE Undo
    /\ UNCHANGED <<alive, skipped, waiting, score, extScore, node, cycles>>

=============================================================================
