-------------------------- MODULE SchedulerLogger ---------------------------
(***************************************************************************)
(* The Logger plugin and the scheduling it logs: a row of states.csv per   *)
(* candidate node when nodes are scored, a row of actions.csv when a pod   *)
(* was bound.  The scheduler takes one pod at a time and binds in the      *)
(* background; nodes are scored in parallel.  Whether the plugin runs at   *)
(* an extension point is for the profile to say.  The columns that are     *)
(* computed from resources are left out.  A write to a file may fail:      *)
(* csv's writer buffers the rows, keeps the first error and writes nothing *)
(* more, and the plugin goes on.  A row cut short has no end of line: the  *)
(* next one written to the file continues it, and neither is a row.        *)
(***************************************************************************)
EXTENDS Naturals, SequencesExt

CONSTANTS
    Pods, Nodes, NoPod, NoNode,
    Logger,       \* the plugin
    MaxAttempts,  \* bound: scheduling attempts in all
    MaxRestarts,  \* bound: restarts of the scheduler
    MaxFaults     \* bound: failed writes

ASSUME LoggerAssumption == NoPod \notin Pods /\ NoNode \notin Nodes

VARIABLES
    states,    \* the whole rows of states.csv; "by" is history, the file has no attempts
    actions,   \* the whole rows of actions.csv; "by" and "feasible" are history
    exist,     \* the files there are
    torn,      \* those that end in part of a row
    broken,    \* those whose writer has failed
    faults,    \* file -> its failed writes
    missed,    \* history: rows that were to be written and are not in their file
    cycle,     \* the attempt whose scheduling cycle runs, if any
    binding,   \* pod -> the attempt that is being bound, if any
    assigned,  \* pod -> the node it is bound to at the API server
    unaware,   \* pods that are bound, for all the scheduler knows to be tried again
    attempts,  \* attempts so far
    cut        \* history: pods whose attempt ended between the binding and PostBind: a
               \* restart, or an answer of the API server that was lost

writers == <<exist, torn, broken, faults, missed>>
loggerVars == <<states, actions, writers, cycle, binding, assigned, unaware, attempts, cut>>

Files == {"states", "actions"}
None == [pod |-> NoPod]

LoggerInit ==
    /\ states = <<>> /\ actions = <<>>
    /\ exist = {} /\ torn = {} /\ broken = {} /\ missed = {}
    /\ faults = [f \in Files |-> 0]
    /\ cycle = None /\ binding = [p \in Pods |-> None]
    /\ assigned = [p \in Pods |-> NoNode] /\ unaware = {}
    /\ attempts = 0 /\ cut = {}

\* Mutant of Opened: the file is created anew.
MutOpened(rows) == <<>>

\* The file is opened for appending.
Opened(rows) == rows

\* A new file gets a header, unless the write fails: New is not told.
Opening(files) ==
    \E failing \in SUBSET (files \ exist) :
        /\ faults["states"] + faults["actions"] + Cardinality(failing) <= MaxFaults
        /\ faults' = [f \in Files |-> faults[f] + IF f \in failing THEN 1 ELSE 0]
        /\ broken' = failing
        /\ \E parts \in SUBSET failing : torn' = torn \cup parts
        /\ exist' = exist \cup files /\ UNCHANGED missed

New ==
    /\ Opening(Files)
    /\ states' = Opened(states) /\ actions' = Opened(actions)

\* A file cannot be opened, the first or the second.
NewFails ==
    /\ \E opened \in {{}, {"states"}} : Opening(opened)
    /\ UNCHANGED <<states, actions>>

\* A row of the attempt a is a line of its own.
Written(f) == f \notin broken \cup torn /\ UNCHANGED writers

Missed(f, a, n) == missed' = missed \cup {[file |-> f, pod |-> a.pod, node |-> n, by |-> a.by]}

\* A row of the attempt a is not: the writer has failed before, it fails now and perhaps
\* leaves a part of the row, or the row continues what was left of another.
NotWritten(f, a, n) ==
    /\ Missed(f, a, n) /\ UNCHANGED exist
    /\ \/ f \in broken /\ UNCHANGED <<torn, broken, faults>>
       \/ /\ f \notin broken /\ faults["states"] + faults["actions"] < MaxFaults
          /\ faults' = [faults EXCEPT ![f] = @ + 1] /\ broken' = broken \cup {f}
          /\ torn' \in {torn, torn \cup {f}}
       \/ f \in torn \ broken /\ torn' = torn \ {f} /\ UNCHANGED <<broken, faults>>

\* With one feasible node there is nothing to score.
Candidates(feasible) == IF Cardinality(feasible) > 1 THEN feasible ELSE {}

Schedule(p, feasible) ==
    /\ cycle = None /\ binding[p] = None /\ (assigned[p] = NoNode \/ p \in unaware)
    /\ attempts < MaxAttempts /\ attempts' = attempts + 1
    /\ cycle' = [pod |-> p, by |-> attempts + 1, feasible |-> feasible, node |-> NoNode,
                 todo |-> Candidates(feasible), bound |-> FALSE]
    /\ UNCHANGED <<states, actions, writers, binding, assigned, unaware, cut>>

\* Mutant of StateRows: no row where the energy model fails.
MutStateRows(a, n, energy) ==
    IF energy = "-1" THEN <<>> ELSE <<[pod |-> a.pod, node |-> n, by |-> a.by]>>

\* A row, and with -1 for the energy where the energy model does not answer.
StateRows(a, n, energy) == <<[pod |-> a.pod, node |-> n, by |-> a.by]>>

ActionRow(a) == [pod |-> a.pod, node |-> a.node, by |-> a.by, feasible |-> a.feasible]

Score(n, energy, logs) ==
    /\ cycle # None /\ n \in cycle.todo
    /\ \/ logs /\ Written("states") /\ states' = states \o StateRows(cycle, n, energy)
       \/ logs /\ NotWritten("states", cycle, n) /\ UNCHANGED states
       \/ ~logs /\ UNCHANGED <<states, writers>>
    /\ cycle' = [cycle EXCEPT !.todo = @ \ {n}]
    /\ UNCHANGED <<actions, binding, assigned, unaware, attempts, cut>>

\* Another plugin fails, now or when nodes are all scored: the pod is tried again.
CycleFails ==
    /\ cycle # None /\ cycle' = None
    /\ UNCHANGED <<states, actions, writers, binding, assigned, unaware, attempts, cut>>

Assume(n) ==
    /\ cycle # None /\ cycle.todo = {} /\ n \in cycle.feasible
    /\ binding' = [binding EXCEPT ![cycle.pod] = [cycle EXCEPT !.node = n]]
    /\ cycle' = None
    /\ UNCHANGED <<states, actions, writers, assigned, unaware, attempts, cut>>

\* The API server binds a pod once.  It binds the pod and answers so; or the call fails,
\* without effect or with its answer lost.
Bind(p) ==
    /\ binding[p] # None /\ ~binding[p].bound
    /\ \/ /\ assigned[p] = NoNode /\ assigned' = [assigned EXCEPT ![p] = binding[p].node]
          /\ binding' = [binding EXCEPT ![p].bound = TRUE] /\ UNCHANGED <<unaware, cut>>
       \/ /\ assigned[p] = NoNode /\ assigned' = [assigned EXCEPT ![p] = binding[p].node]
          /\ binding' = [binding EXCEPT ![p] = None]
          /\ unaware' = unaware \cup {p} /\ cut' = cut \cup {p}
       \/ binding' = [binding EXCEPT ![p] = None] /\ UNCHANGED <<assigned, unaware, cut>>
    /\ UNCHANGED <<states, actions, writers, cycle, attempts>>

\* The scheduler's informer has the pod with its node.
SeesBound(p) ==
    /\ p \in unaware /\ unaware' = unaware \ {p}
    /\ UNCHANGED <<states, actions, writers, cycle, binding, assigned, attempts, cut>>

PostBind(p, logs) ==
    /\ binding[p] # None /\ binding[p].bound
    /\ \/ logs /\ Written("actions") /\ actions' = Append(actions, ActionRow(binding[p]))
       \/ logs /\ NotWritten("actions", binding[p], binding[p].node) /\ UNCHANGED actions
       \/ ~logs /\ UNCHANGED <<actions, writers>>
    /\ binding' = [binding EXCEPT ![p] = None]
    /\ UNCHANGED <<states, cycle, assigned, unaware, attempts, cut>>

\* The process is gone, the files and the API server are not.
Killed ==
    /\ cycle' = None /\ binding' = [p \in Pods |-> None] /\ unaware' = {}
    /\ cut' = cut \cup {p \in Pods : binding[p] # None /\ binding[p].bound}
    /\ UNCHANGED <<states, actions, writers, assigned, attempts>>

-----------------------------------------------------------------------------
(* The invariant of the attempts, of which one at a time is in its cycle. *)

Attempt == [pod : Pods, by : Nat, feasible : SUBSET Nodes, node : Nodes \cup {NoNode},
            todo : SUBSET Nodes, bound : BOOLEAN]
StateRow == [pod : Pods, node : Nodes, by : Nat]
Action == [pod : Pods, node : Nodes, by : Nat, feasible : SUBSET Nodes]

LoggerTypeOK ==
    /\ states \in Seq(StateRow) /\ actions \in Seq(Action)
    /\ cycle \in Attempt \cup {None} /\ binding \in [Pods -> Attempt \cup {None}]
    /\ assigned \in [Pods -> Nodes \cup {NoNode}]
    /\ attempts \in Nat /\ unaware \subseteq cut /\ cut \subseteq Pods
    /\ exist \subseteq Files /\ torn \subseteq Files /\ broken \subseteq Files
    /\ faults \in [Files -> Nat]
    /\ missed \subseteq [file : Files, pod : Pods, node : Nodes, by : Nat]

\* The rows of the attempt that is scoring are told apart from all the others.
AttemptsApart ==
    /\ \A i \in DOMAIN states : states[i].by <= attempts
    /\ \A i \in DOMAIN actions : actions[i].by <= attempts
    /\ \A p \in Pods : binding[p] # None => binding[p].by <= attempts
    /\ \A m \in missed : m.by <= attempts
    /\ cycle # None =>
        /\ cycle.by <= attempts /\ cycle.todo \subseteq Candidates(cycle.feasible)
        /\ \A i \in DOMAIN actions : actions[i].by # cycle.by
        /\ \A p \in Pods : binding[p] # None => binding[p].by # cycle.by

\* A pod has one attempt at a time, and none after it was bound, unless the scheduler
\* was not told: that attempt does not bind it.
OneAttempt ==
    /\ \A p \in cut : assigned[p] # NoNode
    /\ cycle # None =>
        /\ binding[cycle.pod] = None /\ ~cycle.bound
        /\ assigned[cycle.pod] = NoNode \/ cycle.pod \in cut
    /\ \A p \in Pods : binding[p] # None =>
        /\ binding[p].pod = p /\ binding[p].node \in Nodes /\ binding[p].todo = {}
        /\ IF binding[p].bound THEN p \notin cut /\ assigned[p] = binding[p].node
           ELSE p \in cut \/ assigned[p] = NoNode
    /\ \A i \in DOMAIN actions :
        /\ binding[actions[i].pod] = None /\ assigned[actions[i].pod] = actions[i].node
        /\ actions[i].pod \notin cut
    /\ \A i, j \in DOMAIN actions : actions[i].pod = actions[j].pod => i = j

\* The nodes an attempt scored whose rows are missed.
Lost(a, rows) == {m.node : m \in {x \in rows : x.file = "states" /\ x.by = a.by}}

\* A log has the candidates of an attempt a, each once, but the lost ones and those left
\* to score.
Tells(log, a, lost, left) ==
    LET rows == {i \in DOMAIN log : log[i].by = a.by}
    IN  /\ \A i, j \in rows : log[i].node = log[j].node => i = j
        /\ {log[i].node : i \in rows} = (Candidates(a.feasible) \ left) \ lost
        /\ lost \cap left = {}

ScoresLogged ==
    /\ cycle # None => Tells(states, cycle, Lost(cycle, missed), cycle.todo)
    /\ \A p \in Pods : binding[p] # None => Tells(states, binding[p], Lost(binding[p], missed), {})
    /\ \A i \in DOMAIN actions : Tells(states, actions[i], Lost(actions[i], missed), {})

BindingsLogged ==
    \A p \in Pods \ cut :
        assigned[p] # NoNode /\ binding[p] = None =>
            \/ \E i \in DOMAIN actions : actions[i].pod = p
            \/ \E m \in missed : m.file = "actions" /\ m.pod = p

\* Only a file a write to which has failed misses rows.
MissesAfterFault ==
    /\ \A f \in torn \cup broken : faults[f] > 0
    /\ \A m \in missed : faults[m.file] > 0

=============================================================================
