--------------------- MODULE DebuggableScheduler_proofs ---------------------
(***************************************************************************)
(* Proofs about DebuggableScheduler, for any plugins, profiles, pods,      *)
(* nodes and bounds: the wrapped profile schedules as the user's does, and *)
(* the Logger's rows tell the decisions.                                   *)
(***************************************************************************)
EXTENDS DebuggableScheduler, SequenceLemmas

-----------------------------------------------------------------------------
(***************************************************************************)
(* Rows of the state log.                                                  *)
(***************************************************************************)

\* What is appended to a log.
LEMMA Appended ==
    ASSUME NEW R, NEW log \in Seq(R), NEW row \in R
    PROVE  /\ log \o <<row>> \in Seq(R)
           /\ DOMAIN (log \o <<row>>) = DOMAIN log \cup {Len(log) + 1}
           /\ Len(log) + 1 \notin DOMAIN log
           /\ \A i \in DOMAIN log : (log \o <<row>>)[i] = log[i]
           /\ (log \o <<row>>)[Len(log) + 1] = row
OBVIOUS

\* Only the attempt's number and its nodes matter.
LEMMA TellsSame ==
    ASSUME NEW log, NEW a, NEW b, NEW lost, NEW left, a.by = b.by, a.feasible = b.feasible,
           Tells(log, a, lost, left)
    PROVE  Tells(log, b, lost, left)
BY DEF Tells

\* A row of another attempt tells nothing of this one.
LEMMA TellsKept ==
    ASSUME NEW log \in Seq(StateRow), NEW row \in StateRow, NEW a, NEW lost, NEW left,
           row.by # a.by, Tells(log, a, lost, left)
    PROVE  Tells(log \o <<row>>, a, lost, left)
<1>1. {i \in DOMAIN (log \o <<row>>) : (log \o <<row>>)[i].by = a.by}
        = {i \in DOMAIN log : log[i].by = a.by}
    BY Appended
<1> QED
    BY <1>1, Appended DEF Tells

\* A row of this attempt is of one of the nodes that were left.
LEMMA TellsMore ==
    ASSUME NEW log \in Seq(StateRow), NEW row \in StateRow, NEW a, NEW lost, NEW left,
           row.by = a.by, row.node \in left, left \subseteq Candidates(a.feasible),
           Tells(log, a, lost, left)
    PROVE  Tells(log \o <<row>>, a, lost, left \ {row.node})
<1> DEFINE more == log \o <<row>>
           rows == {i \in DOMAIN log : log[i].by = a.by}
           rows2 == {i \in DOMAIN more : more[i].by = a.by}
           new == Len(log) + 1
<1>1. /\ rows2 = rows \cup {new} /\ new \notin rows
      /\ \A i \in rows : more[i] = log[i]
      /\ more[new] = row
    BY Appended
<1>2. /\ \A i, j \in rows : log[i].node = log[j].node => i = j
      /\ {log[i].node : i \in rows} = (Candidates(a.feasible) \ left) \ lost
      /\ lost \cap left = {}
    BY DEF Tells
<1> HIDE DEF more, rows, rows2, new
<1>3. \A i \in rows : log[i].node # row.node
    BY <1>2
<1>4. \A i, j \in rows2 : more[i].node = more[j].node => i = j
    BY <1>1, <1>2, <1>3
<1>5. {more[i].node : i \in rows2} = {log[i].node : i \in rows} \cup {row.node}
    BY <1>1
<1>6. {more[i].node : i \in rows2} = (Candidates(a.feasible) \ (left \ {row.node})) \ lost
    BY <1>2, <1>5
<1> QED
    BY <1>2, <1>4, <1>6 DEF Tells, more, rows2

\* A row that is missed takes its node from those that were left, too.
LEMMA TellsLess ==
    ASSUME NEW log, NEW a, NEW lost, NEW left, NEW n \in left, Tells(log, a, lost, left)
    PROVE  Tells(log, a, lost \cup {n}, left \ {n})
BY DEF Tells

\* A log without rows of an attempt leaves all of its candidates.
LEMMA TellsNothing ==
    ASSUME NEW log, NEW a, \A i \in DOMAIN log : log[i].by # a.by
    PROVE  Tells(log, a, {}, Candidates(a.feasible))
BY DEF Tells

\* One more missed row is of its own attempt and of its own file.
LEMMA LostMore ==
    ASSUME NEW rows, NEW m, NEW a
    PROVE  Lost(a, rows \cup {m}) =
                IF m.file = "states" /\ m.by = a.by THEN Lost(a, rows) \cup {m.node} ELSE Lost(a, rows)
BY DEF Lost

\* Only the attempt's number matters.
LEMMA LostSame ==
    ASSUME NEW rows, NEW a, NEW b, a.by = b.by
    PROVE  Lost(a, rows) = Lost(b, rows)
BY DEF Lost

-----------------------------------------------------------------------------
(***************************************************************************)
(* The files.                                                              *)
(***************************************************************************)

WritersInv ==
    /\ exist \subseteq Files /\ torn \subseteq Files /\ broken \subseteq Files
    /\ faults \in [Files -> Nat]
    /\ missed \subseteq [file : Files, pod : Pods, node : Nodes, by : Nat]
    /\ MissesAfterFault

\* The files are opened: those that cannot be written to are known.
LEMMA OpeningKeeps ==
    ASSUME WritersInv, NEW files \in SUBSET Files, Opening(files)
    PROVE  WritersInv' /\ missed' = missed
<1>1. PICK failing \in SUBSET (files \ exist) :
        /\ faults' = [f \in Files |-> faults[f] + IF f \in failing THEN 1 ELSE 0]
        /\ broken' = failing
        /\ \E parts \in SUBSET failing : torn' = torn \cup parts
        /\ exist' = exist \cup files /\ missed' = missed
    BY DEF Opening
<1>2. PICK parts \in SUBSET failing : torn' = torn \cup parts
    BY <1>1
<1>3. failing \subseteq Files
    OBVIOUS
<1>4. /\ faults' \in [Files -> Nat]
      /\ \A f \in Files : faults[f] > 0 => faults'[f] > 0
      /\ \A f \in failing : faults'[f] > 0
    BY <1>1, <1>3 DEF WritersInv
<1> HIDE DEF Files
<1>5. MissesAfterFault'
    BY <1>1, <1>2, <1>3, <1>4 DEF WritersInv, MissesAfterFault
<1> QED
    BY <1>1, <1>2, <1>3, <1>4, <1>5 DEF WritersInv

\* A row that is not written is missed, for a reason.
LEMMA NotWrittenKeeps ==
    ASSUME WritersInv, NEW f \in Files, NEW a, NEW n \in Nodes, a.pod \in Pods, a.by \in Nat,
           NotWritten(f, a, n)
    PROVE  /\ WritersInv'
           /\ \E m : /\ missed' = missed \cup {m} /\ m.file = f /\ m.pod = a.pod
                     /\ m.node = n /\ m.by = a.by
<1> DEFINE m == [file |-> f, pod |-> a.pod, node |-> n, by |-> a.by]
<1>1. /\ missed' = missed \cup {m} /\ exist' = exist
      /\ m \in [file : Files, pod : Pods, node : Nodes, by : Nat]
      /\ m.file = f /\ m.pod = a.pod /\ m.node = n /\ m.by = a.by
    BY DEF NotWritten, Missed
<1>2. /\ faults' \in [Files -> Nat] /\ faults'[f] > 0
      /\ \A g \in Files : faults[g] > 0 => faults'[g] > 0
      /\ torn' \subseteq torn \cup {f} /\ broken' \subseteq broken \cup {f}
    BY DEF NotWritten, WritersInv, MissesAfterFault
<1> HIDE DEF m, Files
<1>3. MissesAfterFault'
    BY <1>1, <1>2 DEF WritersInv, MissesAfterFault
<1>4. WritersInv'
    BY <1>1, <1>2, <1>3 DEF WritersInv
<1> QED
    BY <1>1, <1>4

-----------------------------------------------------------------------------
(***************************************************************************)
(* The attempts.                                                           *)
(***************************************************************************)

AttemptsInv == LoggerTypeOK /\ AttemptsApart /\ OneAttempt /\ MissesAfterFault

\* The files' part of it.
LEMMA HasWritersInv == AttemptsInv => WritersInv
BY DEF AttemptsInv, LoggerTypeOK, WritersInv

\* No attempt is none.
LEMMA NoneIsNone == None \notin Attempt
BY LoggerAssumption DEF None, Attempt

\* What the types say of the logs' rows.
LEMMA RowTypes ==
    ASSUME LoggerTypeOK
    PROVE  /\ \A i \in DOMAIN states : states[i].by \in Nat
           /\ \A i \in DOMAIN actions :
                 /\ actions[i].by \in Nat /\ actions[i].pod \in Pods /\ actions[i].node \in Nodes
                 /\ actions[i].node # NoNode
           /\ \A p \in Pods : binding[p] # None => binding[p] \in Attempt /\ binding[p].by \in Nat
           /\ cycle # None => cycle \in Attempt /\ cycle.by \in Nat /\ cycle.pod \in Pods
           /\ \A m \in missed : m.by \in Nat
<1>1. \A i \in DOMAIN states : states[i] \in StateRow
    BY DEF LoggerTypeOK
<1>2. \A i \in DOMAIN actions : actions[i] \in Action
    BY DEF LoggerTypeOK
<1>3. \A p \in Pods : binding[p] # None => binding[p] \in Attempt
    BY DEF LoggerTypeOK
<1>4. cycle # None => cycle \in Attempt
    BY DEF LoggerTypeOK
<1>5. \A m \in missed : m.by \in Nat
    BY DEF LoggerTypeOK
<1> QED
    BY <1>1, <1>2, <1>3, <1>4, <1>5, LoggerAssumption DEF StateRow, Action, Attempt

\* The cycle of an attempt begins.
LEMMA ScheduleKeeps ==
    ASSUME AttemptsInv, NEW p \in Pods, NEW feasible \in SUBSET Nodes, Schedule(p, feasible)
    PROVE  /\ AttemptsInv'
           /\ ScoresLogged => ScoresLogged'
           /\ BindingsLogged => BindingsLogged'
<1>1. /\ cycle' = [pod |-> p, by |-> attempts + 1, feasible |-> feasible, node |-> NoNode,
                   todo |-> Candidates(feasible), bound |-> FALSE]
      /\ attempts' = attempts + 1 /\ cycle = None /\ binding[p] = None
      /\ assigned[p] = NoNode \/ p \in cut
      /\ UNCHANGED <<states, actions, exist, torn, broken, faults, missed, binding, assigned, unaware, cut>>
      /\ attempts \in Nat
    BY DEF Schedule, AttemptsInv, LoggerTypeOK, writers
<1>2. cycle' \in Attempt
    BY <1>1 DEF Attempt, Candidates
<1>3. /\ cycle'.pod = p /\ cycle'.by = attempts + 1 /\ cycle'.feasible = feasible
      /\ cycle'.todo = Candidates(feasible)
    BY <1>1
<1>4. /\ \A i \in DOMAIN states : states[i].by <= attempts /\ states[i].by \in Nat
      /\ \A i \in DOMAIN actions : actions[i].by <= attempts /\ actions[i].by \in Nat
      /\ \A q \in Pods : binding[q] # None => binding[q].by <= attempts /\ binding[q].by \in Nat
      /\ \A m \in missed : m.by <= attempts /\ m.by \in Nat
    BY RowTypes DEF AttemptsInv, AttemptsApart
<1>5. LoggerTypeOK'
    BY <1>1, <1>2 DEF AttemptsInv, LoggerTypeOK
<1>6. AttemptsApart'
    BY <1>1, <1>3, <1>4 DEF AttemptsApart
<1>7. OneAttempt'
    BY <1>1, <1>3 DEF AttemptsInv, OneAttempt
<1>8. ScoresLogged => ScoresLogged'
    <2>1. \A i \in DOMAIN states : states[i].by # cycle'.by
        BY <1>1, <1>3, <1>4
    <2>2. Lost(cycle', missed) = {}
        BY <1>1, <1>3, <1>4 DEF Lost
    <2>3. Tells(states, cycle', Lost(cycle', missed), cycle'.todo)
        BY <1>3, <2>1, <2>2, TellsNothing
    <2> QED
        BY <1>1, <2>3 DEF ScoresLogged
<1>9. BindingsLogged => BindingsLogged'
    BY <1>1 DEF BindingsLogged
<1>10. MissesAfterFault'
    BY <1>1 DEF AttemptsInv, MissesAfterFault
<1> QED
    BY <1>5, <1>6, <1>7, <1>8, <1>9, <1>10 DEF AttemptsInv

\* A node is scored and its row written, or missed, or none is to be written.
LEMMA ScoreKeeps ==
    ASSUME AttemptsInv, NEW n \in Nodes, NEW energy \in {"value", "-1"},
           Score(n, energy, Logs("score"))
    PROVE  /\ AttemptsInv'
           /\ Logs("score") /\ ScoresLogged => ScoresLogged'
           /\ BindingsLogged => BindingsLogged'
<1> DEFINE row == [pod |-> cycle.pod, node |-> n, by |-> cycle.by]
           written == Written("states") /\ states' = states \o <<row>>
           not == NotWritten("states", cycle, n) /\ UNCHANGED states
<1>1. /\ cycle # None /\ n \in cycle.todo
      /\ cycle' = [cycle EXCEPT !.todo = @ \ {n}]
      /\ \/ Logs("score") /\ written
         \/ Logs("score") /\ not
         \/ ~Logs("score") /\ UNCHANGED <<states, writers>>
      /\ UNCHANGED <<actions, binding, assigned, unaware, attempts, cut>>
    BY DEF Score, StateRows
<1>2. cycle \in Attempt /\ states \in Seq(StateRow)
    BY <1>1 DEF AttemptsInv, LoggerTypeOK
<1>3. row \in StateRow /\ row.by = cycle.by /\ row.node = n
    BY <1>2 DEF StateRow, Attempt
<1>4. /\ cycle' \in Attempt /\ cycle'.todo = cycle.todo \ {n}
      /\ cycle'.pod = cycle.pod /\ cycle'.by = cycle.by /\ cycle'.feasible = cycle.feasible
    BY <1>1, <1>2 DEF Attempt
<1>5. /\ cycle.by <= attempts /\ cycle.todo \subseteq Candidates(cycle.feasible)
      /\ \A i \in DOMAIN actions : actions[i].by # cycle.by
      /\ \A p \in Pods : binding[p] # None => binding[p].by # cycle.by
    BY <1>1 DEF AttemptsInv, AttemptsApart
<1>6. OneAttempt'
    BY <1>1, <1>4 DEF AttemptsInv, OneAttempt
<1>7. ASSUME written \/ UNCHANGED <<states, writers>>
      PROVE  AttemptsInv'
    <2>1. UNCHANGED <<exist, torn, broken, faults, missed>>
        BY <1>7 DEF Written, writers
    <2>2. states' = states \/ states' = states \o <<row>>
        BY <1>7
    <2> HIDE DEF row
    <2>3. states' \in Seq(StateRow)
        BY <1>2, <1>3, <2>2, Appended
    <2>4. LoggerTypeOK'
        BY <1>1, <1>4, <2>1, <2>3 DEF AttemptsInv, LoggerTypeOK
    <2>5. \A i \in DOMAIN states' : states'[i].by <= attempts
        BY <1>2, <1>3, <1>5, <2>2, Appended DEF AttemptsInv, AttemptsApart
    <2>6. AttemptsApart'
        BY <1>1, <1>4, <1>5, <2>1, <2>5 DEF AttemptsInv, AttemptsApart
    <2>7. MissesAfterFault'
        BY <2>1 DEF AttemptsInv, MissesAfterFault
    <2> QED
        BY <1>6, <2>4, <2>6, <2>7 DEF AttemptsInv
<1>8. ASSUME not
      PROVE  AttemptsInv'
    <2>1. /\ WritersInv'
          /\ \E m : missed' = missed \cup {m} /\ m.by = cycle.by
        BY <1>2, <1>8, NotWrittenKeeps, HasWritersInv DEF Attempt, Files
    <2>2. LoggerTypeOK' /\ MissesAfterFault'
        BY <1>1, <1>4, <1>8, <2>1 DEF AttemptsInv, LoggerTypeOK, WritersInv
    <2>3. AttemptsApart'
        BY <1>1, <1>4, <1>5, <1>8, <2>1 DEF AttemptsInv, AttemptsApart
    <2> QED
        BY <1>6, <2>2, <2>3 DEF AttemptsInv
<1>9. ASSUME Logs("score"), ScoresLogged, written
      PROVE  ScoresLogged'
    <2>1. states' = states \o <<row>> /\ missed' = missed
        BY <1>9 DEF Written, writers
    <2> HIDE DEF row
    <2>2. Tells(states', cycle', Lost(cycle', missed), cycle'.todo)
        <3>1. Tells(states, cycle, Lost(cycle, missed), cycle.todo)
            BY <1>1, <1>9 DEF ScoresLogged
        <3>2. Tells(states \o <<row>>, cycle, Lost(cycle, missed), cycle.todo \ {n})
            BY <1>1, <1>2, <1>3, <1>5, <3>1, TellsMore
        <3>3. Lost(cycle, missed) = Lost(cycle', missed)
            BY <1>4, LostSame
        <3> QED
            BY <1>4, <2>1, <3>2, <3>3, TellsSame
    <2>3. ASSUME NEW p \in Pods, binding[p] # None
          PROVE  Tells(states', binding[p], Lost(binding[p], missed), {})
        BY <1>2, <1>3, <1>5, <1>9, <2>1, <2>3, TellsKept DEF ScoresLogged
    <2>4. ASSUME NEW i \in DOMAIN actions
          PROVE  Tells(states', actions[i], Lost(actions[i], missed), {})
        BY <1>2, <1>3, <1>5, <1>9, <2>1, <2>4, TellsKept DEF ScoresLogged
    <2> QED
        BY <1>1, <2>1, <2>2, <2>3, <2>4 DEF ScoresLogged
<1>10. ASSUME Logs("score"), ScoresLogged, not
       PROVE  ScoresLogged'
    <2>1. PICK m : /\ missed' = missed \cup {m} /\ m.file = "states"
                   /\ m.by = cycle.by /\ m.node = n
        BY <1>2, <1>10, NotWrittenKeeps, HasWritersInv DEF Attempt, Files
    <2>2. Tells(states', cycle', Lost(cycle', missed'), cycle'.todo)
        <3>1. Tells(states, cycle, Lost(cycle, missed), cycle.todo)
            BY <1>1, <1>10 DEF ScoresLogged
        <3>2. Tells(states, cycle, Lost(cycle, missed) \cup {n}, cycle.todo \ {n})
            BY <1>1, <3>1, TellsLess
        <3>3. Lost(cycle, missed \cup {m}) = Lost(cycle, missed) \cup {n}
            <4>1. m.file = "states" /\ m.by = cycle.by /\ m.node = n
                BY <2>1
            <4> QED
                BY <4>1 DEF Lost
        <3>4. Lost(cycle, missed \cup {m}) = Lost(cycle', missed \cup {m})
            BY <1>4, LostSame
        <3> QED
            BY <1>4, <1>10, <2>1, <3>2, <3>3, <3>4, TellsSame
    <2>3. ASSUME NEW p \in Pods, binding[p] # None
          PROVE  Tells(states, binding[p], Lost(binding[p], missed'), {})
        BY <1>5, <1>10, <2>1, <2>3, LostMore DEF ScoresLogged
    <2>4. ASSUME NEW i \in DOMAIN actions
          PROVE  Tells(states, actions[i], Lost(actions[i], missed'), {})
        BY <1>5, <1>10, <2>1, <2>4, LostMore DEF ScoresLogged
    <2> QED
        BY <1>1, <1>10, <2>2, <2>3, <2>4 DEF ScoresLogged
<1>11. BindingsLogged => BindingsLogged'
    <2>1. missed \subseteq missed'
        BY <1>1 DEF Written, NotWritten, Missed, writers
    <2> QED
        BY <1>1, <2>1 DEF BindingsLogged
<1> QED
    BY <1>1, <1>7, <1>8, <1>9, <1>10, <1>11

\* A cycle fails, or ends with a node for the pod.
LEMMA CycleEndKeeps ==
    ASSUME AttemptsInv, CycleFails \/ \E n \in Nodes : Assume(n)
    PROVE  /\ AttemptsInv'
           /\ ScoresLogged => ScoresLogged'
           /\ BindingsLogged => BindingsLogged'
<1>1. CASE CycleFails
    BY <1>1 DEF CycleFails, AttemptsInv, LoggerTypeOK, AttemptsApart, OneAttempt, MissesAfterFault,
                ScoresLogged, BindingsLogged, writers
<1>2. ASSUME NEW n \in Nodes, Assume(n)
      PROVE  /\ AttemptsInv'
             /\ ScoresLogged => ScoresLogged'
             /\ BindingsLogged => BindingsLogged'
    <2>1. /\ cycle # None /\ cycle.todo = {} /\ cycle' = None
          /\ binding' = [binding EXCEPT ![cycle.pod] = [cycle EXCEPT !.node = n]]
          /\ UNCHANGED <<states, actions, exist, torn, broken, faults, missed, assigned, unaware, attempts, cut>>
        BY <1>2 DEF Assume, writers
    <2>2. cycle \in Attempt /\ cycle.pod \in Pods /\ binding \in [Pods -> Attempt \cup {None}]
        BY <2>1 DEF AttemptsInv, LoggerTypeOK, Attempt
    <2> DEFINE p == cycle.pod
    <2>3. /\ binding'[p] \in Attempt /\ binding'[p].pod = p /\ binding'[p].node = n
          /\ binding'[p].todo = {} /\ binding'[p].by = cycle.by
          /\ binding'[p].feasible = cycle.feasible /\ binding'[p].bound = cycle.bound
          /\ \A q \in Pods \ {p} : binding'[q] = binding[q]
          /\ binding' \in [Pods -> Attempt \cup {None}]
        BY <2>1, <2>2 DEF Attempt
    <2>4. /\ binding[p] = None /\ (assigned[p] = NoNode \/ p \in cut) /\ ~cycle.bound
          /\ cycle.by <= attempts
          /\ binding'[p] # None
        BY <2>1, <2>3, NoneIsNone DEF AttemptsInv, OneAttempt, AttemptsApart
    <2>5. LoggerTypeOK'
        BY <2>1, <2>3 DEF AttemptsInv, LoggerTypeOK
    <2>6. AttemptsApart'
        BY <2>1, <2>3, <2>4 DEF AttemptsInv, AttemptsApart
    <2>7. \A i \in DOMAIN actions : actions[i].pod \in Pods /\ actions[i].node # NoNode
        BY RowTypes DEF AttemptsInv
    <2>8. OneAttempt'
        BY <1>2, <2>1, <2>3, <2>4, <2>7 DEF AttemptsInv, OneAttempt
    <2>9. ASSUME ScoresLogged
          PROVE  ScoresLogged'
        <3>1. Tells(states, cycle, Lost(cycle, missed), {})
            BY <2>1, <2>9 DEF ScoresLogged
        <3>2. Lost(cycle, missed) = Lost(binding'[p], missed)
            BY <2>3, LostSame
        <3>3. Tells(states, binding'[p], Lost(binding'[p], missed), {})
            BY <2>3, <3>1, <3>2, TellsSame
        <3>4. \A q \in Pods : binding'[q] # None => Tells(states, binding'[q], Lost(binding'[q], missed), {})
            BY <2>3, <2>9, <3>3 DEF ScoresLogged
        <3> QED
            BY <2>1, <2>9, <3>4 DEF ScoresLogged
    <2>10. BindingsLogged => BindingsLogged'
        BY <2>1, <2>3, <2>4 DEF BindingsLogged
    <2>11. MissesAfterFault'
        BY <2>1 DEF AttemptsInv, MissesAfterFault
    <2> QED
        BY <2>5, <2>6, <2>8, <2>9, <2>10, <2>11 DEF AttemptsInv
<1> QED
    BY <1>1, <1>2

\* The API server is asked to bind a pod.
LEMMA BindKeeps ==
    ASSUME AttemptsInv, NEW p \in Pods, Bind(p)
    PROVE  /\ AttemptsInv'
           /\ ScoresLogged => ScoresLogged'
           /\ BindingsLogged => BindingsLogged'
<1>1. /\ binding[p] # None /\ ~binding[p].bound
      /\ UNCHANGED <<states, actions, exist, torn, broken, faults, missed, cycle, attempts>>
    BY DEF Bind, writers
<1>2. /\ binding[p] \in Attempt /\ binding[p].node \in Nodes /\ binding[p].node # NoNode
      /\ binding \in [Pods -> Attempt \cup {None}] /\ assigned \in [Pods -> Nodes \cup {NoNode}]
      /\ cycle # None => cycle.pod # p
      /\ p \in cut \/ assigned[p] = NoNode
      /\ p \in cut => assigned[p] # NoNode
    BY <1>1, LoggerAssumption DEF AttemptsInv, LoggerTypeOK, OneAttempt
<1>3. \A i \in DOMAIN actions : actions[i].pod \in Pods /\ actions[i].pod # p
    BY <1>1, RowTypes DEF AttemptsInv, OneAttempt
<1>4. cycle # None => cycle.pod \in Pods
    BY DEF AttemptsInv, LoggerTypeOK, Attempt
<1>5. MissesAfterFault'
    BY <1>1 DEF AttemptsInv, MissesAfterFault
<1>6. CASE /\ assigned[p] = NoNode /\ assigned' = [assigned EXCEPT ![p] = binding[p].node]
           /\ binding' = [binding EXCEPT ![p].bound = TRUE] /\ UNCHANGED <<unaware, cut>>
    <2>1. assigned' \in [Pods -> Nodes \cup {NoNode}] /\ assigned'[p] = binding[p].node
          /\ \A q \in Pods \ {p} : assigned'[q] = assigned[q]
        BY <1>2, <1>6
    <2>2. /\ binding' \in [Pods -> Attempt \cup {None}] /\ binding'[p] \in Attempt
          /\ binding'[p].pod = binding[p].pod /\ binding'[p].by = binding[p].by
          /\ binding'[p].feasible = binding[p].feasible /\ binding'[p].node = binding[p].node
          /\ binding'[p].todo = binding[p].todo /\ binding'[p].bound
          /\ \A q \in Pods \ {p} : binding'[q] = binding[q]
        BY <1>2, <1>6 DEF Attempt
    <2>3. binding'[p] # None
        BY <2>2, NoneIsNone
    <2>4. LoggerTypeOK'
        BY <1>1, <1>6, <2>1, <2>2 DEF AttemptsInv, LoggerTypeOK
    <2>5. AttemptsApart'
        BY <1>1, <2>2 DEF AttemptsInv, AttemptsApart
    <2>6. OneAttempt'
        BY <1>1, <1>2, <1>3, <1>4, <1>6, <2>1, <2>2, <2>3 DEF AttemptsInv, OneAttempt
    <2>7. ASSUME ScoresLogged
          PROVE  ScoresLogged'
        <3>1. Tells(states, binding[p], Lost(binding[p], missed), {})
            BY <1>1, <2>7 DEF ScoresLogged
        <3>2. Lost(binding[p], missed) = Lost(binding'[p], missed)
            BY <2>2, LostSame
        <3>3. Tells(states, binding'[p], Lost(binding'[p], missed), {})
            BY <2>2, <3>1, <3>2, TellsSame
        <3>4. \A q \in Pods : binding'[q] # None => Tells(states, binding'[q], Lost(binding'[q], missed), {})
            BY <2>2, <2>7, <3>3 DEF ScoresLogged
        <3> QED
            BY <1>1, <2>7, <3>4 DEF ScoresLogged
    <2>8. BindingsLogged => BindingsLogged'
        BY <1>1, <1>6, <2>1, <2>2, <2>3 DEF BindingsLogged
    <2> QED
        BY <1>5, <2>4, <2>5, <2>6, <2>7, <2>8 DEF AttemptsInv
<1>7. CASE /\ binding' = [binding EXCEPT ![p] = None]
           /\ \/ UNCHANGED <<assigned, unaware, cut>>
              \/ /\ assigned[p] = NoNode /\ assigned' = [assigned EXCEPT ![p] = binding[p].node]
                 /\ unaware' = unaware \cup {p} /\ cut' = cut \cup {p}
    <2>1. binding' \in [Pods -> Attempt \cup {None}] /\ binding'[p] = None
          /\ \A q \in Pods \ {p} : binding'[q] = binding[q]
        BY <1>2, <1>7
    <2>2. /\ assigned' \in [Pods -> Nodes \cup {NoNode}]
          /\ \A q \in Pods \ {p} : assigned'[q] = assigned[q]
          /\ assigned'[p] # NoNode => p \in cut'
          /\ p \in cut' => assigned'[p] # NoNode
          /\ cut \subseteq cut' /\ cut' \subseteq cut \cup {p}
          /\ unaware' \subseteq cut'
        BY <1>2, <1>7 DEF AttemptsInv, LoggerTypeOK
    <2>3. LoggerTypeOK'
        BY <1>1, <2>1, <2>2 DEF AttemptsInv, LoggerTypeOK
    <2>4. AttemptsApart'
        BY <1>1, <2>1 DEF AttemptsInv, AttemptsApart
    <2>5. OneAttempt'
        BY <1>1, <1>2, <1>3, <1>4, <2>1, <2>2 DEF AttemptsInv, LoggerTypeOK, OneAttempt
    <2>6. ScoresLogged => ScoresLogged'
        BY <1>1, <2>1 DEF ScoresLogged
    <2>7. BindingsLogged => BindingsLogged'
        BY <1>1, <2>1, <2>2 DEF BindingsLogged
    <2> QED
        BY <1>5, <2>3, <2>4, <2>5, <2>6, <2>7 DEF AttemptsInv
<1> QED
    BY <1>6, <1>7 DEF Bind

\* The scheduler learns that a pod was bound.
LEMMA SeesBoundKeeps ==
    ASSUME AttemptsInv, NEW p \in Pods, SeesBound(p)
    PROVE  /\ AttemptsInv'
           /\ ScoresLogged => ScoresLogged'
           /\ BindingsLogged => BindingsLogged'
BY DEF SeesBound, AttemptsInv, LoggerTypeOK, AttemptsApart, OneAttempt, MissesAfterFault,
       ScoresLogged, BindingsLogged, writers

\* A bound pod is logged, or its row is missed, or none is to be written.
LEMMA PostBindKeeps ==
    ASSUME AttemptsInv, NEW p \in Pods, PostBind(p, Logs("postBind"))
    PROVE  /\ AttemptsInv'
           /\ ScoresLogged => ScoresLogged'
           /\ Logs("postBind") /\ BindingsLogged => BindingsLogged'
<1> DEFINE a == binding[p]
           row == ActionRow(a)
           written == Written("actions") /\ actions' = Append(actions, row)
           not == NotWritten("actions", a, a.node) /\ UNCHANGED actions
<1>1. /\ a # None /\ a.bound
      /\ \/ Logs("postBind") /\ written
         \/ Logs("postBind") /\ not
         \/ ~Logs("postBind") /\ UNCHANGED <<actions, writers>>
      /\ binding' = [binding EXCEPT ![p] = None]
      /\ UNCHANGED <<states, cycle, assigned, unaware, attempts, cut>>
    BY DEF PostBind
<1>2. /\ a \in Attempt /\ a.pod = p /\ a.node \in Nodes /\ assigned[p] = a.node /\ p \notin cut
      /\ binding \in [Pods -> Attempt \cup {None}] /\ actions \in Seq(Action)
      /\ a.by <= attempts /\ (cycle # None => a.by # cycle.by /\ cycle.pod # p)
    BY <1>1 DEF AttemptsInv, LoggerTypeOK, OneAttempt, AttemptsApart
<1>3. /\ row \in Action /\ row.pod = p /\ row.node = a.node /\ row.by = a.by
      /\ row.feasible = a.feasible
    BY <1>2 DEF ActionRow, Action, Attempt
<1>4. /\ binding' \in [Pods -> Attempt \cup {None}] /\ binding'[p] = None
      /\ \A q \in Pods \ {p} : binding'[q] = binding[q]
    BY <1>1, <1>2
<1>5. \A i \in DOMAIN actions : actions[i].pod \in Pods /\ actions[i].pod # p
    BY <1>1, RowTypes DEF AttemptsInv, OneAttempt
<1>6. cycle # None => cycle.pod \in Pods
    BY DEF AttemptsInv, LoggerTypeOK, Attempt
<1>7. CASE written
    <2>1. UNCHANGED <<exist, torn, broken, faults, missed>>
        BY <1>7 DEF Written, writers
    <2>2. /\ actions' \in Seq(Action)
          /\ DOMAIN actions' = DOMAIN actions \cup {Len(actions) + 1}
          /\ \A i \in DOMAIN actions : actions'[i] = actions[i]
          /\ actions'[Len(actions) + 1] = row
        BY <1>2, <1>3, <1>7
    <2> HIDE DEF row, a
    <2>3. LoggerTypeOK'
        BY <1>1, <1>4, <2>1, <2>2 DEF AttemptsInv, LoggerTypeOK
    <2>4. AttemptsApart'
        BY <1>1, <1>2, <1>3, <1>4, <2>1, <2>2 DEF AttemptsInv, AttemptsApart
    <2>5. OneAttempt'
        <3>1. \A i \in DOMAIN actions' :
                  /\ binding'[actions'[i].pod] = None /\ assigned'[actions'[i].pod] = actions'[i].node
                  /\ actions'[i].pod \notin cut'
            BY <1>1, <1>2, <1>3, <1>4, <1>5, <2>2 DEF AttemptsInv, OneAttempt
        <3>2. \A i, j \in DOMAIN actions' : actions'[i].pod = actions'[j].pod => i = j
            BY <1>3, <1>5, <2>2 DEF AttemptsInv, OneAttempt
        <3> QED
            BY <1>1, <1>4, <1>6, <3>1, <3>2 DEF AttemptsInv, OneAttempt
    <2>6. ASSUME ScoresLogged
          PROVE  ScoresLogged'
        <3>1. Tells(states, a, Lost(a, missed), {})
            BY <1>1, <2>6 DEF ScoresLogged, a
        <3>2. Lost(a, missed) = Lost(row, missed)
            BY <1>3, LostSame
        <3>3. Tells(states, row, Lost(row, missed), {})
            BY <1>3, <3>1, <3>2, TellsSame
        <3> QED
            BY <1>1, <1>4, <2>1, <2>2, <2>6, <3>3 DEF ScoresLogged
    <2>7. BindingsLogged => BindingsLogged'
        BY <1>1, <1>3, <1>4, <2>1, <2>2 DEF BindingsLogged
    <2>8. MissesAfterFault'
        BY <2>1 DEF AttemptsInv, MissesAfterFault
    <2> QED
        BY <2>3, <2>4, <2>5, <2>6, <2>7, <2>8 DEF AttemptsInv
<1>8. CASE not
    <2>1. /\ WritersInv' /\ actions' = actions
          /\ \E m : /\ missed' = missed \cup {m} /\ m.by = a.by /\ m.file = "actions" /\ m.pod = p
        BY <1>2, <1>8, NotWrittenKeeps, HasWritersInv DEF Attempt, Files
    <2>2. PICK m : missed' = missed \cup {m} /\ m.by = a.by /\ m.file = "actions" /\ m.pod = p
        BY <2>1
    <2> HIDE DEF row, a
    <2>3. LoggerTypeOK' /\ MissesAfterFault'
        BY <1>1, <1>4, <2>1 DEF AttemptsInv, LoggerTypeOK, WritersInv
    <2>4. AttemptsApart'
        BY <1>1, <1>2, <1>4, <2>1, <2>2 DEF AttemptsInv, AttemptsApart
    <2>5. OneAttempt'
        BY <1>1, <1>2, <1>4, <1>5, <1>6, <2>1 DEF AttemptsInv, OneAttempt
    <2>6. \A b : Lost(b, missed') = Lost(b, missed)
        BY <2>2, LostMore
    <2>7. ScoresLogged => ScoresLogged'
        BY <1>1, <1>4, <2>1, <2>6 DEF ScoresLogged
    <2>8. BindingsLogged => BindingsLogged'
        BY <1>1, <1>4, <2>1, <2>2 DEF BindingsLogged
    <2> QED
        BY <2>3, <2>4, <2>5, <2>7, <2>8 DEF AttemptsInv
<1>9. CASE ~Logs("postBind") /\ UNCHANGED <<actions, writers>>
    <2>1. UNCHANGED <<actions, exist, torn, broken, faults, missed>>
        BY <1>9 DEF writers
    <2> HIDE DEF row, a
    <2>2. LoggerTypeOK' /\ MissesAfterFault'
        BY <1>1, <1>4, <2>1 DEF AttemptsInv, LoggerTypeOK, MissesAfterFault
    <2>3. AttemptsApart'
        BY <1>1, <1>4, <2>1 DEF AttemptsInv, AttemptsApart
    <2>4. OneAttempt'
        BY <1>1, <1>4, <1>5, <1>6, <2>1 DEF AttemptsInv, OneAttempt
    <2>5. ScoresLogged => ScoresLogged'
        BY <1>1, <1>4, <2>1 DEF ScoresLogged
    <2> QED
        BY <1>9, <2>2, <2>3, <2>4, <2>5 DEF AttemptsInv
<1> QED
    BY <1>1, <1>7, <1>8, <1>9

\* The process dies; the files and the API server do not.
LEMMA KilledKeeps ==
    ASSUME AttemptsInv, Killed
    PROVE  /\ AttemptsInv'
           /\ ScoresLogged => ScoresLogged'
           /\ BindingsLogged => BindingsLogged'
<1>1. /\ cycle' = None /\ binding' = [p \in Pods |-> None] /\ unaware' = {}
      /\ cut' = cut \cup {p \in Pods : binding[p] # None /\ binding[p].bound}
      /\ UNCHANGED <<states, actions, exist, torn, broken, faults, missed, assigned, attempts>>
    BY DEF Killed, writers
<1>2. LoggerTypeOK'
    BY <1>1 DEF AttemptsInv, LoggerTypeOK
<1>3. AttemptsApart'
    BY <1>1 DEF AttemptsInv, AttemptsApart
<1>4. \A p \in Pods : binding[p] # None =>
        binding[p].node # NoNode /\ (assigned[p] # NoNode => p \in cut \/ binding[p].bound)
    BY LoggerAssumption DEF AttemptsInv, OneAttempt
<1>5. OneAttempt'
    BY <1>1, <1>4, RowTypes DEF AttemptsInv, OneAttempt
<1>6. ScoresLogged => ScoresLogged'
    BY <1>1 DEF ScoresLogged
<1>7. BindingsLogged => BindingsLogged'
    BY <1>1, <1>4 DEF BindingsLogged
<1>8. MissesAfterFault'
    BY <1>1 DEF AttemptsInv, MissesAfterFault
<1> QED
    BY <1>2, <1>3, <1>5, <1>6, <1>7, <1>8 DEF AttemptsInv

\* The plugin opens its files, all or one.
LEMMA FilesOpenedKeep ==
    ASSUME AttemptsInv, NEW files \in SUBSET Files, Opening(files),
           UNCHANGED <<states, actions, cycle, binding, assigned, unaware, attempts, cut>>
    PROVE  /\ AttemptsInv'
           /\ ScoresLogged => ScoresLogged'
           /\ BindingsLogged => BindingsLogged'
<1>1. WritersInv' /\ missed' = missed
    BY OpeningKeeps, HasWritersInv
<1>2. LoggerTypeOK' /\ MissesAfterFault'
    BY <1>1 DEF AttemptsInv, LoggerTypeOK, WritersInv
<1>3. AttemptsApart' /\ OneAttempt'
    BY <1>1 DEF AttemptsInv, AttemptsApart, OneAttempt
<1> QED
    BY <1>1, <1>2, <1>3 DEF AttemptsInv, ScoresLogged, BindingsLogged

-----------------------------------------------------------------------------
(***************************************************************************)
(* The process: its start, and the whole.                                  *)
(***************************************************************************)

\* What a profile comes to, and where its scheduler logs.
LEMMA EffectiveIs ==
    ASSUME NEW p \in DOMAIN Effective
    PROVE  /\ Effective[p].plugins =
                SetDefaults(ConvertForSimulator(p, DefaultPlugins.multiPoint), DefaultPlugins)
           /\ \A pt \in Converted : pt \in Effective[p].logsAt <=>
                pluginName(Name(Logger)) \in Names(Expand(Effective[p].plugins, pt))
BY DEF Effective

\* A scheduler that runs logs where its profile says.
LEMMA RunningLogs ==
    ASSUME StartsFromDefaults, phase = "running", NEW pt \in Converted
    PROVE  Logs(pt) <=> pt \in Effective[file.profile].logsAt
<1>1. scheme = Effective[file.profile].plugins /\ file.profile \in DOMAIN Effective
    BY DEF StartsFromDefaults
<1> QED
    BY <1>1, EffectiveIs DEF Logs, Running

\* A step that leaves the logs and the attempts alone, and keeps the process on
\* its course, keeps the invariant.
LEMMA StartKeeps ==
    ASSUME IInv, StartsFromDefaults', UNCHANGED <<file, loggerVars>>
    PROVE  IInv'
BY DEF IInv, loggerVars, writers, LoggerTypeOK, AttemptsApart, OneAttempt, MissesAfterFault,
       ScoresLogged, BindingsLogged

\* The files are opened on the way.
LEMMA OpenedKeeps ==
    ASSUME IInv, StartsFromDefaults', file' = file, NEW files \in SUBSET Files, Opening(files),
           UNCHANGED <<states, actions, cycle, binding, assigned, unaware, attempts, cut>>
    PROVE  IInv'
BY FilesOpenedKeep DEF IInv, AttemptsInv

\* A step of the scheduler keeps the invariant, if it keeps the logs complete as
\* far as they are kept.
LEMMA SchedulerKeeps ==
    ASSUME IInv, phase = "running",
           UNCHANGED <<file, pods, phase, scheme, versioned, args, registry>>,
           AttemptsInv',
           Logs("score") /\ ScoresLogged => ScoresLogged',
           Logs("postBind") /\ BindingsLogged => BindingsLogged'
    PROVE  IInv'
<1>1. StartsFromDefaults'
    BY DEF IInv, StartsFromDefaults
<1>2. /\ Logs("score") <=> "score" \in Effective[file.profile].logsAt
      /\ Logs("postBind") <=> "postBind" \in Effective[file.profile].logsAt
    BY RunningLogs, PointsAssumption DEF IInv
<1> QED
    BY <1>1, <1>2 DEF IInv, AttemptsInv

\* The first state has empty logs.
LEMMA InvInit == Init => IInv
<1> SUFFICES ASSUME Init PROVE IInv
    OBVIOUS
<1>1. PICK i \in Instances : file = [profile |-> i.profile, args |-> i.args] /\ pods = i.pods
    BY DEF Init
<1>2. file.profile \in DOMAIN Effective /\ pods \subseteq Pods
    BY <1>1, InstancesAssumption DEF Effective
<1>3. StartsFromDefaults
    BY <1>2 DEF Init, LoggerInit, StartsFromDefaults
<1>4. /\ LoggerTypeOK /\ AttemptsApart /\ OneAttempt /\ MissesAfterFault
      /\ ScoresLogged /\ BindingsLogged
    BY DEF Init, LoggerInit, LoggerTypeOK, AttemptsApart, OneAttempt, MissesAfterFault,
           ScoresLogged, BindingsLogged
<1> QED
    BY <1>3, <1>4 DEF IInv

\* Every step keeps the invariant.
LEMMA InvStep == IInv /\ [Next]_vars => IInv'
<1> SUFFICES ASSUME IInv, [Next]_vars PROVE IInv'
    OBVIOUS
<1>0. StartsFromDefaults /\ AttemptsInv
    BY DEF IInv, AttemptsInv
<1>1. CASE NewConfigs
    <2>1. versioned' = Effective[file.profile].plugins
        BY <1>0, <1>1, EffectiveIs DEF NewConfigs, StartsFromDefaults
    <2>2. StartsFromDefaults'
        BY <1>0, <1>1, <2>1 DEF NewConfigs, StartsFromDefaults, loggerVars
    <2> QED
        BY <1>1, <2>2, StartKeeps DEF NewConfigs
<1>2. CASE NewRegistry
    <2>1. StartsFromDefaults'
        BY <1>0, <1>2 DEF NewRegistry, StartsFromDefaults, loggerVars
    <2> QED
        BY <1>2, <2>1, StartKeeps DEF NewRegistry
<1>3. CASE AddTypeDefaultingFunc
    <2>1. StartsFromDefaults'
        BY <1>0, <1>3 DEF AddTypeDefaultingFunc, StartsFromDefaults, loggerVars
    <2> QED
        BY <1>3, <2>1, StartKeeps DEF AddTypeDefaultingFunc
<1>4. CASE Start
    <2>1. /\ New \/ UNCHANGED <<states, actions, writers>>
          /\ UNCHANGED <<file, cycle, binding, assigned, unaware, attempts, cut>>
        BY <1>4 DEF Start
    <2>2. StartsFromDefaults'
        BY <1>0, <1>4 DEF Start, StartsFromDefaults
    <2>3. CASE New
        BY <2>1, <2>2, <2>3, OpenedKeeps DEF New, Opened
    <2>4. CASE UNCHANGED <<states, actions, writers>>
        BY <2>1, <2>2, <2>4, StartKeeps DEF loggerVars
    <2> QED
        BY <2>1, <2>3, <2>4
<1>5. CASE SchedulerStep
    <2>1. /\ phase = "running"
          /\ UNCHANGED <<file, pods, phase, scheme, versioned, args, registry>>
          /\ pods \subseteq Pods
        BY <1>0, <1>5 DEF SchedulerStep, StartsFromDefaults
    <2>2. ASSUME NEW p \in pods, NEW feasible \in SUBSET Nodes, Schedule(p, feasible)
          PROVE  IInv'
        BY <1>0, <2>1, <2>2, ScheduleKeeps, SchedulerKeeps
    <2>3. ASSUME NEW n \in Nodes, NEW energy \in {"value", "-1"}, Score(n, energy, Logs("score"))
          PROVE  IInv'
        BY <1>0, <2>1, <2>3, ScoreKeeps, SchedulerKeeps
    <2>4. CASE CycleFails \/ \E n \in Nodes : Assume(n)
        BY <1>0, <2>1, <2>4, CycleEndKeeps, SchedulerKeeps
    <2>5. ASSUME NEW p \in pods, Bind(p)
          PROVE  IInv'
        BY <1>0, <2>1, <2>5, BindKeeps, SchedulerKeeps
    <2>6. ASSUME NEW p \in pods, SeesBound(p)
          PROVE  IInv'
        BY <1>0, <2>1, <2>6, SeesBoundKeeps, SchedulerKeeps
    <2>7. ASSUME NEW p \in pods, PostBind(p, Logs("postBind"))
          PROVE  IInv'
        BY <1>0, <2>1, <2>7, PostBindKeeps, SchedulerKeeps
    <2> QED
        BY <1>5, <2>2, <2>3, <2>4, <2>5, <2>6, <2>7 DEF SchedulerStep
<1>6. CASE Restart
    <2>1. /\ phase' = "start" /\ scheme' = DefaultPlugins /\ Killed /\ UNCHANGED <<file, pods>>
        BY <1>6 DEF Restart, StartsAgain
    <2>2. StartsFromDefaults'
        BY <1>0, <2>1 DEF StartsFromDefaults, Killed
    <2> QED
        BY <1>0, <2>1, <2>2, KilledKeeps DEF IInv, AttemptsInv
<1>7. CASE StartFails
    <2>1. /\ phase = "defaulted" /\ phase' = "start" /\ scheme' = DefaultPlugins
          /\ NewFails /\ UNCHANGED <<file, pods, cycle, binding, assigned, unaware, attempts, cut>>
        BY <1>7 DEF StartFails, StartsAgain
    <2>2. StartsFromDefaults'
        BY <1>0, <2>1 DEF StartsFromDefaults
    <2>3. PICK opened \in {{}, {"states"}} : Opening(opened)
        BY <2>1 DEF NewFails
    <2>4. opened \in SUBSET Files
        BY DEF Files
    <2> QED
        BY <2>1, <2>2, <2>3, <2>4, OpenedKeeps DEF NewFails
<1>8. CASE UNCHANGED vars
    <2>1. StartsFromDefaults'
        BY <1>0, <1>8 DEF vars, StartsFromDefaults, loggerVars
    <2> QED
        BY <1>8, <2>1, StartKeeps DEF vars
<1> QED
    BY <1>1, <1>2, <1>3, <1>4, <1>5, <1>6, <1>7, <1>8 DEF Next

\* The inductive invariant: every process of the scheduler starts from the
\* defaults and comes to the same plugins (debuggable_scheduler.go:90-154), and
\* the Logger's rows follow the attempts.
THEOREM Invariant == Spec => []IInv
BY InvInit, InvStep, PTL DEF Spec

\* A logged action is a binding, once, with its candidates in the state log, and
\* every binding is logged, but those that the scheduler did not live or learn to see
\* done, and the rows missed of a file after a write to it failed
\* (logScheduler/plugin.go:234-321).
THEOREM LogTells == Spec => []LogTellsDecisions
<1>1. ASSUME IInv
      PROVE  LogTellsDecisions
    <2>1. \A i \in DOMAIN actions : assigned[actions[i].pod] = actions[i].node
        BY <1>1 DEF IInv, OneAttempt
    <2>2. \A i, j \in DOMAIN actions : actions[i].pod = actions[j].pod => i = j
        BY <1>1 DEF IInv, OneAttempt
    <2>3. ASSUME phase = "running", Logs("score"), NEW k \in DOMAIN actions
          PROVE  LET rows == {i \in DOMAIN states : states[i].by = actions[k].by}
                 IN  /\ \A i, j \in rows : states[i].node = states[j].node => i = j
                     /\ {states[i].node : i \in rows}
                            = Candidates(actions[k].feasible) \ Lost(actions[k], missed)
        <3>1. ScoresLogged
            BY <1>1, <2>3, RunningLogs, PointsAssumption DEF IInv
        <3>2. Tells(states, actions[k], Lost(actions[k], missed), {})
            BY <2>3, <3>1 DEF ScoresLogged
        <3> QED
            BY <3>2 DEF Tells
    <2>4. ASSUME phase = "running", Logs("postBind"), NEW p \in pods \ cut,
                 assigned[p] # NoNode, binding[p] = None
          PROVE  \/ \E i \in DOMAIN actions : actions[i].pod = p
                 \/ \E m \in missed : m.file = "actions" /\ m.pod = p
        <3>1. BindingsLogged
            BY <1>1, <2>4, RunningLogs, PointsAssumption DEF IInv
        <3>2. p \in Pods
            BY <1>1 DEF IInv, StartsFromDefaults
        <3> QED
            BY <2>4, <3>1, <3>2 DEF BindingsLogged
    <2>5. \A r \in ToSet(actions) : \E k \in DOMAIN actions : r = actions[k]
        BY DEF ToSet
    <2>6. \A k \in DOMAIN actions : actions[k] \in ToSet(actions)
        BY DEF ToSet
    <2>7. \A r \in ToSet(actions) : assigned[r.pod] = r.node
        BY <2>1, <2>5
    <2>8. ASSUME phase = "running", Logs("score"), NEW r \in ToSet(actions)
          PROVE  LET rows == {i \in DOMAIN states : states[i].by = r.by}
                 IN  /\ \A i, j \in rows : states[i].node = states[j].node => i = j
                     /\ {states[i].node : i \in rows} = Candidates(r.feasible) \ Lost(r, missed)
        <3>1. PICK k \in DOMAIN actions : r = actions[k]
            BY <2>5
        <3> QED
            BY <2>3, <2>8, <3>1
    <2>9. ASSUME phase = "running", Logs("postBind"), NEW p \in pods \ cut,
                 assigned[p] # NoNode, binding[p] = None
          PROVE  \/ \E r \in ToSet(actions) : r.pod = p
                 \/ \E m \in missed : m.file = "actions" /\ m.pod = p
        BY <2>4, <2>6, <2>9
    <2>10. \A m \in missed : faults[m.file] > 0
        BY <1>1 DEF IInv, MissesAfterFault
    <2> QED
        BY <2>2, <2>7, <2>8, <2>9, <2>10 DEF LogTellsDecisions
<1> QED
    BY <1>1, Invariant, PTL


-----------------------------------------------------------------------------
(***************************************************************************)
(* Plugin sets: what merging gives, and what conversion does to it.        *)
(***************************************************************************)

\* The last entry of a name is one of the name.
LEMMA LastOfIn ==
    ASSUME NEW E, NEW s \in Seq(E), NEW n \in Names(s)
    PROVE  LastOf(s, n) \in DOMAIN s /\ s[LastOf(s, n)].name = n
<1> DEFINE X == {i \in DOMAIN s : s[i].name = n}
<1>1. X \in SUBSET Nat /\ X # {} /\ Len(s) \in Nat /\ \A i \in X : i <= Len(s)
    BY DEF Names
<1>2. \E m \in X : \A i \in X : i <= m
    <2> HIDE DEF X
    <2> QED
        BY <1>1, GreatestNatural
<1>3. \E m \in X : \A i \in X : m >= i
    BY <1>1, <1>2
<1>4. Max(X) \in X
    <2> HIDE DEF X
    <2> QED
        BY <1>3 DEF Max
<1> QED
    BY <1>4 DEF LastOf

\* Merging gives entries of both sets.
LEMMA MergeType ==
    ASSUME NEW E, NEW default, NEW custom, default.enabled \in Seq(E), custom.enabled \in Seq(E)
    PROVE  mergePluginSet(default, custom).enabled \in Seq(E)
<1> DEFINE off == default.disabled \cup custom.disabled
           keeps == {e \in ToSet(default.enabled) : All \notin off /\ e.name \notin off}
           kept == Selected(default.enabled, keeps)
           Again(e) == e.name \in Names(custom.enabled)
           replaced == {LastOf(custom.enabled, e.name) : e \in {x \in ToSet(kept) : Again(x)}}
           rest == Selected([i \in DOMAIN custom.enabled |-> i], DOMAIN custom.enabled \ replaced)
           front == [i \in DOMAIN kept |->
                        IF Again(kept[i]) THEN custom.enabled[LastOf(custom.enabled, kept[i].name)]
                                          ELSE kept[i]]
           back == [i \in DOMAIN rest |-> custom.enabled[rest[i]]]
<1>1. kept \in Seq(E)
    <2> HIDE DEF keeps
    <2> QED
        BY SelectedType
<1>2. rest \in Seq(DOMAIN custom.enabled)
    <2> DEFINE D == DOMAIN custom.enabled
               ids == [i \in DOMAIN custom.enabled |-> i]
    <2>1. ids \in Seq(D)
        OBVIOUS
    <2> HIDE DEF replaced, D, ids
    <2>2. Selected(ids, D \ replaced) \in Seq(D)
        BY <2>1, SelectedType
    <2> QED
        BY <2>2 DEF D, ids
<1>3. mergePluginSet(default, custom).enabled = front \o back
    BY DEF mergePluginSet
<1> HIDE DEF kept, rest
<1>4. front \in Seq(E)
    <2>1. ASSUME NEW i \in DOMAIN kept, Again(kept[i])
          PROVE  custom.enabled[LastOf(custom.enabled, kept[i].name)] \in E
        <3>1. LastOf(custom.enabled, kept[i].name) \in DOMAIN custom.enabled
            BY <2>1, LastOfIn
        <3> QED
            BY <3>1
    <2>2. \A i \in DOMAIN kept : front[i] \in E
        BY <1>1, <2>1
    <2>3. DOMAIN front = 1 .. Len(kept) /\ Len(kept) \in Nat /\ front = [i \in DOMAIN front |-> front[i]]
        BY <1>1
    <2> HIDE DEF front
    <2> QED
        BY <1>1, <2>2, <2>3
<1>5. back \in Seq(E)
    BY <1>2
<1> HIDE DEF front, back
<1> QED
    BY <1>3, <1>4, <1>5

\* Where the default set keeps nothing, the other one is what comes out.
LEMMA MergeNothing ==
    ASSUME NEW E, NEW default, NEW custom,
           default.enabled \in Seq(E), custom.enabled \in Seq(E),
           default.enabled = <<>> \/ All \in default.disabled \cup custom.disabled
    PROVE  mergePluginSet(default, custom) =
                [enabled |-> custom.enabled, disabled |-> default.disabled \cup custom.disabled]
<1> DEFINE off == default.disabled \cup custom.disabled
           keeps == {e \in ToSet(default.enabled) : All \notin off /\ e.name \notin off}
           kept == Selected(default.enabled, keeps)
           Again(e) == e.name \in Names(custom.enabled)
           replaced == {LastOf(custom.enabled, e.name) : e \in {x \in ToSet(kept) : Again(x)}}
           ids == [i \in DOMAIN custom.enabled |-> i]
           rest == Selected(ids, DOMAIN custom.enabled \ replaced)
           front == [i \in DOMAIN kept |->
                        IF Again(kept[i]) THEN custom.enabled[LastOf(custom.enabled, kept[i].name)]
                                          ELSE kept[i]]
           back == [i \in DOMAIN rest |-> custom.enabled[rest[i]]]
<1>1. kept = <<>>
    <2>1. keeps = {}
        BY DEF ToSet
    <2>2. Selected(default.enabled, {}) = <<>>
        BY SelectedNone
    <2> QED
        BY <2>1, <2>2
<1>2. mergePluginSet(default, custom) = [enabled |-> front \o back, disabled |-> off]
    BY DEF mergePluginSet
<1>3. DOMAIN <<>> = {}
    OBVIOUS
<1> HIDE DEF kept
<1>4. replaced = {} /\ front = <<>>
    <2>1. ToSet(kept) = {}
        BY <1>1, <1>3 DEF ToSet
    <2>2. DOMAIN kept = {}
        BY <1>1, <1>3
    <2>3. front = [i \in {} |-> front[i]]
        BY <2>2
    <2> QED
        BY <2>1, <2>3
<1>5. rest = ids
    <2>1. ids \in Seq(Nat) /\ \A i \in DOMAIN ids : ids[i] \in DOMAIN custom.enabled \ replaced
        BY <1>4
    <2> HIDE DEF ids, replaced
    <2>2. Selected(ids, DOMAIN custom.enabled \ replaced) = ids
        BY <2>1, SelectedAll
    <2> QED
        BY <2>2
<1> HIDE DEF replaced, rest
<1>6. back = custom.enabled
    <2>1. back = [i \in DOMAIN custom.enabled |-> custom.enabled[i]]
        BY <1>5
    <2> QED
        BY <2>1
<1> HIDE DEF front, back
<1> QED
    BY <1>2, <1>4, <1>6

-----------------------------------------------------------------------------
(***************************************************************************)
(* Wrapping.                                                               *)
(***************************************************************************)

Raw == [name : (DOMAIN Implements) \X {FALSE}, weight : Int]
Wrapped == [name : (DOMAIN Implements) \X {TRUE}, weight : Int]
Wrap == [e \in Raw |-> [e EXCEPT !.name = pluginName(@)]]

\* A name is its plugin and what it says of wrapping.
LEMMA PairIs ==
    ASSUME NEW D, NEW w \in BOOLEAN, NEW x \in D \X {w}
    PROVE  x = <<x[1], w>> /\ x[1] \in D
<1>1. x = <<x[1], x[2]>>
    OBVIOUS
<1>2. x[1] \in D
    OBVIOUS
<1>3. x[2] \in {w}
    OBVIOUS
<1>4. x[2] = w
    BY <1>3, Zenon
<1> QED
    BY <1>1, <1>2, <1>4, Zenon

\* A wrapped entry is its original but for the name, which tells the original.
LEMMA WrapIs ==
    /\ Wrap \in [Raw -> Wrapped] /\ DOMAIN Wrap = Raw
    /\ \A e \in Raw :
        /\ Wrap[e] \in Wrapped
        /\ Wrap[e].weight = e.weight /\ Wrap[e].name = <<e.name[1], TRUE>>
        /\ e.name = <<e.name[1], FALSE>> /\ e.name[1] \in DOMAIN Implements
        /\ TrimSuffix(Wrap[e].name) = e.name /\ TrimSuffix(e.name) = e.name
        /\ pluginName(e.name) = Wrap[e].name
<1>1. ASSUME NEW e \in Raw
      PROVE  /\ Wrap[e] \in Wrapped
             /\ Wrap[e].weight = e.weight /\ Wrap[e].name = <<e.name[1], TRUE>>
             /\ e.name = <<e.name[1], FALSE>> /\ e.name[1] \in DOMAIN Implements
             /\ TrimSuffix(Wrap[e].name) = e.name /\ TrimSuffix(e.name) = e.name
             /\ pluginName(e.name) = Wrap[e].name
    <2>1. /\ e = [name |-> e.name, weight |-> e.weight] /\ e.weight \in Int
          /\ e.name = <<e.name[1], FALSE>> /\ e.name[1] \in DOMAIN Implements
        <3>1. e = [name |-> e.name, weight |-> e.weight] /\ e.weight \in Int
            BY DEF Raw
        <3>2. e.name \in (DOMAIN Implements) \X {FALSE}
            BY DEF Raw
        <3>3. e.name = <<e.name[1], FALSE>> /\ e.name[1] \in DOMAIN Implements
            BY <3>2, PairIs
        <3> QED
            BY <3>1, <3>3
    <2>2. Wrap[e] = [name |-> <<e.name[1], TRUE>>, weight |-> e.weight]
        BY <2>1 DEF Wrap, pluginName
    <2> DEFINE n == e.name[1]
               w == Wrap[e]
    <2>3. w.weight = e.weight /\ w.name = <<n, TRUE>>
        <3> HIDE DEF n, w
        <3>1. w = [name |-> <<n, TRUE>>, weight |-> e.weight]
            BY <2>2 DEF n, w
        <3> QED
            BY <3>1
    <2>4. w \in Wrapped
        <3>1. n \in DOMAIN Implements /\ e.weight \in Int
            BY <2>1
        <3> HIDE DEF n, w
        <3>2. <<n, TRUE>> \in (DOMAIN Implements) \X {TRUE}
            BY <3>1
        <3>3. w = [name |-> <<n, TRUE>>, weight |-> e.weight]
            BY <2>2 DEF n, w
        <3> QED
            BY <3>1, <3>2, <3>3 DEF Wrapped
    <2>5. TrimSuffix(w.name) = <<n, FALSE>> /\ TrimSuffix(e.name) = <<n, FALSE>>
        <3>1. w.name[1] = n
            BY <2>3
        <3> QED
            BY <3>1 DEF TrimSuffix, Name
    <2>6. pluginName(e.name) = <<n, TRUE>>
        BY DEF pluginName
    <2> QED
        BY <2>1, <2>3, <2>4, <2>5, <2>6
<1> QED
    BY <1>1 DEF Wrap

\* Wrapped entries are named alike if their originals are.
LEMMA WrapApart ==
    ASSUME NEW s \in Seq(Raw), NEW e \in Raw
    PROVE  Wrap[e].name \in Names(Mapped(Wrap, s)) <=> e.name \in Names(s)
<1>1. DOMAIN Mapped(Wrap, s) = DOMAIN s /\ \A i \in DOMAIN s : Mapped(Wrap, s)[i] = Wrap[s[i]]
    BY DEF Mapped
<1>2. \A i \in DOMAIN s : s[i] \in Raw
    OBVIOUS
<1>3. ASSUME NEW i \in DOMAIN s
      PROVE  Wrap[s[i]].name = Wrap[e].name <=> s[i].name = e.name
    <2>1. /\ Wrap[s[i]].name = <<s[i].name[1], TRUE>> /\ s[i].name = <<s[i].name[1], FALSE>>
          /\ Wrap[e].name = <<e.name[1], TRUE>> /\ e.name = <<e.name[1], FALSE>>
        BY <1>2, WrapIs
    <2> DEFINE m == s[i].name[1]
               n == e.name[1]
    <2>2. /\ Wrap[s[i]].name = <<m, TRUE>> /\ s[i].name = <<m, FALSE>>
          /\ Wrap[e].name = <<n, TRUE>> /\ e.name = <<n, FALSE>>
        BY <2>1
    <2> HIDE DEF m, n
    <2> QED
        BY <2>2
<1> QED
    BY <1>1, <1>3 DEF Names

\* The names without suffix are those of the originals.
LEMMA UnwrappedWrap ==
    ASSUME NEW s \in Seq(Raw)
    PROVE  Unwrapped(Mapped(Wrap, s)) = Unwrapped(s)
<1>1. DOMAIN Mapped(Wrap, s) = DOMAIN s /\ \A i \in DOMAIN s : Mapped(Wrap, s)[i] = Wrap[s[i]]
    BY DEF Mapped
<1>2. \A i \in DOMAIN s : TrimSuffix(Wrap[s[i]].name) = TrimSuffix(s[i].name)
    <2>1. \A i \in DOMAIN s : s[i] \in Raw
        OBVIOUS
    <2> QED
        BY <2>1, WrapIs
<1> QED
    BY <1>1, <1>2 DEF Unwrapped

\* A selection from wrapped entries, by a set of originals.
LEMMA SelectedWrap ==
    ASSUME NEW s \in Seq(Raw), NEW S, NEW T,
           \A i \in DOMAIN s : Wrap[s[i]] \in S <=> s[i] \in T
    PROVE  Selected(Mapped(Wrap, s), S) = Mapped(Wrap, Selected(s, T))
<1> DEFINE U == {e \in Raw : Wrap[e] \in S}
<1>1. Selected(Mapped(Wrap, s), S) = Mapped(Wrap, Selected(s, U))
    BY WrapIs, SelectedMapped
<1>2. \A i \in DOMAIN s : s[i] \in U <=> s[i] \in T
    OBVIOUS
<1> HIDE DEF U
<1>3. Selected(s, U) = Selected(s, T)
    BY <1>2, SelectedSame
<1> QED
    BY <1>1, <1>3

WrappedNames(names) == {IF n = All THEN n ELSE pluginName(n) : n \in names}
RawNames == (DOMAIN Implements \cup {"*"}) \X {FALSE}

\* Wrapping disables the plugins it disabled before.
LEMMA DisabledWrap ==
    ASSUME NEW off \in SUBSET RawNames, NEW e \in Raw
    PROVE  {All, Wrap[e].name} \cap WrappedNames(off) = {} <=> {All, e.name} \cap off = {}
<1>1. /\ Wrap[e].name = <<e.name[1], TRUE>> /\ e.name = <<e.name[1], FALSE>>
      /\ e.name[1] \in DOMAIN Implements /\ e.name[1] # "*"
    BY WrapIs, InstancesAssumption
<1>2. ASSUME NEW n \in off
      PROVE  n = <<n[1], FALSE>> /\ (n # All => pluginName(n) = <<n[1], TRUE>>)
    <2>1. n \in (DOMAIN Implements \cup {"*"}) \X {FALSE}
        BY DEF RawNames
    <2>2. n = <<n[1], FALSE>>
        BY <2>1, PairIs
    <2> QED
        BY <2>2 DEF pluginName
<1>3. All = <<"*", FALSE>>
    BY DEF All, Name
<1>4. All \in WrappedNames(off) <=> All \in off
    <2>1. ASSUME NEW n \in off, n # All, pluginName(n) = All
          PROVE  FALSE
        <3>1. <<n[1], TRUE>> = <<"*", FALSE>>
            BY <1>2, <1>3, <2>1
        <3> QED
            BY <3>1
    <2> QED
        BY <2>1 DEF WrappedNames
<1>5. Wrap[e].name \in WrappedNames(off) <=> e.name \in off
    <2>1. ASSUME e.name \in off
          PROVE  Wrap[e].name \in WrappedNames(off)
        <3>1. e.name # All
            <4>1. ASSUME e.name = All
                  PROVE  e.name[1] = "*"
                BY <1>3, <4>1
            <4> QED
                BY <1>1, <4>1
        <3>2. pluginName(e.name) = Wrap[e].name
            BY WrapIs
        <3> QED
            BY <2>1, <3>1, <3>2 DEF WrappedNames
    <2>2. ASSUME Wrap[e].name \in WrappedNames(off)
          PROVE  e.name \in off
        <3>1. PICK n \in off : Wrap[e].name = IF n = All THEN n ELSE pluginName(n)
            BY <2>2 DEF WrappedNames
        <3>2. n # All /\ Wrap[e].name = <<n[1], TRUE>>
            BY <1>1, <1>2, <1>3, <3>1
        <3>3. n[1] = e.name[1]
            BY <1>1, <3>2
        <3> QED
            BY <1>1, <1>2, <3>3
    <2> QED
        BY <2>1, <2>2
<1> QED
    BY <1>4, <1>5

LEMMA ElementsConcat ==
    ASSUME NEW E, NEW s \in Seq(E), NEW t \in Seq(E)
    PROVE  ToSet(s \o t) = ToSet(s) \cup ToSet(t)
<1> DEFINE u == s \o t
<1>1. /\ Len(s) \in Nat /\ Len(t) \in Nat /\ DOMAIN u = 1 .. (Len(s) + Len(t))
      /\ DOMAIN s = 1 .. Len(s) /\ DOMAIN t = 1 .. Len(t)
      /\ \A i \in 1 .. (Len(s) + Len(t)) : u[i] = IF i <= Len(s) THEN s[i] ELSE t[i - Len(s)]
    OBVIOUS
<1> HIDE DEF u
<1>2. ASSUME NEW i \in DOMAIN u
      PROVE  u[i] \in ToSet(s) \cup ToSet(t)
    <2>1. i \in DOMAIN s \/ (~(i <= Len(s)) /\ i - Len(s) \in DOMAIN t)
        BY <1>1
    <2> QED
        BY <1>1, <2>1 DEF ToSet
<1>3. ASSUME NEW i \in DOMAIN s
      PROVE  s[i] \in ToSet(u)
    <2>1. i \in DOMAIN u /\ u[i] = s[i]
        BY <1>1
    <2> QED
        BY <2>1 DEF ToSet
<1>4. ASSUME NEW i \in DOMAIN t
      PROVE  t[i] \in ToSet(u)
    <2>1. i + Len(s) \in DOMAIN u /\ u[i + Len(s)] = t[i]
        BY <1>1
    <2> QED
        BY <2>1 DEF ToSet
<1> QED
    BY <1>2, <1>3, <1>4 DEF ToSet, u

-----------------------------------------------------------------------------
(***************************************************************************)
(* The plugins of an extension point.                                      *)
(***************************************************************************)

\* The entries of plugins that implement a point.
Implementers(pt) == {e \in Raw : pt \in Implements[e.name[1]]}

\* What a point runs of a profile and of the wrapped one: the same, wrapped, but for
\* the wrapped plugins whose originals do not implement the point.
LEMMA ExpandWrap ==
    ASSUME NEW pt \in Converted, NEW pls, NEW wrapped,
           pls.multiPoint.enabled \in Seq(Raw), pls[pt].enabled \in Seq(Raw),
           pls[pt].disabled \in SUBSET RawNames,
           \A e \in ToSet(pls[pt].enabled) : pt \in Implements[e.name[1]],
           wrapped.multiPoint.enabled = Mapped(Wrap, pls.multiPoint.enabled),
           wrapped[pt].enabled = Mapped(Wrap, pls[pt].enabled),
           wrapped[pt].disabled = WrappedNames(pls[pt].disabled)
    PROVE  \E run \in Seq(Raw) :
            /\ Expand(wrapped, pt) = Mapped(Wrap, run)
            /\ Selected(run, Implementers(pt)) = Expand(pls, pt)
            /\ ToSet(run) \subseteq ToSet(pls[pt].enabled) \cup ToSet(pls.multiPoint.enabled)
<1> DEFINE own == pls[pt].enabled
           all == pls.multiPoint.enabled
           A == Implementers(pt)
           L == {e \in Raw : {All, e.name} \cap pls[pt].disabled = {}}
           \* of the profile
           listed == {e \in ToSet(all) : /\ Implementing(e.name, pt)
                                         /\ {All, e.name} \cap pls[pt].disabled = {}}
           multi == Selected(all, listed)
           overrides == {e \in ToSet(own) : e.name \in Names(multi)}
           onlyMulti == {e \in ToSet(multi) : e.name \notin Names(own)}
           \* of the wrapped one
           ownW == wrapped[pt].enabled
           allW == wrapped.multiPoint.enabled
           listedW == {e \in ToSet(allW) : /\ Implementing(e.name, pt)
                                           /\ {All, e.name} \cap wrapped[pt].disabled = {}}
           multiW == Selected(allW, listedW)
           overridesW == {e \in ToSet(ownW) : e.name \in Names(multiW)}
           onlyMultiW == {e \in ToSet(multiW) : e.name \notin Names(ownW)}
           \* what stands for both
           left == Selected(all, L)
           R == {e \in Raw : e.name \in Names(multi)}
           Q == {e \in Raw : e.name \notin Names(own)}
           run == Selected(own, R) \o Selected(left, Q) \o Selected(own, Raw \ R)
<1>1. own \in Seq(Raw) /\ all \in Seq(Raw)
    OBVIOUS
<1>2. /\ Expand(pls, pt) = Selected(own, overrides) \o Selected(multi, onlyMulti)
                                                    \o Selected(own, ToSet(own) \ overrides)
      /\ Expand(wrapped, pt) = Selected(ownW, overridesW) \o Selected(multiW, onlyMultiW)
                                                          \o Selected(ownW, ToSet(ownW) \ overridesW)
    BY DEF Expand
<1>3. ownW = Mapped(Wrap, own) /\ allW = Mapped(Wrap, all)
    OBVIOUS
<1>4. left \in Seq(Raw)
    <2> HIDE DEF L
    <2> QED
        BY <1>1, SelectedType
<1>5. pt # "queueSort"
    BY PointsAssumption
\* MultiPoint's plugins.
<1>6. multi = Selected(left, A)
    <2>1. \A i \in DOMAIN all : all[i] \in listed <=> all[i] \in L \cap A
        <3>1. SUFFICES ASSUME NEW i \in DOMAIN all
                       PROVE  all[i] \in listed <=> all[i] \in L \cap A
            OBVIOUS
        <3> DEFINE e == all[i]
        <3>2. e \in Raw /\ e \in ToSet(all)
            BY <1>1, <3>1 DEF ToSet
        <3> HIDE DEF e
        <3>3. Implementing(e.name, pt) <=> pt \in Implements[e.name[1]]
            <4> DEFINE n == e.name[1]
            <4>1. e.name = <<n, FALSE>>
                BY <3>2, WrapIs
            <4> HIDE DEF n
            <4>2. e.name[1] = n /\ ~e.name[2]
                BY <4>1
            <4> QED
                BY <4>2 DEF Implementing
        <3> QED
            BY <3>2, <3>3 DEF e, Implementers
    <2> HIDE DEF listed, L, A
    <2>2. Selected(all, listed) = Selected(all, L \cap A)
        BY <1>1, <2>1, SelectedSame
    <2>3. Selected(Selected(all, L), A) = Selected(all, L \cap A)
        BY <1>1, SelectedBoth
    <2> QED
        BY <2>2, <2>3
<1>7. multiW = Mapped(Wrap, left)
    <2>1. \A i \in DOMAIN all : Wrap[all[i]] \in listedW <=> all[i] \in L
        <3>1. SUFFICES ASSUME NEW i \in DOMAIN all
                       PROVE  Wrap[all[i]] \in listedW <=> all[i] \in L
            OBVIOUS
        <3> DEFINE e == all[i]
                   w == Wrap[all[i]]
        <3>2. e \in Raw
            BY <1>1, <3>1
        <3>3. w \in ToSet(allW)
            BY <1>3, <3>1 DEF ToSet, Mapped
        <3>4. {All, Wrap[e].name} \cap WrappedNames(pls[pt].disabled) = {}
                <=> {All, e.name} \cap pls[pt].disabled = {}
            <4> HIDE DEF e
            <4> QED
                BY <3>2, DisabledWrap
        <3>5. Implementing(w.name, pt)
            <4> DEFINE n == e.name[1]
            <4>1. w.name = <<n, TRUE>>
                <5> HIDE DEF e
                <5> QED
                    BY <3>2, WrapIs DEF e
            <4> HIDE DEF n, w
            <4>2. w.name[2]
                BY <4>1
            <4> QED
                BY <1>5, <4>2 DEF Implementing
        <3> QED
            BY <3>2, <3>3, <3>4, <3>5
    <2> HIDE DEF listedW, L
    <2>2. Selected(Mapped(Wrap, all), listedW) = Mapped(Wrap, Selected(all, L))
        BY <1>1, <2>1, SelectedWrap
    <2> QED
        BY <1>3, <2>2
<1>8. ToSet(multi) = ToSet(left) \cap A
    <2> HIDE DEF left, multi, A
    <2> QED
        BY <1>4, <1>6, SelectedElements
<1> HIDE DEF left, multi, multiW, listed, listedW, L
\* The point configures the same ones of them again.
<1>9. ASSUME NEW e \in ToSet(own)
      PROVE  e \in Raw /\ e \in A /\ (e.name \in Names(left) <=> e.name \in Names(multi))
    <2>1. e \in Raw /\ e \in A
        BY <1>1, <1>9 DEF ToSet, Implementers
    <2>2. ASSUME e.name \in Names(left)
          PROVE  e.name \in Names(multi)
        <3>1. PICK i \in DOMAIN left : left[i].name = e.name
            BY <2>2 DEF Names
        <3>2. left[i] \in ToSet(left) /\ left[i] \in Raw
            BY <1>4, <3>1 DEF ToSet
        <3>3. left[i] \in A
            BY <2>1, <3>1, <3>2 DEF Implementers
        <3>4. left[i] \in ToSet(multi)
            BY <1>8, <3>2, <3>3
        <3> QED
            BY <3>1, <3>4 DEF ToSet, Names
    <2>3. ASSUME e.name \in Names(multi)
          PROVE  e.name \in Names(left)
        <3>1. PICK i \in DOMAIN multi : multi[i].name = e.name
            BY <2>3 DEF Names
        <3>2. multi[i] \in ToSet(left)
            BY <1>8, <3>1 DEF ToSet
        <3> QED
            BY <3>1, <3>2 DEF ToSet, Names
    <2> QED
        BY <2>1, <2>2, <2>3
<1>10. \A i \in DOMAIN own : own[i] \in ToSet(own)
    BY DEF ToSet
<1>11. /\ Selected(own, overrides) = Selected(own, R)
       /\ Selected(own, ToSet(own) \ overrides) = Selected(own, Raw \ R)
    <2>1. \A i \in DOMAIN own :
            /\ own[i] \in overrides <=> own[i] \in R
            /\ own[i] \in ToSet(own) \ overrides <=> own[i] \in Raw \ R
        BY <1>9, <1>10
    <2> HIDE DEF own, overrides, R
    <2> QED
        BY <1>1, <2>1, SelectedSame
<1>12. Selected(multi, onlyMulti) = Selected(multi, Q)
    <2>1. multi \in Seq(Raw)
        <3> HIDE DEF A
        <3> QED
            BY <1>4, <1>6, SelectedType
    <2>2. \A i \in DOMAIN multi : multi[i] \in onlyMulti <=> multi[i] \in Q
        BY <2>1 DEF ToSet
    <2> HIDE DEF onlyMulti, Q
    <2> QED
        BY <2>1, <2>2, SelectedSame
<1>13. /\ Selected(ownW, overridesW) = Mapped(Wrap, Selected(own, R))
       /\ Selected(ownW, ToSet(ownW) \ overridesW) = Mapped(Wrap, Selected(own, Raw \ R))
    <2>1. ASSUME NEW i \in DOMAIN own
          PROVE  /\ Wrap[own[i]] \in overridesW <=> own[i] \in R
                 /\ Wrap[own[i]] \in ToSet(ownW) \ overridesW <=> own[i] \in Raw \ R
        <3> DEFINE e == own[i]
                   w == Wrap[own[i]]
        <3>1. e \in Raw /\ (e.name \in Names(left) <=> e.name \in Names(multi))
            BY <1>9, <1>10, <2>1
        <3>2. w \in ToSet(ownW)
            BY <1>3, <2>1 DEF ToSet, Mapped
        <3>3. w.name \in Names(multiW) <=> e.name \in Names(left)
            <4> HIDE DEF e
            <4>1. Wrap[e].name \in Names(Mapped(Wrap, left)) <=> e.name \in Names(left)
                BY <1>4, <3>1, WrapApart
            <4> QED
                BY <1>7, <4>1 DEF e
        <3> QED
            BY <3>1, <3>2, <3>3
    <2> HIDE DEF own, ownW, overridesW, R
    <2> QED
        BY <1>1, <1>3, <2>1, SelectedWrap
<1>14. Selected(multiW, onlyMultiW) = Mapped(Wrap, Selected(left, Q))
    <2>1. ASSUME NEW i \in DOMAIN left
          PROVE  Wrap[left[i]] \in onlyMultiW <=> left[i] \in Q
        <3> DEFINE e == left[i]
                   w == Wrap[left[i]]
        <3>1. e \in Raw
            BY <1>4, <2>1
        <3>2. w \in ToSet(multiW)
            BY <1>7, <2>1 DEF ToSet, Mapped
        <3>3. w.name \in Names(ownW) <=> e.name \in Names(own)
            <4> HIDE DEF e, own
            <4>1. Wrap[e].name \in Names(Mapped(Wrap, own)) <=> e.name \in Names(own)
                BY <1>1, <3>1, WrapApart
            <4> QED
                BY <1>3, <4>1 DEF e
        <3> QED
            BY <3>1, <3>2, <3>3
    <2> HIDE DEF onlyMultiW, Q
    <2> QED
        BY <1>4, <1>7, <2>1, SelectedWrap
<1> DEFINE x == Selected(own, R)
           y == Selected(left, Q)
           z == Selected(own, Raw \ R)
<1>15. x \in Seq(Raw) /\ y \in Seq(Raw) /\ z \in Seq(Raw) /\ x \o y \in Seq(Raw) /\ run \in Seq(Raw)
    <2>1. x \in Seq(Raw) /\ z \in Seq(Raw)
        <3> HIDE DEF own, R
        <3> QED
            BY <1>1, SelectedType
    <2>2. y \in Seq(Raw)
        <3> HIDE DEF Q
        <3> QED
            BY <1>4, SelectedType
    <2> HIDE DEF x, y, z
    <2> QED
        BY <2>1, <2>2 DEF x, y, z
<1>16. Expand(wrapped, pt) = Mapped(Wrap, run)
    <2>1. Expand(wrapped, pt) = Mapped(Wrap, x) \o Mapped(Wrap, y) \o Mapped(Wrap, z)
        BY <1>2, <1>13, <1>14
    <2> DEFINE xy == x \o y
    <2> HIDE DEF x, y, z
    <2>2. Mapped(Wrap, xy) = Mapped(Wrap, x) \o Mapped(Wrap, y)
        <3>1. x \in Seq(Raw) /\ y \in Seq(Raw)
            BY <1>15
        <3> QED
            BY <3>1, MappedConcat
    <2>3. Mapped(Wrap, xy \o z) = Mapped(Wrap, xy) \o Mapped(Wrap, z)
        <3> HIDE DEF xy
        <3>1. xy \in Seq(Raw) /\ z \in Seq(Raw)
            BY <1>15 DEF xy
        <3> QED
            BY <3>1, MappedConcat
    <2> QED
        BY <2>1, <2>2, <2>3 DEF x, y, z
<1>17. Selected(run, A) = Expand(pls, pt)
    <2>1. Selected(x, A) = x /\ Selected(z, A) = z
        <3>1. ToSet(x) \subseteq ToSet(own) /\ ToSet(z) \subseteq ToSet(own)
            <4> HIDE DEF own, R
            <4> QED
                BY <1>1, SelectedElements
        <3>2. \A e \in ToSet(own) : e \in A
            BY <1>9
        <3> HIDE DEF x, z, own, A
        <3>3. (\A i \in DOMAIN x : x[i] \in A) /\ (\A i \in DOMAIN z : z[i] \in A)
            BY <3>1, <3>2 DEF ToSet
        <3> QED
            BY <1>15, <3>3, SelectedAll
    <2>2. Selected(y, A) = Selected(multi, Q)
        <3> HIDE DEF Q, A
        <3> QED
            BY <1>4, <1>6, SelectedTwice
    <2> DEFINE xy == x \o y
    <2>3. Expand(pls, pt) = x \o Selected(multi, Q) \o z
        BY <1>2, <1>11, <1>12
    <2> HIDE DEF x, y, z, A
    <2>4. Selected(xy, A) = Selected(x, A) \o Selected(y, A)
        <3>1. x \in Seq(Raw) /\ y \in Seq(Raw)
            BY <1>15
        <3> QED
            BY <3>1, SelectedConcat
    <2>5. Selected(xy \o z, A) = Selected(xy, A) \o Selected(z, A)
        <3> HIDE DEF xy
        <3>1. xy \in Seq(Raw) /\ z \in Seq(Raw)
            BY <1>15 DEF xy
        <3> QED
            BY <3>1, SelectedConcat
    <2> QED
        BY <2>1, <2>2, <2>3, <2>4, <2>5 DEF x, y, z
<1>18. ToSet(run) \subseteq ToSet(own) \cup ToSet(all)
    <2>1. ToSet(x) \subseteq ToSet(own) /\ ToSet(z) \subseteq ToSet(own)
        <3> HIDE DEF own, R
        <3> QED
            BY <1>1, SelectedElements
    <2>2. ToSet(y) \subseteq ToSet(all)
        <3>1. ToSet(left) \subseteq ToSet(all)
            <4> HIDE DEF all
            <4> QED
                BY <1>1, SelectedElements DEF left
        <3>2. ToSet(y) \subseteq ToSet(left)
            <4> HIDE DEF Q
            <4> QED
                BY <1>4, SelectedElements
        <3> QED
            BY <3>1, <3>2
    <2> HIDE DEF x, y, z, own, all
    <2>3. ToSet(x \o y \o z) \subseteq ToSet(x) \cup ToSet(y) \cup ToSet(z)
        <3> DEFINE xy == x \o y
        <3>1. xy \in Seq(Raw) /\ z \in Seq(Raw)
            BY <1>15
        <3>2. ToSet(xy) = ToSet(x) \cup ToSet(y)
            BY <1>15, ElementsConcat
        <3> HIDE DEF xy
        <3>3. ToSet(xy \o z) = ToSet(xy) \cup ToSet(z)
            BY <3>1, ElementsConcat
        <3> QED
            BY <3>2, <3>3 DEF xy
    <2> QED
        BY <2>1, <2>2, <2>3 DEF x, y, z
<1> HIDE DEF run
<1> QED
    BY <1>15, <1>16, <1>17, <1>18

-----------------------------------------------------------------------------
(***************************************************************************)
(* The conversion of a profile.                                            *)
(***************************************************************************)

Registered == RegisteredMultiPointPluginNames(DefaultPlugins.multiPoint)
Mine == [name : Registered, weight : Int]

\* The registered names are those of the default MultiPoint and of the others.
LEMMA RegisteredIs ==
    /\ Registered = Names(DefaultMultiPoint) \cup {Name(p) : p \in OutOfTree}
    /\ Registered \subseteq (DOMAIN Implements) \X {FALSE}
    /\ Mine \subseteq Raw /\ DefaultMultiPoint \in Seq(Mine)
    /\ DefaultPlugins.multiPoint = [enabled |-> DefaultMultiPoint, disabled |-> {}]
    /\ \A pt \in Converted : DefaultPlugins[pt] = Empty
<1>1. DefaultPlugins.multiPoint = [enabled |-> DefaultMultiPoint, disabled |-> {}]
    BY DEF DefaultPlugins
<1>2. \A pt \in Converted : DefaultPlugins[pt] = Empty
    BY PointsAssumption DEF DefaultPlugins, Points
<1>3. Registered = Names(DefaultMultiPoint) \cup {Name(p) : p \in OutOfTree}
    BY <1>1 DEF Registered, RegisteredMultiPointPluginNames
<1>4. \A i \in DOMAIN DefaultMultiPoint : DefaultMultiPoint[i] \in Raw
    <2>1. DefaultMultiPoint \in Seq(Raw)
        BY InstancesAssumption DEF Raw
    <2> QED
        BY <2>1
<1>5. Registered \subseteq (DOMAIN Implements) \X {FALSE}
    <2>1. Names(DefaultMultiPoint) \subseteq (DOMAIN Implements) \X {FALSE}
        BY <1>4 DEF Names, Raw
    <2>2. ASSUME NEW p \in OutOfTree
          PROVE  Name(p) \in (DOMAIN Implements) \X {FALSE}
        <3>1. p \in DOMAIN Implements
            BY InstancesAssumption
        <3> QED
            BY <3>1 DEF Name
    <2> QED
        BY <1>3, <2>1, <2>2
<1>6. Mine \subseteq Raw
    <2> DEFINE N == (DOMAIN Implements) \X {FALSE}
    <2>1. Registered \subseteq N
        BY <1>5
    <2> HIDE DEF N
    <2>2. [name : Registered, weight : Int] \subseteq [name : N, weight : Int]
        BY <2>1
    <2> QED
        BY <2>2 DEF Mine, Raw, N
<1>7. DefaultMultiPoint \in Seq(Mine)
    <2>1. \A i \in DOMAIN DefaultMultiPoint : DefaultMultiPoint[i] \in Mine
        <3>1. SUFFICES ASSUME NEW i \in DOMAIN DefaultMultiPoint
                       PROVE  DefaultMultiPoint[i] \in Mine
            OBVIOUS
        <3> DEFINE e == DefaultMultiPoint[i]
        <3>2. e.name \in Registered
            BY <1>3 DEF Names
        <3>3. e = [name |-> e.name, weight |-> e.weight] /\ e.weight \in Int
            BY <1>4 DEF Raw
        <3> QED
            BY <3>2, <3>3 DEF Mine
    <2>2. DefaultMultiPoint \in Seq(Raw)
        BY InstancesAssumption DEF Raw
    <2>3. /\ DefaultMultiPoint = [i \in 1 .. Len(DefaultMultiPoint) |-> DefaultMultiPoint[i]]
          /\ Len(DefaultMultiPoint) \in Nat /\ DOMAIN DefaultMultiPoint = 1 .. Len(DefaultMultiPoint)
        BY <2>2
    <2> QED
        BY <2>1, <2>3
<1> QED
    BY <1>1, <1>2, <1>3, <1>5, <1>6, <1>7

\* applyPluginSet wraps what merging gives.
LEMMA ApplyIs ==
    ASSUME NEW custom, NEW default, NEW merged,
           merged = mergePluginSet(default, custom), merged.enabled \in Seq(Raw)
    PROVE  applyPluginSet(custom, default) =
                [enabled |-> Mapped(Wrap, merged.enabled), disabled |-> WrappedNames(merged.disabled)]
<1>1. \A i \in DOMAIN merged.enabled :
        [merged.enabled[i] EXCEPT !.name = pluginName(@)] = Wrap[merged.enabled[i]]
    BY DEF Wrap
<1>2. [i \in DOMAIN merged.enabled |-> [merged.enabled[i] EXCEPT !.name = pluginName(@)]]
        = Mapped(Wrap, merged.enabled)
    BY <1>1 DEF Mapped
<1> QED
    BY <1>2 DEF applyPluginSet, WrappedNames

\* The plugin sets of a profile and of the one that it is converted to, after the
\* defaults.
LEMMA ConvertedIs ==
    ASSUME NEW pls \in {i.profile : i \in Instances}, NEW original, NEW wrapped,
           original = SetDefaults(pls, DefaultPlugins),
           wrapped = SetDefaults(ConvertForSimulator(pls, DefaultPlugins.multiPoint), DefaultPlugins)
    PROVE  /\ original.multiPoint.enabled \in Seq(Mine)
           /\ wrapped.multiPoint.enabled = Mapped(Wrap, original.multiPoint.enabled)
           /\ \A pt \in Converted :
                /\ original[pt].enabled \in Seq(Mine) /\ original[pt].disabled \in SUBSET RawNames
                /\ \A e \in ToSet(original[pt].enabled) : pt \in Implements[e.name[1]]
                /\ wrapped[pt].enabled = Mapped(Wrap, original[pt].enabled)
                /\ wrapped[pt].disabled = WrappedNames(original[pt].disabled)
<1> DEFINE default == DefaultPlugins.multiPoint
           conv == ConvertForSimulator(pls, default)
           all == "multiPoint"
           merged == mergePluginSet(default, pls[all])
<1>1. PICK i \in Instances : pls = i.profile
    OBVIOUS
<1>2. pls \in [Points \cup {all} -> PluginSet]
    BY <1>1, InstancesAssumption
<1>3. \A pt \in Points \cup {all} :
        pls[pt].enabled \in Seq(Mine) /\ pls[pt].disabled \in SUBSET RawNames
        /\ pls[pt] = [enabled |-> pls[pt].enabled, disabled |-> pls[pt].disabled]
    BY <1>2 DEF PluginSet, Mine, Registered, RawNames
<1>4. \A s : s \in Seq(Mine) => s \in Seq(Raw)
    BY RegisteredIs
<1>5. /\ all \notin Converted /\ Converted \subseteq Points
      /\ DOMAIN pls = Points \cup {all} /\ DOMAIN conv = Points \cup {all}
    BY <1>2, PointsAssumption DEF Points, ConvertForSimulator
<1>6. /\ \A pt \in Points \cup {all} : original[pt] = mergePluginSet(DefaultPlugins[pt], pls[pt])
      /\ \A pt \in Points \cup {all} : wrapped[pt] = mergePluginSet(DefaultPlugins[pt], conv[pt])
    BY <1>5 DEF SetDefaults
<1>7. /\ conv[all] = disableAllPluginSet(applyPluginSet(pls[all], default))
      /\ \A pt \in Converted : conv[pt] = applyPluginSet(pls[pt], Empty)
    BY <1>5 DEF ConvertForSimulator
<1> HIDE DEF conv
<1>8. /\ original.multiPoint.enabled \in Seq(Mine)
      /\ wrapped.multiPoint.enabled = Mapped(Wrap, original.multiPoint.enabled)
    <2>1. merged.enabled \in Seq(Mine)
        <3>1. default.enabled \in Seq(Mine) /\ pls[all].enabled \in Seq(Mine)
            <4>1. default = [enabled |-> DefaultMultiPoint, disabled |-> {}]
                BY RegisteredIs
            <4> HIDE DEF default
            <4>2. default.enabled = DefaultMultiPoint
                BY <4>1
            <4> QED
                BY <1>3, <4>2, RegisteredIs
        <3> HIDE DEF default
        <3> QED
            BY <3>1, MergeType
    <2>2. applyPluginSet(pls[all], default) =
            [enabled |-> Mapped(Wrap, merged.enabled), disabled |-> WrappedNames(merged.disabled)]
        <3>1. merged.enabled \in Seq(Raw)
            BY <1>4, <2>1
        <3> DEFINE m == merged
        <3>2. m = mergePluginSet(default, pls[all]) /\ m.enabled \in Seq(Raw)
            BY <3>1
        <3> HIDE DEF m, default
        <3> QED
            BY <3>2, ApplyIs DEF m
    <2>3. conv[all] = [enabled |-> Mapped(Wrap, merged.enabled), disabled |-> {All}]
        <3> DEFINE x == Mapped(Wrap, merged.enabled)
                   y == WrappedNames(merged.disabled)
                   applied == applyPluginSet(pls[all], default)
        <3>1. conv[all] = [applied EXCEPT !.disabled = {All}] /\ applied = [enabled |-> x, disabled |-> y]
            BY <1>7, <2>2 DEF disableAllPluginSet
        <3> HIDE DEF x, y, applied
        <3>2. conv[all] = [enabled |-> x, disabled |-> {All}]
            BY <3>1
        <3> QED
            BY <3>2 DEF x
    <2>4. mergePluginSet(default, conv[all]) =
            [enabled |-> conv[all].enabled, disabled |-> default.disabled \cup conv[all].disabled]
        <3>1. Mapped(Wrap, merged.enabled) \in Seq(Wrapped)
            <4>1. merged.enabled \in Seq(Raw) /\ Wrap \in [Raw -> Wrapped]
                BY <1>4, <2>1, WrapIs
            <4> HIDE DEF merged
            <4> QED
                BY <4>1, MappedType
        <3>2. conv[all].enabled \in Seq(Wrapped) /\ All \in conv[all].disabled
            BY <2>3, <3>1
        <3>3. default.enabled \in Seq(Mine)
            <4>1. default = [enabled |-> DefaultMultiPoint, disabled |-> {}]
                BY RegisteredIs
            <4> HIDE DEF default
            <4> QED
                BY <4>1, RegisteredIs
        <3> DEFINE d == default
                   w == conv[all]
        <3>4. /\ d.enabled \in Seq(Mine \cup Wrapped) /\ w.enabled \in Seq(Mine \cup Wrapped)
              /\ d.enabled = <<>> \/ All \in d.disabled \cup w.disabled
            BY <3>2, <3>3
        <3> HIDE DEF d, w
        <3>5. mergePluginSet(d, w) = [enabled |-> w.enabled, disabled |-> d.disabled \cup w.disabled]
            BY <3>4, MergeNothing
        <3> QED
            BY <3>5 DEF d, w
    <2>5. wrapped[all].enabled = Mapped(Wrap, merged.enabled)
        BY <1>6, <2>3, <2>4
    <2>6. original[all] = merged
        BY <1>6
    <2> HIDE DEF merged
    <2> QED
        BY <2>1, <2>5, <2>6
<1>9. ASSUME NEW pt \in Converted
      PROVE  /\ original[pt].enabled \in Seq(Mine) /\ original[pt].disabled \in SUBSET RawNames
             /\ \A e \in ToSet(original[pt].enabled) : pt \in Implements[e.name[1]]
             /\ wrapped[pt].enabled = Mapped(Wrap, original[pt].enabled)
             /\ wrapped[pt].disabled = WrappedNames(original[pt].disabled)
    <2> DEFINE c == pls[pt]
               w == conv[pt]
    <2>1. c.enabled \in Seq(Mine) /\ c.disabled \in SUBSET RawNames
          /\ c = [enabled |-> c.enabled, disabled |-> c.disabled] /\ pt \in Points \cup {all}
        BY <1>3, <1>5
    <2>2. Empty.enabled = <<>> /\ Empty.enabled \in Seq(Mine) /\ Empty.disabled = {}
        BY DEF Empty
    <2> HIDE DEF c, w
    <2>3. mergePluginSet(Empty, c) = c
        <3>1. mergePluginSet(Empty, c) = [enabled |-> c.enabled, disabled |-> Empty.disabled \cup c.disabled]
            BY <2>1, <2>2, MergeNothing
        <3> QED
            BY <2>1, <2>2, <3>1
    <2>4. w = [enabled |-> Mapped(Wrap, c.enabled), disabled |-> WrappedNames(c.disabled)]
        <3>1. c.enabled \in Seq(Raw)
            BY <1>4, <2>1
        <3> QED
            BY <1>7, <2>3, <3>1, ApplyIs DEF c, w
    <2>5. mergePluginSet(Empty, w) = w
        <3>1. Mapped(Wrap, c.enabled) \in Seq(Wrapped)
            <4>1. c.enabled \in Seq(Raw) /\ Wrap \in [Raw -> Wrapped]
                BY <1>4, <2>1, WrapIs
            <4> QED
                BY <4>1, MappedType
        <3>2. w.enabled \in Seq(Wrapped) /\ w = [enabled |-> w.enabled, disabled |-> w.disabled]
            BY <2>4, <3>1
        <3> Empty.enabled \in Seq(Wrapped)
            BY <2>2
        <3>3. mergePluginSet(Empty, w) = [enabled |-> w.enabled, disabled |-> Empty.disabled \cup w.disabled]
            BY <2>2, <3>2, MergeNothing
        <3> QED
            BY <2>2, <3>2, <3>3
    <2>6. original[pt] = c /\ wrapped[pt] = w
        BY <1>6, <2>1, <2>3, <2>5, RegisteredIs DEF c, w
    <2>7. \A e \in ToSet(c.enabled) : pt \in Implements[e.name[1]]
        <3>1. \A n \in Names(i.profile[pt].enabled) : pt \in Implements[n[1]]
            BY InstancesAssumption
        <3> QED
            BY <1>1, <3>1 DEF Names, ToSet, c
    <2> QED
        BY <2>1, <2>4, <2>6, <2>7
<1> QED
    BY <1>8, <1>9

-----------------------------------------------------------------------------
(***************************************************************************)
(* The wrapped profile schedules as the user's does.                       *)
(***************************************************************************)

\* A plugin has the weight that it has unwrapped.
LEMMA WeightWrap ==
    ASSUME NEW pls, NEW wrapped, NEW e \in Raw,
           pls.score.enabled \in Seq(Raw), pls.multiPoint.enabled \in Seq(Raw),
           wrapped.score.enabled = Mapped(Wrap, pls.score.enabled),
           wrapped.multiPoint.enabled = Mapped(Wrap, pls.multiPoint.enabled),
           e \in ToSet(pls.score.enabled) \cup ToSet(pls.multiPoint.enabled)
    PROVE  FrameworkWeight(wrapped, Wrap[e].name) = FrameworkWeight(pls, e.name)
<1> DEFINE s == pls.score.enabled \o pls.multiPoint.enabled
           t == wrapped.score.enabled \o wrapped.multiPoint.enabled
           X == {i \in DOMAIN s : s[i].name = e.name}
           Y == {i \in DOMAIN t : t[i].name = Wrap[e].name}
<1>1. s \in Seq(Raw) /\ t = Mapped(Wrap, s)
    <2> DEFINE x == pls.score.enabled
               y == pls.multiPoint.enabled
    <2>1. x \in Seq(Raw) /\ y \in Seq(Raw) /\ x \o y \in Seq(Raw) /\ t = Mapped(Wrap, x) \o Mapped(Wrap, y)
        OBVIOUS
    <2> HIDE DEF x, y
    <2>2. Mapped(Wrap, x \o y) = Mapped(Wrap, x) \o Mapped(Wrap, y)
        BY <2>1, MappedConcat
    <2> QED
        BY <2>1, <2>2 DEF x, y
<1>2. e \in ToSet(s)
    BY ElementsConcat
<1> HIDE DEF s, t
<1>3. DOMAIN t = DOMAIN s /\ \A i \in DOMAIN s : t[i] = Wrap[s[i]] /\ s[i] \in Raw
    BY <1>1 DEF Mapped
<1>4. \A i \in DOMAIN s : t[i].name = Wrap[e].name <=> s[i].name = e.name
    <2>1. SUFFICES ASSUME NEW i \in DOMAIN s
                   PROVE  Wrap[s[i]].name = Wrap[e].name <=> s[i].name = e.name
        BY <1>3
    <2> DEFINE m == s[i].name[1]
               n == e.name[1]
    <2>2. /\ Wrap[s[i]].name = <<m, TRUE>> /\ s[i].name = <<m, FALSE>>
          /\ Wrap[e].name = <<n, TRUE>> /\ e.name = <<n, FALSE>>
        BY <1>3, WrapIs
    <2> HIDE DEF m, n
    <2> QED
        BY <2>2
<1>5. X = Y
    BY <1>3, <1>4
<1>6. Min(X) \in X
    <2>1. X \in SUBSET Nat /\ X # {}
        BY <1>1, <1>2 DEF ToSet
    <2> HIDE DEF X
    <2>2. \E m \in X : \A i \in X : m <= i
        BY <2>1, LeastNatural
    <2> QED
        BY <2>2 DEF Min
<1>7. t[Min(Y)].weight = s[Min(X)].weight
    <2>1. Min(X) \in DOMAIN s
        BY <1>6
    <2> DEFINE m == Min(X)
    <2>2. m \in DOMAIN s /\ t[m] = Wrap[s[m]] /\ s[m] \in Raw
        BY <1>3, <2>1
    <2> HIDE DEF m, X, Y
    <2>3. Wrap[s[m]].weight = s[m].weight
        BY <2>2, WrapIs
    <2> QED
        BY <1>5, <2>2, <2>3 DEF m
<1> QED
    BY <1>7 DEF FrameworkWeight, s, t

\* A registered plugin is in the registry wrapped, and has its original's arguments.
LEMMA RegisteredWrap ==
    ASSUME NEW e \in Mine, NEW pc, NEW given, given = NewPluginConfig(pc, DefaultPlugins.multiPoint),
           NEW n, n = Wrap[e].name
    PROVE  /\ n[2] /\ n \in newPluginFactories(DefaultPlugins.multiPoint) /\ TrimSuffix(n) = e.name
           /\ \A m \in {n, TrimSuffix(n)} : m \in DOMAIN given <=> n[1] \in pc \cup DefaultArgs
           /\ n \in DOMAIN given => given[n] = IF n[1] \in pc THEN "user" ELSE "default"
<1> DEFINE p == e.name[1]
           args0 == [m \in {Name(q) : q \in DefaultArgs \cup pc} |-> IF m[1] \in pc THEN "user" ELSE "default"]
           also == {pluginName(m) : m \in DOMAIN args0 \cap Registered}
<1>1. e \in Raw /\ e.name \in Registered
    BY RegisteredIs DEF Mine
<1>2. n = <<p, TRUE>> /\ e.name = <<p, FALSE>> /\ pluginName(e.name) = n
    BY <1>1, WrapIs
<1> HIDE DEF p
<1>3. n[1] = p /\ n[2] /\ e.name[1] = p /\ Name(p) = e.name /\ TrimSuffix(n) = e.name /\ n # e.name
    BY <1>2 DEF TrimSuffix, Name
<1>4. n \in newPluginFactories(DefaultPlugins.multiPoint)
    BY <1>1, <1>2 DEF newPluginFactories, Registered
<1>5. given = [m \in DOMAIN args0 \cup also |-> args0[TrimSuffix(m)]]
    BY DEF NewPluginConfig, Registered
<1>6. \A q : Name(q)[1] = q /\ ~Name(q)[2]
    BY DEF Name
<1>7. DOMAIN args0 = {Name(q) : q \in DefaultArgs \cup pc}
    OBVIOUS
<1>8. e.name \in DOMAIN args0 <=> p \in pc \cup DefaultArgs
    BY <1>3, <1>6, <1>7
<1>9. n \notin DOMAIN args0
    BY <1>3, <1>6, <1>7
<1>10. e.name \in DOMAIN args0 => args0[e.name] = IF p \in pc THEN "user" ELSE "default"
    BY <1>3, <1>7
<1>11. n \in also <=> e.name \in DOMAIN args0
    <2>1. ASSUME NEW m \in DOMAIN args0, pluginName(m) = n
          PROVE  m = e.name
        <3>1. PICK q : m = Name(q)
            BY <2>1
        <3>2. pluginName(m) = <<q, TRUE>>
            BY <1>6, <3>1 DEF pluginName
        <3>3. q = p
            BY <1>2, <2>1, <3>2
        <3> QED
            BY <1>3, <3>1, <3>3
    <2> HIDE DEF args0
    <2> QED
        BY <1>1, <1>2, <2>1
<1>12. e.name \notin also
    <2>1. ASSUME NEW m, pluginName(m) = e.name
          PROVE  FALSE
        BY <1>2, <2>1 DEF pluginName
    <2> QED
        BY <2>1
<1> HIDE DEF args0, also
<1>13. DOMAIN given = DOMAIN args0 \cup also
    BY <1>5
<1>14. \A m \in {n, e.name} : m \in DOMAIN given <=> n[1] \in pc \cup DefaultArgs
    BY <1>3, <1>8, <1>9, <1>11, <1>12, <1>13
<1>15. n \in DOMAIN given => given[n] = IF n[1] \in pc THEN "user" ELSE "default"
    BY <1>3, <1>5, <1>9, <1>10, <1>11, <1>13
<1> QED
    BY <1>3, <1>4, <1>14, <1>15

\* At every point of a converted profile: the plugins of the original one, in its
\* order, and all of them wrapped from registered entries of it.
LEMMA PointWrap ==
    ASSUME NEW pls \in {i.profile : i \in Instances}, NEW original, NEW wrapped,
           original = SetDefaults(pls, DefaultPlugins),
           wrapped = SetDefaults(ConvertForSimulator(pls, DefaultPlugins.multiPoint), DefaultPlugins),
           NEW pt \in Converted, NEW run, run = Expand(wrapped, pt)
    PROVE  /\ Unwrapped(Selected(run, {e \in ToSet(run) : pt \in Implements[e.name[1]]}))
                = Unwrapped(Expand(original, pt))
           /\ \A n \in Names(run) : \E e \in Mine :
                /\ n = Wrap[e].name
                /\ e \in ToSet(original[pt].enabled) \cup ToSet(original.multiPoint.enabled)
<1> DEFINE acts == {e \in ToSet(run) : pt \in Implements[e.name[1]]}
<1>1. /\ original.multiPoint.enabled \in Seq(Mine) /\ original[pt].enabled \in Seq(Mine)
      /\ original[pt].disabled \in SUBSET RawNames
      /\ \A e \in ToSet(original[pt].enabled) : pt \in Implements[e.name[1]]
      /\ wrapped.multiPoint.enabled = Mapped(Wrap, original.multiPoint.enabled)
      /\ wrapped[pt].enabled = Mapped(Wrap, original[pt].enabled)
      /\ wrapped[pt].disabled = WrappedNames(original[pt].disabled)
    BY ConvertedIs
<1>2. original.multiPoint.enabled \in Seq(Raw) /\ original[pt].enabled \in Seq(Raw)
    BY <1>1, RegisteredIs
<1>3. PICK same \in Seq(Raw) :
        /\ run = Mapped(Wrap, same)
        /\ Selected(same, Implementers(pt)) = Expand(original, pt)
        /\ ToSet(same) \subseteq ToSet(original[pt].enabled) \cup ToSet(original.multiPoint.enabled)
    BY <1>1, <1>2, ExpandWrap
<1>4. /\ DOMAIN run = DOMAIN same
      /\ \A i \in DOMAIN same : run[i] = Wrap[same[i]] /\ same[i] \in Raw
    BY <1>3 DEF Mapped
<1>5. \A i \in DOMAIN same : Wrap[same[i]] \in acts <=> same[i] \in Implementers(pt)
    <2>1. SUFFICES ASSUME NEW i \in DOMAIN same
                   PROVE  Wrap[same[i]] \in acts <=> same[i] \in Implementers(pt)
        OBVIOUS
    <2> DEFINE e == same[i]
               w == Wrap[same[i]]
    <2>2. w \in ToSet(run) /\ e \in Raw
        BY <1>4, <2>1 DEF ToSet
    <2>3. w.name[1] = e.name[1]
        <3> DEFINE n == e.name[1]
        <3>1. w.name = <<n, TRUE>>
            BY <2>2, WrapIs
        <3> HIDE DEF n, w
        <3>2. w.name[1] = n
            BY <3>1
        <3> QED
            BY <3>2 DEF n
    <2> QED
        BY <2>2, <2>3 DEF Implementers
<1> HIDE DEF acts
<1>6. Selected(run, acts) = Mapped(Wrap, Selected(same, Implementers(pt)))
    <2>1. Selected(Mapped(Wrap, same), acts) = Mapped(Wrap, Selected(same, Implementers(pt)))
        BY <1>5, SelectedWrap
    <2> QED
        BY <1>3, <2>1
<1>7. Expand(original, pt) \in Seq(Raw)
    BY <1>3, SelectedType
<1>8. Unwrapped(Selected(run, acts)) = Unwrapped(Expand(original, pt))
    BY <1>3, <1>6, <1>7, UnwrappedWrap
<1>9. ASSUME NEW n \in Names(run)
      PROVE  \E e \in Mine :
                /\ n = Wrap[e].name
                /\ e \in ToSet(original[pt].enabled) \cup ToSet(original.multiPoint.enabled)
    <2>1. PICK i \in DOMAIN same : n = Wrap[same[i]].name
        BY <1>4, <1>9 DEF Names
    <2>2. same[i] \in ToSet(original[pt].enabled) \cup ToSet(original.multiPoint.enabled)
        BY <1>3 DEF ToSet
    <2>3. same[i] \in Mine
        BY <1>1, <2>2 DEF ToSet
    <2> QED
        BY <2>1, <2>2, <2>3
<1> QED
    BY <1>8, <1>9 DEF acts

\* At every converted point the scheduler runs the plugins that kube-scheduler would
\* run of the user's profile, in the same order, wrapped once and known to the
\* registry, with their arguments and score weights (plugins.go:29-288).
THEOREM WrappedAsOriginal == Spec => []EffectiveSame
<1>1. ASSUME IInv
      PROVE  EffectiveSame
    <2>1. SUFFICES ASSUME phase = "running"
                   PROVE  EffectiveSame
        BY DEF EffectiveSame
    <2> DEFINE pls == file.profile
               default == DefaultPlugins.multiPoint
    <2>2. /\ pls \in {i.profile : i \in Instances}
          /\ scheme = SetDefaults(ConvertForSimulator(pls, default), DefaultPlugins)
          /\ Original = SetDefaults(pls, DefaultPlugins)
          /\ args = NewPluginConfig(file.args, default) /\ registry = newPluginFactories(default)
        BY <1>1, <2>1, EffectiveIs DEF IInv, StartsFromDefaults, Effective, Original
    <2>3. ASSUME NEW pt \in Converted
          PROVE  /\ Unwrapped(Selected(Running(pt), {e \in ToSet(Running(pt)) : pt \in Implements[e.name[1]]}))
                        = Unwrapped(Expand(Original, pt))
                 /\ \A n \in Names(Running(pt)) : \E e \in Mine :
                        /\ n = Wrap[e].name
                        /\ e \in ToSet(Original[pt].enabled) \cup ToSet(Original.multiPoint.enabled)
        BY <2>2, PointWrap DEF Running
    <2>4. ASSUME NEW pt \in Converted, NEW n \in Names(Running(pt))
          PROVE  /\ n[2] /\ n \in registry
                 /\ \A m \in {n, TrimSuffix(n)} : m \in DOMAIN args <=> n[1] \in file.args \cup DefaultArgs
                 /\ n \in DOMAIN args => args[n] = IF n[1] \in file.args THEN "user" ELSE "default"
        <3>1. PICK e \in Mine : n = Wrap[e].name
            BY <2>3, <2>4
        <3> DEFINE given == NewPluginConfig(file.args, DefaultPlugins.multiPoint)
        <3>2. /\ n[2] /\ n \in newPluginFactories(DefaultPlugins.multiPoint)
              /\ \A m \in {n, TrimSuffix(n)} : m \in DOMAIN given <=> n[1] \in file.args \cup DefaultArgs
              /\ n \in DOMAIN given => given[n] = IF n[1] \in file.args THEN "user" ELSE "default"
            BY <3>1, RegisteredWrap
        <3> QED
            BY <2>2, <3>2
    <2>5. ASSUME NEW n \in Names(Running("score"))
          PROVE  FrameworkWeight(scheme, n) = FrameworkWeight(Original, TrimSuffix(n))
        <3>1. "score" \in Converted
            BY PointsAssumption
        <3>2. PICK e \in Mine :
                /\ n = Wrap[e].name
                /\ e \in ToSet(Original.score.enabled) \cup ToSet(Original.multiPoint.enabled)
            BY <2>3, <2>5, <3>1
        <3>3. /\ Original.multiPoint.enabled \in Seq(Mine) /\ Original.score.enabled \in Seq(Mine)
              /\ scheme.multiPoint.enabled = Mapped(Wrap, Original.multiPoint.enabled)
              /\ scheme.score.enabled = Mapped(Wrap, Original.score.enabled)
            BY <2>2, <3>1, ConvertedIs
        <3>4. e \in Raw /\ Original.multiPoint.enabled \in Seq(Raw) /\ Original.score.enabled \in Seq(Raw)
            BY <3>3, RegisteredIs
        <3>5. TrimSuffix(n) = e.name
            BY <3>2, <3>4, WrapIs
        <3>6. FrameworkWeight(scheme, Wrap[e].name) = FrameworkWeight(Original, e.name)
            BY <3>2, <3>3, <3>4, WeightWrap
        <3> QED
            BY <3>2, <3>5, <3>6
    <2> QED
        BY <2>3, <2>4, <2>5 DEF EffectiveSame
<1> QED
    BY <1>1, Invariant, PTL

=============================================================================
