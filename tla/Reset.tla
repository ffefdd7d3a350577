------------------------------- MODULE Reset --------------------------------
(***************************************************************************)
(* The reset service: it deletes everything in etcd, puts back, side by    *)
(* side, what was there when the server started, and resets the scheduler. *)
(* It does not go through the API server.                                  *)
(***************************************************************************)
EXTENDS RestoredCluster

ResetRequest(r) ==
    /\ Begin(r, "reset", "delete", {}, Idle.snap)
    /\ UNCHANGED <<db, initial, file, lastUid, events>>

\* The deletion of the whole prefix is one transaction of etcd.
DeleteAll(r) ==
    /\ req[r].pc = "delete"
    /\ db' = [o \in Objs |-> Gone]
    /\ req' = Touched(r, Objs, [req EXCEPT ![r].pc = "put", ![r].touched = {},
                                           ![r].tasks = {o \in Objs : initial[o] # Gone}])
    /\ file' = Outdated(file, Objs)
    /\ UNCHANGED <<initial, lastUid, events>>

DeleteFails(r) ==
    /\ req[r].pc = "delete" /\ Fault
    /\ req' = [req EXCEPT ![r] = Failed(@)]
    /\ UNCHANGED <<db, initial, file, lastUid>>

PutBack(s, o) == [TaskEnds(s, o, FALSE) EXCEPT !.touched = @ \ {o}]

\* initialData is a Go map: the keys are put in any order.  What is put has the
\* version of its Put.
Put(r, o) ==
    /\ req[r].pc = "put" /\ o \in req[r].tasks
    /\ db' = [db EXCEPT ![o] = initial[o]]
    /\ req' = Touched(r, {o}, [req EXCEPT ![r] = PutBack(@, o)]) /\ file' = Outdated(file, {o})
    /\ UNCHANGED <<initial, lastUid, events>>

PutFails(r, o) ==
    /\ req[r].pc = "put" /\ o \in req[r].tasks /\ Fault
    /\ req' = [req EXCEPT ![r] = TaskEnds(@, o, TRUE)]
    /\ UNCHANGED <<db, initial, file, lastUid>>

\* Mutant: the service does not wait for its Puts.
MutPutsReturn(r) ==
    /\ req[r].pc = "put" /\ req' = [req EXCEPT ![r].pc = "scheduler"]
    /\ UNCHANGED <<db, initial, file, lastUid, events>>

PutsReturn(r) ==
    /\ req[r].pc = "put" /\ WaitReturns(r, "scheduler", {})
    /\ UNCHANGED <<db, initial, file, lastUid, events>>

ResetScheduler(r) ==
    /\ req[r].pc = "scheduler"
    /\ \/ req' = [req EXCEPT ![r].pc = "ok"] /\ UNCHANGED events
       \/ Fault /\ req' = [req EXCEPT ![r] = Failed(@)]
    /\ UNCHANGED <<db, initial, file, lastUid>>

ResetStep(r) ==
    \/ DeleteAll(r) \/ DeleteFails(r) \/ PutsReturn(r) \/ ResetScheduler(r)
    \/ \E o \in Objs : Put(r, o) \/ PutFails(r, o)

=============================================================================
