--------------------------- MODULE StoreReflector ---------------------------
(***************************************************************************)
(* The store reflector of the debuggable scheduler, with everything it     *)
(* runs against: the scheduler, whose wrapped plugins record results       *)
(* into the result stores while the pod is scheduled; the API server,      *)
(* with optimistic concurrency on the resource version; the other writers  *)
(* of pods; and the informer, which delivers pod updates to the single     *)
(* goroutine that runs the reflector's handler.                            *)
(*                                                                         *)
(* The handler is split where another process can act: one step per API    *)
(* call and one step per store mutex.                                      *)
(***************************************************************************)
EXTENDS ResultData, Sequences

CONSTANTS
    BindCells,    \* the cells a bind plugin or bind extender records into
    RetrySteps,   \* calls of updateFunc before the handler gives up
    None,         \* no pod / no event
    Decodes,      \* whether the history a pod is created with may (not) decode
    \* Bounds of the environment.
    MaxUid,       \* pod incarnations
    MaxId,        \* recordings
    MaxCycles,    \* scheduling cycles of one pod incarnation
    MaxForeign,   \* writes of others to one pod incarnation
    MaxFaults,    \* failed API calls of the handler, lost answers, restarts
    MaxRv         \* writes to pods in all; never reached

Uids == 1 .. MaxUid

Event == [name : Names, uid : Uids]

ApiPod == [uid : Uids, rv : Nat, bound : BOOLEAN, foreign : Nat,
           annos : ResultSet, hist : Seq(ResultSet), histok : BOOLEAN]

ASSUME ReflectorAssumption ==
    /\ BindCells \subseteq Cells
    /\ RetrySteps \in Nat \ {0}
    /\ Decodes \subseteq BOOLEAN
    /\ MaxUid \in Nat
    /\ None \notin ApiPod
    /\ None \notin Event

VARIABLES
    api,        \* the pods at the API server
    rv,         \* the last resource version given out
    queue,      \* update events on their way to the handler
    results,    \* the result stores
    sched,      \* where the scheduler is with each pod incarnation
    cycles,     \* the scheduling cycles it has started for it
    lastId,     \* serial number of the last recording
    lastUid,    \* the last pod incarnation created
    hpc,        \* where the handler is
    event,      \* the event it handles
    tries,      \* calls of updateFunc so far
    copy,       \* its copy of the pod (newPod)
    resultSet,  \* the results read so far
    todo,       \* stores still to read, or to delete from
    late,       \* history: recorded after the handler read the store
    errors,     \* API calls of the handler that failed so far
    ambiguous,  \* updates that were applied and whose answer was lost
    crashes     \* restarts of the scheduler container

apiVars     == <<api, rv, queue>>
schedVars   == <<results, sched, cycles, lastId>>
handlerVars == <<hpc, event, tries, copy, resultSet, todo>>
faultVars   == <<errors, ambiguous, crashes>>
vars == <<apiVars, schedVars, lastUid, handlerVars, late, faultVars>>

SchedPC == {"idle", "cycle", "bindOK", "bindErr", "failing"}
HandlerPC == {"idle", "get", "read", "update", "delete"}

TypeOK ==
    /\ api \in [Names -> ApiPod \cup {None}]
    /\ rv \in Nat
    /\ queue \in Seq(Event)
    /\ results \in [Stores -> [Names -> Data \cup {NoData}]]
    /\ sched \in [Names -> [Uids -> SchedPC]]
    /\ cycles \in [Names -> [Uids -> Nat]]
    /\ lastId \in Nat
    /\ lastUid \in 0 .. MaxUid
    /\ hpc \in HandlerPC
    /\ event \in Event \cup {None}
    /\ hpc # "idle" => event \in Event
    /\ tries \in 0 .. RetrySteps
    /\ copy \in ApiPod \cup {None}
    /\ hpc \in {"read", "update"} => copy \in ApiPod
    /\ resultSet \in ResultSet
    /\ todo \in SUBSET Stores
    /\ late \in SUBSET Nat
    /\ errors \in Nat
    /\ ambiguous \in Nat
    /\ crashes \in Nat

IdleSched == [n \in Names |-> [u \in Uids |-> "idle"]]
NoStoredData == [s \in Stores |-> [n \in Names |-> NoData]]

Init ==
    /\ api = [n \in Names |-> None]
    /\ rv = 0
    /\ queue = <<>>
    /\ results = NoStoredData
    /\ sched = IdleSched
    /\ cycles = [n \in Names |-> [u \in Uids |-> 0]]
    /\ lastId = 0
    /\ lastUid = 0
    /\ hpc = "idle"
    /\ event = None
    /\ tries = 0
    /\ copy = None
    /\ resultSet = NoResults
    /\ todo = {}
    /\ late = {}
    /\ errors = 0
    /\ ambiguous = 0
    /\ crashes = 0

Exists(n, u) == api[n] # None /\ api[n].uid = u

MayFail == errors + ambiguous + crashes < MaxFaults

\* A successful write of pod n: a new version, and an update event.
Put(n, p) ==
    /\ rv < MaxRv
    /\ rv' = rv + 1
    /\ api' = [api EXCEPT ![n] = [p EXCEPT !.rv = rv + 1]]
    /\ queue' = Append(queue, [name |-> n, uid |-> p.uid])

-----------------------------------------------------------------------------
(***************************************************************************)
(* The users of the cluster, and its other controllers.                    *)
(***************************************************************************)

\* A pod is created; its history annotation may already be there, and may not
\* be a JSON list (histok is FALSE).  Creation is not an update event.
Create(n) ==
    /\ api[n] = None
    /\ lastUid < MaxUid
    /\ rv < MaxRv
    /\ rv' = rv + 1
    /\ lastUid' = lastUid + 1
    /\ \E ok \in Decodes :
        api' = [api EXCEPT ![n] =
                  [uid |-> lastUid + 1, rv |-> rv + 1, bound |-> FALSE,
                   foreign |-> 0, annos |-> NoResults, hist |-> <<>>,
                   histok |-> ok]]
    /\ UNCHANGED <<queue, schedVars, handlerVars, late, faultVars>>

\* Nothing tells the reflector: it has no DeleteFunc.
Delete(n) ==
    /\ api[n] # None
    /\ api' = [api EXCEPT ![n] = None]
    /\ UNCHANGED <<rv, queue, schedVars, lastUid, handlerVars, late, faultVars>>

ForeignWrite(n) ==
    /\ api[n] # None
    /\ api[n].foreign < MaxForeign
    /\ Put(n, [api[n] EXCEPT !.foreign = @ + 1])

\* The kubelet, a controller or a user updates the pod.
Touch(n) ==
    /\ ForeignWrite(n)
    /\ UNCHANGED <<schedVars, lastUid, handlerVars, late, faultVars>>

\* The informer lost its watch and lists again.  The update it missed is not
\* delivered when the pod is gone or a later update is on its way, and otherwise
\* becomes an update to the pod that is there now, perhaps a new one.
Relist(i) ==
    LET n == queue[i].name IN
    /\ \/ /\ \/ api[n] = None
             \/ \E j \in (i + 1) .. Len(queue) : queue[j].name = n
          /\ queue' = SubSeq(queue, 1, i - 1) \o SubSeq(queue, i + 1, Len(queue))
       \/ /\ api[n] # None
          /\ queue' = [queue EXCEPT ![i] = [name |-> n, uid |-> api[n].uid]]
    /\ UNCHANGED <<api, rv, schedVars, lastUid, handlerVars, late, faultVars>>

-----------------------------------------------------------------------------
(***************************************************************************)
(* The scheduler, at the grain the reflector sees: results are recorded    *)
(* one by one, and the outcome is written to the API server.               *)
(***************************************************************************)

StartCycle(n, u) ==
    /\ Exists(n, u) /\ ~api[n].bound
    /\ sched[n][u] = "idle"
    /\ cycles[n][u] < MaxCycles
    /\ sched' = [sched EXCEPT ![n][u] = "cycle"]
    /\ cycles' = [cycles EXCEPT ![n][u] = @ + 1]
    /\ UNCHANGED <<apiVars, results, lastId, lastUid, handlerVars, late, faultVars>>

\* The handler works on pod n and has read store s, but not yet deleted from it.
HasRead(n, s) ==
    /\ hpc # "idle"
    /\ event.name = n
    /\ \/ hpc = "read" /\ s \notin todo
       \/ hpc = "update"
       \/ hpc = "delete" /\ s \in todo

\* Under the store's mutex: the wrapped plugin puts its result into the store.
AddToStore(n, u, c) ==
    /\ lastId < MaxId
    /\ lastId' = lastId + 1
    /\ results' = [results EXCEPT ![StoreOf[c]][n] =
                     AddResult(results[StoreOf[c]][n], c,
                               [uid |-> u, id |-> lastId + 1])]
    /\ late' = IF HasRead(n, StoreOf[c]) THEN late \cup {lastId + 1} ELSE late

\* A plugin, or an extender, before Bind.
Record(n, u, c) ==
    /\ sched[n][u] = "cycle"
    /\ c \notin BindCells
    /\ AddToStore(n, u, c)
    /\ UNCHANGED <<apiVars, sched, cycles, lastUid, handlerVars, faultVars>>

\* The original Bind plugin calls the API server before its result is recorded.
Bind(n, u) ==
    /\ sched[n][u] = "cycle"
    /\ Exists(n, u) /\ ~api[n].bound
    /\ Put(n, [api[n] EXCEPT !.bound = TRUE])
    /\ sched' = [sched EXCEPT ![n][u] = "bindOK"]
    /\ UNCHANGED <<cycles, results, lastId, lastUid, handlerVars, late, faultVars>>

\* The Bind call fails: the pod is gone, or the API server refuses.
BindFails(n, u) ==
    /\ sched[n][u] = "cycle"
    /\ sched' = [sched EXCEPT ![n][u] = "bindErr"]
    /\ UNCHANGED <<cycles, apiVars, results, lastId, lastUid, handlerVars, late, faultVars>>

RecordBind(n, u, c) ==
    /\ sched[n][u] \in {"bindOK", "bindErr"}
    /\ c \in BindCells
    /\ AddToStore(n, u, c)
    /\ sched' = [sched EXCEPT ![n][u] =
                   IF @ = "bindOK" THEN "idle" ELSE "failing"]
    /\ UNCHANGED <<cycles, apiVars, lastUid, handlerVars, faultVars>>

\* The pod could not be scheduled: the scheduler writes the PodScheduled
\* condition, unless it is there already (or the pod is gone).
FailCycle(n, u) ==
    /\ sched[n][u] \in {"cycle", "failing"}
    /\ sched' = [sched EXCEPT ![n][u] = "idle"]
    /\ \/ ForeignWrite(n)
       \/ UNCHANGED apiVars
    /\ UNCHANGED <<cycles, results, lastId, lastUid, handlerVars, late, faultVars>>

-----------------------------------------------------------------------------
(***************************************************************************)
(* The handler: storeAllResultToPodFunc.                                   *)
(***************************************************************************)

\* The handler returns, whatever the stores hold then.
Return ==
    /\ hpc' = "idle"
    /\ event' = None
    /\ tries' = 0
    /\ copy' = None
    /\ resultSet' = NoResults
    /\ todo' = {}
    /\ late' = {}

Handle ==
    /\ hpc = "idle"
    /\ queue # <<>>
    /\ event' = Head(queue)
    /\ queue' = Tail(queue)
    /\ hpc' = "get"
    /\ tries' = 1
    /\ UNCHANGED <<api, rv, schedVars, lastUid, copy, resultSet, todo, late, faultVars>>

\* Mutant: a pod of the same name is taken for the event's pod.
MutSamePod(p) == TRUE

\* newPod.UID == pod.UID
SamePod(p) == p.uid = event.uid

\* Get the latest pod; give up when it is another one, or gone.
GetPod ==
    /\ hpc = "get"
    /\ IF api[event.name] # None /\ SamePod(api[event.name])
       THEN /\ hpc' = "read"
            /\ copy' = api[event.name]
            /\ resultSet' = NoResults
            /\ todo' = Stores
            /\ late' = {}
            /\ UNCHANGED <<event, tries>>
       ELSE Return
    /\ UNCHANGED <<apiVars, schedVars, lastUid, faultVars>>

GetPodFails ==
    /\ hpc = "get"
    /\ MayFail
    /\ errors' = errors + 1
    /\ Return
    /\ UNCHANGED <<apiVars, schedVars, lastUid, ambiguous, crashes>>

\* Mutant: the results of a store replace those of the stores before it.
MutCollect(s) == GetStoredResult(s, results[s][event.name])

Collect(s) == Merge(resultSet, GetStoredResult(s, results[s][event.name]))

\* Mutant: an empty map is written like any other.
MutNothingRead(m) == FALSE

\* len(resultSet) == 0
NothingRead(m) == m = NoResults

\* Merge the results of one store, in the order a Go map is ranged over.  With
\* nothing found there is nothing to write, and the handler goes on to delete.
ReadStore(s) ==
    /\ hpc = "read"
    /\ s \in todo
    /\ resultSet' = Collect(s)
    /\ IF todo # {s}
       THEN todo' = todo \ {s} /\ hpc' = "read"
       ELSE IF NothingRead(Collect(s))
       THEN todo' = Stores /\ hpc' = "delete"
       ELSE todo' = {} /\ hpc' = "update"
    /\ UNCHANGED <<apiVars, schedVars, lastUid, event, tries, copy, late, faultVars>>

\* updateResultHistory: a history that does not decode is left alone.
UpdatedHistory(p, m) == IF p.histok THEN Append(p.hist, m) ELSE p.hist

\* The pod the handler sends to the API server.
NewPod == [copy EXCEPT !.annos = Merge(@, resultSet),
                       !.hist = UpdatedHistory(copy, resultSet)]

\* Mutant: the handler writes onto a pod that does not carry the version read.
MutPrecondition(p) == p.uid = copy.uid

\* The updated pod is the copy, with the resource version it was read at.
Precondition(p) == p.rv = copy.rv

\* The API server takes the update of the version it has.
Accepted == api[event.name] # None /\ Precondition(api[event.name])

\* An update that changes nothing writes nothing.
ApplyUpdate ==
    IF NewPod = copy THEN UNCHANGED apiVars ELSE Put(event.name, NewPod)

UpdatePod ==
    /\ hpc = "update"
    /\ Accepted
    /\ ApplyUpdate
    /\ hpc' = "delete"
    /\ todo' = Stores
    /\ UNCHANGED <<schedVars, lastUid, event, tries, copy, resultSet, late, faultVars>>

\* Mutant: a conflict is taken for success.
MutConflictIsSuccess ==
    /\ hpc = "update"
    /\ api[event.name] # None /\ ~Accepted
    /\ hpc' = "delete"
    /\ todo' = Stores
    /\ UNCHANGED <<apiVars, schedVars, lastUid, event, tries, copy, resultSet, late, faultVars>>

\* wait.ExponentialBackoff calls updateFunc at most RetrySteps times.
StepsLeft == tries < RetrySteps

\* A conflict: updateFunc is called again, while steps are left.
UpdateConflicts ==
    /\ hpc = "update"
    /\ api[event.name] # None /\ ~Accepted
    /\ IF StepsLeft
       THEN /\ hpc' = "get"
            /\ tries' = tries + 1
            /\ copy' = None
            /\ resultSet' = NoResults
            /\ todo' = {}
            /\ late' = {}
            /\ UNCHANGED event
       ELSE Return
    /\ UNCHANGED <<apiVars, schedVars, lastUid, faultVars>>

\* The pod is gone (NotFound), or the call fails before it reaches the API server.
UpdateFails ==
    /\ hpc = "update"
    /\ \/ api[event.name] = None /\ UNCHANGED errors
       \/ MayFail /\ errors' = errors + 1
    /\ Return
    /\ UNCHANGED <<apiVars, schedVars, lastUid, ambiguous, crashes>>

\* The update is applied, and the handler is told it failed.
UpdateAnswerLost ==
    /\ hpc = "update"
    /\ Accepted
    /\ MayFail
    /\ ambiguous' = ambiguous + 1
    /\ ApplyUpdate
    /\ Return
    /\ UNCHANGED <<schedVars, lastUid, errors, crashes>>

\* Mutant: DeleteData leaves the entry.
MutDeleted(s) == results

Deleted(s) == [results EXCEPT ![s][event.name] = NoData]

\* DeleteData of one store, under its mutex.
DeleteData(s) ==
    /\ hpc = "delete"
    /\ s \in todo
    /\ results' = Deleted(s)
    /\ IF todo = {s} THEN Return
       ELSE /\ todo' = todo \ {s}
            /\ UNCHANGED <<hpc, event, tries, copy, resultSet, late>>
    /\ UNCHANGED <<apiVars, sched, cycles, lastId, lastUid, faultVars>>

\* The container of the scheduler restarts: the stores were only in memory, and
\* the new informer lists the pods without an update event.
Crash ==
    /\ MayFail
    /\ crashes' = crashes + 1
    /\ results' = NoStoredData
    /\ sched' = IdleSched
    /\ queue' = <<>>
    /\ Return
    /\ UNCHANGED <<api, rv, cycles, lastId, lastUid, errors, ambiguous>>

-----------------------------------------------------------------------------

Cluster ==
    \/ \E n \in Names : Create(n) \/ Delete(n) \/ Touch(n)
    \/ \E i \in 1 .. Len(queue) : Relist(i)

Scheduler ==
    \E n \in Names, u \in Uids :
        \/ StartCycle(n, u)
        \/ \E c \in Cells : Record(n, u, c)
        \/ Bind(n, u)
        \/ BindFails(n, u)
        \/ \E c \in Cells : RecordBind(n, u, c)
        \/ FailCycle(n, u)

Handler ==
    \/ Handle
    \/ GetPod
    \/ GetPodFails
    \/ \E s \in Stores : ReadStore(s)
    \/ UpdatePod
    \/ UpdateConflicts
    \/ UpdateFails
    \/ UpdateAnswerLost
    \/ \E s \in Stores : DeleteData(s)

Next == Cluster \/ Scheduler \/ Handler \/ Crash

Spec == Init /\ [][Next]_vars

\* The handler's goroutine keeps running; nothing is assumed of the others.
FairSpec == Spec /\ WF_vars(Handler)

-----------------------------------------------------------------------------
(***************************************************************************)
(* Safety.                                                                 *)
(***************************************************************************)

\* The history of a pod lists recordings in the order they were made, and lists
\* none twice, unless an update was applied whose answer was lost.  Conflicts
\* and the retries of updateFunc (storereflector.go:124-131), restarts, and
\* several handler runs over one scheduling cycle do not break this.
Precedes(old, new) == old.id < new.id \/ (ambiguous > 0 /\ old.id = new.id)

Ordered(hist) ==
    \A j \in DOMAIN hist : \A i \in 1 .. (j - 1), c \in Cells :
        hist[i][c] \in Token /\ hist[j][c] \in Token
          => Precedes(hist[i][c], hist[j][c])

HistoryOrdered == \A n \in Names : api[n] # None => Ordered(api[n].hist)

\* A recording leaves a store only when a later one replaces it, when the process
\* restarts, or by a DeleteData (storereflector.go:141-144) at which it is in the
\* history of the pod.  The one exception is named: it was recorded after the
\* handler had read the store.  (Nothing is owed to a pod that is gone or whose
\* history does not decode.)
Owed(n, t) ==
    /\ t.id \notin late
    /\ Exists(n, event.uid)
    /\ api[n].histok
    /\ \A i \in DOMAIN api[n].hist : t \notin TokensIn(api[n].hist[i])

DropsNothingOwed ==
    [][\A s \in Stores, n \in Names :
         results[s][n] # NoData /\ results'[s][n] = NoData /\ crashes' = crashes
           => \A t \in TokensIn(results[s][n]) : ~Owed(n, t)]_vars

\* The reflector overwrites no write of another client, although it sends whole
\* pods: as long as a pod lives, what others wrote to it stays.
KeepsForeignWrites ==
    [][\A n \in Names :
         api[n] # None /\ api'[n] # None /\ api'[n].uid = api[n].uid
           => /\ api'[n].foreign >= api[n].foreign
              /\ api[n].bound => api'[n].bound]_vars

\* The history only grows at its end, and only by the handler of an event of that
\* very pod, not of an earlier pod of the same name (storereflector.go:95).
HistoryGrowsForEvent ==
    [][\A n \in Names :
         (/\ api[n] # None /\ api'[n] # None /\ api'[n].uid = api[n].uid
          /\ api'[n].annos # api[n].annos \/ api'[n].hist # api[n].hist)
           => /\ event = [name |-> n, uid |-> api[n].uid]
              /\ SubSeq(api'[n].hist, 1, Len(api[n].hist)) = api[n].hist]_vars

(***************************************************************************)
(* Why HistoryOrdered holds: the inductive invariant.                      *)
(***************************************************************************)

HistTokens(hist, c) == {hist[i][c] : i \in DOMAIN hist} \cap Token

StoredTokens(n, c) ==
    IF results[StoreOf[c]][n] = NoData THEN {}
    ELSE {results[StoreOf[c]][n][c]} \cap Token

HasCopy == hpc \in {"read", "update"}

\* Serial numbers are given out in increasing order.
IdsBounded ==
    \A c \in Cells :
        /\ \A n \in Names : \A t \in StoredTokens(n, c) : t.id <= lastId
        /\ \A n \in Names : api[n] # None =>
             \A t \in HistTokens(api[n].hist, c) : t.id <= lastId
        /\ HasCopy => \A t \in HistTokens(copy.hist, c) : t.id <= lastId
        /\ HasCopy /\ resultSet[c] \in Token => resultSet[c].id <= lastId

\* A version is given out once, so the pod with the version of the copy is the copy.
CopyCurrent ==
    /\ \A n \in Names : api[n] # None => api[n].rv <= rv
    /\ HasCopy => copy.rv <= rv
    /\ HasCopy /\ Accepted => api[event.name] = copy

\* What a store holds is newer than what the history lists: the two share a
\* recording only between the update and the DeleteData that follows it.
StoreAfterHistory ==
    \A n \in Names, c \in Cells : api[n] # None =>
        \A h \in HistTokens(api[n].hist, c), t \in StoredTokens(n, c) :
            \/ Precedes(h, t)
            \/ /\ hpc = "delete" /\ event.name = n /\ StoreOf[c] \in todo
               /\ h.id = t.id

\* What the handler has read is newer than the history it will append it to,
\* and the store can only have gone on since.
ReadBetween ==
    HasCopy => \A c \in Cells :
        /\ \A h \in HistTokens(copy.hist, c), t \in StoredTokens(event.name, c) :
             Precedes(h, t)
        /\ resultSet[c] \in Token =>
             /\ \A h \in HistTokens(copy.hist, c) : Precedes(h, resultSet[c])
             /\ \A t \in StoredTokens(event.name, c) : resultSet[c].id <= t.id

IInv ==
    /\ TypeOK
    /\ HistoryOrdered
    /\ IdsBounded
    /\ CopyCurrent
    /\ StoreAfterHistory
    /\ ReadBetween

(***************************************************************************)
(* Why DropsNothingOwed holds: what a store holds while the handler works  *)
(* on its pod.                                                             *)
(***************************************************************************)

Held(s, n) == IF results[s][n] = NoData THEN {} ELSE TokensIn(results[s][n])

\* A recording is under its own store, so that no store hides another's.
StoresOwnCells ==
    \A s \in Stores, n \in Names, c \in Cells :
        results[s][n] # NoData /\ results[s][n][c] \in Token => StoreOf[c] = s

\* A pod that is created later is not the one the handler works on.
PodsKnown ==
    /\ \A n \in Names : api[n] # None => api[n].uid <= lastUid
    /\ \A i \in DOMAIN queue : queue[i].uid <= lastUid
EventKnown == hpc # "idle" => event.uid <= lastUid

CopyOfEvent ==
    /\ HasCopy => copy.uid = event.uid
    /\ hpc = "update" => todo = {}

\* What a store that was read holds was read, or came too late.
ReadOrLate ==
    HasCopy => \A c \in Cells : StoreOf[c] \notin todo =>
        \A t \in StoredTokens(event.name, c) : t.id \in late \/ t = resultSet[c]

\* Nothing that is about to be deleted is owed to the pod.
DeletesNothingOwed ==
    hpc = "delete" => \A s \in todo : \A t \in Held(s, event.name) : ~Owed(event.name, t)

DropInv ==
    /\ StoresOwnCells
    /\ PodsKnown /\ EventKnown
    /\ CopyOfEvent
    /\ ReadOrLate
    /\ DeletesNothingOwed

(***************************************************************************)
(* Liveness, under FairSpec.                                               *)
(***************************************************************************)

Stored(n) == \E s \in Stores : results[s][n] # NoData

Pending(n, u) ==
    \/ \E i \in DOMAIN queue : queue[i] = [name |-> n, uid |-> u]
    \/ hpc = "get" /\ event = [name |-> n, uid |-> u]

\* The reflector's own updates are update events too; they do not keep it busy
\* for ever, and its retries end.
Quiesces == <>[](hpc = "idle" /\ queue = <<>>)

\* Results that are in a store when an update of their pod is still to be handled
\* get out of the store (DropsNothingOwed says where to), unless the pod goes, an
\* API call of the handler fails, or the process restarts.  Conflicts with other
\* writers are not among the excuses, even when they use up the retries: a write
\* that causes a conflict is itself an update that will be handled.
StoredIsHandled ==
    \A n \in Names, u \in Uids :
        Stored(n) /\ Pending(n, u) /\ Exists(n, u)
          ~> (\/ ~Stored(n)
              \/ ~Exists(n, u)
              \/ errors + ambiguous + crashes > 0)

-----------------------------------------------------------------------------
(***************************************************************************)
(* What comments of the code say, and the code does not do.                *)
(***************************************************************************)

\* storereflector.go:54: the handler is to reflect "all results on the pod annotation when
\* the scheduling is finished".  A pod that is bound in its first scheduling
\* cycle shows, when everything is handled, all that its history lists.
AllResultsWhenFinished ==
    \A n \in Names :
        (/\ api[n] # None
         /\ api[n].bound
         /\ sched[n][api[n].uid] = "idle" /\ cycles[n][api[n].uid] = 1
         /\ hpc = "idle" /\ queue = <<>>)
          => \A c \in Cells :
               (\E i \in DOMAIN api[n].hist : api[n].hist[i][c] \in Token)
                 => api[n].annos[c] \in Token

=============================================================================
