------------------------ MODULE StoreReflector_proofs ------------------------
(***************************************************************************)
(* What holds of the store reflector for every number of pods, stores and  *)
(* cells, and every bound: what it writes where, and what it may delete    *)
(* and overwrite: nothing it still owes to a pod, and nothing that others  *)
(* wrote.                                                                  *)
(***************************************************************************)
EXTENDS StoreReflector, SequenceTheorems, TLAPS

(***************************************************************************)
(* Lemmas about the maps the results are kept in.                          *)
(***************************************************************************)

\* The struct that a recording leaves behind is a struct of results.
LEMMA AddResultType ==
    ASSUME NEW d \in Data \cup {NoData}, NEW c \in Cells, NEW t \in Token
    PROVE  AddResult(d, c, t) \in Data
  BY DEF AddResult, NewData, Data

\* What a store gives for a pod, and the union of two such maps, are maps from
\* annotation keys to values.
LEMMA MapTypes ==
    /\ NoResults \in ResultSet
    /\ \A s \in Stores, d \in Data \cup {NoData} : GetStoredResult(s, d) \in ResultSet
    /\ \A f, g \in ResultSet : Merge(f, g) \in ResultSet
  BY DEF NoResults, ResultSet, GetStoredResult, Merge, Data

\* A write keeps the types, whoever makes it.
LEMMA PutType ==
    ASSUME TypeOK, NEW n \in Names, NEW p \in ApiPod, Put(n, p)
    PROVE  /\ api' \in [Names -> ApiPod \cup {None}]
           /\ rv' \in Nat
           /\ queue' \in Seq(Event)
  <1>1. rv + 1 \in Nat
    BY DEF TypeOK
  <1>2. [p EXCEPT !.rv = rv + 1] \in ApiPod
    BY <1>1 DEF ApiPod
  <1>3. [name |-> n, uid |-> p.uid] \in Event
    BY DEF ApiPod, Event
  <1>4. QED
    BY <1>1, <1>2, <1>3 DEF Put, TypeOK

\* A write of another client keeps the types.
LEMMA ForeignWriteType ==
    ASSUME TypeOK, NEW n \in Names, ForeignWrite(n)
    PROVE  /\ api' \in [Names -> ApiPod \cup {None}]
           /\ rv' \in Nat
           /\ queue' \in Seq(Event)
  <1>1. api[n] \in ApiPod
    BY DEF TypeOK, ForeignWrite
  <1>2. [api[n] EXCEPT !.foreign = @ + 1] \in ApiPod
    BY <1>1 DEF ApiPod
  <1>3. QED
    BY <1>2, PutType DEF ForeignWrite

\* A recording keeps the types of what it changes.
LEMMA AddToStoreType ==
    ASSUME TypeOK, NEW n \in Names, NEW u \in Uids, NEW c \in Cells,
           AddToStore(n, u, c)
    PROVE  /\ results' \in [Stores -> [Names -> Data \cup {NoData}]]
           /\ lastId' \in Nat
           /\ late' \in SUBSET Nat
  <1> DEFINE t == [uid |-> u, id |-> lastId + 1]
  <1>1. t \in Token
    BY DEF TypeOK, Token, Uids
  <1>2. StoreOf[c] \in Stores
    BY DataAssumption
  <1>3. AddResult(results[StoreOf[c]][n], c, t) \in Data
    <2>1. results[StoreOf[c]][n] \in Data \cup {NoData}
      BY <1>2 DEF TypeOK
    <2>2. QED
      BY <1>1, <2>1, AddResultType
  <1>4. results' = [results EXCEPT ![StoreOf[c]][n] =
                      AddResult(results[StoreOf[c]][n], c, t)]
    BY DEF AddToStore
  <1>5. results' \in [Stores -> [Names -> Data \cup {NoData}]]
    BY <1>2, <1>3, <1>4 DEF TypeOK
  <1>6. QED
    BY <1>5 DEF AddToStore, TypeOK

\* The handler's return keeps the types.
LEMMA ReturnType ==
    ASSUME Return
    PROVE  /\ hpc' = "idle" /\ event' = None /\ copy' = None
           /\ tries' \in 0 .. RetrySteps
           /\ resultSet' \in ResultSet
           /\ todo' \in SUBSET Stores
           /\ late' \in SUBSET Nat
  BY MapTypes, ReflectorAssumption DEF Return

\* What the handler sends to the API server is a pod.
LEMMA NewPodType ==
    ASSUME TypeOK, hpc = "update"
    PROVE  NewPod \in ApiPod
  <1>1. copy \in ApiPod /\ resultSet \in ResultSet
    BY DEF TypeOK
  <1>2. Merge(copy.annos, resultSet) \in ResultSet
    BY <1>1, MapTypes DEF ApiPod
  <1>3. UpdatedHistory(copy, resultSet) \in Seq(ResultSet)
    BY <1>1 DEF UpdatedHistory, ApiPod
  <1>4. QED
    BY <1>1, <1>2, <1>3 DEF NewPod, ApiPod

(***************************************************************************)
(* Type correctness.                                                       *)
(***************************************************************************)

\* The initial state is of the right types.
LEMMA InitType == Init => TypeOK
  <1>1. SUFFICES ASSUME Init PROVE TypeOK
    OBVIOUS
  <1>2. sched \in [Names -> [Uids -> SchedPC]] /\ cycles \in [Names -> [Uids -> Nat]]
    BY <1>1 DEF Init, IdleSched, SchedPC
  <1>3. /\ api \in [Names -> ApiPod \cup {None}]
        /\ results \in [Stores -> [Names -> Data \cup {NoData}]]
    BY <1>1 DEF Init, NoStoredData
  <1>4. lastUid \in 0 .. MaxUid /\ tries \in 0 .. RetrySteps
    BY <1>1, ReflectorAssumption DEF Init
  <1>5. hpc \in HandlerPC /\ resultSet \in ResultSet /\ queue \in Seq(Event)
    BY <1>1, MapTypes DEF Init, HandlerPC
  <1>6. QED
    BY <1>1, <1>2, <1>3, <1>4, <1>5 DEF Init, TypeOK

\* The users' and the other controllers' steps keep the types.
LEMMA ClusterType == TypeOK /\ Cluster => TypeOK'
  <1>1. SUFFICES ASSUME TypeOK, Cluster PROVE TypeOK'
    OBVIOUS
  <1>2. ASSUME NEW n \in Names, Create(n) PROVE TypeOK'
    <2>1. ASSUME NEW ok \in BOOLEAN
          PROVE  [uid |-> lastUid + 1, rv |-> rv + 1, bound |-> FALSE, foreign |-> 0,
                  annos |-> NoResults, hist |-> <<>>, histok |-> ok] \in ApiPod
      BY <1>1, <1>2, MapTypes, ReflectorAssumption DEF TypeOK, Create, ApiPod, Uids
    <2>2. api' \in [Names -> ApiPod \cup {None}]
      BY <1>1, <1>2, <2>1, ReflectorAssumption DEF TypeOK, Create
    <2>3. lastUid' \in 0 .. MaxUid /\ rv' \in Nat
      BY <1>1, <1>2, ReflectorAssumption DEF TypeOK, Create
    <2>4. QED
      BY <1>1, <1>2, <2>2, <2>3
      DEF TypeOK, Create, schedVars, handlerVars, faultVars
  <1>3. ASSUME NEW n \in Names, Delete(n) PROVE TypeOK'
    BY <1>1, <1>3 DEF TypeOK, Delete, schedVars, handlerVars, faultVars
  <1>4. ASSUME NEW n \in Names, Touch(n) PROVE TypeOK'
    BY <1>1, <1>4, ForeignWriteType
    DEF TypeOK, Touch, schedVars, handlerVars, faultVars
  <1>5. ASSUME NEW i \in 1 .. Len(queue), Relist(i) PROVE TypeOK'
    <2>1. queue[i] \in Event /\ queue[i].name \in Names /\ i \in 1 .. Len(queue)
      <3>1. queue \in Seq(Event) /\ i \in 1 .. Len(queue)
        BY <1>1, <1>5 DEF TypeOK
      <3>2. queue[i] \in Event
        BY <3>1
      <3>3. QED
        BY <3>1, <3>2 DEF Event
    <2>2. api[queue[i].name] # None =>
            [name |-> queue[i].name, uid |-> api[queue[i].name].uid] \in Event
      BY <1>1, <2>1 DEF TypeOK, ApiPod, Event
    <2>3. CASE queue' = SubSeq(queue, 1, i - 1) \o SubSeq(queue, i + 1, Len(queue))
      <3>1. queue \in Seq(Event) /\ i \in Nat \ {0} /\ i <= Len(queue)
        BY <1>1, <2>1 DEF TypeOK
      <3>2. SubSeq(queue, 1, i - 1) \in Seq(Event)
        BY <3>1
      <3>3. SubSeq(queue, i + 1, Len(queue)) \in Seq(Event)
        BY <3>1
      <3>4. queue' \in Seq(Event)
        BY <2>3, <3>2, <3>3
      <3>5. QED
        BY <1>1, <1>5, <3>4 DEF TypeOK, Relist, schedVars, handlerVars, faultVars
    <2>4. CASE /\ api[queue[i].name] # None
               /\ queue' = [queue EXCEPT ![i] =
                    [name |-> queue[i].name, uid |-> api[queue[i].name].uid]]
      <3>1. queue' \in Seq(Event)
        BY <1>1, <2>1, <2>2, <2>4 DEF TypeOK
      <3>2. QED
        BY <1>1, <1>5, <3>1 DEF TypeOK, Relist, schedVars, handlerVars, faultVars
    <2>5. QED
      BY <1>5, <2>3, <2>4 DEF Relist
  <1>6. QED
    BY <1>1, <1>2, <1>3, <1>4, <1>5 DEF Cluster

\* The scheduler's steps keep the types.
LEMMA SchedulerType == TypeOK /\ Scheduler => TypeOK'
  <1>1. SUFFICES ASSUME TypeOK, NEW n \in Names, NEW u \in Uids,
                        \/ StartCycle(n, u)
                        \/ \E c \in Cells : Record(n, u, c)
                        \/ Bind(n, u)
                        \/ BindFails(n, u)
                        \/ \E c \in Cells : RecordBind(n, u, c)
                        \/ FailCycle(n, u)
                 PROVE  TypeOK'
    BY DEF Scheduler
  <1>2. CASE StartCycle(n, u)
    <2>1. sched' \in [Names -> [Uids -> SchedPC]]
      BY <1>1, <1>2 DEF TypeOK, StartCycle, SchedPC
    <2>2. cycles' \in [Names -> [Uids -> Nat]]
      BY <1>1, <1>2 DEF TypeOK, StartCycle
    <2>3. QED
      BY <1>1, <1>2, <2>1, <2>2 DEF TypeOK, StartCycle, apiVars, handlerVars, faultVars
  <1>3. ASSUME NEW c \in Cells, Record(n, u, c) PROVE TypeOK'
    BY <1>1, <1>3, AddToStoreType DEF TypeOK, Record, apiVars, handlerVars, faultVars
  <1>4. CASE Bind(n, u)
    <2>1. [api[n] EXCEPT !.bound = TRUE] \in ApiPod
      BY <1>1, <1>4 DEF TypeOK, Bind, Exists, ApiPod
    <2>2. /\ api' \in [Names -> ApiPod \cup {None}]
          /\ rv' \in Nat
          /\ queue' \in Seq(Event)
      BY <1>1, <1>4, <2>1, PutType DEF Bind
    <2>3. sched' \in [Names -> [Uids -> SchedPC]]
      BY <1>1, <1>4 DEF TypeOK, Bind, SchedPC
    <2>4. QED
      BY <1>1, <1>4, <2>2, <2>3 DEF TypeOK, Bind, handlerVars, faultVars
  <1>5. CASE BindFails(n, u)
    <2>1. sched' \in [Names -> [Uids -> SchedPC]]
      BY <1>1, <1>5 DEF TypeOK, BindFails, SchedPC
    <2>2. QED
      BY <1>1, <1>5, <2>1 DEF TypeOK, BindFails, apiVars, handlerVars, faultVars
  <1>6. ASSUME NEW c \in Cells, RecordBind(n, u, c) PROVE TypeOK'
    <2>1. sched' \in [Names -> [Uids -> SchedPC]]
      BY <1>1, <1>6 DEF TypeOK, RecordBind, SchedPC
    <2>2. QED
      BY <1>1, <1>6, <2>1, AddToStoreType
      DEF TypeOK, RecordBind, apiVars, handlerVars, faultVars
  <1>7. CASE FailCycle(n, u)
    <2>1. sched' \in [Names -> [Uids -> SchedPC]]
      BY <1>1, <1>7 DEF TypeOK, FailCycle, SchedPC
    <2>2. /\ api' \in [Names -> ApiPod \cup {None}]
          /\ rv' \in Nat
          /\ queue' \in Seq(Event)
      BY <1>1, <1>7, ForeignWriteType DEF TypeOK, FailCycle, apiVars
    <2>3. QED
      BY <1>1, <1>7, <2>1, <2>2 DEF TypeOK, FailCycle, handlerVars, faultVars
  <1>8. QED
    BY <1>1, <1>2, <1>3, <1>4, <1>5, <1>6, <1>7

\* The handler's steps keep the types.
LEMMA HandlerType == TypeOK /\ Handler => TypeOK'
  <1>1. SUFFICES ASSUME TypeOK, Handler PROVE TypeOK'
    OBVIOUS
  <1> USE <1>1
  <1>2. ASSUME hpc # "idle"
        PROVE  event \in Event /\ event.name \in Names /\ event.uid \in Uids
    BY <1>2 DEF TypeOK, Event
  <1>3. CASE Handle
    <2>1. event' \in Event /\ queue' \in Seq(Event)
      BY <1>3 DEF TypeOK, Handle
    <2>2. 1 \in 0 .. RetrySteps
      BY ReflectorAssumption
    <2>3. QED
      BY <1>3, <2>1, <2>2 DEF TypeOK, Handle, HandlerPC, schedVars, faultVars
  <1>4. CASE GetPod
    <2>1. CASE api[event.name] # None /\ SamePod(api[event.name])
      BY <1>2, <1>4, <2>1, MapTypes
      DEF TypeOK, GetPod, HandlerPC, apiVars, schedVars, faultVars
    <2>2. CASE ~(api[event.name] # None /\ SamePod(api[event.name]))
      BY <1>4, <2>2, ReturnType
      DEF TypeOK, GetPod, HandlerPC, apiVars, schedVars, faultVars
    <2>3. QED
      BY <2>1, <2>2
  <1>5. CASE GetPodFails
    BY <1>5, ReturnType
    DEF TypeOK, GetPodFails, HandlerPC, apiVars, schedVars, faultVars
  <1>6. ASSUME NEW s \in Stores, ReadStore(s) PROVE TypeOK'
    <2>1. results[s][event.name] \in Data \cup {NoData}
      BY <1>2, <1>6 DEF TypeOK, ReadStore
    <2>2. Collect(s) \in ResultSet
      BY <2>1, MapTypes DEF TypeOK, Collect
    <2>3. QED
      BY <1>2, <1>6, <2>2
      DEF TypeOK, ReadStore, HandlerPC, apiVars, schedVars, faultVars
  <1>7. ASSUME hpc = "update", ApplyUpdate
        PROVE  /\ api' \in [Names -> ApiPod \cup {None}]
               /\ rv' \in Nat
               /\ queue' \in Seq(Event)
    <2>1. event.name \in Names
      BY <1>2, <1>7
    <2>2. NewPod \in ApiPod
      BY <1>7, NewPodType
    <2>3. QED
      BY <1>7, <2>1, <2>2, PutType DEF ApplyUpdate, TypeOK, apiVars
  <1>8. CASE UpdatePod
    BY <1>2, <1>7, <1>8 DEF TypeOK, UpdatePod, HandlerPC, schedVars, faultVars
  <1>9. CASE UpdateConflicts
    <2>1. CASE StepsLeft
      <3>1. tries + 1 \in 0 .. RetrySteps
        BY <2>1, ReflectorAssumption DEF TypeOK, StepsLeft
      <3>2. QED
        BY <1>2, <1>9, <2>1, <3>1, MapTypes
        DEF TypeOK, UpdateConflicts, HandlerPC, apiVars, schedVars, faultVars
    <2>2. CASE ~StepsLeft
      BY <1>9, <2>2, ReturnType
      DEF TypeOK, UpdateConflicts, HandlerPC, apiVars, schedVars, faultVars
    <2>3. QED
      BY <2>1, <2>2
  <1>10. CASE UpdateFails
    BY <1>10, ReturnType
    DEF TypeOK, UpdateFails, HandlerPC, apiVars, schedVars, faultVars
  <1>11. CASE UpdateAnswerLost
    BY <1>7, <1>11, ReturnType
    DEF TypeOK, UpdateAnswerLost, HandlerPC, schedVars, faultVars
  <1>12. ASSUME NEW s \in Stores, DeleteData(s) PROVE TypeOK'
    <2>1. results' \in [Stores -> [Names -> Data \cup {NoData}]]
      BY <1>2, <1>12 DEF TypeOK, DeleteData, Deleted
    <2>2. CASE todo = {s}
      BY <1>12, <2>1, <2>2, ReturnType
      DEF TypeOK, DeleteData, HandlerPC, apiVars, faultVars
    <2>3. CASE todo # {s}
      BY <1>12, <2>1, <2>3 DEF TypeOK, DeleteData, HandlerPC, apiVars, faultVars
    <2>4. QED
      BY <2>2, <2>3
  <1>13. QED
    BY <1>3, <1>4, <1>5, <1>6, <1>8, <1>9, <1>10, <1>11, <1>12 DEF Handler

\* A restart keeps the types.
LEMMA CrashType == TypeOK /\ Crash => TypeOK'
  <1>1. SUFFICES ASSUME TypeOK, Crash PROVE TypeOK'
    OBVIOUS
  <1>2. sched' \in [Names -> [Uids -> SchedPC]]
    BY <1>1 DEF Crash, IdleSched, SchedPC
  <1>3. QED
    BY <1>1, <1>2, ReturnType DEF TypeOK, Crash, HandlerPC, NoStoredData

\* Every variable keeps its type: the handler never acts without an event, and
\* never sends a pod it has not read.
THEOREM TypeCorrect == Spec => []TypeOK
  <1>1. TypeOK /\ UNCHANGED vars => TypeOK'
    BY DEF TypeOK, vars, apiVars, schedVars, handlerVars, faultVars
  <1>2. TypeOK /\ [Next]_vars => TypeOK'
    BY <1>1, ClusterType, SchedulerType, HandlerType, CrashType DEF Next
  <1>3. QED
    BY <1>2, InitType, PTL DEF Spec

(***************************************************************************)
(* The order of the history.                                               *)
(***************************************************************************)

\* Appending a map to a history adds the recordings of the map.
LEMMA AppendTokens ==
    ASSUME NEW h \in Seq(ResultSet), NEW m \in ResultSet, NEW c \in Cells
    PROVE  HistTokens(Append(h, m), c) = HistTokens(h, c) \cup ({m[c]} \cap Token)
  <1>1. /\ DOMAIN h = 1 .. Len(h)
        /\ DOMAIN Append(h, m) = 1 .. (Len(h) + 1)
        /\ Len(h) \in Nat
    OBVIOUS
  <1>2. \A i \in 1 .. Len(h) : Append(h, m)[i] = h[i]
    OBVIOUS
  <1>3. Append(h, m)[Len(h) + 1] = m
    OBVIOUS
  <1>4. 1 .. (Len(h) + 1) = (1 .. Len(h)) \cup {Len(h) + 1}
    BY <1>1
  <1>5. QED
    BY <1>1, <1>2, <1>3, <1>4 DEF HistTokens

\* A history stays in order when what is appended comes after all it lists.
LEMMA OrderedAppend ==
    ASSUME NEW h \in Seq(ResultSet), NEW m \in ResultSet, Ordered(h),
           \A c \in Cells : m[c] \in Token =>
               \A x \in HistTokens(h, c) : Precedes(x, m[c])
    PROVE  Ordered(Append(h, m))
  <1>1. /\ DOMAIN h = 1 .. Len(h)
        /\ DOMAIN Append(h, m) = 1 .. (Len(h) + 1)
        /\ Len(h) \in Nat
    OBVIOUS
  <1>2. \A i \in 1 .. Len(h) : Append(h, m)[i] = h[i]
    OBVIOUS
  <1>3. Append(h, m)[Len(h) + 1] = m
    OBVIOUS
  <1>4. SUFFICES ASSUME NEW j \in 1 .. (Len(h) + 1), NEW i \in 1 .. (j - 1),
                        NEW c \in Cells,
                        Append(h, m)[i][c] \in Token, Append(h, m)[j][c] \in Token
                 PROVE  Precedes(Append(h, m)[i][c], Append(h, m)[j][c])
    BY <1>1 DEF Ordered
  <1>5. i \in 1 .. Len(h) /\ Append(h, m)[i] = h[i]
    BY <1>1, <1>2
  <1>6. CASE j \in 1 .. Len(h)
    BY <1>1, <1>2, <1>4, <1>5, <1>6 DEF Ordered
  <1>7. CASE j = Len(h) + 1
    <2>1. h[i][c] \in HistTokens(h, c)
      BY <1>1, <1>4, <1>5 DEF HistTokens
    <2>2. QED
      BY <1>3, <1>4, <1>5, <1>7, <2>1
  <1>8. QED
    BY <1>1, <1>6, <1>7

\* Serial numbers are numbers.
LEMMA TokenIds == \A t \in Token : t.id \in Nat
  BY DEF Token

\* What neither records a result nor is a step of the handler: writes of other
\* clients keep the history they find, and new pods have none.
OthersStep ==
    /\ \A n \in Names : api'[n] # None =>
         \/ api[n] # None /\ api'[n] = api[n]
         \/ api[n] # None /\ api'[n].hist = api[n].hist /\ api'[n].rv > rv
         \/ api'[n].hist = <<>> /\ api'[n].rv > rv
    /\ \A n \in Names : api'[n] # None => api'[n].rv <= rv'
    /\ rv <= rv'
    /\ UNCHANGED <<results, lastId, hpc, event, copy, resultSet, todo, ambiguous>>

\* Such a step keeps the invariant: whatever others do to the pods, the handler's
\* copy is out of date or still the pod, and no history changes.
LEMMA OthersKeep == IInv /\ TypeOK' /\ OthersStep => IInv'
  <1> SUFFICES ASSUME IInv, TypeOK', OthersStep PROVE IInv'
    OBVIOUS
  <1> USE DEF IInv
  <1>1. /\ HasCopy' = HasCopy
        /\ \A a, b : Precedes(a, b)' = Precedes(a, b)
        /\ \A n, c : StoredTokens(n, c)' = StoredTokens(n, c)
    BY DEF OthersStep, HasCopy, Precedes, StoredTokens
  <1>2. \A c : HistTokens(<<>>, c) = {} /\ Ordered(<<>>)'
    BY DEF HistTokens, Ordered
  <1>3. \A h : Ordered(h)' = Ordered(h)
    BY <1>1 DEF Ordered
  <1>4. ASSUME NEW n \in Names, api'[n] # None
        PROVE  \/ api[n] # None /\ api'[n].hist = api[n].hist
               \/ api'[n].hist = <<>>
    BY <1>4 DEF OthersStep
  <1>5. HistoryOrdered'
    BY <1>2, <1>3, <1>4 DEF HistoryOrdered
  <1>6. IdsBounded'
    BY <1>1, <1>2, <1>4 DEF IdsBounded, OthersStep
  <1>7. CopyCurrent'
    <2>1. \A n \in Names : api'[n] # None => api'[n].rv <= rv'
      BY DEF OthersStep
    <2>2. HasCopy' => copy'.rv <= rv'
      BY <1>1 DEF OthersStep, CopyCurrent, HasCopy, TypeOK, ApiPod
    <2>3. ASSUME HasCopy', Accepted' PROVE api'[event'.name] = copy'
      <3>1. /\ HasCopy /\ event' = event /\ copy' = copy
            /\ api'[event.name] # None /\ api'[event.name].rv = copy.rv
        BY <1>1, <2>3 DEF OthersStep, Accepted, Precondition
      <3>2. event.name \in Names
        BY <3>1 DEF TypeOK, Event, HasCopy
      <3>3. ~(api'[event.name].rv > rv)
        BY SMTT(30), <3>1 DEF CopyCurrent, HasCopy, TypeOK, ApiPod
      <3>4. api[event.name] # None /\ api'[event.name] = api[event.name]
        BY <3>1, <3>2, <3>3 DEF OthersStep
      <3>5. QED
        BY <3>1, <3>4 DEF CopyCurrent, Accepted, Precondition
    <2>4. QED
      BY <2>1, <2>2, <2>3 DEF CopyCurrent
  <1>8. StoreAfterHistory'
    BY <1>1, <1>2, <1>4 DEF StoreAfterHistory, OthersStep
  <1>9. ReadBetween'
    BY <1>1 DEF ReadBetween, OthersStep
  <1>10. QED
    BY <1>5, <1>6, <1>7, <1>8, <1>9

\* A write of another client, with everything of the reflector left alone.
LEMMA ForeignPut ==
    ASSUME TypeOK, CopyCurrent, NEW n \in Names, NEW p \in ApiPod,
           api[n] # None, p.hist = api[n].hist, Put(n, p),
           UNCHANGED <<results, lastId, hpc, event, copy, resultSet, todo, ambiguous>>
    PROVE  OthersStep
  <1>1. /\ rv \in Nat /\ rv' = rv + 1
        /\ api' = [api EXCEPT ![n] = [p EXCEPT !.rv = rv + 1]]
    BY DEF TypeOK, Put
  <1>2. api'[n].hist = api[n].hist /\ api'[n].rv = rv + 1
    BY <1>1 DEF TypeOK, ApiPod
  <1>3. \A m \in Names : m # n => api'[m] = api[m]
    BY <1>1 DEF TypeOK
  <1>4. \A m \in Names : api[m] # None => api[m].rv \in Nat /\ api[m].rv <= rv
    BY DEF TypeOK, CopyCurrent, ApiPod
  <1>5. QED
    BY <1>1, <1>2, <1>3, <1>4 DEF OthersStep

\* The other writers of pods make such writes.
LEMMA ForeignWriteOthers ==
    ASSUME TypeOK, CopyCurrent, NEW n \in Names, ForeignWrite(n),
           UNCHANGED <<results, lastId, hpc, event, copy, resultSet, todo, ambiguous>>
    PROVE  OthersStep
  <1>1. api[n] \in ApiPod
    BY DEF TypeOK, ForeignWrite
  <1>2. /\ [api[n] EXCEPT !.foreign = @ + 1] \in ApiPod
        /\ [api[n] EXCEPT !.foreign = @ + 1].hist = api[n].hist
    BY <1>1 DEF ApiPod
  <1>3. QED
    BY <1>2, ForeignPut DEF ForeignWrite

\* So does who writes nothing.
LEMMA NoWriteOthers ==
    ASSUME TypeOK, CopyCurrent,
           UNCHANGED <<api, rv, results, lastId, hpc, event, copy, resultSet, todo, ambiguous>>
    PROVE  OthersStep
  BY DEF OthersStep, TypeOK, CopyCurrent

\* The users and the other controllers.
LEMMA ClusterOthers == IInv /\ Cluster => OthersStep
  <1>1. SUFFICES ASSUME TypeOK, CopyCurrent, Cluster PROVE OthersStep
    BY DEF IInv
  <1> USE <1>1
  <1>2. ASSUME NEW n \in Names, Create(n) PROVE OthersStep
    <2>1. /\ rv \in Nat /\ rv' = rv + 1
          /\ \E ok \in Decodes :
               api' = [api EXCEPT ![n] =
                  [uid |-> lastUid + 1, rv |-> rv + 1, bound |-> FALSE,
                   foreign |-> 0, annos |-> NoResults, hist |-> <<>>,
                   histok |-> ok]]
      BY <1>2 DEF TypeOK, Create
    <2>2. api'[n].hist = <<>> /\ api'[n].rv = rv + 1
      BY <2>1 DEF TypeOK
    <2>3. \A m \in Names : m # n => api'[m] = api[m]
      BY <2>1 DEF TypeOK
    <2>4. \A m \in Names : api[m] # None => api[m].rv \in Nat /\ api[m].rv <= rv
      BY DEF TypeOK, CopyCurrent, ApiPod
    <2>5. UNCHANGED <<results, lastId, hpc, event, copy, resultSet, todo, ambiguous>>
      BY <1>2 DEF Create, schedVars, handlerVars, faultVars
    <2>6. QED
      BY <2>1, <2>2, <2>3, <2>4, <2>5 DEF OthersStep
  <1>3. ASSUME NEW n \in Names, Delete(n) PROVE OthersStep
    BY <1>3 DEF OthersStep, TypeOK, CopyCurrent, Delete, schedVars, handlerVars, faultVars
  <1>4. ASSUME NEW n \in Names, Touch(n) PROVE OthersStep
    BY <1>4, ForeignWriteOthers DEF Touch, schedVars, handlerVars, faultVars
  <1>5. ASSUME NEW i \in 1 .. Len(queue), Relist(i) PROVE OthersStep
    BY <1>5, NoWriteOthers DEF Relist, schedVars, handlerVars, faultVars
  <1>6. QED
    BY <1>2, <1>3, <1>4, <1>5 DEF Cluster

\* The scheduler, between recordings.
LEMMA ScheduleOthers ==
    ASSUME IInv, NEW n \in Names, NEW u \in Uids,
           StartCycle(n, u) \/ Bind(n, u) \/ BindFails(n, u) \/ FailCycle(n, u)
    PROVE  OthersStep
  <1>1. TypeOK /\ CopyCurrent
    BY DEF IInv
  <1>2. CASE StartCycle(n, u) \/ BindFails(n, u)
    BY <1>1, <1>2, NoWriteOthers
    DEF StartCycle, BindFails, apiVars, handlerVars, faultVars
  <1>3. CASE Bind(n, u)
    <2>1. api[n] # None /\ api[n] \in ApiPod
      BY <1>1, <1>3 DEF TypeOK, Bind, Exists
    <2>2. /\ [api[n] EXCEPT !.bound = TRUE] \in ApiPod
          /\ [api[n] EXCEPT !.bound = TRUE].hist = api[n].hist
      BY <2>1 DEF ApiPod
    <2>3. QED
      BY <1>1, <1>3, <2>1, <2>2, ForeignPut DEF Bind, handlerVars, faultVars
  <1>4. CASE FailCycle(n, u)
    <2>1. UNCHANGED <<results, lastId, hpc, event, copy, resultSet, todo, ambiguous>>
      BY <1>4 DEF FailCycle, handlerVars, faultVars
    <2>2. QED
      BY <1>1, <1>4, <2>1, ForeignWriteOthers, NoWriteOthers DEF FailCycle, apiVars
  <1>5. QED
    BY <1>2, <1>3, <1>4

\* A recording is newer than everything.
LEMMA AddToStoreKeeps ==
    ASSUME IInv, TypeOK', NEW n \in Names, NEW u \in Uids, NEW c \in Cells,
           AddToStore(n, u, c), UNCHANGED <<apiVars, handlerVars, faultVars>>
    PROVE  IInv'
  <1> USE DEF IInv
  <1> DEFINE t == [uid |-> u, id |-> lastId + 1]
  <1>1. /\ HasCopy' = HasCopy
        /\ \A a, b : Precedes(a, b)' = Precedes(a, b)
        /\ \A h : Ordered(h)' = Ordered(h)
        /\ Accepted' = Accepted
    BY DEF HasCopy, Precedes, Ordered, Accepted, Precondition, apiVars, handlerVars, faultVars
  <1>2. /\ lastId \in Nat /\ lastId' = lastId + 1 /\ StoreOf[c] \in Stores
        /\ t.id = lastId' /\ t \in Token
    BY DataAssumption DEF AddToStore, TypeOK, Token, Uids
  <1>3. ASSUME NEW m \in Names, NEW d \in Cells
        PROVE  StoredTokens(m, d)' \subseteq StoredTokens(m, d) \cup {t}
    <2>1. StoreOf[d] \in Stores
      BY DataAssumption
    <2>2. CASE m = n /\ StoreOf[d] = StoreOf[c]
      <3>1. results'[StoreOf[d]][m] = AddResult(results[StoreOf[d]][m], c, t)
        BY <1>2, <2>2 DEF AddToStore, TypeOK
      <3>2. results[StoreOf[d]][m] \in Data \cup {NoData}
        BY SMTT(30), <2>1 DEF TypeOK
      <3>3. CASE results[StoreOf[d]][m] = NoData
        BY <3>1, <3>3, DataAssumption
        DEF StoredTokens, AddResult, NewData
      <3>4. CASE results[StoreOf[d]][m] \in Data /\ results[StoreOf[d]][m] # NoData
        BY <3>1, <3>4 DEF StoredTokens, AddResult, Data
      <3>5. QED
        BY <3>2, <3>3, <3>4
    <2>3. CASE ~(m = n /\ StoreOf[d] = StoreOf[c])
      <3>1. results'[StoreOf[d]][m] = results[StoreOf[d]][m]
        BY <1>2, <2>1, <2>3 DEF AddToStore, TypeOK
      <3>2. QED
        BY <3>1 DEF StoredTokens
    <2>4. QED
      BY <2>2, <2>3
  <1>4. HistoryOrdered'
    BY <1>1 DEF HistoryOrdered, apiVars
  <1>5. \A x \in Token : x.id <= lastId => x.id <= lastId' /\ Precedes(x, t)
    BY <1>2, TokenIds DEF Precedes
  <1>6. \A h, d : HistTokens(h, d) \subseteq Token
    BY DEF HistTokens
  <1>7. \A m, d : StoredTokens(m, d) \subseteq Token
    BY DEF StoredTokens
  <1>8. IdsBounded'
    BY <1>1, <1>2, <1>3, <1>5, <1>6, <1>7, TokenIds
    DEF IdsBounded, apiVars, handlerVars, faultVars
  <1>9. CopyCurrent'
    BY <1>1 DEF CopyCurrent, apiVars, handlerVars, faultVars
  <1>10. StoreAfterHistory'
    BY <1>1, <1>2, <1>3, <1>5, <1>6
    DEF StoreAfterHistory, IdsBounded, apiVars, handlerVars, faultVars
  <1>11. ReadBetween'
    <2>1. HasCopy => event.name \in Names
      BY DEF TypeOK, Event, HasCopy
    <2>2. QED
      BY <1>1, <1>2, <1>3, <1>5, <1>6, <2>1
      DEF ReadBetween, IdsBounded, apiVars, handlerVars, faultVars
  <1>12. QED
    BY <1>4, <1>8, <1>9, <1>10, <1>11

\* Handling, giving up and retrying: a step that takes no copy and writes nothing.
LEMMA NoCopyKeeps ==
    ASSUME IInv, TypeOK', hpc # "delete", hpc' \in {"idle", "get"},
           UNCHANGED <<api, rv, results, lastId, ambiguous>>
    PROVE  IInv'
  <1> USE DEF IInv
  <1>1. /\ ~HasCopy'
        /\ \A a, b : Precedes(a, b)' = Precedes(a, b)
        /\ \A h : Ordered(h)' = Ordered(h)
        /\ \A n, c : StoredTokens(n, c)' = StoredTokens(n, c)
    BY DEF HasCopy, Precedes, Ordered, StoredTokens
  <1>2. HistoryOrdered' /\ IdsBounded' /\ CopyCurrent' /\ ReadBetween'
    BY <1>1 DEF HistoryOrdered, IdsBounded, CopyCurrent, ReadBetween
  <1>3. StoreAfterHistory'
    BY <1>1 DEF StoreAfterHistory
  <1>4. QED
    BY <1>2, <1>3

\* The copy that is taken is the pod as it is.
LEMMA GetPodKeeps == IInv /\ TypeOK' /\ GetPod => IInv'
  <1> SUFFICES ASSUME IInv, TypeOK', GetPod PROVE IInv'
    OBVIOUS
  <1> USE DEF IInv
  <1>1. UNCHANGED <<api, rv, results, lastId, ambiguous>> /\ hpc = "get"
    BY DEF GetPod, apiVars, schedVars, faultVars
  <1>2. CASE ~(api[event.name] # None /\ SamePod(api[event.name]))
    BY <1>1, <1>2, NoCopyKeeps DEF GetPod, Return
  <1>3. CASE api[event.name] # None /\ SamePod(api[event.name])
    <2>1. /\ hpc' = "read" /\ copy' = api[event.name] /\ event' = event
          /\ resultSet' = NoResults /\ event.name \in Names
      BY <1>3 DEF GetPod, TypeOK, Event
    <2>2. \A c \in Cells : resultSet'[c] \notin Token
      BY <2>1, DataAssumption DEF NoResults
    <2>3. /\ \A a, b : Precedes(a, b)' = Precedes(a, b)
          /\ \A h : Ordered(h)' = Ordered(h)
          /\ \A n, c : StoredTokens(n, c)' = StoredTokens(n, c)
      BY <1>1 DEF Precedes, Ordered, StoredTokens
    <2>4. HistoryOrdered'
      BY <1>1, <2>3 DEF HistoryOrdered
    <2>5. IdsBounded'
      BY <1>1, <1>3, <2>1, <2>2, <2>3 DEF IdsBounded
    <2>6. CopyCurrent'
      BY <1>1, <1>3, <2>1 DEF CopyCurrent
    <2>7. StoreAfterHistory'
      BY <1>1, <2>3 DEF StoreAfterHistory
    <2>8. ReadBetween'
      BY <1>1, <1>3, <2>1, <2>2, <2>3 DEF ReadBetween, StoreAfterHistory
    <2>9. QED
      BY <2>4, <2>5, <2>6, <2>7, <2>8
  <1>4. QED
    BY <1>2, <1>3

\* What the handler has read after a store is what it had read before, or what
\* that store holds.
LEMMA CollectTokens ==
    ASSUME NEW s \in Stores, NEW c \in Cells, Collect(s)[c] \in Token
    PROVE  \/ resultSet[c] \in Token /\ Collect(s)[c] = resultSet[c]
           \/ Collect(s)[c] \in StoredTokens(event.name, c)
  <1>1. CASE GetStoredResult(s, results[s][event.name])[c] = Absent
    BY <1>1 DEF Collect, Merge
  <1>2. CASE GetStoredResult(s, results[s][event.name])[c] # Absent
    <2>1. /\ StoreOf[c] = s /\ results[s][event.name] # NoData
          /\ Collect(s)[c] = results[s][event.name][c]
      BY <1>2 DEF Collect, Merge, GetStoredResult
    <2>2. QED
      BY <2>1 DEF StoredTokens
  <1>3. QED
    BY <1>1, <1>2

\* Reading a store.
LEMMA ReadStoreKeeps ==
    ASSUME IInv, TypeOK', NEW s \in Stores, ReadStore(s)
    PROVE  IInv'
  <1> USE DEF IInv
  <1>1. /\ UNCHANGED <<api, rv, results, lastId, ambiguous, event, copy>>
        /\ hpc = "read" /\ HasCopy /\ resultSet' = Collect(s)
        /\ hpc' \in {"read", "update", "delete"}
        /\ event.name \in Names
    BY DEF ReadStore, apiVars, schedVars, faultVars, HasCopy, TypeOK, Event
  <1>2. /\ \A a, b : Precedes(a, b)' = Precedes(a, b)
        /\ \A h : Ordered(h)' = Ordered(h)
        /\ \A n, c : StoredTokens(n, c)' = StoredTokens(n, c)
        /\ Accepted' = Accepted
    BY <1>1 DEF Precedes, Ordered, StoredTokens, Accepted, Precondition
  <1>3. ASSUME NEW c \in Cells, resultSet'[c] \in Token
        PROVE  \/ resultSet[c] \in Token /\ resultSet'[c] = resultSet[c]
               \/ resultSet'[c] \in StoredTokens(event.name, c)
    BY <1>1, <1>3, CollectTokens
  <1>4. HistoryOrdered'
    BY <1>1, <1>2 DEF HistoryOrdered
  <1>5. IdsBounded'
    BY <1>1, <1>2, <1>3 DEF IdsBounded
  <1>6. CopyCurrent'
    BY <1>1, <1>2 DEF CopyCurrent
  <1>7. StoreAfterHistory'
    BY <1>1, <1>2 DEF StoreAfterHistory
  <1>8. ASSUME NEW c \in Cells, resultSet'[c] \in Token,
               NEW t \in StoredTokens(event.name, c)
        PROVE  resultSet'[c].id <= t.id
    <2>1. CASE resultSet[c] \in Token /\ resultSet'[c] = resultSet[c]
      BY <1>1, <1>8, <2>1 DEF ReadBetween
    <2>2. CASE resultSet'[c] \in StoredTokens(event.name, c)
      <3>1. resultSet'[c] = t /\ t \in Token
        BY <1>8, <2>2 DEF StoredTokens
      <3>2. QED
        BY <3>1, TokenIds
    <2>3. QED
      BY <1>3, <1>8, <2>1, <2>2
  <1>9. ReadBetween'
    BY <1>1, <1>2, <1>3, <1>8 DEF ReadBetween
  <1>10. QED
    BY <1>4, <1>5, <1>6, <1>7, <1>9

\* An update that the API server takes: of all pods only the event's changes, and
\* its history is that of the copy, or that with what the handler has read.
LEMMA UpdateApplied ==
    ASSUME IInv, hpc = "update", Accepted, ApplyUpdate
    PROVE  /\ event.name \in Names /\ copy \in ApiPod /\ resultSet \in ResultSet
           /\ api[event.name] = copy /\ copy # None
           /\ api' \in [Names -> ApiPod \cup {None}]
           /\ \A n \in Names : n # event.name => api'[n] = api[n]
           /\ api'[event.name] # None
           /\ api'[event.name].hist \in {copy.hist, Append(copy.hist, resultSet)}
           /\ rv <= rv'
           /\ \A n \in Names : api'[n] # None => api'[n].rv <= rv'
  <1>1. /\ event.name \in Names /\ copy \in ApiPod /\ resultSet \in ResultSet
        /\ TypeOK /\ CopyCurrent /\ HasCopy /\ rv \in Nat
    BY DEF IInv, TypeOK, Event, HasCopy
  <1>2. api[event.name] = copy /\ copy # None
    BY <1>1, ReflectorAssumption DEF CopyCurrent
  <1>3. \A n \in Names : api[n] # None => api[n].rv \in Nat /\ api[n].rv <= rv
    BY <1>1 DEF TypeOK, CopyCurrent, ApiPod
  <1>4. CASE UNCHANGED apiVars
    BY <1>1, <1>2, <1>3, <1>4 DEF apiVars, TypeOK
  <1>5. CASE Put(event.name, NewPod)
    <2>1. NewPod \in ApiPod
      BY <1>1, NewPodType
    <2>2. NewPod.hist \in {copy.hist, Append(copy.hist, resultSet)}
      BY <1>1 DEF NewPod, UpdatedHistory, ApiPod
    <2>3. /\ rv' = rv + 1
          /\ api' = [api EXCEPT ![event.name] = [NewPod EXCEPT !.rv = rv + 1]]
      BY <1>5 DEF Put
    <2>4. [NewPod EXCEPT !.rv = rv + 1] \in ApiPod
      BY SMTT(30), <1>1, <2>1 DEF ApiPod
    <2>5. /\ api' \in [Names -> ApiPod \cup {None}]
          /\ api'[event.name] = [NewPod EXCEPT !.rv = rv + 1]
          /\ \A n \in Names : n # event.name => api'[n] = api[n]
      BY <1>1, <2>3, <2>4 DEF TypeOK
    <2>6. /\ api'[event.name].hist = NewPod.hist
          /\ api'[event.name].rv = rv + 1
          /\ api'[event.name] # None
      BY <2>1, <2>4, <2>5, ReflectorAssumption DEF ApiPod
    <2>7. QED
      BY <1>1, <1>2, <1>3, <2>2, <2>3, <2>5, <2>6
  <1>6. QED
    BY <1>4, <1>5 DEF ApplyUpdate

\* An update that is applied keeps the invariant.  What was appended is in the
\* store still: the handler goes on to delete it, or the answer was lost and it
\* may be appended once more.
LEMMA ApplyUpdateKeeps ==
    ASSUME IInv, TypeOK', hpc = "update", Accepted, ApplyUpdate,
           UNCHANGED <<results, lastId>>,
           \/ hpc' = "delete" /\ todo' = Stores /\ event' = event /\ ambiguous' = ambiguous
           \/ hpc' = "idle" /\ ambiguous' = ambiguous + 1
    PROVE  IInv'
  <1> USE DEF IInv
  <1>1. /\ ~HasCopy' /\ HasCopy
        /\ \A n, c : StoredTokens(n, c)' = StoredTokens(n, c)
        /\ \A a, b : Precedes(a, b) => Precedes(a, b)'
        /\ ambiguous' \in Nat
    BY DEF HasCopy, StoredTokens, Precedes, TypeOK
  <1>2. \A h : Ordered(h) => Ordered(h)'
    BY <1>1 DEF Ordered
  <1>3. /\ event.name \in Names /\ copy \in ApiPod /\ resultSet \in ResultSet
        /\ api[event.name] = copy /\ copy # None
        /\ \A n \in Names : n # event.name => api'[n] = api[n]
        /\ api'[event.name].hist \in {copy.hist, Append(copy.hist, resultSet)}
        /\ rv <= rv'
        /\ \A n \in Names : api'[n] # None => api'[n].rv <= rv'
    BY UpdateApplied
  <1>4. copy.hist \in Seq(ResultSet)
    BY <1>3 DEF ApiPod
  <1>5. \A c \in Cells : HistTokens(api'[event.name].hist, c)
            \subseteq HistTokens(copy.hist, c) \cup ({resultSet[c]} \cap Token)
    <2>1. \A c \in Cells : HistTokens(Append(copy.hist, resultSet), c)
             = HistTokens(copy.hist, c) \cup ({resultSet[c]} \cap Token)
      BY <1>3, <1>4, AppendTokens
    <2>2. CASE api'[event.name].hist = copy.hist
      BY <2>2
    <2>3. CASE api'[event.name].hist = Append(copy.hist, resultSet)
      BY <2>1, <2>3
    <2>4. QED
      BY <1>3, <2>2, <2>3
  <1>6. HistoryOrdered'
    <2>1. Ordered(copy.hist)
      BY <1>3 DEF HistoryOrdered
    <2>2. Ordered(Append(copy.hist, resultSet))
      BY <1>1, <1>3, <1>4, <2>1, OrderedAppend DEF ReadBetween
    <2>3. Ordered(api'[event.name].hist)
      BY <1>3, <2>1, <2>2
    <2>4. \A n \in Names : api'[n] # None => Ordered(api'[n].hist)
      BY <1>3, <2>3 DEF HistoryOrdered
    <2>5. QED
      BY <1>2, <2>4 DEF HistoryOrdered
  <1>7. IdsBounded'
    <2>1. \A c \in Cells : \A t \in HistTokens(api'[event.name].hist, c) : t.id <= lastId
      BY <1>1, <1>5 DEF IdsBounded
    <2>2. QED
      BY <1>1, <1>3, <2>1 DEF IdsBounded
  <1>8. CopyCurrent'
    BY <1>1, <1>3 DEF CopyCurrent
  <1>9. ReadBetween'
    BY <1>1 DEF ReadBetween
  <1>10. ASSUME NEW n \in Names, NEW c \in Cells, api'[n] # None,
                NEW h \in HistTokens(api'[n].hist, c), NEW t \in StoredTokens(n, c)
         PROVE  \/ Precedes(h, t)'
                \/ /\ hpc' = "delete" /\ event'.name = n /\ StoreOf[c] \in todo'
                   /\ h.id = t.id
    <2>1. CASE n # event.name
      BY <1>1, <1>3, <1>10, <2>1 DEF StoreAfterHistory
    <2>2. CASE n = event.name /\ h \in HistTokens(copy.hist, c)
      BY <1>1, <1>10, <2>2 DEF ReadBetween
    <2>3. CASE n = event.name /\ h = resultSet[c] /\ h \in Token
      <3>1. h.id <= t.id /\ h.id \in Nat /\ t.id \in Nat
        BY <1>1, <1>10, <2>3, TokenIds DEF ReadBetween, StoredTokens
      <3>2. CASE h.id < t.id
        BY <3>2 DEF Precedes
      <3>3. CASE h.id = t.id /\ hpc' = "idle" /\ ambiguous' = ambiguous + 1
        BY <3>3 DEF Precedes, TypeOK
      <3>4. CASE h.id = t.id /\ hpc' = "delete" /\ todo' = Stores /\ event' = event
        BY <2>3, <3>4, DataAssumption
      <3>5. QED
        BY <3>1, <3>2, <3>3, <3>4
    <2>4. QED
      BY <1>5, <1>10, <2>1, <2>2, <2>3
  <1>11. StoreAfterHistory'
    BY <1>1, <1>10 DEF StoreAfterHistory
  <1>12. QED
    BY <1>6, <1>7, <1>8, <1>9, <1>11

\* Deleting from a store.
LEMMA DeleteDataKeeps ==
    ASSUME IInv, TypeOK', NEW s \in Stores, DeleteData(s)
    PROVE  IInv'
  <1> USE DEF IInv
  <1>1. /\ UNCHANGED <<api, rv, lastId, ambiguous>> /\ hpc = "delete" /\ s \in todo
        /\ results' = [results EXCEPT ![s][event.name] = NoData]
        /\ event.name \in Names
    BY DEF DeleteData, Deleted, apiVars, faultVars, TypeOK, Event
  <1>2. ~HasCopy' /\ hpc' \in {"idle", "delete"}
    BY <1>1 DEF DeleteData, Return, HasCopy
  <1>3. /\ \A a, b : Precedes(a, b)' = Precedes(a, b)
        /\ \A h : Ordered(h)' = Ordered(h)
    BY <1>1 DEF Precedes, Ordered
  <1>4. ASSUME NEW n \in Names, NEW c \in Cells
        PROVE  StoredTokens(n, c)' =
                 IF n = event.name /\ StoreOf[c] = s THEN {} ELSE StoredTokens(n, c)
    <2>1. StoreOf[c] \in Stores
      BY DataAssumption
    <2>2. results'[StoreOf[c]][n] =
            IF n = event.name /\ StoreOf[c] = s THEN NoData ELSE results[StoreOf[c]][n]
      BY <1>1, <2>1 DEF TypeOK
    <2>3. QED
      BY <2>2 DEF StoredTokens
  <1>5. HistoryOrdered' /\ CopyCurrent' /\ ReadBetween'
    BY <1>1, <1>2, <1>3 DEF HistoryOrdered, CopyCurrent, ReadBetween
  <1>6. IdsBounded'
    BY <1>1, <1>2, <1>4 DEF IdsBounded
  <1>7. ASSUME NEW n \in Names, NEW c \in Cells, api'[n] # None,
               NEW h \in HistTokens(api'[n].hist, c), NEW t \in StoredTokens(n, c)'
        PROVE  \/ Precedes(h, t)'
               \/ /\ hpc' = "delete" /\ event'.name = n /\ StoreOf[c] \in todo'
                  /\ h.id = t.id
    <2>1. /\ ~(n = event.name /\ StoreOf[c] = s)
          /\ t \in StoredTokens(n, c)
      BY <1>4, <1>7
    <2>2. CASE Precedes(h, t)
      BY <1>3, <2>2
    <2>3. CASE event.name = n /\ StoreOf[c] \in todo /\ h.id = t.id
      <3>1. hpc' = "delete" /\ event' = event /\ todo' = todo \ {s}
        BY <1>1, <2>1, <2>3 DEF DeleteData
      <3>2. QED
        BY <2>1, <2>3, <3>1
    <2>4. QED
      BY <1>1, <1>7, <2>1, <2>2, <2>3 DEF StoreAfterHistory
  <1>8. StoreAfterHistory'
    BY <1>7 DEF StoreAfterHistory
  <1>9. QED
    BY <1>5, <1>6, <1>8

\* A restart: there is nothing in the stores, and no copy.
LEMMA CrashKeeps == IInv /\ TypeOK' /\ Crash => IInv'
  <1> SUFFICES ASSUME IInv, TypeOK', Crash PROVE IInv'
    OBVIOUS
  <1> USE DEF IInv
  <1>1. /\ ~HasCopy'
        /\ \A a, b : Precedes(a, b)' = Precedes(a, b)
        /\ \A h : Ordered(h)' = Ordered(h)
        /\ UNCHANGED <<api, rv, lastId>>
    BY DEF Crash, Return, HasCopy, Precedes, Ordered
  <1>2. \A n \in Names, c \in Cells : StoredTokens(n, c)' = {}
    BY DataAssumption DEF Crash, NoStoredData, StoredTokens
  <1>3. QED
    BY <1>1, <1>2
    DEF HistoryOrdered, IdsBounded, CopyCurrent, StoreAfterHistory, ReadBetween

\* The handler's steps keep the invariant.
LEMMA HandlerKeeps == IInv /\ TypeOK' /\ Handler => IInv'
  <1> SUFFICES ASSUME IInv, TypeOK', Handler PROVE IInv'
    OBVIOUS
  <1>1. CASE Handle
    BY <1>1, NoCopyKeeps DEF Handle, schedVars, faultVars
  <1>2. CASE GetPod
    BY <1>2, GetPodKeeps
  <1>3. CASE GetPodFails
    BY <1>3, NoCopyKeeps DEF GetPodFails, Return, apiVars, schedVars
  <1>4. CASE UpdatePod
    BY <1>4, ApplyUpdateKeeps DEF UpdatePod, schedVars, faultVars
  <1>5. CASE UpdateConflicts
    BY <1>5, NoCopyKeeps DEF UpdateConflicts, Return, apiVars, schedVars, faultVars
  <1>6. CASE UpdateFails
    BY <1>6, NoCopyKeeps DEF UpdateFails, Return, apiVars, schedVars
  <1>7. CASE UpdateAnswerLost
    BY <1>7, ApplyUpdateKeeps DEF UpdateAnswerLost, Return, schedVars
  <1>8. QED
    BY <1>1, <1>2, <1>3, <1>4, <1>5, <1>6, <1>7, ReadStoreKeeps, DeleteDataKeeps
    DEF Handler

\* The scheduler's steps keep the invariant.
LEMMA SchedulerKeeps == IInv /\ TypeOK' /\ Scheduler => IInv'
  <1> SUFFICES ASSUME IInv, TypeOK', NEW n \in Names, NEW u \in Uids,
                      \/ StartCycle(n, u)
                      \/ \E c \in Cells : Record(n, u, c)
                      \/ Bind(n, u)
                      \/ BindFails(n, u)
                      \/ \E c \in Cells : RecordBind(n, u, c)
                      \/ FailCycle(n, u)
               PROVE  IInv'
    BY DEF Scheduler
  <1>1. CASE StartCycle(n, u) \/ Bind(n, u) \/ BindFails(n, u) \/ FailCycle(n, u)
    BY <1>1, ScheduleOthers, OthersKeep
  <1>2. CASE \E c \in Cells : Record(n, u, c)
    BY <1>2, AddToStoreKeeps DEF Record
  <1>3. CASE \E c \in Cells : RecordBind(n, u, c)
    BY <1>3, AddToStoreKeeps DEF RecordBind
  <1>4. QED
    BY <1>1, <1>2, <1>3

\* The invariant holds at the start.
LEMMA InitInvariant == Init => IInv
  <1> SUFFICES ASSUME Init PROVE IInv
    OBVIOUS
  <1>1. TypeOK
    BY InitType
  <1>2. \A n \in Names, c \in Cells : StoredTokens(n, c) = {}
    BY DataAssumption DEF Init, NoStoredData, StoredTokens
  <1>3. QED
    BY <1>1, <1>2
    DEF Init, IInv, HistoryOrdered, IdsBounded, CopyCurrent, StoreAfterHistory,
        ReadBetween, HasCopy

\* Every step keeps the invariant.
LEMMA InvariantKept == IInv /\ [Next]_vars => IInv'
  <1>1. IInv /\ Next => IInv'
    <2>1. IInv /\ Next => TypeOK'
      BY ClusterType, SchedulerType, HandlerType, CrashType DEF Next, IInv
    <2>2. QED
      BY <2>1, ClusterOthers, OthersKeep, SchedulerKeeps, HandlerKeeps, CrashKeeps
      DEF Next
  <1>2. IInv /\ UNCHANGED vars => IInv'
    <2> SUFFICES ASSUME IInv, UNCHANGED vars PROVE IInv'
      OBVIOUS
    <2>1. TypeOK' /\ UNCHANGED <<api, rv, results, lastId, hpc, event, copy,
                                 resultSet, todo, ambiguous>>
      BY DEF IInv, TypeOK, vars, apiVars, schedVars, handlerVars, faultVars
    <2>2. OthersStep
      BY <2>1, NoWriteOthers DEF IInv
    <2>3. QED
      BY <2>1, <2>2, OthersKeep
  <1>3. QED
    BY <1>1, <1>2

\* The inductive invariant holds throughout: what is in the history is older
\* than what is in the stores, and what the handler has read lies between.
THEOREM InvariantHolds == Spec => []IInv
  BY InvariantKept, InitInvariant, PTL DEF Spec

\* The history of every pod lists recordings in the order they were made, none
\* twice unless the answer to an update was lost: across conflicts and retries of
\* the update, failed calls, restarts and several handler runs over one cycle.
THEOREM HistoryInOrder == Spec => []HistoryOrdered
  <1>1. IInv => HistoryOrdered
    BY DEF IInv
  <1>2. QED
    BY <1>1, InvariantHolds, PTL

-----------------------------------------------------------------------------

(***************************************************************************)
(* Who writes pods, and which uids are in use.                             *)
(***************************************************************************)

\* A write of a pod whose uid has been given out.
LEMMA PutKnown ==
    ASSUME TypeOK, PodsKnown, NEW n \in Names, NEW p \in ApiPod, p.uid <= lastUid,
           Put(n, p), lastUid' = lastUid
    PROVE  /\ PodsKnown'
           /\ api'[n] # None /\ api'[n] = [p EXCEPT !.rv = rv + 1]
           /\ \A m \in Names : m # n => api'[m] = api[m]
  <1>1. /\ api' = [api EXCEPT ![n] = [p EXCEPT !.rv = rv + 1]]
        /\ queue' = Append(queue, [name |-> n, uid |-> p.uid])
        /\ queue \in Seq(Event) /\ api \in [Names -> ApiPod \cup {None}] /\ rv \in Nat
    BY DEF Put, TypeOK
  <1>2. /\ [p EXCEPT !.rv = rv + 1] \in ApiPod
        /\ [p EXCEPT !.rv = rv + 1].uid = p.uid
    <2>1. rv + 1 \in Nat
      BY <1>1
    <2>2. QED
      BY <2>1 DEF ApiPod
  <1>3. api'[n] # None
    BY <1>1, <1>2, ReflectorAssumption
  <1>4. ASSUME NEW i \in DOMAIN queue' PROVE queue'[i].uid <= lastUid
    <2>1. [name |-> n, uid |-> p.uid] \in Event
      BY DEF Event, ApiPod
    <2>2. i = Len(queue) + 1 \/ (i \in DOMAIN queue /\ queue'[i] = queue[i])
      BY <1>1, <2>1
    <2>3. i = Len(queue) + 1 => queue'[i] = [name |-> n, uid |-> p.uid]
      BY <1>1, <2>1
    <2>4. QED
      BY <2>2, <2>3 DEF PodsKnown
  <1>5. \A m \in Names : api'[m] # None => api'[m].uid <= lastUid
    BY <1>1, <1>2 DEF PodsKnown
  <1>6. QED
    BY <1>1, <1>3, <1>4, <1>5 DEF PodsKnown

\* What the others do to pods: a pod they write keeps its history, and a pod
\* they create has a new uid.
OthersWrite ==
    /\ \A n \in Names : api'[n] # None =>
         \/ /\ api[n] # None /\ api'[n].uid = api[n].uid
            /\ api'[n].hist = api[n].hist /\ api'[n].histok = api[n].histok
            /\ api'[n].annos = api[n].annos
            /\ api'[n].foreign >= api[n].foreign /\ (api[n].bound => api'[n].bound)
         \/ api'[n].uid = lastUid + 1
    /\ PodsKnown' /\ lastUid <= lastUid'
    /\ UNCHANGED <<results, hpc, event, copy, resultSet, todo, late>>

\* A write to a pod that is there.
LEMMA PutOthers ==
    ASSUME TypeOK, PodsKnown, NEW n \in Names, api[n] # None, NEW p \in ApiPod,
           p.uid = api[n].uid, p.hist = api[n].hist, p.histok = api[n].histok,
           p.annos = api[n].annos, p.foreign >= api[n].foreign, api[n].bound => p.bound,
           Put(n, p), UNCHANGED <<lastUid, results, hpc, event, copy, resultSet, todo, late>>
    PROVE  OthersWrite
  <1>1. p.uid <= lastUid
    BY DEF PodsKnown
  <1>2. /\ PodsKnown' /\ api'[n] # None /\ api'[n] = [p EXCEPT !.rv = rv + 1]
        /\ \A m \in Names : m # n => api'[m] = api[m]
    BY <1>1, PutKnown
  <1>3. /\ api'[n].uid = p.uid /\ api'[n].hist = p.hist /\ api'[n].histok = p.histok
        /\ api'[n].annos = p.annos /\ api'[n].foreign = p.foreign /\ api'[n].bound = p.bound
    BY <1>2 DEF ApiPod
  <1>4. lastUid \in Nat /\ \A m \in Names : api[m] # None => api[m].foreign \in Nat
    BY ReflectorAssumption DEF TypeOK, ApiPod
  <1>5. ASSUME NEW m \in Names, api'[m] # None
        PROVE  /\ api[m] # None /\ api'[m].uid = api[m].uid
               /\ api'[m].hist = api[m].hist /\ api'[m].histok = api[m].histok
               /\ api'[m].annos = api[m].annos
               /\ api'[m].foreign >= api[m].foreign /\ (api[m].bound => api'[m].bound)
    <2>1. CASE m = n
      BY <1>3, <2>1
    <2>2. CASE m # n
      BY <1>2, <1>4, <1>5, <2>2
    <2>3. QED
      BY <2>1, <2>2
  <1>6. QED
    BY <1>2, <1>4, <1>5 DEF OthersWrite

\* Nobody writes a pod.
LEMMA NobodyWrites ==
    ASSUME TypeOK, PodsKnown,
           UNCHANGED <<api, lastUid, results, hpc, event, copy, resultSet, todo, late>>,
           \A i \in DOMAIN queue' : queue'[i].uid <= lastUid
    PROVE  OthersWrite
  BY ReflectorAssumption DEF OthersWrite, PodsKnown, TypeOK, ApiPod

\* A foreign write raises the count of them and nothing else.
LEMMA ForeignOthers ==
    ASSUME TypeOK, PodsKnown, NEW n \in Names, ForeignWrite(n),
           UNCHANGED <<lastUid, results, hpc, event, copy, resultSet, todo, late>>
    PROVE  OthersWrite
  <1> DEFINE p == [api[n] EXCEPT !.foreign = @ + 1]
  <1>1. api[n] # None /\ api[n] \in ApiPod /\ Put(n, p)
    BY DEF TypeOK, ForeignWrite
  <1>2. /\ p \in ApiPod /\ p.uid = api[n].uid /\ p.hist = api[n].hist
        /\ p.histok = api[n].histok /\ p.annos = api[n].annos
        /\ p.foreign >= api[n].foreign /\ p.bound = api[n].bound
    BY <1>1 DEF ApiPod
  <1> HIDE DEF p
  <1>3. QED
    BY <1>1, <1>2, PutOthers

\* A sequence without one of its elements has only elements that it had.
LEMMA WithoutOne ==
    ASSUME NEW S, NEW s \in Seq(S), NEW i \in 1 .. Len(s),
           NEW j \in DOMAIN (SubSeq(s, 1, i - 1) \o SubSeq(s, i + 1, Len(s)))
    PROVE  \E k \in DOMAIN s : (SubSeq(s, 1, i - 1) \o SubSeq(s, i + 1, Len(s)))[j] = s[k]
  <1> DEFINE a == SubSeq(s, 1, i - 1)
             b == SubSeq(s, i + 1, Len(s))
  <1>1. /\ a \in Seq(S) /\ Len(a) = i - 1 /\ b \in Seq(S) /\ Len(b) = Len(s) - i
        /\ \A k \in 1 .. Len(a) : a[k] = s[k]
        /\ \A k \in 1 .. Len(b) : b[k] = s[k + i]
    OBVIOUS
  <1> HIDE DEF a, b
  <1>2. /\ DOMAIN (a \o b) = 1 .. Len(a) + Len(b)
        /\ \A k \in 1 .. Len(a) + Len(b) :
             (a \o b)[k] = IF k <= Len(a) THEN a[k] ELSE b[k - Len(a)]
    <2>1. /\ a \o b \in Seq(S) /\ Len(a \o b) = Len(a) + Len(b)
          /\ \A k \in 1 .. Len(a) + Len(b) :
               (a \o b)[k] = IF k <= Len(a) THEN a[k] ELSE b[k - Len(a)]
      BY <1>1, ConcatProperties
    <2>2. DOMAIN (a \o b) = 1 .. Len(a \o b)
      BY <2>1, LenProperties
    <2>3. QED
      BY <2>1, <2>2
  <1>3. j \in 1 .. Len(a) + Len(b)
    BY <1>2 DEF a, b
  <1>4. CASE j <= Len(a)
    <2>1. (a \o b)[j] = s[j] /\ j \in DOMAIN s
      BY <1>1, <1>2, <1>3, <1>4
    <2>2. QED
      BY <2>1 DEF a, b
  <1>5. CASE ~(j <= Len(a))
    <2>1. (a \o b)[j] = s[j + 1] /\ j + 1 \in DOMAIN s
      BY SMTT(30), <1>1, <1>2, <1>3, <1>5
    <2>2. QED
      BY <2>1 DEF a, b
  <1>6. QED
    BY <1>4, <1>5

\* An informer that lists again: what it delivers are updates of pods that are
\* there, or that were.
LEMMA RelistOthers ==
    ASSUME TypeOK, PodsKnown, NEW i \in 1 .. Len(queue), Relist(i)
    PROVE  OthersWrite
  <1>1. queue \in Seq(Event)
    BY DEF TypeOK
  <1>2. UNCHANGED <<api, lastUid, results, hpc, event, copy, resultSet, todo, late>>
    BY DEF Relist, schedVars, handlerVars
  <1>3. ASSUME NEW j \in DOMAIN queue' PROVE queue'[j].uid <= lastUid
    <2>1. CASE queue' = SubSeq(queue, 1, i - 1) \o SubSeq(queue, i + 1, Len(queue))
      <3>1. PICK k \in DOMAIN queue : queue'[j] = queue[k]
        BY <1>1, <2>1, WithoutOne
      <3>2. QED
        BY <3>1 DEF PodsKnown
    <2>2. CASE api[queue[i].name] # None
               /\ queue' = [queue EXCEPT ![i] = [name |-> queue[i].name, uid |-> api[queue[i].name].uid]]
      <3>1. queue[i].name \in Names
        <4>1. queue[i] \in Event
          BY <1>1
        <4>2. QED
          BY <4>1 DEF Event
      <3>2. j \in DOMAIN queue
        BY <1>1, <2>2
      <3>3. QED
        BY <1>1, <2>2, <3>1, <3>2 DEF PodsKnown
    <2>3. QED
      BY <2>1, <2>2 DEF Relist
  <1>4. QED
    BY <1>2, <1>3, NobodyWrites

\* The users, the controllers and the informer only make such writes.
LEMMA ClusterWrites == TypeOK /\ TypeOK' /\ PodsKnown /\ Cluster => OthersWrite
  <1> SUFFICES ASSUME TypeOK, TypeOK', PodsKnown, Cluster PROVE OthersWrite
    OBVIOUS
  <1>1. ASSUME NEW n \in Names, Create(n) PROVE OthersWrite
    <2>1. /\ lastUid \in Nat /\ lastUid' = lastUid + 1 /\ queue' = queue
          /\ UNCHANGED <<results, hpc, event, copy, resultSet, todo, late>>
          /\ api[n] = None /\ api \in [Names -> ApiPod \cup {None}]
          /\ queue \in Seq(Event)
      BY <1>1, ReflectorAssumption DEF Create, TypeOK, schedVars, handlerVars
    <2>2. \E ok \in Decodes :
             api' = [api EXCEPT ![n] =
                [uid |-> lastUid + 1, rv |-> rv + 1, bound |-> FALSE,
                 foreign |-> 0, annos |-> NoResults, hist |-> <<>>, histok |-> ok]]
      BY <1>1 DEF Create
    <2>3. api'[n].uid = lastUid + 1 /\ \A m \in Names : m # n => api'[m] = api[m]
      BY <2>1, <2>2
    <2>4. \A m \in Names : api[m] # None => api[m].uid \in Nat /\ api[m].foreign \in Nat
      BY <2>1, ReflectorAssumption DEF ApiPod, Uids
    <2>5. \A i \in DOMAIN queue : queue[i].uid \in Nat
      <3>1. \A i \in DOMAIN queue : queue[i] \in Event
        BY <2>1
      <3>2. QED
        BY <3>1, ReflectorAssumption DEF Event, Uids
    <2>6. PodsKnown'
      BY <2>1, <2>3, <2>4, <2>5 DEF PodsKnown
    <2>7. QED
      BY <2>1, <2>3, <2>4, <2>6 DEF OthersWrite
  <1>2. ASSUME NEW n \in Names, Delete(n) PROVE OthersWrite
    <2>1. /\ api' = [api EXCEPT ![n] = None] /\ UNCHANGED <<queue, lastUid>>
          /\ UNCHANGED <<results, hpc, event, copy, resultSet, todo, late>>
          /\ api \in [Names -> ApiPod \cup {None}] /\ lastUid \in Nat
      BY <1>2, ReflectorAssumption DEF Delete, TypeOK, schedVars, handlerVars
    <2>2. \A m \in Names : api'[m] # None => api'[m] = api[m]
      BY <2>1
    <2>3. \A m \in Names : api[m] # None => api[m].foreign \in Nat
      BY <2>1 DEF ApiPod
    <2>4. PodsKnown'
      BY <2>1, <2>2 DEF PodsKnown
    <2>5. QED
      BY <2>1, <2>2, <2>3, <2>4 DEF OthersWrite
  <1>3. ASSUME NEW n \in Names, Touch(n) PROVE OthersWrite
    BY <1>3, ForeignOthers DEF Touch, schedVars, handlerVars
  <1>4. ASSUME NEW i \in 1 .. Len(queue), Relist(i) PROVE OthersWrite
    BY <1>4, RelistOthers
  <1>5. QED
    BY <1>1, <1>2, <1>3, <1>4 DEF Cluster

\* So does the scheduler, between recordings.
LEMMA ScheduleWrites ==
    ASSUME TypeOK, PodsKnown, NEW n \in Names, NEW u \in Uids,
           StartCycle(n, u) \/ Bind(n, u) \/ BindFails(n, u) \/ FailCycle(n, u)
    PROVE  OthersWrite
  <1>1. UNCHANGED <<lastUid, results, hpc, event, copy, resultSet, todo, late>>
    BY DEF StartCycle, Bind, BindFails, FailCycle, handlerVars
  <1>2. CASE UNCHANGED apiVars
    BY <1>1, <1>2, NobodyWrites DEF apiVars, PodsKnown
  <1>3. CASE Bind(n, u)
    <2> DEFINE p == [api[n] EXCEPT !.bound = TRUE]
    <2>1. api[n] # None /\ api[n] \in ApiPod /\ Put(n, p)
      BY <1>3 DEF TypeOK, Bind, Exists
    <2>2. /\ p \in ApiPod /\ p.uid = api[n].uid /\ p.hist = api[n].hist
          /\ p.histok = api[n].histok /\ p.annos = api[n].annos
          /\ p.foreign = api[n].foreign /\ p.foreign \in Nat /\ p.bound
      BY <2>1 DEF ApiPod
    <2> HIDE DEF p
    <2>3. p.foreign >= api[n].foreign
      BY <2>2
    <2>4. QED
      BY <1>1, <2>1, <2>2, <2>3, PutOthers
  <1>4. CASE FailCycle(n, u) /\ ForeignWrite(n)
    BY <1>1, <1>4, ForeignOthers
  <1>5. QED
    BY <1>2, <1>3, <1>4 DEF StartCycle, BindFails, FailCycle

(***************************************************************************)
(* The invariant is kept.                                                  *)
(***************************************************************************)

\* What others write does not make the reflector owe anything: a pod keeps its
\* history, and a new one is not the event's.
LEMMA OthersDrop ==
    ASSUME TypeOK, TypeOK', DropInv, OthersWrite
    PROVE  DropInv'
  <1> USE DEF DropInv
  <1>1. /\ HasCopy' = HasCopy /\ lastUid \in Nat /\ lastUid' \in Nat /\ lastUid <= lastUid'
        /\ \A s, n : Held(s, n)' = Held(s, n)
        /\ \A n, c : StoredTokens(n, c)' = StoredTokens(n, c)
        /\ UNCHANGED <<results, hpc, event, copy, resultSet, todo, late>>
    BY ReflectorAssumption DEF OthersWrite, HasCopy, Held, StoredTokens, TypeOK
  <1>2. StoresOwnCells' /\ PodsKnown'
    BY <1>1 DEF StoresOwnCells, OthersWrite
  <1>3. CopyOfEvent' /\ ReadOrLate'
    BY <1>1 DEF CopyOfEvent, ReadOrLate
  <1>4. hpc # "idle" => event.name \in Names /\ event.uid \in Nat
    BY ReflectorAssumption DEF TypeOK, Event, Uids
  <1>5. EventKnown'
    BY <1>1, <1>4 DEF EventKnown
  <1>6. ASSUME hpc = "delete", NEW t, Owed(event.name, t)' PROVE Owed(event.name, t)
    <2>1. /\ t.id \notin late /\ api'[event.name] # None /\ api'[event.name].uid = event.uid
          /\ api'[event.name].histok
          /\ \A i \in DOMAIN api'[event.name].hist : t \notin TokensIn(api'[event.name].hist[i])
      BY <1>1, <1>6 DEF Owed, Exists, TokensIn
    <2>2. event.uid # lastUid + 1 /\ event.name \in Names
      BY <1>1, <1>4, <1>6 DEF EventKnown
    <2>3. /\ api[event.name] # None /\ api'[event.name].uid = api[event.name].uid
          /\ api'[event.name].hist = api[event.name].hist
          /\ api'[event.name].histok = api[event.name].histok
      BY <2>1, <2>2 DEF OthersWrite
    <2>4. QED
      BY <2>1, <2>3 DEF Owed, Exists
  <1>7. DeletesNothingOwed'
    BY <1>1, <1>6 DEF DeletesNothingOwed
  <1>8. QED
    BY <1>2, <1>3, <1>5, <1>7

\* A step that leaves the handler without a copy, and the stores alone.
LEMMA NoCopyDrop ==
    ASSUME DropInv, hpc' \in {"idle", "get"}, results' = results, PodsKnown', EventKnown'
    PROVE  DropInv'
  BY DEF DropInv, StoresOwnCells, CopyOfEvent, ReadOrLate, DeletesNothingOwed, HasCopy

\* A recording goes under its own store.  If the handler has read that store it
\* is late.
LEMMA AddDrop ==
    ASSUME TypeOK, DropInv, NEW n \in Names, NEW u \in Uids, NEW c \in Cells, AddToStore(n, u, c),
           UNCHANGED <<apiVars, lastUid, handlerVars, faultVars>>
    PROVE  DropInv'
  <1> USE DEF DropInv
  <1> DEFINE t == [uid |-> u, id |-> lastId + 1]
             S == StoreOf[c]
  <1>1. /\ UNCHANGED <<api, queue, lastUid, hpc, event, copy, resultSet, todo>>
        /\ S \in Stores /\ t \in Token /\ t.id = lastId + 1
        /\ HasCopy' = HasCopy /\ late \subseteq late'
        /\ HasRead(n, S) => t.id \in late'
        /\ results' = [results EXCEPT ![S][n] = AddResult(results[S][n], c, t)]
        /\ results \in [Stores -> [Names -> Data \cup {NoData}]]
    BY DataAssumption, ReflectorAssumption
       DEF AddToStore, apiVars, handlerVars, TypeOK, Token, Uids, HasCopy
  <1>2. /\ results'[S][n] = AddResult(results[S][n], c, t)
        /\ \A s \in Stores, m \in Names : ~(s = S /\ m = n) => results'[s][m] = results[s][m]
    BY <1>1
  <1> HIDE DEF t
  <1>3. /\ AddResult(results[S][n], c, t) \in Data
        /\ AddResult(results[S][n], c, t)[c] = t
        /\ \A d \in Cells : d # c /\ AddResult(results[S][n], c, t)[d] \in Token
              => results[S][n] # NoData /\ AddResult(results[S][n], c, t)[d] = results[S][n][d]
    <2>1. results[S][n] \in Data \cup {NoData}
      BY <1>1
    <2>2. AddResult(results[S][n], c, t) \in Data
      BY <1>1, <2>1, AddResultType
    <2>3. CASE results[S][n] = NoData
      BY <2>2, <2>3, DataAssumption DEF AddResult, NewData
    <2>4. CASE results[S][n] # NoData
      BY <2>1, <2>2, <2>4 DEF AddResult, Data
    <2>5. QED
      BY <2>2, <2>3, <2>4
  <1>4. StoresOwnCells'
    <2>1. ASSUME NEW s \in Stores, NEW m \in Names, NEW d \in Cells,
                 results'[s][m] # NoData, results'[s][m][d] \in Token
          PROVE  StoreOf[d] = s
      BY <1>2, <1>3, <2>1 DEF StoresOwnCells
    <2>2. QED
      BY <2>1 DEF StoresOwnCells
  <1>5. ASSUME NEW s \in Stores, NEW m \in Names, NEW x \in Held(s, m)'
        PROVE  x \in Held(s, m) \/ (x = t /\ s = S /\ m = n)
    <2>1. CASE ~(s = S /\ m = n)
      BY <1>2, <1>5, <2>1 DEF Held
    <2>2. CASE s = S /\ m = n
      <3>1. PICK d \in Cells : x = AddResult(results[S][n], c, t)[d] /\ x \in Token
        BY <1>2, <1>5, <2>2 DEF Held, TokensIn
      <3>2. CASE d = c
        BY <1>3, <2>2, <3>1, <3>2
      <3>3. CASE d # c
        BY <1>3, <2>2, <3>1, <3>3 DEF Held, TokensIn
      <3>4. QED
        BY <3>2, <3>3
    <2>3. QED
      BY <2>1, <2>2
  <1>6. PodsKnown' /\ EventKnown' /\ CopyOfEvent'
    BY <1>1 DEF PodsKnown, EventKnown, CopyOfEvent
  <1>7. hpc # "idle" => event.name \in Names
    BY DEF TypeOK, Event
  <1>8. ReadOrLate'
    <2> SUFFICES ASSUME HasCopy, NEW d \in Cells, StoreOf[d] \notin todo,
                        NEW x \in StoredTokens(event.name, d)'
                 PROVE  x.id \in late' \/ x = resultSet[d]
      BY <1>1 DEF ReadOrLate
    <2>1. event.name \in Names /\ StoreOf[d] \in Stores
      BY <1>7, DataAssumption DEF HasCopy
    <2>2. x \in StoredTokens(event.name, d) \/ (x = t /\ StoreOf[d] = S /\ event.name = n)
      <3>1. CASE ~(StoreOf[d] = S /\ event.name = n)
        BY <1>1, <1>2, <2>1, <3>1 DEF StoredTokens
      <3>2. CASE StoreOf[d] = S /\ event.name = n
        BY <1>1, <1>2, <1>3, <2>1, <3>2 DEF StoredTokens
      <3>3. QED
        BY <3>1, <3>2
    <2>3. CASE x \in StoredTokens(event.name, d)
      BY <1>1, <2>3 DEF ReadOrLate
    <2>4. CASE x = t /\ StoreOf[d] = S /\ event.name = n
      BY <1>1, <2>4 DEF HasRead, HasCopy
    <2>5. QED
      BY <2>2, <2>3, <2>4
  <1>9. DeletesNothingOwed'
    <2> SUFFICES ASSUME hpc = "delete", NEW s \in todo, NEW x \in Held(s, event.name)'
                 PROVE  ~Owed(event.name, x)'
      BY <1>1 DEF DeletesNothingOwed
    <2>1. event.name \in Names /\ s \in Stores
      BY <1>7 DEF TypeOK
    <2>2. x \in Held(s, event.name) \/ (x = t /\ s = S /\ event.name = n)
      BY <1>1, <1>5, <2>1
    <2>3. CASE x \in Held(s, event.name)
      BY <1>1, <2>3 DEF DeletesNothingOwed, Owed, Exists, TokensIn
    <2>4. CASE x = t /\ s = S /\ event.name = n
      BY <1>1, <2>4 DEF HasRead, Owed
    <2>5. QED
      BY <2>2, <2>3, <2>4
  <1>10. QED
    BY <1>4, <1>6, <1>8, <1>9

\* A store is read: what it holds is in the result set now.  With nothing in the
\* result set there is nothing in the stores but what came too late.
LEMMA ReadDrop ==
    ASSUME TypeOK, DropInv, NEW s \in Stores, ReadStore(s)
    PROVE  DropInv'
  <1> USE DEF DropInv
  <1>1. /\ UNCHANGED <<api, queue, results, lastUid, event, copy, late>>
        /\ hpc = "read" /\ HasCopy /\ s \in todo /\ resultSet' = Collect(s)
        /\ event.name \in Names /\ resultSet \in ResultSet /\ todo \in SUBSET Stores
        /\ results \in [Stores -> [Names -> Data \cup {NoData}]]
        /\ \/ hpc' = "read" /\ todo' = todo \ {s}
           \/ hpc' = "delete" /\ Collect(s) = NoResults /\ todo = {s}
           \/ hpc' = "update" /\ todo' = {} /\ todo = {s}
    BY DEF ReadStore, apiVars, schedVars, faultVars, HasCopy, TypeOK, Event, NothingRead
  <1>2. /\ \A x, m : Held(x, m)' = Held(x, m)
        /\ \A m, c : StoredTokens(m, c)' = StoredTokens(m, c)
    BY <1>1 DEF Held, StoredTokens
  <1>3. ASSUME NEW c \in Cells, StoreOf[c] = s \/ StoreOf[c] \notin todo,
               NEW t \in StoredTokens(event.name, c)
        PROVE  t.id \in late \/ t = Collect(s)[c]
    <2>1. t \in Token /\ results[StoreOf[c]][event.name] # NoData
          /\ t = results[StoreOf[c]][event.name][c]
      BY <1>3 DEF StoredTokens
    <2>2. CASE StoreOf[c] = s
      BY <2>1, <2>2, DataAssumption DEF Collect, Merge, GetStoredResult
    <2>3. CASE StoreOf[c] # s
      <3>1. Collect(s)[c] = resultSet[c]
        BY <2>3 DEF Collect, Merge, GetStoredResult
      <3>2. QED
        BY <1>1, <1>3, <2>3, <3>1 DEF ReadOrLate
    <2>4. QED
      BY <2>2, <2>3
  <1>4. StoresOwnCells' /\ PodsKnown' /\ EventKnown'
    BY <1>1 DEF StoresOwnCells, PodsKnown, EventKnown, HasCopy
  <1>5. CopyOfEvent'
    BY <1>1 DEF CopyOfEvent, HasCopy
  <1>6. ReadOrLate'
    <2>1. CASE hpc' = "delete"
      BY <2>1 DEF ReadOrLate, HasCopy
    <2>2. CASE todo' = todo \ {s} \/ (todo' = {} /\ todo = {s})
      BY <1>1, <1>2, <1>3, <2>2 DEF ReadOrLate
    <2>3. QED
      BY <1>1, <2>1, <2>2
  <1>7. DeletesNothingOwed'
    <2> SUFFICES ASSUME hpc' = "delete", NEW x \in todo', NEW t \in Held(x, event.name)
                 PROVE  t.id \in late
      BY <1>1, <1>2 DEF DeletesNothingOwed, Owed
    <2>1. todo' \in SUBSET Stores /\ todo = {s} /\ Collect(s) = NoResults
      BY <1>1 DEF ReadStore
    <2>2. x \in Stores
      BY <1>1, <2>1 DEF ReadStore
    <2>3. PICK c \in Cells : /\ results[x][event.name] # NoData
                             /\ t = results[x][event.name][c] /\ t \in Token
      BY DEF Held, TokensIn
    <2>4. StoreOf[c] = x /\ t \in StoredTokens(event.name, c)
      BY <1>1, <2>2, <2>3 DEF StoresOwnCells, StoredTokens
    <2>5. Collect(s)[c] = Absent
      BY <2>1 DEF NoResults
    <2>6. QED
      BY <1>3, <2>1, <2>3, <2>4, <2>5, DataAssumption
  <1>8. QED
    BY <1>4, <1>5, <1>6, <1>7

\* An update that the API server takes leaves everything of the pod as it was,
\* but for the results that were read.
LEMMA UpdateWrites ==
    ASSUME IInv, DropInv, hpc = "update", Accepted, ApplyUpdate, lastUid' = lastUid
    PROVE  /\ event.name \in Names /\ api[event.name] # None /\ api[event.name].uid = event.uid
           /\ PodsKnown' /\ \A n \in Names : n # event.name => api'[n] = api[n]
           /\ api'[event.name] # None
           /\ api'[event.name].uid = event.uid
           /\ api'[event.name].histok = api[event.name].histok
           /\ api'[event.name].bound = api[event.name].bound
           /\ api'[event.name].foreign = api[event.name].foreign
           /\ api[event.name].hist \in Seq(ResultSet) /\ resultSet \in ResultSet
           /\ api'[event.name].hist = IF api[event.name].histok
                                      THEN Append(api[event.name].hist, resultSet)
                                      ELSE api[event.name].hist
  <1>1. /\ event.name \in Names /\ copy \in ApiPod /\ resultSet \in ResultSet
        /\ TypeOK /\ CopyCurrent /\ HasCopy /\ PodsKnown
        /\ copy.uid = event.uid
    BY DEF IInv, TypeOK, Event, HasCopy, DropInv, CopyOfEvent
  <1>2. api[event.name] = copy /\ copy # None
    BY <1>1, ReflectorAssumption DEF CopyCurrent
  <1>3. /\ NewPod \in ApiPod
        /\ NewPod.uid = copy.uid /\ NewPod.histok = copy.histok /\ NewPod.bound = copy.bound
        /\ NewPod.foreign = copy.foreign
        /\ NewPod.hist = IF copy.histok THEN Append(copy.hist, resultSet) ELSE copy.hist
    BY <1>1, NewPodType DEF NewPod, UpdatedHistory, ApiPod
  <1>4. copy.hist \in Seq(ResultSet)
    BY <1>1 DEF ApiPod
  <1>5. CASE NewPod = copy /\ UNCHANGED apiVars
    BY <1>1, <1>2, <1>3, <1>4, <1>5 DEF apiVars, PodsKnown
  <1>6. CASE Put(event.name, NewPod)
    <2>1. NewPod.uid <= lastUid
      BY <1>1, <1>2, <1>3 DEF PodsKnown
    <2>2. /\ PodsKnown' /\ api'[event.name] # None
          /\ api'[event.name] = [NewPod EXCEPT !.rv = rv + 1]
          /\ \A m \in Names : m # event.name => api'[m] = api[m]
      BY <1>1, <1>3, <1>6, <2>1, PutKnown
    <2>3. /\ api'[event.name].uid = NewPod.uid /\ api'[event.name].histok = NewPod.histok
          /\ api'[event.name].bound = NewPod.bound /\ api'[event.name].foreign = NewPod.foreign
          /\ api'[event.name].hist = NewPod.hist
      BY <1>3, <2>2 DEF ApiPod
    <2>4. QED
      BY <1>1, <1>2, <1>3, <1>4, <2>2, <2>3
  <1>7. QED
    BY <1>5, <1>6 DEF ApplyUpdate

\* After the update the history lists all that was read, and the rest is late.
LEMMA UpdateDrop ==
    ASSUME IInv, DropInv, UpdatePod
    PROVE  DropInv'
  <1> DEFINE n == event.name
  <1>1. /\ hpc = "update" /\ Accepted /\ ApplyUpdate /\ hpc' = "delete" /\ todo' = Stores
        /\ UNCHANGED <<lastUid, results, event, late>> /\ HasCopy /\ todo = {}
    BY DEF UpdatePod, schedVars, HasCopy, DropInv, CopyOfEvent
  <1>2. /\ n \in Names /\ PodsKnown' /\ api'[n] # None /\ api'[n].uid = event.uid
        /\ api'[n].histok = api[n].histok /\ api[n].hist \in Seq(ResultSet) /\ resultSet \in ResultSet
        /\ api[n].histok => api'[n].hist = Append(api[n].hist, resultSet)
    BY <1>1, UpdateWrites
  <1>3. ASSUME NEW s \in Stores, NEW t \in Held(s, n), Owed(n, t)'
        PROVE  FALSE
    <2>1. PICK c \in Cells : results[s][n] # NoData /\ t = results[s][n][c] /\ t \in Token
      BY <1>3 DEF Held, TokensIn
    <2>2. StoreOf[c] = s /\ t \in StoredTokens(n, c)
      BY <1>2, <2>1 DEF DropInv, StoresOwnCells, StoredTokens
    <2>3. t.id \in late \/ t = resultSet[c]
      BY <1>1, <2>2 DEF DropInv, ReadOrLate
    <2>4. t.id \notin late /\ api'[n].histok
          /\ \A i \in DOMAIN api'[n].hist : t \notin TokensIn(api'[n].hist[i])
      BY <1>1, <1>3 DEF Owed, TokensIn
    <2>5. t \in TokensIn(resultSet)
      BY <2>1, <2>3, <2>4 DEF TokensIn
    <2>6. api'[n].hist = Append(api[n].hist, resultSet)
      BY <1>2, <2>4
    <2>7. /\ Len(api[n].hist) + 1 \in DOMAIN api'[n].hist
          /\ api'[n].hist[Len(api[n].hist) + 1] = resultSet
      BY <1>2, <2>6
    <2>8. QED
      BY <2>4, <2>5, <2>7
  <1>4. DeletesNothingOwed'
    BY <1>1, <1>3 DEF DeletesNothingOwed, Held
  <1>5. StoresOwnCells' /\ EventKnown' /\ CopyOfEvent' /\ ReadOrLate'
    BY <1>1 DEF DropInv, StoresOwnCells, EventKnown, CopyOfEvent, ReadOrLate, HasCopy
  <1>6. QED
    BY <1>2, <1>4, <1>5 DEF DropInv

\* Deleting a store's entry leaves the others as they were.
LEMMA DeleteDrop ==
    ASSUME TypeOK, DropInv, NEW s \in Stores, DeleteData(s)
    PROVE  DropInv'
  <1>1. /\ hpc = "delete" /\ s \in todo /\ UNCHANGED <<api, queue, lastUid>>
        /\ results' = [results EXCEPT ![s][event.name] = NoData]
        /\ results \in [Stores -> [Names -> Data \cup {NoData}]]
        /\ event.name \in Names /\ todo \in SUBSET Stores
        /\ \/ hpc' = "idle"
           \/ todo' = todo \ {s} /\ UNCHANGED <<hpc, event, late>>
    BY DEF DeleteData, Deleted, TypeOK, Event, apiVars, Return
  <1>2. /\ results'[s][event.name] = NoData
        /\ \A x \in Stores, m \in Names : ~(x = s /\ m = event.name) => results'[x][m] = results[x][m]
    BY <1>1
  <1>3. StoresOwnCells' /\ PodsKnown'
    BY <1>1, <1>2 DEF DropInv, StoresOwnCells, PodsKnown
  <1>4. EventKnown' /\ CopyOfEvent' /\ ReadOrLate'
    BY <1>1 DEF DropInv, EventKnown, CopyOfEvent, ReadOrLate, HasCopy
  <1>5. DeletesNothingOwed'
    <2>1. ASSUME hpc' = "delete", NEW x \in todo', NEW t \in Held(x, event.name)'
          PROVE  ~Owed(event.name, t)'
      <3>1. x \in todo /\ x # s /\ x \in Stores /\ UNCHANGED <<hpc, event, late>>
        BY <1>1, <2>1
      <3>2. results'[x][event.name] = results[x][event.name]
        BY <1>1, <1>2, <3>1
      <3>3. t \in Held(x, event.name)
        BY <2>1, <3>1, <3>2 DEF Held
      <3>4. ~Owed(event.name, t)
        BY <1>1, <3>1, <3>3 DEF DropInv, DeletesNothingOwed
      <3>5. QED
        BY <1>1, <3>1, <3>4 DEF Owed, Exists, TokensIn
    <2>2. QED
      BY <2>1 DEF DeletesNothingOwed
  <1>6. QED
    BY <1>3, <1>4, <1>5 DEF DropInv

\* The copy is the pod of the event.
LEMMA GetPodDrop ==
    ASSUME TypeOK, DropInv, GetPod
    PROVE  DropInv'
  <1>1. hpc = "get" /\ UNCHANGED <<api, queue, results, lastUid>>
    BY DEF GetPod, apiVars, schedVars
  <1>2. PodsKnown'
    BY <1>1 DEF DropInv, PodsKnown
  <1>3. CASE Return
    BY <1>1, <1>2, <1>3, NoCopyDrop DEF Return, EventKnown
  <1>4. CASE /\ hpc' = "read" /\ copy' = api[event.name] /\ todo' = Stores /\ event' = event
             /\ SamePod(api[event.name])
    <2>1. EventKnown'
      BY <1>1, <1>4 DEF DropInv, EventKnown
    <2>2. StoresOwnCells' /\ CopyOfEvent' /\ DeletesNothingOwed'
      BY <1>1, <1>4 DEF DropInv, StoresOwnCells, CopyOfEvent, DeletesNothingOwed, HasCopy, SamePod
    <2>3. ReadOrLate'
      BY <1>4, DataAssumption DEF ReadOrLate
    <2>4. QED
      BY <1>2, <2>1, <2>2, <2>3 DEF DropInv
  <1>5. QED
    BY <1>3, <1>4 DEF GetPod

\* The handler's steps keep the invariant.
LEMMA HandlerDrop ==
    ASSUME IInv, DropInv, Handler
    PROVE  DropInv'
  <1>0. TypeOK /\ PodsKnown
    BY DEF IInv, DropInv
  <1>1. CASE Handle
    <2>1. /\ queue \in Seq(Event) /\ queue # <<>> /\ event' = Head(queue) /\ queue' = Tail(queue)
          /\ hpc' = "get" /\ UNCHANGED <<api, lastUid, results>>
      BY <1>0, <1>1 DEF Handle, TypeOK, schedVars
    <2>2. /\ event' = queue[1] /\ 1 \in DOMAIN queue
          /\ \A i \in DOMAIN queue' : i + 1 \in DOMAIN queue /\ queue'[i] = queue[i + 1]
      BY <2>1
    <2>3. PodsKnown' /\ EventKnown'
      BY <1>0, <2>1, <2>2 DEF PodsKnown, EventKnown
    <2>4. QED
      BY <2>1, <2>3, NoCopyDrop
  <1>2. CASE GetPod
    BY <1>0, <1>2, GetPodDrop
  <1>3. CASE GetPodFails \/ UpdateFails
    <2>1. Return /\ UNCHANGED <<api, queue, lastUid, results>>
      BY <1>3 DEF GetPodFails, UpdateFails, apiVars, schedVars
    <2>2. QED
      BY <1>0, <2>1, NoCopyDrop DEF Return, EventKnown, PodsKnown
  <1>4. CASE UpdateConflicts
    <2>1. /\ UNCHANGED <<api, queue, lastUid, results>> /\ hpc = "update"
          /\ Return \/ (hpc' = "get" /\ event' = event)
      BY <1>4 DEF UpdateConflicts, apiVars, schedVars
    <2>2. EventKnown'
      BY <2>1 DEF EventKnown, DropInv, Return
    <2>3. QED
      BY <1>0, <2>1, <2>2, NoCopyDrop DEF Return, PodsKnown
  <1>5. CASE UpdateAnswerLost
    <2>1. /\ hpc = "update" /\ Accepted /\ ApplyUpdate /\ Return /\ UNCHANGED <<lastUid, results>>
      BY <1>5 DEF UpdateAnswerLost, schedVars
    <2>2. PodsKnown'
      BY <2>1, UpdateWrites
    <2>3. QED
      BY <2>1, <2>2, NoCopyDrop DEF Return, EventKnown
  <1>6. CASE UpdatePod
    BY <1>6, UpdateDrop
  <1>7. QED
    BY <1>0, <1>1, <1>2, <1>3, <1>4, <1>5, <1>6, ReadDrop, DeleteDrop DEF Handler

\* A restart empties the stores and the queue.
LEMMA CrashDrop ==
    ASSUME TypeOK, DropInv, Crash
    PROVE  DropInv'
  <1>1. /\ results' = NoStoredData /\ queue' = <<>> /\ hpc' = "idle" /\ UNCHANGED <<api, lastUid>>
    BY DEF Crash, Return
  <1>2. PodsKnown' /\ EventKnown'
    BY <1>1 DEF DropInv, PodsKnown, EventKnown
  <1>3. StoresOwnCells' /\ CopyOfEvent' /\ ReadOrLate' /\ DeletesNothingOwed'
    BY <1>1 DEF StoresOwnCells, CopyOfEvent, ReadOrLate, DeletesNothingOwed, HasCopy, NoStoredData
  <1>4. QED
    BY <1>2, <1>3 DEF DropInv

(***************************************************************************)
(* The theorems.                                                           *)
(***************************************************************************)

\* Both invariants are kept by every step.
LEMMA BothKept == IInv /\ DropInv /\ [Next]_vars => IInv' /\ DropInv'
  <1> SUFFICES ASSUME IInv, DropInv, [Next]_vars PROVE IInv' /\ DropInv'
    OBVIOUS
  <1>1. IInv'
    BY InvariantKept
  <1>2. TypeOK /\ TypeOK' /\ PodsKnown
    BY <1>1 DEF IInv, DropInv
  <1>3. CASE Cluster
    BY <1>1, <1>2, <1>3, ClusterWrites, OthersDrop
  <1>4. CASE Scheduler
    <2> SUFFICES ASSUME NEW n \in Names, NEW u \in Uids,
                        \/ StartCycle(n, u)
                        \/ \E c \in Cells : Record(n, u, c)
                        \/ Bind(n, u)
                        \/ BindFails(n, u)
                        \/ \E c \in Cells : RecordBind(n, u, c)
                        \/ FailCycle(n, u)
                 PROVE  DropInv'
      BY <1>1, <1>4 DEF Scheduler
    <2>1. CASE StartCycle(n, u) \/ Bind(n, u) \/ BindFails(n, u) \/ FailCycle(n, u)
      BY <1>2, <2>1, ScheduleWrites, OthersDrop
    <2>2. ASSUME NEW c \in Cells, Record(n, u, c) \/ RecordBind(n, u, c) PROVE DropInv'
      BY <1>2, <2>2, AddDrop DEF Record, RecordBind
    <2>3. QED
      BY <2>1, <2>2
  <1>5. CASE Handler
    BY <1>1, <1>5, HandlerDrop
  <1>6. CASE Crash
    BY <1>1, <1>2, <1>6, CrashDrop
  <1>7. CASE UNCHANGED vars
    <2>1. /\ UNCHANGED <<api, queue, lastUid, results, hpc, event, copy, resultSet, todo, late>>
      BY <1>7 DEF vars, apiVars, schedVars, handlerVars
    <2>2. OthersWrite
      BY <1>2, <2>1, NobodyWrites DEF PodsKnown
    <2>3. QED
      BY <1>1, <1>2, <2>2, OthersDrop
  <1>8. QED
    BY <1>1, <1>3, <1>4, <1>5, <1>6, <1>7 DEF Next

\* Both hold throughout (storereflector.go:78-148): while the handler works on a
\* pod, what a store holds of it was read, or came too late, or is listed.
THEOREM DropInvariant == Spec => [](IInv /\ DropInv)
  <1>1. Init => DropInv
    BY DEF Init, DropInv, StoresOwnCells, PodsKnown, EventKnown, CopyOfEvent, ReadOrLate,
           DeletesNothingOwed, HasCopy, NoStoredData
  <1>2. QED
    BY <1>1, InitInvariant, BothKept, PTL DEF Spec

\* Pods are written by others, or by the handler's update.
LEMMA WhoWrites ==
    ASSUME IInv, DropInv, [Next]_vars
    PROVE  \/ OthersWrite
           \/ UNCHANGED api
           \/ hpc = "update" /\ Accepted /\ ApplyUpdate /\ lastUid' = lastUid
  <1>1. TypeOK /\ TypeOK' /\ PodsKnown
    BY InvariantKept DEF IInv, DropInv
  <1>2. CASE Cluster
    BY <1>1, <1>2, ClusterWrites
  <1>3. CASE Scheduler
    <2>1. PICK n \in Names, u \in Uids :
             \/ StartCycle(n, u) \/ Bind(n, u) \/ BindFails(n, u) \/ FailCycle(n, u)
             \/ \E c \in Cells : Record(n, u, c) \/ RecordBind(n, u, c)
      BY <1>3 DEF Scheduler
    <2>2. QED
      BY <1>1, <2>1, ScheduleWrites DEF Record, RecordBind, apiVars
  <1>4. CASE Handler
    BY <1>4 DEF Handler, Handle, GetPod, GetPodFails, ReadStore, UpdatePod, UpdateConflicts,
                UpdateFails, UpdateAnswerLost, DeleteData, apiVars
  <1>5. CASE Crash \/ UNCHANGED vars
    BY <1>5 DEF Crash, vars, apiVars
  <1>6. QED
    BY <1>2, <1>3, <1>4, <1>5 DEF Next

\* A recording leaves a store only when a later one replaces it, at a restart, or
\* by a DeleteData at which it is in the history of the pod or came after the
\* store was read (storereflector.go:141-144).
THEOREM NothingOwedIsDropped == Spec => DropsNothingOwed
  <1>1. ASSUME IInv, DropInv, [Next]_vars, NEW s \in Stores, NEW n \in Names,
               results[s][n] # NoData, results'[s][n] = NoData, crashes' = crashes,
               NEW t \in TokensIn(results[s][n])
        PROVE  ~Owed(n, t)
    <2>0. /\ TypeOK /\ crashes \in Nat
          /\ results \in [Stores -> [Names -> Data \cup {NoData}]]
      BY <1>1 DEF IInv, TypeOK
    <2>1. PICK x \in Stores : DeleteData(x)
      <3>1. CASE Cluster \/ UNCHANGED vars
        BY <1>1, <3>1
           DEF Cluster, Create, Delete, Touch, Relist, vars, schedVars
      <3>2. CASE Scheduler
        <4>1. PICK m \in Names, u \in Uids :
                 \/ UNCHANGED results
                 \/ \E c \in Cells : AddToStore(m, u, c)
          BY <3>2 DEF Scheduler, StartCycle, Bind, BindFails, FailCycle, Record, RecordBind
        <4>2. PICK c \in Cells : AddToStore(m, u, c)
          BY <1>1, <4>1
        <4> DEFINE new == [uid |-> u, id |-> lastId + 1]
        <4>3. StoreOf[c] \in Stores /\ new \in Token
          BY <2>0, DataAssumption, ReflectorAssumption DEF Token, Uids, TypeOK
        <4>4. AddResult(results[StoreOf[c]][m], c, new) \in Data
          BY <2>0, <4>3, AddResultType
        <4>5. results' = [results EXCEPT ![StoreOf[c]][m] = AddResult(results[StoreOf[c]][m], c, new)]
          BY <4>2 DEF AddToStore
        <4>6. results'[s][n] # NoData
          BY <1>1, <2>0, <4>3, <4>4, <4>5, DataAssumption DEF Data
        <4>7. QED
          BY <1>1, <4>6
      <3>3. CASE Handler
        BY <1>1, <3>3
           DEF Handler, Handle, GetPod, GetPodFails, ReadStore, UpdatePod, UpdateConflicts,
               UpdateFails, UpdateAnswerLost, schedVars
      <3>4. CASE Crash
        BY <1>1, <2>0, <3>4 DEF Crash
      <3>5. QED
        BY <1>1, <3>1, <3>2, <3>3, <3>4 DEF Next
    <2>2. s = x /\ n = event.name /\ hpc = "delete" /\ x \in todo
      BY <1>1, <2>0, <2>1 DEF DeleteData, Deleted, TypeOK, Event
    <2>3. t \in Held(s, n)
      BY <1>1 DEF Held
    <2>4. QED
      BY <1>1, <2>2, <2>3 DEF DropInv, DeletesNothingOwed
  <1>2. IInv /\ DropInv /\ [Next]_vars =>
          [\A s \in Stores, n \in Names :
             results[s][n] # NoData /\ results'[s][n] = NoData /\ crashes' = crashes
               => \A t \in TokensIn(results[s][n]) : ~Owed(n, t)]_vars
    BY <1>1
  <1>3. QED
    BY <1>2, DropInvariant, PTL DEF Spec, DropsNothingOwed

\* The reflector overwrites no write of another client (storereflector.go:124-131:
\* the update carries the version that was read).
THEOREM ForeignWritesKept == Spec => KeepsForeignWrites
  <1>1. ASSUME IInv, DropInv, [Next]_vars, NEW n \in Names,
               api[n] # None, api'[n] # None, api'[n].uid = api[n].uid
        PROVE  api'[n].foreign >= api[n].foreign /\ (api[n].bound => api'[n].bound)
    <2>1. api[n].uid \in Nat /\ api[n].foreign \in Nat /\ api[n].uid <= lastUid /\ lastUid \in Nat
      BY <1>1, ReflectorAssumption DEF IInv, TypeOK, ApiPod, Uids, DropInv, PodsKnown
    <2>2. CASE OthersWrite
      BY <1>1, <2>1, <2>2 DEF OthersWrite
    <2>3. CASE UNCHANGED api
      BY <2>1, <2>3
    <2>4. CASE hpc = "update" /\ Accepted /\ ApplyUpdate /\ lastUid' = lastUid
      <3>1. CASE n = event.name
        BY <1>1, <2>1, <2>4, <3>1, UpdateWrites
      <3>2. CASE n # event.name
        <4>1. api'[n] = api[n]
          BY <1>1, <2>4, <3>2, UpdateWrites
        <4>2. QED
          BY <2>1, <4>1
      <3>3. QED
        BY <3>1, <3>2
    <2>5. QED
      BY <1>1, <2>2, <2>3, <2>4, WhoWrites
  <1>2. IInv /\ DropInv /\ [Next]_vars =>
          [\A n \in Names :
             api[n] # None /\ api'[n] # None /\ api'[n].uid = api[n].uid
               => /\ api'[n].foreign >= api[n].foreign
                  /\ api[n].bound => api'[n].bound]_vars
    BY <1>1
  <1>3. QED
    BY <1>2, DropInvariant, PTL DEF Spec, KeepsForeignWrites

\* The history only grows at its end, and only by the handler of an event of that
\* very pod (storereflector.go:95, 150-171).
THEOREM HistoryOnlyGrows == Spec => HistoryGrowsForEvent
  <1>1. ASSUME IInv, DropInv, [Next]_vars, NEW n \in Names,
               api[n] # None, api'[n] # None, api'[n].uid = api[n].uid,
               api'[n].annos # api[n].annos \/ api'[n].hist # api[n].hist
        PROVE  /\ event = [name |-> n, uid |-> api[n].uid]
               /\ SubSeq(api'[n].hist, 1, Len(api[n].hist)) = api[n].hist
    <2>1. /\ api[n].uid \in Nat /\ api[n].uid <= lastUid /\ lastUid \in Nat
          /\ hpc # "idle" => event \in Event
      BY <1>1, ReflectorAssumption DEF IInv, TypeOK, ApiPod, Uids, DropInv, PodsKnown
    <2>2. ~OthersWrite
      BY <1>1, <2>1 DEF OthersWrite
    <2>3. hpc = "update" /\ Accepted /\ ApplyUpdate /\ lastUid' = lastUid
      BY <1>1, <2>2, WhoWrites
    <2>4. n = event.name
      BY <1>1, <2>3, UpdateWrites
    <2> DEFINE h == api[n].hist
    <2>5. /\ event.uid = api[n].uid /\ h \in Seq(ResultSet) /\ resultSet \in ResultSet
          /\ api'[n].hist = Append(h, resultSet) \/ api'[n].hist = h
      BY <1>1, <2>3, <2>4, UpdateWrites
    <2> HIDE DEF h
    <2>6. SubSeq(h, 1, Len(h)) = h
      BY <2>5, SubSeqFull
    <2>7. SubSeq(Append(h, resultSet), 1, Len(h)) = h
      BY <2>5, <2>6
    <2>8. event = [name |-> n, uid |-> api[n].uid]
      BY <2>1, <2>3, <2>4, <2>5 DEF Event
    <2>9. QED
      BY <2>5, <2>6, <2>7, <2>8 DEF h
  <1>2. IInv /\ DropInv /\ [Next]_vars =>
          [\A n \in Names :
             (/\ api[n] # None /\ api'[n] # None /\ api'[n].uid = api[n].uid
              /\ api'[n].annos # api[n].annos \/ api'[n].hist # api[n].hist)
               => /\ event = [name |-> n, uid |-> api[n].uid]
                  /\ SubSeq(api'[n].hist, 1, Len(api[n].hist)) = api[n].hist]_vars
    BY <1>1
  <1>3. QED
    BY <1>2, DropInvariant, PTL DEF Spec, HistoryGrowsForEvent

=============================================================================
