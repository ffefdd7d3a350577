----------------------- MODULE ClusterRestore_proofs ------------------------
(***************************************************************************)
(* Proofs about ClusterRestore, for any objects, requests and bounds: its  *)
(* types, that a Reset and a Load that answer with success have restored   *)
(* and applied what they should, and that loaded volumes name the claims   *)
(* of this cluster.                                                        *)
(***************************************************************************)
EXTENDS ClusterRestore, TLAPS

-----------------------------------------------------------------------------
(***************************************************************************)
(* A request that is idle or has failed, and one that hears of a write.    *)
(***************************************************************************)

\* An object has one phase, and a claim's is the second.
LEMMA Phases ==
    /\ \A o \in Objs : PhaseOf(o) \in ApplyPhases
    /\ \A o \in Objs \ Volumes : PhaseOf(o) # "volumes"
    /\ \A v \in Volumes : PhaseOf(v) = "volumes"
    /\ \A o \in Objs : IsNamespace(o) <=> PhaseOf(o) = "namespaces"
    /\ \A c \in Claims : c \in Objs /\ c \notin Volumes /\ PhaseOf(c) = "objects"
BY ObjectsAssumption, RestoreAssumption
   DEF PhaseOf, ApplyPhases, IsNamespace, Volumes, Claims

\* The fields of a request, one by one.
LEMMA Fields ==
    ASSUME NEW q \in Requests
    PROVE  /\ q.tasks \in SUBSET Objs /\ q.touched \in SUBSET Objs
           /\ q.snap \in [Objs -> Saved \cup {Gone}]
           /\ q.found \in [Volumes -> 0..MaxUid \cup {Unasked}]
           /\ q.err \in BOOLEAN
BY DEF Requests

\* A request that has not begun promises nothing.
LEMMA IdleOK ==
    /\ Idle \in Requests
    /\ \A d, i : RequestInv(Idle, d, i)
<1>1. Idle \in Requests
    BY RestoreAssumption DEF Idle, Requests
<1>2. Idle.op = "none" /\ Idle.pc = "idle"
    BY DEF Idle
<1> QED
    BY <1>1, <1>2 DEF RequestInv, Stages, PutSoFar, TasksInPhase, AppliedSoFar, NamesSoFar,
                      ApplyPhases

\* Neither does one that has failed.
LEMMA FailedOK ==
    ASSUME NEW q \in Requests
    PROVE  /\ Failed(q) \in Requests
           /\ Failed(q).found = Idle.found
           /\ \A d, i : RequestInv(Failed(q), d, i)
<1> DEFINE f == Failed(q)
<1>1. f.pc = "error" /\ f.found = Idle.found
    BY DEF Failed, Idle
<1>2. f \in Requests
    BY IdleOK DEF Failed, Requests
<1>3. \A o \in Objs : ~Handled(f, o)
    BY <1>1, Phases DEF Handled, PhasesDone, ApplyPhases
<1>4. \A v \in Volumes : ClaimOf[v] \in Objs
    BY ObjectsAssumption
<1> HIDE DEF f
<1>5. \A d, i : RequestInv(f, d, i)
    BY <1>1, <1>3, <1>4
       DEF RequestInv, Stages, PutSoFar, TasksInPhase, AppliedSoFar, NamesSoFar, ApplyPhases
<1> QED
    BY <1>1, <1>2, <1>5 DEF f

\* A write changes nothing that was saved but versions, and no old one.
LEMMA OutdatedKeeps ==
    ASSUME NEW snap \in [Objs -> Saved \cup {Gone}], NEW W
    PROVE  /\ Outdated(snap, W) \in [Objs -> Saved \cup {Gone}]
           /\ \A o \in Objs :
                 /\ Outdated(snap, W)[o] = Gone <=> snap[o] = Gone
                 /\ snap[o] # Gone => /\ Outdated(snap, W)[o].bound = snap[o].bound
                                      /\ Outdated(snap, W)[o].placed = snap[o].placed
                 /\ snap[o].ver = "old" \/ o \notin W => Outdated(snap, W)[o] = snap[o]
<1> DEFINE t == Outdated(snap, W)
<1>1. \A o \in Objs : t[o] = IF o \in W /\ snap[o] # Gone /\ snap[o].ver = "current"
                            THEN [snap[o] EXCEPT !.ver = "old"] ELSE snap[o]
    BY DEF Outdated
<1>2. ASSUME NEW o \in Objs
      PROVE  /\ t[o] \in Saved \cup {Gone} /\ (t[o] = Gone <=> snap[o] = Gone)
             /\ snap[o] # Gone => t[o].bound = snap[o].bound /\ t[o].placed = snap[o].placed
             /\ snap[o].ver = "old" \/ o \notin W => t[o] = snap[o]
    <2>1. CASE o \in W /\ snap[o] # Gone /\ snap[o].ver = "current"
        <3>1. snap[o] \in Saved /\ t[o] = [snap[o] EXCEPT !.ver = "old"]
            BY <1>1, <2>1
        <3>2. t[o] \in Saved /\ t[o].bound = snap[o].bound /\ t[o].placed = snap[o].placed
            BY <3>1 DEF Saved
        <3> QED
            BY <2>1, <3>2, RestoreAssumption
    <2>2. CASE ~(o \in W /\ snap[o] # Gone /\ snap[o].ver = "current")
        BY <1>1, <2>2
    <2> QED
        BY <2>1, <2>2
<1>3. t = [o \in Objs |-> t[o]]
    BY DEF Outdated
<1> HIDE DEF t
<1>4. t \in [Objs -> Saved \cup {Gone}]
    BY <1>2, <1>3
<1> QED
    BY <1>2, <1>4 DEF t

\* Request q is told, and is t from then on.
Told(q, t, W) ==
    /\ t \in Requests /\ t.op = q.op /\ t.pc = q.pc /\ t.tasks = q.tasks /\ t.err = q.err
    /\ t.found = q.found /\ t.missed = q.missed /\ t.refused = q.refused
    /\ t.snap = Outdated(q.snap, W)

\* So every request is that goes on or has succeeded.
LEMMA TouchedTells ==
    ASSUME NEW s \in [Reqs -> Requests], NEW by, NEW W \in SUBSET Objs, NEW x \in Reqs,
           s[x].pc \notin {"idle", "error"}
    PROVE  /\ Told(s[x], Touched(by, W, s)[x], W)
           /\ Touched(by, W, s)[x].touched = IF x = by THEN s[x].touched ELSE s[x].touched \cup W
<1> DEFINE T == IF x = by THEN s[x].touched ELSE s[x].touched \cup W
           S == Outdated(s[x].snap, W)
<1>1. s[x] \in Requests /\ T \in SUBSET Objs /\ S \in [Objs -> Saved \cup {Gone}]
    BY Fields, OutdatedKeeps
<1>2. Touched(by, W, s)[x] = [s[x] EXCEPT !.snap = S, !.touched = T]
    BY DEF Touched
<1>3. T = IF x = by THEN s[x].touched ELSE s[x].touched \cup W
    OBVIOUS
<1>4. S = Outdated(s[x].snap, W)
    OBVIOUS
<1> HIDE DEF T, S
<1> QED
    BY <1>1, <1>2, <1>3, <1>4 DEF Requests, Told

\* What is promised of the objects that nobody wrote outlives a write.
LEMMA TouchKeeps ==
    ASSUME NEW q \in Requests, NEW d, NEW e, NEW i, NEW W, NEW T \in SUBSET Objs,
           q.touched \subseteq T, RequestInv(q, d, i), \A o \in Objs \ T : e[o] = d[o],
           NEW t, Told(q, t, W), t.touched = T
    PROVE  RequestInv(t, e, i)
<1>1. /\ t.op = q.op /\ t.pc = q.pc /\ t.tasks = q.tasks /\ t.err = q.err
      /\ t.snap = Outdated(q.snap, W)
      /\ t.found = q.found /\ t.missed = q.missed /\ t.touched = T
    BY DEF Told
<1>0. \A o \in Objs : /\ t.snap[o] = Gone <=> q.snap[o] = Gone
                      /\ q.snap[o] # Gone => /\ t.snap[o].bound = q.snap[o].bound
                                             /\ t.snap[o].placed = q.snap[o].placed
    BY <1>1, Fields, OutdatedKeeps
<1>2. \A o \in Objs : (Handled(t, o) <=> Handled(q, o)) /\ (Asked(t, o) <=> Asked(q, o))
    BY <1>0, <1>1 DEF Handled, Asked
<1>3. Stages(t) /\ TasksInPhase(t)
    BY <1>1, <1>2, Fields DEF RequestInv, Stages, TasksInPhase
<1>4. PutSoFar(t, e, i)
    BY <1>1 DEF RequestInv, PutSoFar
<1>5. AppliedSoFar(t, e)
    BY <1>0, <1>1, <1>2 DEF RequestInv, AppliedSoFar, Handled, Asked
<1>6. NamesSoFar(t, e)
    <2>1. \A v \in Volumes : v \in Objs /\ ClaimOf[v] \in Objs
        BY ObjectsAssumption DEF Volumes
    <2> QED
        BY <1>0, <1>1, <1>2, <2>1 DEF RequestInv, NamesSoFar
<1> QED
    BY <1>1, <1>3, <1>4, <1>5, <1>6 DEF RequestInv

-----------------------------------------------------------------------------
(***************************************************************************)
(* A step of one request, or of someone else.                              *)
(***************************************************************************)

\* The steps of a request r that write nothing.
LEMMA LocalStep ==
    ASSUME RestoreInv, NEW r \in Reqs, NEW q \in Requests,
           req' = [req EXCEPT ![r] = q],
           UNCHANGED <<db, initial, lastUid>>,
           file' \in [Objs -> Saved \cup {Gone}], events' \in 0..MaxEvents,
           \A v \in Volumes : q.found[v] # Unasked => q.found[v] <= lastUid,
           RequestInv(q, db, initial)
    PROVE  RestoreInv'
<1>1. TypeOK'
    BY DEF RestoreInv, TypeOK, There
<1>2. UidsGiven'
    BY DEF RestoreInv, UidsGiven, Given, TypeOK
<1>3. \A x \in Reqs : req'[x] = IF x = r THEN q ELSE req[x]
    BY DEF RestoreInv, TypeOK
<1>4. ASSUME NEW x \in Reqs PROVE RequestInv(req'[x], db', initial')
    BY <1>3 DEF RestoreInv
<1>5. (\A x \in Reqs : RequestInv(req[x], db, initial))'
    BY <1>4
<1> QED
    BY <1>1, <1>2, <1>5 DEF RestoreInv

\* The steps that write the objects W: by a request, or by others.
LEMMA WriteStep ==
    ASSUME RestoreInv, NEW by \in Reqs \cup {"others"}, NEW W \in SUBSET Objs,
           NEW s \in [Reqs -> Requests],
           \A x \in Reqs \ {by} : s[x] = req[x],
           req' = Touched(by, W, s),
           db' \in [Objs -> Object \cup {Gone}],
           \A o \in Objs \ W : db'[o] = db[o],
           lastUid' \in lastUid..MaxUid, events' \in 0..MaxEvents,
           UNCHANGED initial, file' = Outdated(file, W),
           \A o \in W : Given(o, db[o])',
           \A v \in Volumes : by \in Reqs /\ s[by].found[v] # Unasked => s[by].found[v] <= lastUid,
           by \in Reqs => RequestInv(s[by], db', initial)
    PROVE  RestoreInv'
<1>0. /\ lastUid \in 0..MaxUid /\ lastUid' \in 0..MaxUid /\ lastUid <= lastUid' /\ MaxUid \in Nat
      /\ db \in [Objs -> Object \cup {Gone}] /\ initial \in [Objs -> Object \cup {Gone}]
    BY RestoreAssumption DEF RestoreInv, TypeOK
<1>1. ASSUME NEW x \in Reqs
      PROVE  /\ req'[x] \in Requests /\ RequestInv(req'[x], db', initial')
             /\ \A v \in Volumes : req'[x].found[v] # Unasked => req'[x].found[v] <= lastUid'
    <2>0. s[x] \in Requests
        OBVIOUS
    <2>1. s[x].found \in [Volumes -> 0..MaxUid \cup {Unasked}]
        BY <2>0, Fields
    <2>2. \A v \in Volumes : s[x].found[v] # Unasked => s[x].found[v] <= lastUid'
        <3>1. \A v \in Volumes : s[x].found[v] # Unasked => s[x].found[v] <= lastUid
            BY DEF RestoreInv, UidsGiven
        <3> QED
            BY <1>0, <2>1, <3>1
    <2>3. CASE x = by /\ s[x].pc \in {"idle", "error"}
        BY <2>0, <2>2, <2>3 DEF Touched
    <2>4. CASE x # by /\ s[x].pc \in {"idle", "error"}
        <3>1. req'[x] = req[x] /\ req[x] = s[x]
            BY <2>4 DEF Touched
        <3>2. RequestInv(req[x], db, initial) /\ req[x].pc \in {"idle", "error"}
            BY <3>1, <2>4 DEF RestoreInv
        <3>3. \A o \in Objs : ~Handled(req[x], o)
            BY <3>2, Phases DEF Handled, PhasesDone, ApplyPhases
        <3>4. \A v \in Volumes : ClaimOf[v] \in Objs
            BY ObjectsAssumption
        <3>5. RequestInv(req[x], db', initial)
            BY <3>2, <3>3, <3>4
               DEF RequestInv, PutSoFar, AppliedSoFar, NamesSoFar
        <3> QED
            BY <2>0, <2>2, <3>1, <3>5
    <2>5. CASE s[x].pc \notin {"idle", "error"}
        <3> DEFINE T == IF x = by THEN s[x].touched ELSE s[x].touched \cup W
        <3>1. /\ Told(s[x], req'[x], W) /\ req'[x].touched = T
              /\ req'[x] \in Requests /\ req'[x].found = s[x].found
            <4>1. /\ Told(s[x], Touched(by, W, s)[x], W)
                  /\ Touched(by, W, s)[x].touched
                        = IF x = by THEN s[x].touched ELSE s[x].touched \cup W
                BY <2>5, TouchedTells
            <4> QED
                BY <4>1 DEF Told
        <3>2. s[x].touched \subseteq T /\ T \in SUBSET Objs /\ (x # by => W \subseteq T)
            BY <2>0, Fields
        <3> HIDE DEF T
        <3>3. RequestInv(req'[x], db', initial)
            <4>1. CASE x = by
                <5>1. RequestInv(s[x], db', initial) /\ \A o \in Objs \ T : db'[o] = db'[o]
                    BY <4>1
                <5> QED
                    BY <2>0, <3>1, <3>2, <5>1, TouchKeeps
            <4>2. CASE x # by
                <5>1. RequestInv(s[x], db, initial) /\ \A o \in Objs \ T : db'[o] = db[o]
                    BY <3>2, <4>2 DEF RestoreInv
                <5> QED
                    BY <2>0, <3>1, <3>2, <5>1, TouchKeeps
            <4> QED
                BY <4>1, <4>2
        <3> QED
            BY <2>2, <3>1, <3>3
    <2> QED
        BY <2>3, <2>4, <2>5
<1>2. req' \in [Reqs -> Requests]
    BY <1>1 DEF Touched
<1>3. ASSUME NEW o \in Objs PROVE Given(o, db[o])' /\ Given(o, initial[o])'
    <2>1. Given(o, db[o]) /\ Given(o, initial[o])
        BY DEF RestoreInv, UidsGiven
    <2>2. /\ db[o] # Gone => db[o].uid \in 0..MaxUid
          /\ initial[o] # Gone => initial[o].uid \in 0..MaxUid
        BY <1>0 DEF Object
    <2> QED
        BY <1>0, <2>1, <2>2 DEF Given
<1>4. UidsGiven'
    BY <1>1, <1>3 DEF UidsGiven
<1>5. TypeOK'
    <2>1. file' \in [Objs -> Saved \cup {Gone}]
        BY OutdatedKeeps DEF RestoreInv, TypeOK
    <2> QED
        BY <1>0, <1>2, <1>3, <2>1 DEF RestoreInv, TypeOK, Given, There
<1>6. (\A x \in Reqs : RequestInv(req[x], db, initial))'
    BY <1>1
<1> QED
    BY <1>4, <1>5, <1>6 DEF RestoreInv

-----------------------------------------------------------------------------
(***************************************************************************)
(* The others, and a restart of the server.                                *)
(***************************************************************************)

\* Someone writes one object.
LEMMA OthersWrite ==
    ASSUME RestoreInv, NEW o \in Objs, NEW v \in Object \cup {Gone}, Write(o, v),
           lastUid' \in lastUid..MaxUid,
           v # Gone => v.uid <= lastUid' /\ (o \in Claims => v.uid # 0)
    PROVE  RestoreInv'
<1>1. events' \in 0..MaxEvents
    BY RestoreAssumption DEF Write, Event, RestoreInv, TypeOK
<1>2. /\ req \in [Reqs -> Requests] /\ db' = [db EXCEPT ![o] = v]
      /\ db' \in [Objs -> Object \cup {Gone}] /\ req' = Touched("others", {o}, req)
      /\ UNCHANGED initial /\ file' = Outdated(file, {o})
    BY DEF Write, RestoreInv, TypeOK
<1>3. db \in [Objs -> Object \cup {Gone}]
    BY DEF RestoreInv, TypeOK
<1>4. db'[o] = v /\ \A x \in Objs \ {o} : db'[x] = db[x]
    BY <1>2, <1>3
<1>5. \A x \in {o} : Given(x, db[x])'
    BY <1>4 DEF Given
<1>6. "others" \notin Reqs
    BY RestoreAssumption
<1> DEFINE W == {o}
<1>7. W \in SUBSET Objs /\ \A x \in Objs \ W : db'[x] = db[x]
    BY <1>4
<1> HIDE DEF W
<1>8. /\ req' = Touched("others", W, req) /\ file' = Outdated(file, W)
      /\ \A x \in W : Given(x, db[x])'
    BY <1>2, <1>5 DEF W
<1> QED
    BY <1>1, <1>2, <1>6, <1>7, <1>8, WriteStep

\* The steps of users, controllers and the scheduler keep the invariant.
LEMMA OthersKeep ==
    ASSUME RestoreInv, OthersStep
    PROVE  RestoreInv'
<1> PICK o \in Objs : Create(o) \/ Delete(o) \/ Update(o) \/ Place(o) \/ BindVolume(o) \/ SetPhase(o)
    BY DEF OthersStep
<1>1. /\ lastUid \in 0..MaxUid /\ MaxUid \in Nat \ {0}
      /\ db \in [Objs -> Object \cup {Gone}]
      /\ \A x \in Objs : Given(x, db[x])
    BY RestoreAssumption DEF RestoreInv, TypeOK, UidsGiven
<1>2. CASE Create(o)
    <2> DEFINE v == [uid |-> NewUid(o), claim |-> 0, bound |-> FALSE, placed |-> FALSE]
    <2>1. Write(o, v) /\ lastUid' = Counted(o) /\ HasUid(o) /\ ~There(o)
        BY <1>2 DEF Create
    <2>2. v \in Object /\ lastUid' \in lastUid..MaxUid
        BY <1>1, <2>1 DEF Object, NewUid, Counted, HasUid
    <2>3. v.uid <= lastUid' /\ (o \in Claims => v.uid # 0)
        BY <1>1, <2>1 DEF NewUid, Counted, HasUid
    <2> QED
        BY <2>1, <2>2, <2>3, OthersWrite
<1>3. CASE Delete(o)
    <2>1. Write(o, Gone) /\ lastUid' \in lastUid..MaxUid
        BY <1>1, <1>3 DEF Delete
    <2> QED
        BY <2>1, OthersWrite
<1>4. CASE Place(o)
    <2> DEFINE v == [db[o] EXCEPT !.placed = TRUE]
    <2>1. Write(o, v) /\ lastUid' = lastUid /\ lastUid' \in lastUid..MaxUid /\ There(o)
        BY <1>1, <1>4 DEF Place
    <2>2. db[o] \in Object /\ Given(o, db[o])
        BY <1>1, <2>1 DEF There
    <2>3. v \in Object /\ v.uid = db[o].uid
        BY <2>2 DEF Object
    <2>4. v.uid <= lastUid' /\ (o \in Claims => v.uid # 0)
        BY <2>1, <2>2, <2>3 DEF Given, There
    <2> QED
        BY <2>1, <2>3, <2>4, OthersWrite
<1>5. CASE BindVolume(o)
    <2> DEFINE v == [db[o] EXCEPT !.claim = db[ClaimOf[o]].uid]
    <2>1. /\ Write(o, v) /\ lastUid' = lastUid /\ lastUid' \in lastUid..MaxUid
          /\ There(o) /\ There(ClaimOf[o]) /\ o \in Volumes /\ ClaimOf[o] \in Objs
        BY <1>1, <1>5, ObjectsAssumption DEF BindVolume
    <2>2. /\ db[o] \in Object /\ Given(o, db[o])
          /\ db[ClaimOf[o]] \in Object /\ Given(ClaimOf[o], db[ClaimOf[o]])
        BY <1>1, <2>1 DEF There
    <2>3. v \in Object /\ v.uid = db[o].uid
        BY <2>2 DEF Object
    <2>4. v.uid <= lastUid' /\ (o \in Claims => v.uid # 0)
        BY <2>1, <2>2, <2>3 DEF Given, There
    <2> QED
        BY <2>1, <2>3, <2>4, OthersWrite
<1>6. CASE Update(o)
    <2>1. Write(o, db[o]) /\ lastUid' = lastUid /\ lastUid' \in lastUid..MaxUid /\ There(o)
        BY <1>1, <1>6 DEF Update
    <2>2. db[o] \in Object /\ db[o].uid <= lastUid' /\ (o \in Claims => db[o].uid # 0)
        BY <1>1, <2>1 DEF Given, There
    <2> QED
        BY <2>1, <2>2, OthersWrite
<1>7. CASE SetPhase(o)
    <2> DEFINE b == There(ClaimOf[o]) /\ db[ClaimOf[o]].uid = db[o].claim
               v == [db[o] EXCEPT !.bound = b]
    <2>1. Write(o, v) /\ lastUid' = lastUid /\ lastUid' \in lastUid..MaxUid /\ There(o)
        BY <1>1, <1>7 DEF SetPhase
    <2>2. db[o] \in Object /\ Given(o, db[o]) /\ b \in BOOLEAN
        BY <1>1, <2>1 DEF There
    <2> HIDE DEF b
    <2>3. v \in Object /\ v.uid = db[o].uid
        BY <2>2 DEF Object
    <2>4. v.uid <= lastUid' /\ (o \in Claims => v.uid # 0)
        BY <2>1, <2>2, <2>3 DEF Given, There
    <2> QED
        BY <2>1, <2>3, <2>4, OthersWrite
<1> QED
    BY <1>2, <1>3, <1>4, <1>5, <1>6, <1>7

\* So does a restart: what has been restored is the new initial data.
LEMMA RestartKeeps ==
    ASSUME RestoreInv, ServerRestart
    PROVE  RestoreInv'
<1>1. /\ req' = [r \in Reqs |-> IF Running(r) THEN Failed(req[r]) ELSE req[r]]
      /\ initial' = db /\ UNCHANGED <<db, file, lastUid>> /\ events' \in 0..MaxEvents
    BY RestoreAssumption DEF ServerRestart, Fault, Event, RestoreInv, TypeOK
<1>2. ASSUME NEW x \in Reqs
      PROVE  /\ req'[x] \in Requests /\ RequestInv(req'[x], db', initial')
             /\ \A v \in Volumes : req'[x].found[v] # Unasked => req'[x].found[v] <= lastUid'
    <2>1. req[x] \in Requests /\ RequestInv(req[x], db, initial)
        BY DEF RestoreInv, TypeOK
    <2>2. CASE Running(x)
        <3>1. req'[x] = Failed(req[x])
            BY <1>1, <2>2
        <3>2. \A v \in Volumes : Failed(req[x]).found[v] = Unasked
            BY <2>1, FailedOK DEF Idle
        <3> QED
            BY <2>1, <3>1, <3>2, FailedOK
    <2>3. CASE ~Running(x)
        <3>1. req'[x] = req[x] /\ req[x].pc \in {"idle", "ok", "error"}
            BY <1>1, <2>3 DEF Running
        <3>2. PutSoFar(req[x], db, db)
            BY <2>1, <3>1 DEF RequestInv, PutSoFar
        <3> QED
            BY <1>1, <2>1, <3>1, <3>2 DEF RequestInv, RestoreInv, UidsGiven
    <2> QED
        BY <2>2, <2>3
<1>3. TypeOK'
    BY <1>1, <1>2 DEF RestoreInv, TypeOK, There
<1>4. UidsGiven'
    BY <1>1, <1>2 DEF RestoreInv, UidsGiven, Given
<1>5. (\A x \in Reqs : RequestInv(req[x], db, initial))'
    BY <1>2
<1> QED
    BY <1>3, <1>4, <1>5 DEF RestoreInv

-----------------------------------------------------------------------------
(***************************************************************************)
(* Requests begin; snapshots are taken.                                    *)
(***************************************************************************)

\* Of a request that is not a Load only Stages and PutSoFar say anything.
LEMMA NoLoad ==
    ASSUME NEW q, NEW d, NEW i, q.op # "load", Stages(q), PutSoFar(q, d, i)
    PROVE  RequestInv(q, d, i)
BY DEF RequestInv, TasksInPhase, AppliedSoFar, NamesSoFar

\* A request ends with an error, in a step that writes nothing.
LEMMA FailStep ==
    ASSUME RestoreInv, NEW r \in Reqs, req' = [req EXCEPT ![r] = Failed(@)],
           UNCHANGED <<db, initial, file, lastUid>>, events' \in 0..MaxEvents
    PROVE  RestoreInv'
<1> DEFINE q == Failed(req[r])
<1>1. req[r] \in Requests /\ file \in [Objs -> Saved \cup {Gone}]
    BY DEF RestoreInv, TypeOK
<1>2. q \in Requests /\ RequestInv(q, db, initial) /\ \A v \in Volumes : q.found[v] = Unasked
    BY <1>1, FailedOK DEF Idle
<1>3. req' = [req EXCEPT ![r] = q]
    OBVIOUS
<1> HIDE DEF q
<1> QED
    BY <1>1, <1>2, <1>3, LocalStep

\* A request begins.
LEMMA BeginStep ==
    ASSUME RestoreInv, NEW r \in Reqs, Snap(r) \/ Load(r) \/ ResetRequest(r)
    PROVE  RestoreInv'
<1>1. /\ file \in [Objs -> Saved \cup {Gone}] /\ events \in 0..MaxEvents
      /\ UNCHANGED <<db, initial, file, lastUid, events>>
    BY DEF RestoreInv, TypeOK, Snap, Load, ResetRequest
<1>2. PICK op, pc, tasks, snap :
          /\ req' = [req EXCEPT ![r] = [Idle EXCEPT !.op = op, !.pc = pc, !.tasks = tasks, !.snap = snap]]
          /\ \/ op = "snap" /\ pc = "list" /\ tasks = Objs
             \/ op = "load" /\ pc = "restart" /\ tasks = {}
             \/ op = "reset" /\ pc = "delete" /\ tasks = {}
          /\ snap \in [Objs -> Saved \cup {Gone}]
    BY <1>1, IdleOK, Fields DEF Snap, Load, ResetRequest, Begin
<1> DEFINE q == [Idle EXCEPT !.op = op, !.pc = pc, !.tasks = tasks, !.snap = snap]
<1>3. q \in Requests
    BY <1>2, IdleOK DEF Requests
<1>4. /\ q.op = op /\ q.pc = pc /\ q.tasks = tasks /\ q.snap = snap /\ ~q.err
      /\ \A v \in Volumes : q.found[v] = Unasked
    BY DEF Idle
<1>5. req' = [req EXCEPT ![r] = q]
    BY <1>2
<1> HIDE DEF q
<1>6. \A o \in Objs : ~Handled(q, o) \/ op # "load"
    BY <1>2, <1>4, Phases DEF Handled, PhasesDone, ApplyPhases
<1>7. RequestInv(q, db, initial)
    <2>1. \A v \in Volumes : ClaimOf[v] \in Objs
        BY ObjectsAssumption
    <2> QED
        BY <1>2, <1>4, <1>6, <2>1
           DEF RequestInv, Stages, PutSoFar, TasksInPhase, AppliedSoFar, NamesSoFar, ApplyPhases
<1> QED
    BY <1>1, <1>3, <1>4, <1>5, <1>7, LocalStep

\* A request that goes on to be q, which is no Load, writing nothing.
LEMMA GoOnStep ==
    ASSUME RestoreInv, NEW r \in Reqs, NEW q \in Requests, req' = [req EXCEPT ![r] = q],
           UNCHANGED <<db, initial, lastUid>>,
           file' \in [Objs -> Saved \cup {Gone}], events' \in 0..MaxEvents,
           q.found = req[r].found \/ q.found = Idle.found,
           q.op # "load", Stages(q), PutSoFar(q, db, initial)
    PROVE  RestoreInv'
<1>1. \A v \in Volumes : q.found[v] # Unasked => q.found[v] <= lastUid
    BY DEF Idle, RestoreInv, UidsGiven
<1>2. RequestInv(q, db, initial)
    BY NoLoad
<1> QED
    BY <1>1, <1>2, LocalStep

\* A snapshot is taken: one list call, and its end.
LEMMA SnapSteps ==
    ASSUME RestoreInv, NEW r \in Reqs,
           SnapReturns(r) \/ \E k \in Kinds : List(r, k) \/ ListFails(r, k)
    PROVE  RestoreInv'
<1>0. /\ req \in [Reqs -> Requests] /\ req[r] \in Requests /\ req[r].pc = "list" /\ req[r].op = "snap"
      /\ file \in [Objs -> Saved \cup {Gone}] /\ events \in 0..MaxEvents /\ MaxEvents \in Nat
      /\ db \in [Objs -> Object \cup {Gone}]
    BY RestoreAssumption
       DEF RestoreInv, TypeOK, SnapReturns, List, ListFails, RequestInv, Stages
<1>1. CASE SnapReturns(r) /\ req[r].err
    <2>1. req' = [req EXCEPT ![r] = Failed(@)] /\ UNCHANGED <<db, initial, file, lastUid, events>>
        BY <1>0, <1>1 DEF SnapReturns, WaitReturns
    <2> QED
        BY <1>0, <2>1, FailStep
<1>2. CASE SnapReturns(r) /\ ~req[r].err
    <2> DEFINE q == [Idle EXCEPT !.op = "snap", !.pc = "ok"]
    <2>1. /\ req' = [req EXCEPT ![r] = q] /\ file' = req[r].snap
          /\ UNCHANGED <<db, initial, lastUid, events>>
        BY <1>2 DEF SnapReturns
    <2>2. q \in Requests
        BY IdleOK DEF Requests
    <2>3. q.op = "snap" /\ q.pc = "ok" /\ q.found = Idle.found
        BY DEF Idle
    <2>4. file' \in [Objs -> Saved \cup {Gone}]
        BY <1>0, <2>1, Fields
    <2> HIDE DEF q
    <2> QED
        BY <1>0, <2>1, <2>2, <2>3, <2>4, GoOnStep DEF Stages, PutSoFar, ApplyPhases
<1>3. ASSUME NEW k \in Kinds, List(r, k)
      PROVE  RestoreInv'
    <2> DEFINE snap == [o \in Objs |-> IF o \in OfKind(k) THEN Exported(o) ELSE req[r].snap[o]]
               q == [req[r] EXCEPT !.tasks = @ \ OfKind(k), !.snap = snap]
    <2>1. req' = [req EXCEPT ![r] = q] /\ UNCHANGED <<db, initial, file, lastUid, events>>
        BY <1>0, <1>3 DEF List
    <2>2. \A o \in Objs : Exported(o) \in Saved \cup {Gone}
        BY <1>0 DEF Exported, There, Object, Saved
    <2>3. snap \in [Objs -> Saved \cup {Gone}]
        BY <1>0, <2>2, Fields
    <2> HIDE DEF snap
    <2>4. q \in Requests /\ q.op = "snap" /\ q.pc = "list" /\ q.found = req[r].found
        BY <1>0, <2>3 DEF Requests
    <2> HIDE DEF q
    <2> QED
        BY <1>0, <2>1, <2>4, GoOnStep DEF Stages, PutSoFar, ApplyPhases
<1>4. ASSUME NEW k \in Kinds, ListFails(r, k)
      PROVE  RestoreInv'
    <2> DEFINE q == [req[r] EXCEPT !.tasks = @ \ OfKind(k), !.err = TRUE]
    <2>1. req' = [req EXCEPT ![r] = q] /\ UNCHANGED <<db, initial, file, lastUid>>
        BY <1>0, <1>4 DEF ListFails
    <2>2. events' \in 0..MaxEvents
        <3>1. events < MaxEvents /\ events' = events + 1
            BY <1>4 DEF ListFails, Fault, Event
        <3> QED
            BY <1>0, <3>1
    <2>3. q \in Requests /\ q.op = "snap" /\ q.pc = "list" /\ q.found = req[r].found
        BY <1>0 DEF Requests
    <2> HIDE DEF q
    <2> QED
        BY <1>0, <2>1, <2>2, <2>3, GoOnStep DEF Stages, PutSoFar, ApplyPhases
<1> QED
    BY <1>1, <1>2, <1>3, <1>4

-----------------------------------------------------------------------------
(***************************************************************************)
(* The reset service.                                                      *)
(***************************************************************************)

\* Everything is deleted: what was not there at first is as it was.
LEMMA DeleteAllStep ==
    ASSUME RestoreInv, NEW r \in Reqs, DeleteAll(r)
    PROVE  RestoreInv'
<1> DEFINE q == [req[r] EXCEPT !.pc = "put", !.touched = {},
                               !.tasks = {o \in Objs : initial[o] # Gone}]
           s == [req EXCEPT ![r] = q]
<1>0. /\ req \in [Reqs -> Requests] /\ req[r] \in Requests /\ req[r].op = "reset"
      /\ lastUid \in 0..MaxUid /\ events \in 0..MaxEvents /\ MaxUid \in Nat
      /\ req[r].pc = "delete"
    BY RestoreAssumption DEF RestoreInv, TypeOK, DeleteAll, RequestInv, Stages
<1>1. /\ db' = [o \in Objs |-> Gone] /\ req' = Touched(r, Objs, s)
      /\ file' = Outdated(file, Objs) /\ UNCHANGED <<initial, lastUid, events>>
    BY <1>0 DEF DeleteAll
<1>2. /\ q \in Requests /\ q.op = "reset" /\ q.pc = "put" /\ q.found = req[r].found
      /\ q.tasks = {o \in Objs : initial[o] # Gone}
    BY <1>0 DEF Requests
<1> HIDE DEF q
<1>3. s \in [Reqs -> Requests] /\ s[r] = q /\ \A x \in Reqs \ {r} : s[x] = req[x]
    BY <1>0, <1>2
<1> HIDE DEF s
<1>4. RequestInv(q, db', initial)
    <2>1. PutSoFar(q, db', initial)
        BY <1>1, <1>2 DEF PutSoFar
    <2> QED
        BY <1>2, <2>1, NoLoad DEF Stages, ApplyPhases
<1>5. \A o \in Objs : Given(o, db[o])'
    BY <1>1 DEF Given
<1>6. \A v \in Volumes : q.found[v] # Unasked => q.found[v] <= lastUid
    BY <1>2 DEF RestoreInv, UidsGiven
<1>7. db' \in [Objs -> Object \cup {Gone}] /\ lastUid' \in lastUid..MaxUid /\ events' \in 0..MaxEvents
    BY <1>0, <1>1
<1>8. Objs \in SUBSET Objs /\ \A o \in Objs \ Objs : db'[o] = db[o]
    OBVIOUS
<1> QED
    BY <1>1, <1>3, <1>4, <1>5, <1>6, <1>7, <1>8, WriteStep

\* One object is put back.
LEMMA PutStep ==
    ASSUME RestoreInv, NEW r \in Reqs, NEW o \in Objs, Put(r, o)
    PROVE  RestoreInv'
<1> DEFINE q == PutBack(req[r], o)
           s == [req EXCEPT ![r] = q]
           W == {o}
<1>0. /\ req \in [Reqs -> Requests] /\ req[r] \in Requests /\ req[r].op = "reset"
      /\ lastUid \in 0..MaxUid /\ events \in 0..MaxEvents /\ MaxUid \in Nat
      /\ req[r].pc = "put" /\ PutSoFar(req[r], db, initial)
      /\ db \in [Objs -> Object \cup {Gone}] /\ initial \in [Objs -> Object \cup {Gone}]
    BY RestoreAssumption DEF RestoreInv, TypeOK, Put, RequestInv, Stages
<1>1. /\ db' = [db EXCEPT ![o] = initial[o]] /\ req' = Touched(r, W, s)
      /\ file' = Outdated(file, W) /\ UNCHANGED <<initial, lastUid, events>>
    BY DEF Put
<1>2. /\ q \in Requests /\ q.op = "reset" /\ q.pc = "put" /\ q.found = req[r].found
      /\ q.err = req[r].err /\ q.tasks = req[r].tasks \ {o} /\ q.touched = req[r].touched \ {o}
    BY <1>0 DEF Requests, TaskEnds, PutBack
<1> HIDE DEF q
<1>3. s \in [Reqs -> Requests] /\ s[r] = q /\ \A x \in Reqs \ {r} : s[x] = req[x]
    BY <1>0, <1>2
<1>4. db'[o] = initial[o] /\ \A x \in Objs \ {o} : db'[x] = db[x]
    BY <1>0, <1>1
<1>5. RequestInv(q, db', initial)
    <2>1. PutSoFar(q, db', initial)
        BY <1>0, <1>2, <1>4 DEF PutSoFar
    <2> QED
        BY <1>2, <2>1, NoLoad DEF Stages, ApplyPhases
<1>6. /\ W \in SUBSET Objs /\ \A x \in Objs \ W : db'[x] = db[x]
      /\ \A x \in W : Given(x, db[x])'
    BY <1>1, <1>4 DEF Given, RestoreInv, UidsGiven
<1>7. \A v \in Volumes : q.found[v] # Unasked => q.found[v] <= lastUid
    BY <1>2 DEF RestoreInv, UidsGiven
<1>8. db' \in [Objs -> Object \cup {Gone}] /\ lastUid' \in lastUid..MaxUid /\ events' \in 0..MaxEvents
    BY <1>0, <1>1
<1> HIDE DEF s, W
<1> QED
    BY <1>1, <1>3, <1>5, <1>6, <1>7, <1>8, WriteStep

\* The steps of the reset service keep the invariant.
LEMMA ResetKeeps ==
    ASSUME RestoreInv, NEW r \in Reqs, ResetStep(r)
    PROVE  RestoreInv'
<1>0. /\ req \in [Reqs -> Requests] /\ req[r] \in Requests
      /\ file \in [Objs -> Saved \cup {Gone}] /\ events \in 0..MaxEvents /\ MaxEvents \in Nat
      /\ RequestInv(req[r], db, initial)
    BY RestoreAssumption DEF RestoreInv, TypeOK
<1>1. CASE DeleteAll(r)
    BY <1>1, DeleteAllStep
<1>2. ASSUME NEW o \in Objs, Put(r, o) PROVE RestoreInv'
    BY <1>2, PutStep
<1>3. CASE DeleteFails(r)
    <2>1. req' = [req EXCEPT ![r] = Failed(@)] /\ UNCHANGED <<db, initial, file, lastUid>>
        BY <1>3 DEF DeleteFails
    <2>2. events' \in 0..MaxEvents
        BY <1>0, <1>3 DEF DeleteFails, Fault, Event
    <2> QED
        BY <2>1, <2>2, FailStep
<1>4. ASSUME NEW o \in Objs, PutFails(r, o) PROVE RestoreInv'
    <2> DEFINE q == TaskEnds(req[r], o, TRUE)
    <2>1. /\ req' = [req EXCEPT ![r] = q] /\ UNCHANGED <<db, initial, file, lastUid>>
          /\ req[r].pc = "put" /\ req[r].op = "reset"
        BY <1>0, <1>4 DEF PutFails, RequestInv, Stages
    <2>2. events' \in 0..MaxEvents
        BY <1>0, <1>4 DEF PutFails, Fault, Event
    <2>3. /\ q \in Requests /\ q.op = "reset" /\ q.pc = "put" /\ q.err
          /\ q.found = req[r].found
        BY <1>0, <2>1 DEF Requests, TaskEnds
    <2> HIDE DEF q
    <2> QED
        BY <1>0, <2>1, <2>2, <2>3, GoOnStep DEF Stages, PutSoFar, ApplyPhases
<1>5. CASE PutsReturn(r) /\ req[r].err
    <2>1. req' = [req EXCEPT ![r] = Failed(@)] /\ UNCHANGED <<db, initial, file, lastUid, events>>
        BY <1>0, <1>5 DEF PutsReturn, WaitReturns
    <2> QED
        BY <1>0, <2>1, FailStep
<1>6. CASE PutsReturn(r) /\ ~req[r].err
    <2> DEFINE q == [req[r] EXCEPT !.pc = "scheduler", !.tasks = {}]
    <2>1. /\ req' = [req EXCEPT ![r] = q] /\ UNCHANGED <<db, initial, file, lastUid, events>>
          /\ req[r].op = "reset" /\ req[r].pc = "put" /\ req[r].tasks = {}
        BY <1>0, <1>6 DEF PutsReturn, WaitReturns, RequestInv, Stages
    <2>2. /\ q \in Requests /\ q.op = "reset" /\ q.pc = "scheduler" /\ q.found = req[r].found
          /\ ~q.err /\ q.tasks = {} /\ q.touched = req[r].touched
        BY <1>0, <1>6, <2>1 DEF Requests
    <2> HIDE DEF q
    <2>3. PutSoFar(q, db, initial)
        BY <1>0, <1>6, <2>1, <2>2 DEF RequestInv, PutSoFar
    <2> QED
        BY <1>0, <2>1, <2>2, <2>3, GoOnStep DEF Stages, ApplyPhases
<1>7. CASE ResetScheduler(r)
    <2>1. /\ UNCHANGED <<db, initial, file, lastUid>> /\ events' \in 0..MaxEvents
          /\ req[r].pc = "scheduler" /\ req[r].op = "reset"
          /\ \/ req' = [req EXCEPT ![r] = [req[r] EXCEPT !.pc = "ok"]]
             \/ req' = [req EXCEPT ![r] = Failed(@)]
        BY <1>0, <1>7 DEF ResetScheduler, Fault, Event, RequestInv, Stages
    <2>2. CASE req' = [req EXCEPT ![r] = Failed(@)]
        BY <2>1, <2>2, FailStep
    <2>3. CASE req' = [req EXCEPT ![r] = [req[r] EXCEPT !.pc = "ok"]]
        <3> DEFINE q == [req[r] EXCEPT !.pc = "ok"]
        <3>1. /\ q \in Requests /\ q.op = "reset" /\ q.pc = "ok" /\ q.found = req[r].found
              /\ q.err = req[r].err /\ q.tasks = req[r].tasks /\ q.touched = req[r].touched
            BY <1>0, <2>1 DEF Requests
        <3>2. req' = [req EXCEPT ![r] = q]
            BY <2>3
        <3> HIDE DEF q
        <3>3. PutSoFar(q, db, initial)
            BY <1>0, <2>1, <3>1 DEF RequestInv, PutSoFar
        <3> QED
            BY <1>0, <2>1, <3>1, <3>2, <3>3, GoOnStep DEF Stages, ApplyPhases
    <2> QED
        BY <2>1, <2>2, <2>3
<1> QED
    BY <1>1, <1>2, <1>3, <1>4, <1>5, <1>6, <1>7 DEF ResetStep

-----------------------------------------------------------------------------
(***************************************************************************)
(* Load.                                                                   *)
(***************************************************************************)

\* What a step of Load finds.
LEMMA LoadFacts ==
    ASSUME RestoreInv, NEW r \in Reqs, req[r].pc \in {"restart"} \cup ApplyPhases
    PROVE  /\ req \in [Reqs -> Requests] /\ req[r] \in Requests /\ req[r].op = "load"
           /\ file \in [Objs -> Saved \cup {Gone}] /\ db \in [Objs -> Object \cup {Gone}]
           /\ lastUid \in 0..MaxUid /\ events \in 0..MaxEvents
           /\ MaxUid \in Nat /\ MaxEvents \in Nat
           /\ RequestInv(req[r], db, initial)
           /\ \A v \in Volumes : v \in Objs /\ ClaimOf[v] \in Claims /\ ClaimOf[v] \in Objs
           /\ \A v \in Volumes : req[r].found[v] # Unasked => req[r].found[v] <= lastUid
<1>1. req[r].op = "load"
    BY DEF RestoreInv, RequestInv, Stages
<1>2. \A v \in Volumes : v \in Objs /\ ClaimOf[v] \in Claims /\ ClaimOf[v] \in Objs
    BY ObjectsAssumption DEF Volumes, Claims
<1> QED
    BY <1>1, <1>2, RestoreAssumption DEF RestoreInv, TypeOK, UidsGiven

\* The objects of a phase that has just begun are its tasks: what was handled
\* are the phases before it.
LEMMA PhaseBegins ==
    ASSUME RestoreInv, NEW r \in Reqs, NEW pc \in ApplyPhases \cup {"ok"}, NEW tasks \in SUBSET Objs,
           NEW q, q = [req[r] EXCEPT !.pc = pc, !.tasks = tasks],
           ~req[r].err,
           \/ req[r].pc = "restart" /\ pc = "namespaces"
           \/ req[r].pc = "namespaces" /\ req[r].tasks = {} /\ pc = "objects"
           \/ req[r].pc = "objects" /\ req[r].tasks = {} /\ pc = "volumes"
           \/ req[r].pc = "volumes" /\ req[r].tasks = {} /\ pc = "ok",
           pc \in ApplyPhases => tasks = TasksOf(r, pc),
           req' = [req EXCEPT ![r] = q],
           UNCHANGED <<db, initial, file, lastUid, events>>
    PROVE  RestoreInv'
<1>0. req[r].pc \in {"restart"} \cup ApplyPhases
    BY DEF ApplyPhases
<1>1. /\ q \in Requests /\ q.op = "load" /\ q.pc = pc /\ q.tasks = tasks /\ q.err = req[r].err
      /\ q.snap = req[r].snap /\ q.found = req[r].found /\ q.touched = req[r].touched
      /\ q.missed = req[r].missed
    <2>1. req[r] \in Requests /\ req[r].op = "load"
        BY <1>0, LoadFacts
    <2> QED
        BY <1>0, <2>1 DEF Requests, ApplyPhases
<1>2. ASSUME NEW o \in Objs
      PROVE  Handled(q, o) => Handled(req[r], o) /\ PhaseOf(o) # pc
    <2>1. Asked(q, o) <=> Asked(req[r], o)
        BY <1>1 DEF Asked
    <2>2. PhaseOf(o) = pc /\ Asked(q, o) => o \in tasks
        BY <2>1, Phases DEF TasksOf, InFile, Asked
    <2>3. Handled(q, o) => PhaseOf(o) \in PhasesDone(pc) /\ PhaseOf(o) # pc
        BY <1>1, <2>2 DEF Handled, PhasesDone, ApplyPhases
    <2>4. PhaseOf(o) \in PhasesDone(pc) /\ PhaseOf(o) # pc
             => PhaseOf(o) \in PhasesDone(req[r].pc) \/ (PhaseOf(o) = req[r].pc /\ o \notin req[r].tasks)
        BY Phases DEF PhasesDone, ApplyPhases
    <2> QED
        BY <1>1, <2>1, <2>3, <2>4 DEF Handled
<1>3. TasksInPhase(q)
    <2>1. pc \in ApplyPhases => \A o \in tasks : Asked(q, o) /\ PhaseOf(o) = pc
        BY <1>1 DEF TasksOf, InFile, Asked
    <2>2. pc \in {"namespaces", "objects"} => \A v \in Volumes : q.found[v] = Unasked
        BY <1>0, <1>1, LoadFacts DEF RequestInv, TasksInPhase
    <2> QED
        BY <1>1, <2>1, <2>2 DEF TasksInPhase, ApplyPhases
<1>4. AppliedSoFar(q, db)
    BY <1>0, <1>1, <1>2, LoadFacts DEF RequestInv, AppliedSoFar
<1>5. NamesSoFar(q, db)
    <2>1. pc = "volumes" => \A v \in Volumes : q.found[v] = Unasked
        BY <1>0, <1>1, LoadFacts DEF RequestInv, TasksInPhase, ApplyPhases
    <2> QED
        BY <1>0, <1>1, <1>2, <2>1, LoadFacts DEF RequestInv, NamesSoFar
<1>6. Stages(q) /\ PutSoFar(q, db, initial)
    BY <1>1 DEF Stages, PutSoFar, ApplyPhases
<1>7. RequestInv(q, db, initial)
    BY <1>3, <1>4, <1>5, <1>6 DEF RequestInv
<1>8. \A v \in Volumes : q.found[v] # Unasked => q.found[v] <= lastUid
    BY <1>0, <1>1, LoadFacts
<1> QED
    BY <1>0, <1>1, <1>7, <1>8, LoadFacts, LocalStep

\* An object's application ends with an error: its request promises nothing
\* any more.
LEMMA TaskFails ==
    ASSUME RestoreInv, NEW r \in Reqs, req[r].pc \in ApplyPhases, NEW o \in Objs,
           NEW q \in Requests,
           q.op = "load", q.pc = req[r].pc, q.err, q.tasks = req[r].tasks \ {o},
           q.snap = req[r].snap, q.found = req[r].found,
           req' = [req EXCEPT ![r] = q],
           UNCHANGED <<db, initial, file, lastUid>>, events' \in 0..MaxEvents
    PROVE  RestoreInv'
<1>1. \A x : ~Handled(q, x)
    BY DEF Handled
<1>2. TasksInPhase(q)
    BY LoadFacts DEF RequestInv, TasksInPhase, Asked, ApplyPhases
<1>3. RequestInv(q, db, initial)
    BY <1>1, <1>2 DEF RequestInv, Stages, PutSoFar, AppliedSoFar, NamesSoFar, ApplyPhases
<1>4. \A v \in Volumes : q.found[v] # Unasked => q.found[v] <= lastUid
    BY LoadFacts
<1> QED
    BY <1>3, <1>4, LoadFacts, LocalStep

\* A claim is looked up: the uid is the one it has, unless it was removed.
LEMMA LookUpStep ==
    ASSUME RestoreInv, NEW r \in Reqs, NEW o \in Objs, LookUpClaim(r, o)
    PROVE  RestoreInv'
<1>0. /\ req[r].pc \in ApplyPhases /\ o \in req[r].tasks /\ o \in Volumes
      /\ UNCHANGED <<db, initial, file, lastUid>>
    BY DEF LookUpClaim, Applying, LooksUp
<1>1. PhaseOf(o) = req[r].pc /\ req[r].pc = "volumes"
    BY <1>0, LoadFacts, Phases DEF RequestInv, TasksInPhase
<1>2. PICK uid \in 0..MaxUid, missed \in SUBSET Objs :
          /\ req' = [req EXCEPT ![r] = [req[r] EXCEPT !.found = [req[r].found EXCEPT ![o] = uid],
                                                      !.missed = missed]]
          /\ uid <= lastUid /\ req[r].missed \subseteq missed /\ events' \in 0..MaxEvents
          /\ o \notin missed /\ There(ClaimOf[o]) => uid = db[ClaimOf[o]].uid
    <2>0. req[r].missed \in SUBSET Objs
        BY <1>0, LoadFacts DEF Requests
    <2>1. CASE req' = [req EXCEPT ![r].found[o] = IF There(ClaimOf[o]) THEN db[ClaimOf[o]].uid ELSE 0]
               /\ UNCHANGED events
        <3> DEFINE uid == IF There(ClaimOf[o]) THEN db[ClaimOf[o]].uid ELSE 0
        <3>1. There(ClaimOf[o]) => Given(ClaimOf[o], db[ClaimOf[o]]) /\ db[ClaimOf[o]] \in Object
            BY <1>0, LoadFacts DEF RestoreInv, UidsGiven, There
        <3>2. uid \in 0..MaxUid /\ uid <= lastUid
            BY <1>0, <3>1, LoadFacts DEF Given, There, Object
        <3>3. req' = [req EXCEPT ![r] = [req[r] EXCEPT !.found = [req[r].found EXCEPT ![o] = uid],
                                                       !.missed = req[r].missed]]
            BY <1>0, <2>1, LoadFacts DEF Requests
        <3>4. events' \in 0..MaxEvents
            BY <1>0, <2>1, LoadFacts
        <3> QED
            BY <2>0, <3>2, <3>3, <3>4
    <2>2. CASE Fault /\ req' = [req EXCEPT ![r].found[o] = 0, ![r].missed = @ \cup {o}]
        <3>1. events' \in 0..MaxEvents
            BY <1>0, <2>2, LoadFacts DEF Fault, Event
        <3>2. req' = [req EXCEPT ![r] = [req[r] EXCEPT !.found = [req[r].found EXCEPT ![o] = 0],
                                                       !.missed = req[r].missed \cup {o}]]
            BY <1>0, <2>2, LoadFacts DEF Requests
        <3>3. 0 \in 0..MaxUid /\ 0 <= lastUid /\ req[r].missed \cup {o} \in SUBSET Objs
            BY <1>0, <2>0, LoadFacts
        <3> QED
            BY <3>1, <3>2, <3>3
    <2> QED
        BY <2>1, <2>2 DEF LookUpClaim
<1> DEFINE q == [req[r] EXCEPT !.found = [req[r].found EXCEPT ![o] = uid], !.missed = missed]
<1>3. /\ q \in Requests /\ q.op = "load" /\ q.pc = "volumes" /\ q.tasks = req[r].tasks
      /\ q.err = req[r].err /\ q.snap = req[r].snap /\ q.touched = req[r].touched
      /\ q.missed = missed /\ q.found = [req[r].found EXCEPT ![o] = uid]
    <2>1. req[r] \in Requests /\ req[r].op = "load"
        BY <1>0, LoadFacts DEF ApplyPhases
    <2> QED
        BY <1>0, <1>1, <1>2, <2>1 DEF Requests
<1>4. req' = [req EXCEPT ![r] = q]
    BY <1>2
<1> HIDE DEF q
<1>5. /\ q.found[o] = uid
      /\ \A v \in Volumes : v # o => q.found[v] = req[r].found[v]
    BY <1>0, <1>3, LoadFacts, Fields
<1>6. \A x \in Objs : Handled(q, x) <=> Handled(req[r], x)
    BY <1>1, <1>3 DEF Handled, Asked
<1>7. TasksInPhase(q)
    BY <1>0, <1>1, <1>3, LoadFacts DEF RequestInv, TasksInPhase, Asked
<1>8. AppliedSoFar(q, db)
    BY <1>0, <1>3, <1>6, LoadFacts DEF RequestInv, AppliedSoFar
<1>9. NamesSoFar(q, db)
    <2> SUFFICES ASSUME NEW v \in Volumes, q.snap[v] # Gone, q.snap[v].bound, v \notin missed,
                        Handled(q, ClaimOf[v]), ClaimOf[v] \notin q.touched
                 PROVE  /\ q.found[v] # Unasked => q.found[v] = db[ClaimOf[v]].uid
                        /\ Handled(q, v) /\ v \notin q.touched => db[v].claim = db[ClaimOf[v]].uid
        BY <1>3 DEF NamesSoFar
    <2>1. CASE v # o
        <3>1. v \notin req[r].missed /\ req[r].snap[v] # Gone /\ req[r].snap[v].bound
            BY <1>2, <1>3
        <3>2. Handled(req[r], ClaimOf[v]) /\ ClaimOf[v] \notin req[r].touched
            BY <1>0, <1>3, <1>6, LoadFacts
        <3>3. NamesSoFar(req[r], db) /\ req[r].op = "load"
            BY <1>0, LoadFacts DEF RequestInv
        <3>4. v \in Objs
            BY <1>0, LoadFacts
        <3> QED
            BY <1>1, <1>3, <1>5, <1>6, <2>1, <3>1, <3>2, <3>3, <3>4 DEF NamesSoFar
    <2>2. CASE v = o
        <3>1. There(ClaimOf[o])
            BY <1>0, <1>3, <1>8, <2>2, LoadFacts DEF AppliedSoFar, There
        <3>2. ~Handled(q, o)
            BY <1>0, <1>1, <1>3 DEF Handled, PhasesDone
        <3> QED
            BY <1>2, <1>5, <2>2, <3>1, <3>2
    <2> QED
        BY <2>1, <2>2
<1>10. RequestInv(q, db, initial)
    BY <1>3, <1>7, <1>8, <1>9 DEF RequestInv, Stages, PutSoFar, ApplyPhases
<1>11. \A v \in Volumes : q.found[v] # Unasked => q.found[v] <= lastUid
    BY <1>0, <1>2, <1>5, LoadFacts
<1> QED
    BY <1>0, <1>2, <1>3, <1>4, <1>10, <1>11, LoadFacts, LocalStep

\* What the API server makes of an object that it admits: there, placed if the
\* file has it placed, and, of a volume, with the claim that is named.
LEMMA AppliedObject ==
    ASSUME RestoreInv, NEW o \in Objs, NEW s \in Saved, NEW claim \in 0..MaxUid, HasUid(o), Admits(o, s),
           NEW v \in Applied(o, s, claim)
    PROVE  /\ v \in Object /\ Counted(o) \in lastUid..MaxUid
           /\ v.uid <= Counted(o) /\ (o \in Claims => v.uid # 0)
           /\ s.placed => v.placed
           /\ claim # 0 => v.claim = claim
<1>0. /\ lastUid \in 0..MaxUid /\ MaxUid \in Nat /\ db \in [Objs -> Object \cup {Gone}]
      /\ Given(o, db[o])
    BY RestoreAssumption DEF RestoreInv, TypeOK, UidsGiven
<1>1. CASE There(o)
    <2>1. db[o] \in Object /\ (s.placed => db[o].placed) /\ Counted(o) = lastUid
        BY <1>0, <1>1 DEF There, Admits, Counted
    <2>2. PICK c \in IF claim # 0 THEN {claim} ELSE {0, db[o].claim} : v = [db[o] EXCEPT !.claim = c]
        BY <1>1 DEF Applied
    <2>3. c \in 0..MaxUid /\ (claim # 0 => c = claim)
        BY <1>0, <2>1, <2>2 DEF Object
    <2>4. v \in Object /\ v.claim = c /\ v.uid = db[o].uid /\ v.placed = db[o].placed
        BY <1>0, <2>1, <2>2, <2>3 DEF Object
    <2> QED
        BY <1>0, <1>1, <2>1, <2>3, <2>4 DEF Given, There
<1>2. CASE ~There(o)
    <2>1. v = [uid |-> NewUid(o), claim |-> claim, bound |-> FALSE, placed |-> s.placed]
        BY <1>2 DEF Applied
    <2>2. NewUid(o) \in 0..MaxUid /\ Counted(o) \in lastUid..MaxUid /\ NewUid(o) <= Counted(o)
          /\ (o \in Claims => NewUid(o) # 0)
        BY <1>0, <1>2 DEF NewUid, Counted, HasUid
    <2> QED
        BY <1>0, <2>1, <2>2 DEF Object, Saved
<1> QED
    BY <1>1, <1>2

\* The request after an application that has succeeded.
LEMMA EndsOK ==
    ASSUME NEW q \in Requests, NEW o \in Objs
    PROVE  LET e == Ends(q, o) IN
           /\ e \in Requests /\ e.op = q.op /\ e.pc = q.pc /\ e.err = q.err /\ e.snap = q.snap
           /\ e.tasks = q.tasks \ {o} /\ e.touched = q.touched \ {o} /\ e.missed = q.missed
           /\ e.refused = q.refused
           /\ \A v \in Volumes : e.found[v] = IF v = o THEN Unasked ELSE q.found[v]
<1> DEFINE found == [v \in Volumes |-> IF v = o THEN Unasked ELSE q.found[v]]
<1>1. found \in [Volumes -> 0..MaxUid \cup {Unasked}]
    BY Fields
<1> DEFINE t == TaskEnds(q, o, FALSE)
<1>2. /\ t \in Requests /\ t.found = q.found /\ t.op = q.op /\ t.pc = q.pc /\ t.err = q.err
      /\ t.snap = q.snap /\ t.tasks = q.tasks \ {o} /\ t.touched = q.touched /\ t.missed = q.missed
      /\ t.refused = q.refused
    BY DEF Requests, TaskEnds
<1>3. Ends(q, o) = [t EXCEPT !.touched = q.touched \ {o}, !.found = found]
    BY <1>2 DEF Ends
<1> HIDE DEF t
<1>4. /\ Ends(q, o) \in Requests /\ Ends(q, o).op = q.op /\ Ends(q, o).pc = q.pc
      /\ Ends(q, o).err = q.err /\ Ends(q, o).snap = q.snap /\ Ends(q, o).missed = q.missed
      /\ Ends(q, o).tasks = q.tasks \ {o} /\ Ends(q, o).touched = q.touched \ {o}
      /\ Ends(q, o).found = found /\ Ends(q, o).refused = q.refused
    BY <1>1, <1>2, <1>3 DEF Requests
<1> QED
    BY <1>4 DEF found

\* What a Load promises once it has applied o as v, nobody else having moved.
LEMMA AppliedKeeps ==
    ASSUME RestoreInv, NEW r \in Reqs, req[r].pc \in ApplyPhases, NEW o \in Objs, o \in req[r].tasks,
           ~LooksUp(r, o),
           NEW q \in Requests, q = Ends(req[r], o), NEW v \in Object, NEW e,
           e = [db EXCEPT ![o] = v],
           req[r].snap[o].placed => v.placed,
           Named(r, o) # 0 => v.claim = Named(r, o)
    PROVE  RequestInv(q, e, initial)
<1>0. /\ q.op = "load" /\ q.pc = req[r].pc /\ q.err = req[r].err /\ q.snap = req[r].snap
      /\ q.tasks = req[r].tasks \ {o} /\ q.touched = req[r].touched \ {o} /\ q.missed = req[r].missed
      /\ \A w \in Volumes : q.found[w] = IF w = o THEN Unasked ELSE req[r].found[w]
    BY LoadFacts, EndsOK
<1>1. Asked(req[r], o) /\ PhaseOf(o) = req[r].pc
    BY LoadFacts DEF RequestInv, TasksInPhase
<1>2. e[o] = v /\ v # Gone /\ \A x \in Objs \ {o} : e[x] = db[x]
    BY LoadFacts, RestoreAssumption
<1>3. \A x \in Objs \ {o} : Handled(q, x) <=> Handled(req[r], x)
    BY <1>0 DEF Handled, Asked
<1>4. TasksInPhase(q)
    BY <1>0, LoadFacts DEF RequestInv, TasksInPhase, Asked
<1>5. AppliedSoFar(q, e)
    BY <1>0, <1>2, <1>3, LoadFacts DEF RequestInv, AppliedSoFar
<1>6. NamesSoFar(q, e)
    <2> SUFFICES ASSUME NEW w \in Volumes, q.snap[w] # Gone, q.snap[w].bound, w \notin q.missed,
                        Handled(q, ClaimOf[w]), ClaimOf[w] \notin q.touched
                 PROVE  /\ q.pc = "volumes" /\ q.found[w] # Unasked
                              => q.found[w] = e[ClaimOf[w]].uid
                        /\ Handled(q, w) /\ w \notin q.touched => e[w].claim = e[ClaimOf[w]].uid
        BY <1>0 DEF NamesSoFar
    <2> DEFINE c == ClaimOf[w]
    <2>0. c \in Objs /\ c \notin Volumes /\ PhaseOf(c) = "objects" /\ w \in Objs /\ PhaseOf(w) = "volumes"
        BY LoadFacts, Phases
    <2>1. CASE c = o
        <3>1. q.pc = "objects"
            BY <1>0, <1>1, <2>0, <2>1
        <3>2. ~Handled(q, w)
            BY <2>0, <3>1 DEF Handled, PhasesDone
        <3> QED
            BY <3>1, <3>2
    <2>2. CASE c # o /\ w # o
        <3>1. /\ Handled(req[r], c) /\ c \notin req[r].touched /\ NamesSoFar(req[r], db)
              /\ e[c] = db[c] /\ e[w] = db[w] /\ (Handled(q, w) <=> Handled(req[r], w))
              /\ q.found[w] = req[r].found[w] /\ (w \notin q.touched <=> w \notin req[r].touched)
            BY <1>0, <1>2, <1>3, <2>0, <2>2, LoadFacts DEF RequestInv
        <3> QED
            BY <1>0, <3>1, LoadFacts DEF NamesSoFar
    <2>3. CASE c # o /\ w = o
        <3>1. /\ Handled(req[r], c) /\ c \notin req[r].touched /\ e[c] = db[c]
            BY <1>0, <1>2, <1>3, <2>0, <2>3
        <3>2. req[r].found[o] # Unasked /\ q.found[o] = Unasked
            BY <1>0, <2>3 DEF LooksUp
        <3>3. req[r].pc = "volumes"
            BY <1>1, <2>0, <2>3
        <3>4. req[r].found[o] = db[c].uid
            BY <1>0, <2>3, <3>1, <3>2, <3>3, LoadFacts DEF RequestInv, NamesSoFar
        <3>5. db[c] # Gone /\ c \in Claims
            BY <2>0, <3>1, LoadFacts DEF RequestInv, AppliedSoFar
        <3>6. db[c].uid # 0
            BY <2>0, <3>5 DEF RestoreInv, UidsGiven, Given
        <3>7. Named(r, o) = req[r].found[o]
            BY <2>3, <3>2 DEF Named
        <3> QED
            BY <1>2, <2>3, <3>1, <3>2, <3>4, <3>6, <3>7
    <2> QED
        BY <2>1, <2>2, <2>3
<1> QED
    BY <1>0, <1>4, <1>5, <1>6 DEF RequestInv, Stages, PutSoFar, ApplyPhases

\* What a Load applies.
LEMMA AppliedByLoad ==
    ASSUME RestoreInv, NEW r \in Reqs, NEW o \in Objs, Apply(r, o), Admits(o, req[r].snap[o]),
           NEW v \in Applied(o, req[r].snap[o], Named(r, o))
    PROVE  /\ v \in Object /\ Counted(o) \in lastUid..MaxUid
           /\ v.uid <= Counted(o) /\ (o \in Claims => v.uid # 0)
           /\ (req[r].snap[o].placed => v.placed) /\ (Named(r, o) # 0 => v.claim = Named(r, o))
<1>0. req[r].pc \in ApplyPhases /\ o \in req[r].tasks /\ ~LooksUp(r, o) /\ HasUid(o)
    BY DEF Apply, Applying
<1>1. req[r].snap[o] \in Saved
    BY <1>0, LoadFacts, Fields DEF RequestInv, TasksInPhase, Asked
<1>2. Named(r, o) \in 0..MaxUid
    <2>1. CASE o \in Volumes /\ req[r].found[o] # Unasked
        BY <1>0, <2>1, LoadFacts, Fields DEF Named
    <2>2. CASE ~(o \in Volumes /\ req[r].found[o] # Unasked)
        BY <1>1, <2>2 DEF Named, Saved
    <2> QED
        BY <2>1, <2>2
<1> QED
    BY <1>0, <1>1, <1>2, AppliedObject

\* An object is applied, or refused.
LEMMA ApplyStep ==
    ASSUME RestoreInv, NEW r \in Reqs, NEW o \in Objs, Apply(r, o)
    PROVE  RestoreInv'
<1> DEFINE f == req[r].snap[o]
<1>0. /\ req[r].pc \in ApplyPhases /\ o \in req[r].tasks /\ ~LooksUp(r, o) /\ HasUid(o)
      /\ UNCHANGED <<initial, events>>
    BY DEF Apply, Applying
<1>1. CASE Admits(o, f)
    <2> DEFINE q == Ends(req[r], o)
               s == [req EXCEPT ![r] = q]
    <2>1. PICK v \in Applied(o, f, Named(r, o)), W \in {{}, {o}} :
              /\ v # db[o] => W = {o}
              /\ db' = [db EXCEPT ![o] = v] /\ lastUid' = Counted(o)
              /\ req' = Touched(r, W, s) /\ file' = Outdated(file, W)
        BY <1>1 DEF Apply
    <2>2. lastUid' = Counted(o) /\ req' = Touched(r, W, s) /\ file' = Outdated(file, W)
        BY <2>1
    <2>5. /\ v \in Object /\ lastUid' \in lastUid..MaxUid
          /\ v.uid <= lastUid' /\ (o \in Claims => v.uid # 0)
          /\ (f.placed => v.placed) /\ (Named(r, o) # 0 => v.claim = Named(r, o))
        BY <1>1, <2>1, <2>2, AppliedByLoad
    <2>6. q \in Requests /\ \A w \in Volumes : q.found[w] = IF w = o THEN Unasked ELSE req[r].found[w]
        BY <1>0, LoadFacts, EndsOK
    <2>7. \A w \in Volumes : q.found[w] # Unasked => q.found[w] <= lastUid
        BY <1>0, <2>6, LoadFacts
    <2>8. RequestInv(q, db', initial)
        BY <1>0, <2>1, <2>5, <2>6, AppliedKeeps
    <2> HIDE DEF q
    <2>9. s \in [Reqs -> Requests] /\ s[r] = q /\ \A x \in Reqs \ {r} : s[x] = req[x]
        BY <1>0, <2>6, LoadFacts
    <2>10. db' \in [Objs -> Object \cup {Gone}] /\ events' \in 0..MaxEvents
        BY <1>0, <2>1, <2>5, LoadFacts
    <2>11. /\ W \in SUBSET Objs /\ \A x \in Objs \ W : db'[x] = db[x]
           /\ \A x \in W : Given(x, db[x])'
        <3>1. db'[o] = v
            BY <1>0, <2>1, LoadFacts
        <3> QED
            BY <1>0, <2>1, <2>5, <3>1, LoadFacts DEF Given
    <2> HIDE DEF s
    <2> QED
        BY <1>0, <2>2, <2>5, <2>7, <2>8, <2>9, <2>10, <2>11, WriteStep
<1>2. CASE ~Admits(o, f)
    <2> DEFINE q == Refused(req[r], o)
    <2>1. req' = [req EXCEPT ![r] = q] /\ UNCHANGED <<db, file, lastUid>>
        BY <1>2 DEF Apply
    <2>2. /\ q \in Requests /\ q.op = "load" /\ q.pc = req[r].pc /\ q.err
          /\ q.tasks = req[r].tasks \ {o} /\ q.snap = req[r].snap /\ q.found = req[r].found
        <3>1. req[r] \in Requests /\ req[r].op = "load"
            BY <1>0, LoadFacts
        <3> QED
            BY <3>1 DEF Requests, Refused, TaskEnds
    <2> HIDE DEF q
    <2>3. events' \in 0..MaxEvents
        BY <1>0, LoadFacts
    <2> QED
        BY <1>0, <2>1, <2>2, <2>3, TaskFails
<1> QED
    BY <1>1, <1>2

\* The steps of Load, and of Snap, keep the invariant.
LEMMA SnapshotKeeps ==
    ASSUME RestoreInv, NEW r \in Reqs, SnapshotStep(r)
    PROVE  RestoreInv'
<1>1. CASE SnapReturns(r) \/ \E k \in Kinds : List(r, k) \/ ListFails(r, k)
    BY <1>1, SnapSteps
<1>2. ASSUME NEW o \in Objs, LookUpClaim(r, o) PROVE RestoreInv'
    BY <1>2, LookUpStep
<1>3. ASSUME NEW o \in Objs, Apply(r, o) PROVE RestoreInv'
    BY <1>3, ApplyStep
<1>4. ASSUME NEW o \in Objs, ApplyFails(r, o) PROVE RestoreInv'
    <2> DEFINE q == TaskEnds(req[r], o, TRUE)
    <2>1. /\ req' = [req EXCEPT ![r] = q] /\ UNCHANGED <<db, initial, file, lastUid>>
          /\ req[r].pc \in ApplyPhases
        BY <1>4 DEF ApplyFails, Applying
    <2>2. events < MaxEvents /\ events' = events + 1
        BY <1>4 DEF ApplyFails, Fault, Event
    <2>3. /\ q \in Requests /\ q.op = "load" /\ q.pc = req[r].pc /\ q.err
          /\ q.tasks = req[r].tasks \ {o} /\ q.snap = req[r].snap /\ q.found = req[r].found
        <3>1. req[r] \in Requests /\ req[r].op = "load"
            BY <2>1, LoadFacts
        <3> QED
            BY <3>1 DEF Requests, TaskEnds
    <2> HIDE DEF q
    <2>4. events' \in 0..MaxEvents
        BY <2>1, <2>2, LoadFacts
    <2> QED
        BY <2>1, <2>3, <2>4, TaskFails
<1>5. CASE RestartScheduler(r)
    <2>1. req[r].pc = "restart" /\ UNCHANGED <<db, initial, file, lastUid>> /\ events' \in 0..MaxEvents
        BY <1>5, LoadFacts DEF RestartScheduler, Fault, Event
    <2>2. CASE req' = [req EXCEPT ![r] = Failed(@)]
        BY <2>1, <2>2, FailStep
    <2>3. CASE req' = [req EXCEPT ![r].pc = "namespaces", ![r].tasks = TasksOf(r, "namespaces")]
               /\ UNCHANGED events
        <3>1. TasksOf(r, "namespaces") \in SUBSET Objs
            BY DEF TasksOf
        <3> DEFINE q == [req[r] EXCEPT !.pc = "namespaces", !.tasks = TasksOf(r, "namespaces")]
        <3>2. req' = [req EXCEPT ![r] = q]
            BY <2>1, <2>3, LoadFacts
        <3>3. CASE ~req[r].err
            BY <2>1, <2>3, <3>1, <3>2, <3>3, PhaseBegins DEF ApplyPhases
        <3>4. CASE req[r].err
            <4>1. /\ q \in Requests /\ q.op = "load" /\ q.pc = "namespaces" /\ q.err
                  /\ q.tasks = TasksOf(r, "namespaces") /\ q.snap = req[r].snap /\ q.found = req[r].found
                <5>1. req[r] \in Requests /\ req[r].op = "load"
                    BY <2>1, LoadFacts
                <5>2. "namespaces" \in ApplyPhases
                    BY DEF ApplyPhases
                <5> QED
                    BY <3>1, <3>4, <5>1, <5>2 DEF Requests
            <4> HIDE DEF q
            <4>2. TasksInPhase(q)
                <5>1. \A o \in q.tasks : Asked(q, o) /\ PhaseOf(o) = "namespaces"
                    BY <4>1 DEF TasksOf, InFile, Asked
                <5> QED
                    BY <2>1, <4>1, <5>1, LoadFacts DEF TasksInPhase, RequestInv
            <4>3. RequestInv(q, db, initial)
                BY <4>1, <4>2
                   DEF RequestInv, Stages, PutSoFar, AppliedSoFar, NamesSoFar, ApplyPhases, Handled
            <4> QED
                BY <2>1, <3>2, <4>1, <4>3, LoadFacts, LocalStep
        <3> QED
            BY <3>3, <3>4
    <2> QED
        BY <1>5, <2>2, <2>3 DEF RestartScheduler
<1>6. CASE NextPhase(r)
    <2>0. /\ req[r].pc \in ApplyPhases /\ UNCHANGED <<db, initial, file, lastUid, events>>
          /\ events' \in 0..MaxEvents /\ req \in [Reqs -> Requests]
        BY <1>6, LoadFacts DEF NextPhase
    <2>1. PICK pc, tasks :
              /\ WaitReturns(r, pc, tasks)
              /\ \/ req[r].pc = "namespaces" /\ pc = "objects" /\ tasks = TasksOf(r, pc)
                 \/ req[r].pc = "objects" /\ pc = "volumes" /\ tasks = TasksOf(r, pc)
                 \/ req[r].pc = "volumes" /\ pc = "ok" /\ tasks = {}
        BY <1>6 DEF NextPhase, ApplyPhases
    <2>2. tasks \in SUBSET Objs /\ pc \in ApplyPhases \cup {"ok"} /\ req[r].tasks = {}
        BY <2>1 DEF TasksOf, ApplyPhases, WaitReturns
    <2>3. CASE req[r].err
        <3>1. req' = [req EXCEPT ![r] = Failed(@)]
            BY <2>0, <2>1, <2>3 DEF WaitReturns
        <3> QED
            BY <2>0, <3>1, FailStep
    <2>4. CASE ~req[r].err
        <3> DEFINE q == [req[r] EXCEPT !.pc = pc, !.tasks = tasks]
        <3>1. req' = [req EXCEPT ![r] = q]
            BY <2>0, <2>1, <2>4 DEF WaitReturns
        <3> HIDE DEF q
        <3>2. q = [req[r] EXCEPT !.pc = pc, !.tasks = tasks]
            BY DEF q
        <3>3. pc \in ApplyPhases => tasks = TasksOf(r, pc)
            BY <2>1 DEF ApplyPhases
        <3> QED
            BY <2>0, <2>1, <2>2, <2>4, <3>1, <3>2, <3>3, PhaseBegins
    <2> QED
        BY <2>3, <2>4
<1> QED
    BY <1>1, <1>2, <1>3, <1>4, <1>5, <1>6 DEF SnapshotStep

-----------------------------------------------------------------------------
(***************************************************************************)
(* What the order of the steps adds.  What a request says of namespaces    *)
(* outlives what others write, and so does the blame of a Reset.           *)
(***************************************************************************)

\* A request that ends with an error is told nothing any more.
LEMMA FailedOrder ==
    ASSUME NEW q
    PROVE  /\ Failed(q).op = q.op /\ Failed(q).pc = "error"
           /\ \A d, i : OrderInv(Failed(q), d, i)
           /\ OnlyPodsPlaced(Failed(q).snap)
           /\ q.op = "reset" => \A n : Lost(Failed(q), n)
<1>1. /\ Failed(q).op = q.op /\ Failed(q).pc = "error" /\ Failed(q).refused = {}
      /\ Failed(q).snap = [o \in Objs |-> Gone]
    BY DEF Failed, Idle
<1> QED
    BY <1>1 DEF OrderInv, PutsInitial, ListedSoFar, NamespacesFirst, RefusedSoFar, Lost, OnlyPodsPlaced

\* What the order of the steps promises outlives a write.
LEMMA OrderTouch ==
    ASSUME NEW q \in Requests, NEW d, NEW e, NEW i, NEW W, NEW T \in SUBSET Objs,
           q.touched \subseteq T, q.op = "snap" => W \subseteq T, OnlyPodsPlaced(q.snap),
           OrderInv(q, d, i), \A o \in Objs \ T : e[o] = d[o],
           NEW t, Told(q, t, W), t.touched = T
    PROVE  /\ OrderInv(t, e, i) /\ OnlyPodsPlaced(t.snap)
           /\ \A n : (Lost(q, n) => Lost(t, n)) /\ (Awaited(q, n) => Awaited(t, n))
<1>1. /\ t.op = q.op /\ t.pc = q.pc /\ t.tasks = q.tasks /\ t.err = q.err
      /\ t.snap = Outdated(q.snap, W) /\ t.refused = q.refused /\ t.touched = T
      /\ q.refused \subseteq Objs
    BY DEF Told, Requests
<1>0. \A o \in Objs : /\ t.snap[o] = Gone <=> q.snap[o] = Gone
                      /\ q.snap[o] # Gone => t.snap[o].placed = q.snap[o].placed
                      /\ q.snap[o].ver = "old" \/ o \notin W => t.snap[o] = q.snap[o]
    BY <1>1, Fields, OutdatedKeeps
<1>2. RefusedSoFar(t, e)
    <2> SUFFICES ASSUME NEW o \in q.refused \ Pods
                 PROVE  Conflicts(t, e, o) \/ \E n \in Objs : InNamespace(o, n) /\ Missing(t, e, n)
        BY <1>1 DEF RefusedSoFar
    <2>1. o \in Objs
        BY <1>1
    <2>2. CASE Conflicts(q, d, o)
        <3>1. t.snap[o].ver = "old" /\ (d[o] # Gone \/ o \in q.touched)
            BY <1>0, <2>1, <2>2 DEF Conflicts
        <3>2. o \in T \/ e[o] = d[o]
            BY <2>1
        <3> QED
            BY <1>1, <3>1, <3>2 DEF Conflicts
    <2>3. CASE \E n \in Objs : InNamespace(o, n) /\ Missing(q, d, n)
        <3>1. PICK n \in Objs : InNamespace(o, n) /\ Missing(q, d, n)
            BY <2>3
        <3>2. n \in T \/ e[n] = d[n]
            BY <3>1
        <3>3. Missing(t, e, n)
            BY <1>0, <1>1, <3>1, <3>2 DEF Missing
        <3> QED
            BY <3>1, <3>3
    <2> QED
        BY <2>2, <2>3 DEF OrderInv, RefusedSoFar
<1>3. PutsInitial(t, i)
    BY <1>1 DEF OrderInv, PutsInitial
<1>4. ListedSoFar(t, e)
    <2> SUFFICES ASSUME q.op = "snap", q.pc = "list", ~q.err, NEW o \in Objs \ (q.tasks \cup T)
                 PROVE  t.snap[o] = IF e[o] = Gone \/ Ignored(o) THEN Gone
                                    ELSE [claim |-> e[o].claim, bound |-> e[o].bound,
                                          placed |-> e[o].placed, ver |-> "current"]
        BY <1>1 DEF ListedSoFar
    <2>1. t.snap[o] = q.snap[o] /\ e[o] = d[o] /\ o \in Objs \ (q.tasks \cup q.touched)
        BY <1>0
    <2> QED
        BY <2>1 DEF OrderInv, ListedSoFar
<1>5. NamespacesFirst(t, e)
    <2>1. ASSUME NEW n \in Objs, n \notin T, q.pc \in {"objects", "volumes"}, IsNamespace(n), Asked(t, n)
          PROVE  e[n] # Gone
        <3>1. Asked(q, n) /\ n \notin q.touched /\ e[n] = d[n]
            BY <1>0, <2>1 DEF Asked
        <3> QED
            BY <2>1, <3>1 DEF OrderInv, NamespacesFirst
    <2> QED
        BY <1>1, <2>1 DEF OrderInv, NamespacesFirst
<1>6. OnlyPodsPlaced(t.snap)
    BY <1>0 DEF OnlyPodsPlaced
<1>7. \A n : (Lost(q, n) => Lost(t, n)) /\ (Awaited(q, n) => Awaited(t, n))
    BY <1>1 DEF Lost, Awaited
<1> QED
    BY <1>2, <1>3, <1>4, <1>5, <1>6, <1>7 DEF OrderInv

\* So it does for a request x that is told of it, or that writes itself.
LEMMA OrderTold ==
    ASSUME NEW s \in [Reqs -> Requests], NEW by, NEW W \in SUBSET Objs, NEW x \in Reqs,
           s[x].pc \notin {"idle", "error"}, NEW d, NEW e, NEW i,
           OrderInv(s[x], d, i), OnlyPodsPlaced(s[x].snap), x = by => s[x].op # "snap",
           \A o \in Objs \ (IF x = by THEN s[x].touched ELSE s[x].touched \cup W) : e[o] = d[o]
    PROVE  LET t == Touched(by, W, s)[x] IN
           /\ OrderInv(t, e, i) /\ OnlyPodsPlaced(t.snap)
           /\ \A n : (Lost(s[x], n) => Lost(t, n)) /\ (Awaited(s[x], n) => Awaited(t, n))
<1> DEFINE t == Touched(by, W, s)[x]
           T == IF x = by THEN s[x].touched ELSE s[x].touched \cup W
<1>1. Told(s[x], t, W) /\ t.touched = T
    BY TouchedTells
<1> HIDE DEF t
<1>2. /\ s[x] \in Requests /\ s[x].touched \subseteq T /\ T \in SUBSET Objs
      /\ (s[x].op = "snap" => W \subseteq T) /\ \A o \in Objs \ T : e[o] = d[o]
    BY Fields
<1> HIDE DEF T
<1> DEFINE q == s[x]
<1>3. /\ q \in Requests /\ OrderInv(q, d, i) /\ OnlyPodsPlaced(q.snap) /\ Told(q, t, W)
      /\ q.touched \subseteq T /\ (q.op = "snap" => W \subseteq T)
    BY <1>1, <1>2
<1> HIDE DEF q
<1>4. /\ OrderInv(t, e, i) /\ OnlyPodsPlaced(t.snap)
      /\ \A n : (Lost(q, n) => Lost(t, n)) /\ (Awaited(q, n) => Awaited(t, n))
    BY <1>1, <1>2, <1>3, OrderTouch
<1> QED
    BY <1>4 DEF q, t

\* The steps of a request r that write nothing.
LEMMA OrderLocal ==
    ASSUME RestoreInv, Ordered, NEW r \in Reqs, NEW q,
           req' = [req EXCEPT ![r] = q], UNCHANGED <<db, initial>>,
           OnlyPodsPlaced(file'), OnlyPodsPlaced(q.snap), OrderInv(q, db, initial),
           \A n \in Objs : /\ Lost(req[r], n) => Lost(q, n)
                           /\ Awaited(req[r], n) => Lost(q, n) \/ Awaited(q, n)
    PROVE  Ordered'
<1>1. \A x \in Reqs : req'[x] = IF x = r THEN q ELSE req[x]
    BY DEF RestoreInv, TypeOK
<1>2. (\A x \in Reqs : OrderInv(req[x], db, initial))'
    BY <1>1 DEF Ordered
<1>3. PlacedInv'
    BY <1>1 DEF Ordered, PlacedInv, OnlyPodsPlaced
<1>4. ASSUME NEW n \in Objs
      PROVE  /\ (\E x \in Reqs : Lost(req[x], n)) => \E x \in Reqs : Lost(req'[x], n)
             /\ (\E x \in Reqs : Lost(req[x], n) \/ Awaited(req[x], n))
                  => \E x \in Reqs : Lost(req'[x], n) \/ Awaited(req'[x], n)
    BY <1>1
<1>5. NamespaceInv'
    <2> SUFFICES ASSUME NEW o \in Objs, NEW n \in Objs, InNamespace(o, n)
                 PROVE  /\ db[o] # Gone /\ db[n] = Gone
                              => \E x \in Reqs : Lost(req'[x], n) \/ Awaited(req'[x], n)
                        /\ initial[o] # Gone /\ initial[n] = Gone => \E x \in Reqs : Lost(req'[x], n)
        BY DEF NamespaceInv, InNamespace, IsNamespace, Lost, Awaited
    <2>1. /\ db[o] # Gone /\ db[n] = Gone => \E x \in Reqs : Lost(req[x], n) \/ Awaited(req[x], n)
          /\ initial[o] # Gone /\ initial[n] = Gone => \E x \in Reqs : Lost(req[x], n)
        BY DEF Ordered, NamespaceInv
    <2> QED
        BY <1>4, <2>1
<1> QED
    BY <1>2, <1>3, <1>5 DEF Ordered

\* The steps that write the objects W: by a request, or by others.
LEMMA OrderWrite ==
    ASSUME RestoreInv, Ordered, NEW by \in Reqs \cup {"others"}, NEW W \in SUBSET Objs,
           NEW s \in [Reqs -> Requests],
           \A x \in Reqs \ {by} : s[x] = req[x],
           req' = Touched(by, W, s),
           \A o \in Objs \ W : db'[o] = db[o], OnlyPodsPlaced(db'),
           UNCHANGED initial, file' = Outdated(file, W),
           by \in Reqs => /\ OrderInv(s[by], db', initial) /\ OnlyPodsPlaced(s[by].snap)
                          /\ s[by].op # "snap",
           \A o, n \in Objs : InNamespace(o, n) /\ db'[o] # Gone /\ db'[n] = Gone
               => \E x \in Reqs : Lost(s[x], n) \/ Awaited(s[x], n),
           \A n \in Objs : initial[n] = Gone /\ (\E x \in Reqs : Lost(req[x], n))
               => \E x \in Reqs : Lost(s[x], n)
    PROVE  Ordered'
<1>1. ASSUME NEW x \in Reqs
      PROVE  /\ OrderInv(req'[x], db', initial) /\ OnlyPodsPlaced(req'[x].snap)
             /\ \A n : (Lost(s[x], n) => Lost(req'[x], n)) /\ (Awaited(s[x], n) => Awaited(req'[x], n))
    <2>1. CASE x = by /\ s[x].pc \in {"idle", "error"}
        <3>1. req'[x] = s[x]
            BY <2>1 DEF Touched
        <3> QED
            BY <2>1, <3>1
    <2>2. CASE x # by /\ s[x].pc \in {"idle", "error"}
        <3>1. req'[x] = s[x] /\ s[x] = req[x]
            BY <2>2 DEF Touched
        <3>2. OrderInv(s[x], db, initial) /\ OnlyPodsPlaced(s[x].snap) /\ Stages(s[x])
            BY <3>1 DEF Ordered, PlacedInv, RestoreInv, RequestInv
        <3>3. s[x].refused = {}
            BY <2>2, <3>2 DEF OrderInv, NamespacesFirst, ApplyPhases
        <3> QED
            BY <2>2, <3>1, <3>2, <3>3
               DEF OrderInv, PutsInitial, ListedSoFar, NamespacesFirst, RefusedSoFar
    <2>3. CASE x = by /\ s[x].pc \notin {"idle", "error"}
        <3>1. /\ s[x] \in Requests /\ OrderInv(s[x], db', initial) /\ OnlyPodsPlaced(s[x].snap)
              /\ s[x].op # "snap" /\ \A o \in Objs \ s[x].touched : db'[o] = db'[o]
            BY <2>3
        <3> QED
            BY <2>3, <3>1, OrderTold
    <2>4. CASE x # by /\ s[x].pc \notin {"idle", "error"}
        <3>1. OrderInv(s[x], db, initial) /\ OnlyPodsPlaced(s[x].snap)
            BY <2>4 DEF Ordered, PlacedInv
        <3> QED
            BY <2>4, <3>1, OrderTold
    <2> QED
        BY <2>1, <2>2, <2>3, <2>4
<1>2. (\A x \in Reqs : OrderInv(req[x], db, initial))'
    BY <1>1
<1>3. PlacedInv'
    <2>1. OnlyPodsPlaced(file')
        BY OutdatedKeeps DEF Ordered, PlacedInv, OnlyPodsPlaced, RestoreInv, TypeOK
    <2> QED
        BY <1>1, <2>1 DEF Ordered, PlacedInv, OnlyPodsPlaced
<1>4. NamespaceInv'
    <2> SUFFICES ASSUME NEW o \in Objs, NEW n \in Objs, InNamespace(o, n)
                 PROVE  /\ db'[o] # Gone /\ db'[n] = Gone
                              => \E x \in Reqs : Lost(req'[x], n) \/ Awaited(req'[x], n)
                        /\ initial[o] # Gone /\ initial[n] = Gone => \E x \in Reqs : Lost(req'[x], n)
        BY DEF NamespaceInv, InNamespace, IsNamespace, Lost, Awaited
    <2>1. initial[o] # Gone /\ initial[n] = Gone => \E x \in Reqs : Lost(req[x], n)
        BY DEF Ordered, NamespaceInv
    <2> QED
        BY <1>1, <2>1
<1> QED
    BY <1>2, <1>3, <1>4 DEF Ordered

-----------------------------------------------------------------------------
(***************************************************************************)
(* The others, a restart, and the reset service.                           *)
(***************************************************************************)

\* Nobody else leaves an object without its namespace: it is made after its
\* namespace, which goes only after it.
LEMMA OthersOrder ==
    ASSUME RestoreInv, Ordered, OthersStep
    PROVE  Ordered'
<1> PICK o \in Objs : Create(o) \/ Delete(o) \/ Update(o) \/ Place(o) \/ BindVolume(o) \/ SetPhase(o)
    BY DEF OthersStep
<1>0. /\ db \in [Objs -> Object \cup {Gone}] /\ req \in [Reqs -> Requests]
      /\ OnlyPodsPlaced(db) /\ NamespaceInv /\ lastUid \in 0..MaxUid /\ MaxUid \in Nat
    BY RestoreAssumption DEF RestoreInv, TypeOK, Ordered, PlacedInv
<1>1. PICK v : /\ Write(o, v)
               /\ v # Gone => /\ There(o) \/ \A n \in Needs[o] : There(n)
                              /\ o \notin Pods => ~v.placed
               /\ v = Gone /\ IsNamespace(o) => \A x \in Objs : There(x) => o \notin Needs[x]
    <2>1. CASE Create(o)
        <3> DEFINE v == [uid |-> NewUid(o), claim |-> 0, bound |-> FALSE, placed |-> FALSE]
        <3>1. Write(o, v) /\ ~There(o) /\ \A n \in Needs[o] : There(n)
            BY <2>1 DEF Create
        <3>2. ~v.placed
            OBVIOUS
        <3>3. v \in Object
            BY <1>0, <2>1 DEF Create, Object, NewUid, HasUid
        <3>4. v # Gone
            BY <3>3, RestoreAssumption
        <3> HIDE DEF v
        <3> QED
            BY <3>1, <3>2, <3>4
    <2>2. CASE Delete(o)
        BY <2>2 DEF Delete
    <2>3. CASE Place(o)
        <3> DEFINE v == [db[o] EXCEPT !.placed = TRUE]
        <3>1. Write(o, v) /\ There(o) /\ o \in Pods /\ ~IsNamespace(o)
            BY <2>3 DEF Place, Pods, IsNamespace
        <3> QED
            BY <3>1
    <2>4. CASE BindVolume(o)
        <3> DEFINE v == [db[o] EXCEPT !.claim = db[ClaimOf[o]].uid]
        <3>1. Write(o, v) /\ There(o) /\ ~IsNamespace(o)
            BY <2>4 DEF BindVolume, Volumes, IsNamespace
        <3>2. o \notin Pods => ~v.placed
            BY <1>0, <3>1 DEF Object, There, OnlyPodsPlaced
        <3> QED
            BY <3>1, <3>2
    <2>5. CASE SetPhase(o)
        <3> DEFINE b == There(ClaimOf[o]) /\ db[ClaimOf[o]].uid = db[o].claim
                   v == [db[o] EXCEPT !.bound = b]
        <3>1. Write(o, v) /\ There(o) /\ ~IsNamespace(o)
            BY <2>5 DEF SetPhase, Volumes, IsNamespace
        <3>2. o \notin Pods => ~v.placed
            BY <1>0, <3>1 DEF Object, There, OnlyPodsPlaced
        <3> QED
            BY <3>1, <3>2
    <2>6. CASE Update(o)
        <3>1. Write(o, db[o]) /\ There(o) /\ (o \notin Pods => ~db[o].placed)
            BY <1>0, <2>6 DEF Update, There, OnlyPodsPlaced
        <3> QED
            BY <3>1 DEF There
    <2> QED
        BY <2>1, <2>2, <2>3, <2>4, <2>5, <2>6
<1>2. /\ db' = [db EXCEPT ![o] = v] /\ req' = Touched("others", {o}, req)
      /\ UNCHANGED initial /\ file' = Outdated(file, {o})
    BY <1>1 DEF Write
<1>3. db'[o] = v /\ \A x \in Objs \ {o} : db'[x] = db[x]
    BY <1>0, <1>2
<1>4. OnlyPodsPlaced(db')
    BY <1>0, <1>1, <1>3 DEF OnlyPodsPlaced
<1>5. ASSUME NEW x \in Objs, NEW n \in Objs, InNamespace(x, n), db'[x] # Gone, db'[n] = Gone
      PROVE  \E y \in Reqs : Lost(req[y], n) \/ Awaited(req[y], n)
    <2>1. db[x] # Gone /\ db[n] = Gone
        BY <1>1, <1>3, <1>5, AdmissionAssumption DEF InNamespace, There
    <2> QED
        BY <1>0, <1>5, <2>1 DEF NamespaceInv
<1> DEFINE W == {o}
<1>6. /\ W \in SUBSET Objs /\ \A x \in Objs \ W : db'[x] = db[x]
      /\ req' = Touched("others", W, req) /\ file' = Outdated(file, W)
    BY <1>2, <1>3
<1> HIDE DEF W
<1>7. "others" \notin Reqs
    BY RestoreAssumption
<1> QED
    BY <1>0, <1>2, <1>4, <1>5, <1>6, <1>7, OrderWrite

\* A restart loses what the Resets that go on had still to put back.
LEMMA RestartOrder ==
    ASSUME RestoreInv, Ordered, ServerRestart
    PROVE  Ordered'
<1>1. /\ req' = [r \in Reqs |-> IF Running(r) THEN Failed(req[r]) ELSE req[r]]
      /\ initial' = db /\ UNCHANGED <<db, file>>
    BY DEF ServerRestart
<1>2. ASSUME NEW x \in Reqs
      PROVE  /\ OrderInv(req'[x], db', initial') /\ OnlyPodsPlaced(req'[x].snap)
             /\ \A n : Lost(req[x], n) \/ Awaited(req[x], n) => Lost(req'[x], n)
    <2>1. OrderInv(req[x], db, initial) /\ OnlyPodsPlaced(req[x].snap)
        BY DEF Ordered, PlacedInv
    <2>2. CASE Running(x)
        <3>1. req'[x] = Failed(req[x])
            BY <1>1, <2>2
        <3>2. \A n : Lost(req[x], n) \/ Awaited(req[x], n) => req[x].op = "reset"
            BY DEF Lost, Awaited
        <3> QED
            BY <3>1, <3>2, FailedOrder
    <2>3. CASE ~Running(x)
        <3>1. req'[x] = req[x] /\ req[x].pc \in {"idle", "ok", "error"}
            BY <1>1, <2>3 DEF Running
        <3>2. OrderInv(req[x], db, db) /\ \A n : ~Awaited(req[x], n)
            BY <2>1, <3>1 DEF OrderInv, PutsInitial, Awaited
        <3> QED
            BY <1>1, <2>1, <3>1, <3>2
    <2> QED
        BY <2>2, <2>3
<1>3. (\A x \in Reqs : OrderInv(req[x], db, initial))'
    BY <1>2
<1>4. PlacedInv'
    BY <1>1, <1>2 DEF Ordered, PlacedInv, OnlyPodsPlaced
<1>5. NamespaceInv'
    <2> SUFFICES ASSUME NEW o \in Objs, NEW n \in Objs, InNamespace(o, n),
                        db[o] # Gone, db[n] = Gone
                 PROVE  \E x \in Reqs : Lost(req'[x], n)
        BY <1>1 DEF NamespaceInv, InNamespace, IsNamespace, Lost, Awaited
    <2>1. \E x \in Reqs : Lost(req[x], n) \/ Awaited(req[x], n)
        BY DEF Ordered, NamespaceInv
    <2> QED
        BY <1>2, <2>1
<1> QED
    BY <1>3, <1>4, <1>5 DEF Ordered

\* A request ends with an error.
LEMMA FailOrder ==
    ASSUME RestoreInv, Ordered, NEW r \in Reqs, req' = [req EXCEPT ![r] = Failed(@)],
           UNCHANGED <<db, initial, file>>
    PROVE  Ordered'
<1> DEFINE q == Failed(req[r])
<1>1. /\ OrderInv(q, db, initial) /\ OnlyPodsPlaced(q.snap)
      /\ req[r].op = "reset" => \A n : Lost(q, n)
    BY FailedOrder
<1>2. req' = [req EXCEPT ![r] = q] /\ OnlyPodsPlaced(file')
    BY DEF Ordered, PlacedInv
<1> HIDE DEF q
<1>3. \A n : Lost(req[r], n) \/ Awaited(req[r], n) => req[r].op = "reset"
    BY DEF Lost, Awaited
<1> QED
    BY <1>1, <1>2, <1>3, OrderLocal

\* After the deletion nothing is there to be without its namespace.
LEMMA DeleteAllOrder ==
    ASSUME RestoreInv, Ordered, NEW r \in Reqs, DeleteAll(r)
    PROVE  Ordered'
<1> DEFINE q == [req[r] EXCEPT !.pc = "put", !.touched = {},
                               !.tasks = {o \in Objs : initial[o] # Gone}]
           s == [req EXCEPT ![r] = q]
<1>0. /\ req \in [Reqs -> Requests] /\ req[r] \in Requests /\ req[r].op = "reset"
      /\ req[r].pc = "delete" /\ OrderInv(req[r], db, initial) /\ OnlyPodsPlaced(req[r].snap)
    BY DEF RestoreInv, TypeOK, DeleteAll, RequestInv, Stages, Ordered, PlacedInv
<1>1. /\ db' = [o \in Objs |-> Gone] /\ req' = Touched(r, Objs, s)
      /\ UNCHANGED initial /\ file' = Outdated(file, Objs)
    BY <1>0 DEF DeleteAll
<1>2. /\ q \in Requests /\ q.op = "reset" /\ q.pc = "put" /\ q.refused = req[r].refused
      /\ q.snap = req[r].snap /\ q.tasks = {o \in Objs : initial[o] # Gone}
    BY <1>0 DEF Requests
<1> HIDE DEF q
<1>3. s \in [Reqs -> Requests] /\ s[r] = q /\ \A x \in Reqs \ {r} : s[x] = req[x]
    BY <1>0, <1>2
<1> HIDE DEF s
<1>4. OrderInv(q, db', initial)
    BY <1>0, <1>2 DEF OrderInv, PutsInitial, ListedSoFar, NamespacesFirst, RefusedSoFar, ApplyPhases
<1>5. \A n : ~Lost(req[r], n)
    BY <1>0 DEF Lost
<1>6. OnlyPodsPlaced(db') /\ (\A o \in Objs : db'[o] = Gone) /\ OnlyPodsPlaced(q.snap)
    BY <1>0, <1>1, <1>2 DEF OnlyPodsPlaced
<1>7. \A n \in Objs : (\E x \in Reqs : Lost(req[x], n)) => \E x \in Reqs : Lost(s[x], n)
    BY <1>3, <1>5
<1>8. Objs \in SUBSET Objs /\ \A o \in Objs \ Objs : db'[o] = db[o]
    OBVIOUS
<1> QED
    BY <1>1, <1>2, <1>3, <1>4, <1>6, <1>7, <1>8, OrderWrite

\* An object is put back: its namespace is there, or is going to be, or is one
\* that a Reset has lost.
LEMMA PutOrder ==
    ASSUME RestoreInv, Ordered, NEW r \in Reqs, NEW o \in Objs, Put(r, o)
    PROVE  Ordered'
<1> DEFINE q == PutBack(req[r], o)
           s == [req EXCEPT ![r] = q]
           W == {o}
<1>0. /\ req \in [Reqs -> Requests] /\ req[r] \in Requests /\ req[r].op = "reset"
      /\ req[r].pc = "put" /\ o \in req[r].tasks /\ PutSoFar(req[r], db, initial)
      /\ OrderInv(req[r], db, initial) /\ OnlyPodsPlaced(req[r].snap)
      /\ OnlyPodsPlaced(db) /\ OnlyPodsPlaced(initial) /\ NamespaceInv
      /\ db \in [Objs -> Object \cup {Gone}]
    BY DEF RestoreInv, TypeOK, Put, RequestInv, Stages, Ordered, PlacedInv
<1>1. /\ db' = [db EXCEPT ![o] = initial[o]] /\ req' = Touched(r, W, s)
      /\ UNCHANGED initial /\ file' = Outdated(file, W)
    BY DEF Put
<1>2. /\ q \in Requests /\ q.op = "reset" /\ q.pc = "put" /\ q.snap = req[r].snap
      /\ q.err = req[r].err /\ q.tasks = req[r].tasks \ {o} /\ q.touched = req[r].touched \ {o}
      /\ q.refused = req[r].refused
    BY <1>0 DEF Requests, TaskEnds, PutBack
<1> HIDE DEF q
<1>3. s \in [Reqs -> Requests] /\ s[r] = q /\ \A x \in Reqs \ {r} : s[x] = req[x]
    BY <1>0, <1>2
<1>4. db'[o] = initial[o] /\ (\A x \in Objs \ {o} : db'[x] = db[x]) /\ initial[o] # Gone
    BY <1>0, <1>1 DEF OrderInv, PutsInitial
<1>5. OrderInv(q, db', initial)
    BY <1>0, <1>2 DEF OrderInv, PutsInitial, ListedSoFar, NamespacesFirst, RefusedSoFar, ApplyPhases
<1>6. OnlyPodsPlaced(db')
    BY <1>0, <1>4 DEF OnlyPodsPlaced
<1>7. ASSUME NEW n \in Objs, n # o
      PROVE  (Lost(req[r], n) => Lost(q, n)) /\ (Awaited(req[r], n) => Awaited(q, n))
    BY <1>0, <1>2, <1>7 DEF Lost, Awaited
<1>8. ASSUME NEW n \in Objs, n # o
      PROVE  /\ (\E x \in Reqs : Lost(req[x], n)) => \E x \in Reqs : Lost(s[x], n)
             /\ (\E x \in Reqs : Lost(req[x], n) \/ Awaited(req[x], n))
                  => \E x \in Reqs : Lost(s[x], n) \/ Awaited(s[x], n)
    BY <1>3, <1>7, <1>8
<1>9. ASSUME NEW x \in Objs, NEW n \in Objs, InNamespace(x, n), db'[x] # Gone, db'[n] = Gone
      PROVE  \E y \in Reqs : Lost(s[y], n) \/ Awaited(s[y], n)
    <2>1. n # o /\ db[n] = Gone
        BY <1>4, <1>9
    <2>2. CASE x # o
        <3>1. \E y \in Reqs : Lost(req[y], n) \/ Awaited(req[y], n)
            BY <1>0, <1>4, <1>9, <2>1, <2>2 DEF NamespaceInv
        <3> QED
            BY <1>8, <2>1, <3>1
    <2>3. CASE x = o /\ initial[n] = Gone
        <3>1. \E y \in Reqs : Lost(req[y], n)
            BY <1>0, <1>4, <1>9, <2>3 DEF NamespaceInv
        <3> QED
            BY <1>8, <2>1, <3>1
    <2>4. CASE initial[n] # Gone
        <3>1. req[r].err \/ n \in req[r].touched \/ n \in req[r].tasks
            BY <1>0, <2>1, <2>4 DEF PutSoFar
        <3>2. Lost(req[r], n) \/ Awaited(req[r], n)
            BY <1>0, <3>1 DEF Lost, Awaited
        <3> QED
            BY <1>8, <2>1, <3>2
    <2> QED
        BY <2>2, <2>3, <2>4
<1>10. \A n \in Objs : initial[n] = Gone /\ (\E x \in Reqs : Lost(req[x], n))
                          => \E x \in Reqs : Lost(s[x], n)
    BY <1>4, <1>8
<1>11. W \in SUBSET Objs /\ \A x \in Objs \ W : db'[x] = db[x]
    BY <1>4
<1> HIDE DEF s, W
<1> QED
    BY <1>0, <1>1, <1>2, <1>3, <1>5, <1>6, <1>9, <1>10, <1>11, OrderWrite

\* A Reset goes on to be q, and has nothing behind it that q does not answer for.
LEMMA ResetGoesOn ==
    ASSUME RestoreInv, Ordered, NEW r \in Reqs, NEW q, req' = [req EXCEPT ![r] = q],
           UNCHANGED <<db, initial, file>>, req[r].op = "reset", q.op = "reset",
           q.snap = req[r].snap, q.refused = {}, q.touched = req[r].touched,
           req[r].pc \in {"put", "scheduler"},
           \/ req[r].pc = "put" /\ q.pc = "put" /\ q.err /\ q.tasks \subseteq req[r].tasks
           \/ q.pc \in {"scheduler", "ok"} /\ ~req[r].err /\ req[r].tasks = {}
    PROVE  Ordered'
<1>1. OrderInv(req[r], db, initial) /\ OnlyPodsPlaced(req[r].snap) /\ OnlyPodsPlaced(file')
    BY DEF Ordered, PlacedInv
<1>2. OrderInv(q, db, initial)
    <2>1. PutsInitial(q, initial)
        BY <1>1 DEF OrderInv, PutsInitial
    <2>2. ListedSoFar(q, db) /\ NamespacesFirst(q, db) /\ RefusedSoFar(q, db)
        BY DEF ListedSoFar, NamespacesFirst, RefusedSoFar
    <2> QED
        BY <2>1, <2>2 DEF OrderInv
<1>3. ASSUME NEW n \in Objs
      PROVE  /\ Lost(req[r], n) => Lost(q, n)
             /\ Awaited(req[r], n) => Lost(q, n) \/ Awaited(q, n)
    BY DEF Lost, Awaited
<1> QED
    BY <1>1, <1>2, <1>3, OrderLocal

\* The steps of the reset service keep the order.
LEMMA ResetOrder ==
    ASSUME RestoreInv, Ordered, NEW r \in Reqs, ResetStep(r)
    PROVE  Ordered'
<1>0. /\ req \in [Reqs -> Requests] /\ req[r] \in Requests
      /\ RequestInv(req[r], db, initial) /\ OrderInv(req[r], db, initial)
    BY DEF RestoreInv, TypeOK, Ordered
<1>1. CASE DeleteAll(r)
    BY <1>1, DeleteAllOrder
<1>2. ASSUME NEW o \in Objs, Put(r, o) PROVE Ordered'
    BY <1>2, PutOrder
<1>3. CASE DeleteFails(r)
    BY <1>3, FailOrder DEF DeleteFails
<1>4. ASSUME NEW o \in Objs, PutFails(r, o) PROVE Ordered'
    <2> DEFINE q == TaskEnds(req[r], o, TRUE)
    <2>1. /\ req' = [req EXCEPT ![r] = q] /\ UNCHANGED <<db, initial, file>>
          /\ req[r].pc = "put" /\ req[r].op = "reset" /\ req[r].refused = {}
        BY <1>0, <1>4 DEF PutFails, RequestInv, Stages, OrderInv, NamespacesFirst
    <2>2. /\ q.op = "reset" /\ q.pc = "put" /\ q.err /\ q.tasks = req[r].tasks \ {o}
          /\ q.snap = req[r].snap /\ q.refused = {} /\ q.touched = req[r].touched
        BY <1>0, <2>1 DEF Requests, TaskEnds
    <2> HIDE DEF q
    <2> QED
        BY <2>1, <2>2, ResetGoesOn
<1>5. CASE PutsReturn(r)
    <2>0. /\ UNCHANGED <<db, initial, file>> /\ req[r].op = "reset" /\ req[r].pc = "put"
          /\ req[r].tasks = {} /\ req[r].refused = {}
        BY <1>0, <1>5 DEF PutsReturn, WaitReturns, RequestInv, Stages, OrderInv, NamespacesFirst
    <2>1. CASE req[r].err
        <3>1. req' = [req EXCEPT ![r] = Failed(@)]
            BY <1>0, <1>5, <2>1 DEF PutsReturn, WaitReturns
        <3> QED
            BY <2>0, <3>1, FailOrder
    <2>2. CASE ~req[r].err
        <3> DEFINE q == [req[r] EXCEPT !.pc = "scheduler", !.tasks = {}]
        <3>1. req' = [req EXCEPT ![r] = q]
            BY <1>0, <1>5, <2>2 DEF PutsReturn, WaitReturns
        <3>2. /\ q.op = "reset" /\ q.pc = "scheduler" /\ q.snap = req[r].snap
              /\ q.refused = {} /\ q.touched = req[r].touched
            BY <1>0, <2>0 DEF Requests
        <3> HIDE DEF q
        <3> QED
            BY <2>0, <2>2, <3>1, <3>2, ResetGoesOn
    <2> QED
        BY <2>1, <2>2
<1>6. CASE ResetScheduler(r)
    <2>0. /\ UNCHANGED <<db, initial, file>> /\ req[r].op = "reset" /\ req[r].pc = "scheduler"
          /\ req[r].tasks = {} /\ ~req[r].err /\ req[r].refused = {}
          /\ \/ req' = [req EXCEPT ![r] = [req[r] EXCEPT !.pc = "ok"]]
             \/ req' = [req EXCEPT ![r] = Failed(@)]
        BY <1>0, <1>6
           DEF ResetScheduler, RequestInv, Stages, PutSoFar, OrderInv, NamespacesFirst
    <2>1. CASE req' = [req EXCEPT ![r] = Failed(@)]
        BY <2>0, <2>1, FailOrder
    <2>2. CASE req' = [req EXCEPT ![r] = [req[r] EXCEPT !.pc = "ok"]]
        <3> DEFINE q == [req[r] EXCEPT !.pc = "ok"]
        <3>1. /\ q.op = "reset" /\ q.pc = "ok" /\ q.snap = req[r].snap
              /\ q.refused = {} /\ q.touched = req[r].touched
            BY <1>0, <2>0 DEF Requests
        <3>2. req' = [req EXCEPT ![r] = q]
            BY <2>2
        <3> HIDE DEF q
        <3> QED
            BY <2>0, <3>1, <3>2, ResetGoesOn
    <2> QED
        BY <2>0, <2>1, <2>2
<1> QED
    BY <1>1, <1>2, <1>3, <1>4, <1>5, <1>6 DEF ResetStep

-----------------------------------------------------------------------------
(***************************************************************************)
(* Requests begin; a snapshot is taken; a Load goes from phase to phase.   *)
(***************************************************************************)

\* What a step of a request that is no Reset must keep.
LEMMA GoesOn ==
    ASSUME RestoreInv, Ordered, NEW r \in Reqs, NEW q,
           req' = [req EXCEPT ![r] = q], UNCHANGED <<db, initial>>,
           OnlyPodsPlaced(file'), OnlyPodsPlaced(q.snap), OrderInv(q, db, initial),
           req[r].op # "reset"
    PROVE  Ordered'
<1>1. \A n : ~Lost(req[r], n) /\ ~Awaited(req[r], n)
    BY DEF Lost, Awaited
<1> QED
    BY <1>1, OrderLocal

\* A request that begins has listed, applied and put back nothing.
LEMMA BeginOrder ==
    ASSUME RestoreInv, Ordered, NEW r \in Reqs, Snap(r) \/ Load(r) \/ ResetRequest(r)
    PROVE  Ordered'
<1>1. UNCHANGED <<db, initial, file>> /\ req[r].op = "none"
    BY DEF Snap, Load, ResetRequest, Begin
<1>2. OnlyPodsPlaced(file') /\ OnlyPodsPlaced(Idle.snap)
    BY <1>1 DEF Ordered, PlacedInv, OnlyPodsPlaced, Idle
<1>3. PICK op, pc, tasks, snap :
          /\ req' = [req EXCEPT ![r] = [Idle EXCEPT !.op = op, !.pc = pc, !.tasks = tasks, !.snap = snap]]
          /\ \/ pc = "list" /\ tasks = Objs
             \/ pc \in {"restart", "delete"}
          /\ OnlyPodsPlaced(snap)
    BY <1>1, <1>2 DEF Snap, Load, ResetRequest, Begin
<1> DEFINE q == [Idle EXCEPT !.op = op, !.pc = pc, !.tasks = tasks, !.snap = snap]
<1>4. q.pc = pc /\ q.tasks = tasks /\ q.snap = snap /\ q.refused = {}
    BY DEF Idle
<1>5. req' = [req EXCEPT ![r] = q]
    BY <1>3
<1> HIDE DEF q
<1>6. OrderInv(q, db, initial)
    <2>1. PutsInitial(q, initial)
        BY <1>3, <1>4 DEF PutsInitial
    <2>2. ListedSoFar(q, db)
        BY <1>3, <1>4 DEF ListedSoFar
    <2>3. NamespacesFirst(q, db) /\ RefusedSoFar(q, db)
        BY <1>3, <1>4 DEF NamespacesFirst, RefusedSoFar
    <2> QED
        BY <2>1, <2>2, <2>3 DEF OrderInv
<1> QED
    BY <1>1, <1>2, <1>3, <1>4, <1>5, <1>6, GoesOn

\* A kind is listed as it is; a snapshot that a list call fails for is not
\* returned.
LEMMA SnapOrder ==
    ASSUME RestoreInv, Ordered, NEW r \in Reqs,
           SnapReturns(r) \/ \E k \in Kinds : List(r, k) \/ ListFails(r, k)
    PROVE  Ordered'
<1>0. /\ req \in [Reqs -> Requests] /\ req[r] \in Requests /\ req[r].pc = "list" /\ req[r].op = "snap"
      /\ OrderInv(req[r], db, initial) /\ OnlyPodsPlaced(req[r].snap)
      /\ OnlyPodsPlaced(db) /\ OnlyPodsPlaced(file)
      /\ db \in [Objs -> Object \cup {Gone}] /\ req[r].refused = {}
    BY DEF RestoreInv, TypeOK, SnapReturns, List, ListFails, RequestInv, Stages, Ordered,
           PlacedInv, OrderInv, NamespacesFirst
<1>1. CASE SnapReturns(r) /\ req[r].err
    <2>1. req' = [req EXCEPT ![r] = Failed(@)] /\ UNCHANGED <<db, initial, file>>
        BY <1>0, <1>1 DEF SnapReturns, WaitReturns
    <2> QED
        BY <2>1, FailOrder
<1>2. CASE SnapReturns(r) /\ ~req[r].err
    <2> DEFINE q == [Idle EXCEPT !.op = "snap", !.pc = "ok"]
    <2>1. req' = [req EXCEPT ![r] = q] /\ file' = req[r].snap /\ UNCHANGED <<db, initial>>
        BY <1>2 DEF SnapReturns
    <2>2. q.op = "snap" /\ q.pc = "ok" /\ q.refused = {} /\ q.snap = [o \in Objs |-> Gone]
        BY DEF Idle
    <2> HIDE DEF q
    <2>3. OrderInv(q, db, initial) /\ OnlyPodsPlaced(q.snap)
        BY <2>2 DEF OrderInv, PutsInitial, ListedSoFar, NamespacesFirst, RefusedSoFar, OnlyPodsPlaced
    <2> QED
        BY <1>0, <2>1, <2>3, GoesOn
<1>3. ASSUME NEW k \in Kinds, List(r, k)
      PROVE  Ordered'
    <2> DEFINE snap == [o \in Objs |-> IF o \in OfKind(k) THEN Exported(o) ELSE req[r].snap[o]]
               q == [req[r] EXCEPT !.tasks = @ \ OfKind(k), !.snap = snap]
    <2>1. req' = [req EXCEPT ![r] = q] /\ UNCHANGED <<db, initial, file>>
        BY <1>0, <1>3 DEF List
    <2>2. /\ q.op = "snap" /\ q.pc = "list" /\ q.tasks = req[r].tasks \ OfKind(k)
          /\ q.snap = snap /\ q.err = req[r].err /\ q.refused = {} /\ q.touched = req[r].touched
        BY <1>0 DEF Requests
    <2> HIDE DEF q
    <2>3. ListedSoFar(q, db)
        BY <1>0, <2>2 DEF OrderInv, ListedSoFar, Exported, There
    <2>4. OnlyPodsPlaced(q.snap)
        BY <1>0, <2>2, RestoreAssumption DEF OnlyPodsPlaced, Exported, There
    <2>5. OrderInv(q, db, initial)
        BY <2>2, <2>3 DEF OrderInv, PutsInitial, NamespacesFirst, RefusedSoFar
    <2> QED
        BY <1>0, <2>1, <2>4, <2>5, GoesOn
<1>4. ASSUME NEW k \in Kinds, ListFails(r, k)
      PROVE  Ordered'
    <2> DEFINE q == [req[r] EXCEPT !.tasks = @ \ OfKind(k), !.err = TRUE]
    <2>1. req' = [req EXCEPT ![r] = q] /\ UNCHANGED <<db, initial, file>>
        BY <1>0, <1>4 DEF ListFails
    <2>2. q.op = "snap" /\ q.pc = "list" /\ q.err /\ q.snap = req[r].snap /\ q.refused = {}
        BY <1>0 DEF Requests
    <2> HIDE DEF q
    <2>3. OrderInv(q, db, initial)
        BY <2>2 DEF OrderInv, PutsInitial, ListedSoFar, NamespacesFirst, RefusedSoFar
    <2> QED
        BY <1>0, <2>1, <2>2, <2>3, GoesOn
<1> QED
    BY <1>1, <1>2, <1>3, <1>4

\* A Load that keeps what it was refused, its file and what others wrote.
LEMMA LoadGoesOn ==
    ASSUME RestoreInv, Ordered, NEW r \in Reqs, req[r].pc \in {"restart"} \cup ApplyPhases,
           NEW q, req' = [req EXCEPT ![r] = q], UNCHANGED <<db, initial, file>>,
           q.op = "load", q.snap = req[r].snap, q.touched = req[r].touched, q.refused = req[r].refused,
           \/ q.pc = req[r].pc /\ (req[r].err => q.err)
           \/ req[r].pc = "restart" /\ q.pc = "namespaces"
           \/ /\ ~req[r].err /\ req[r].tasks = {}
              /\ \/ req[r].pc = "namespaces" /\ q.pc = "objects"
                 \/ req[r].pc = "objects" /\ q.pc = "volumes"
                 \/ q.pc = "ok"
    PROVE  Ordered'
<1>0. /\ req[r].op = "load" /\ AppliedSoFar(req[r], db) /\ OrderInv(req[r], db, initial)
      /\ OnlyPodsPlaced(req[r].snap) /\ OnlyPodsPlaced(file')
    BY LoadFacts DEF RequestInv, Ordered, PlacedInv
<1>1. RefusedSoFar(q, db)
    BY <1>0 DEF OrderInv, RefusedSoFar, Missing, Conflicts
<1>2. NamespacesFirst(q, db)
    <2>1. /\ q.refused # {} => q.pc \in ApplyPhases /\ q.err
          /\ q.pc = "namespaces" => \A o \in q.refused : IsNamespace(o)
        BY <1>0 DEF OrderInv, NamespacesFirst, ApplyPhases
    <2>2. ASSUME q.pc \in {"objects", "volumes"}, NEW n \in Objs, IsNamespace(n), Asked(q, n),
                 n \notin q.touched
          PROVE  db[n] # Gone
        <3>1. Asked(req[r], n)
            BY <2>2 DEF Asked
        <3>2. CASE req[r].pc \in {"objects", "volumes"}
            BY <1>0, <2>2, <3>1, <3>2 DEF OrderInv, NamespacesFirst
        <3>3. CASE req[r].pc = "namespaces" /\ req[r].tasks = {} /\ ~req[r].err
            <4>1. Handled(req[r], n)
                BY <2>2, <3>1, <3>3, Phases DEF Handled
            <4> QED
                BY <1>0, <2>2, <4>1 DEF AppliedSoFar
        <3> QED
            BY <2>2, <3>2, <3>3
    <2> QED
        BY <2>1, <2>2 DEF NamespacesFirst
<1>3. PutsInitial(q, initial) /\ ListedSoFar(q, db)
    BY DEF PutsInitial, ListedSoFar
<1> QED
    BY <1>0, <1>1, <1>2, <1>3, GoesOn DEF OrderInv

\* An object that the API server refuses is a pod, or there and not the one that
\* was saved any more, or needs a namespace that is missing: Load has applied all
\* that it was to apply.
LEMMA RefusedOrder ==
    ASSUME RestoreInv, Ordered, NEW r \in Reqs, req[r].pc \in ApplyPhases, NEW o \in Objs,
           o \in req[r].tasks, ~Admits(o, req[r].snap[o]),
           req' = [req EXCEPT ![r] = Refused(@, o)], UNCHANGED <<db, initial, file>>
    PROVE  Ordered'
<1> DEFINE q == Refused(req[r], o)
<1>0. /\ req[r] \in Requests /\ req[r].op = "load" /\ OrderInv(req[r], db, initial)
      /\ OnlyPodsPlaced(req[r].snap) /\ OnlyPodsPlaced(file')
      /\ Asked(req[r], o) /\ PhaseOf(o) = req[r].pc
    BY LoadFacts DEF RequestInv, TasksInPhase, Ordered, PlacedInv
<1>1. /\ q.op = "load" /\ q.pc = req[r].pc /\ q.err /\ q.snap = req[r].snap
      /\ q.touched = req[r].touched /\ q.refused = req[r].refused \cup {o}
    BY <1>0 DEF Requests, Refused, TaskEnds
<1>2. req' = [req EXCEPT ![r] = q]
    OBVIOUS
<1> HIDE DEF q
<1>3. o \notin Pods => \/ There(o) /\ req[r].snap[o].ver = "old"
                       \/ ~There(o) /\ \E n \in Needs[o] : ~There(n)
    BY <1>0 DEF Admits, Asked, OnlyPodsPlaced
<1>5. /\ req[r].pc = "namespaces" => IsNamespace(o)
      /\ req[r].pc # "namespaces" => req[r].pc \in {"objects", "volumes"} /\ ~IsNamespace(o)
    BY <1>0, Phases DEF ApplyPhases
<1>6. ASSUME o \notin Pods, ~There(o) PROVE \E n \in Objs : InNamespace(o, n) /\ Missing(q, db, n)
    <2>1. PICK n \in Objs : n \in Needs[o] /\ db[n] = Gone /\ IsNamespace(n)
        BY <1>3, <1>6, AdmissionAssumption, ObjectsAssumption DEF There
    <2>2. ~IsNamespace(o)
        BY <2>1, AdmissionAssumption
    <2>3. n \in req[r].touched \/ ~Asked(req[r], n)
        BY <1>0, <1>5, <2>1, <2>2 DEF OrderInv, NamespacesFirst
    <2>4. Missing(q, db, n)
        BY <1>1, <2>1, <2>3 DEF Missing, Asked, Ignored
    <2> QED
        BY <2>1, <2>4 DEF InNamespace
<1>7. RefusedSoFar(q, db)
    <2>1. o \notin Pods /\ There(o) => Conflicts(q, db, o)
        BY <1>1, <1>3 DEF Conflicts, There
    <2> QED
        BY <1>0, <1>1, <1>6, <2>1 DEF OrderInv, RefusedSoFar, Missing, Conflicts
<1>8. NamespacesFirst(q, db)
    BY <1>0, <1>1, <1>5 DEF OrderInv, NamespacesFirst, Asked, ApplyPhases
<1>9. PutsInitial(q, initial) /\ ListedSoFar(q, db)
    BY <1>1 DEF PutsInitial, ListedSoFar
<1> QED
    BY <1>0, <1>1, <1>2, <1>7, <1>8, <1>9, GoesOn DEF OrderInv

\* An object that is applied has its namespace; and a namespace is applied before
\* anything can be refused for want of it.
LEMMA AdmittedOrder ==
    ASSUME RestoreInv, Ordered, NEW r \in Reqs, NEW o \in Objs, Apply(r, o),
           Admits(o, req[r].snap[o])
    PROVE  Ordered'
<1> DEFINE f == req[r].snap[o]
           q == Ends(req[r], o)
           s == [req EXCEPT ![r] = q]
<1>0. /\ req[r].pc \in ApplyPhases /\ o \in req[r].tasks /\ ~LooksUp(r, o) /\ HasUid(o)
      /\ UNCHANGED initial
    BY DEF Apply, Applying
<1>1. /\ req \in [Reqs -> Requests] /\ req[r] \in Requests /\ req[r].op = "load"
      /\ db \in [Objs -> Object \cup {Gone}] /\ OrderInv(req[r], db, initial)
      /\ OnlyPodsPlaced(req[r].snap) /\ OnlyPodsPlaced(db) /\ NamespaceInv
      /\ Asked(req[r], o) /\ PhaseOf(o) = req[r].pc
    BY <1>0, LoadFacts DEF RequestInv, TasksInPhase, Ordered, PlacedInv
<1>2. PICK v \in Applied(o, f, Named(r, o)), W \in {{}, {o}} :
          /\ v # db[o] => W = {o}
          /\ db' = [db EXCEPT ![o] = v] /\ req' = Touched(r, W, s) /\ file' = Outdated(file, W)
    BY DEF Apply
<1>3. v \in Object /\ (o \notin Pods => ~v.placed)
    <2>1. v \in Object
        BY <1>2, AppliedByLoad
    <2>2. CASE There(o)
        <3>1. PICK c : v = [db[o] EXCEPT !.claim = c]
            BY <1>2, <2>2 DEF Applied
        <3>2. db[o] \in Object /\ (o \notin Pods => ~db[o].placed)
            BY <1>1, <2>2 DEF There, OnlyPodsPlaced
        <3>3. v.placed = db[o].placed
            BY <3>1, <3>2 DEF Object
        <3> QED
            BY <2>1, <3>2, <3>3
    <2>3. CASE ~There(o)
        <3>1. v = [uid |-> NewUid(o), claim |-> Named(r, o), bound |-> FALSE, placed |-> f.placed]
            BY <1>2, <2>3 DEF Applied
        <3>2. v.placed = f.placed
            BY <3>1
        <3> QED
            BY <1>1, <2>1, <3>2 DEF OnlyPodsPlaced, Asked
    <2> QED
        BY <2>2, <2>3
<1>4. /\ q \in Requests /\ q.op = "load" /\ q.pc = req[r].pc /\ q.err = req[r].err
      /\ q.snap = req[r].snap /\ q.touched = req[r].touched \ {o} /\ q.refused = req[r].refused
    BY <1>1, EndsOK
<1> HIDE DEF q
<1>5. s \in [Reqs -> Requests] /\ s[r] = q /\ \A x \in Reqs \ {r} : s[x] = req[x]
    BY <1>1, <1>4
<1>6. db'[o] = v /\ v # Gone /\ \A x \in Objs \ {o} : db'[x] = db[x]
    BY <1>1, <1>2, <1>3, RestoreAssumption
<1>7. OnlyPodsPlaced(db')
    BY <1>1, <1>3, <1>6 DEF OnlyPodsPlaced
<1>8. OrderInv(q, db', initial)
    <2>1. PutsInitial(q, initial) /\ ListedSoFar(q, db')
        BY <1>4 DEF PutsInitial, ListedSoFar
    <2>2. NamespacesFirst(q, db')
        BY <1>1, <1>4, <1>6 DEF OrderInv, NamespacesFirst, Asked
    <2>3. ASSUME NEW x \in q.refused \ Pods
          PROVE  Conflicts(q, db', x) \/ \E n \in Objs : InNamespace(x, n) /\ Missing(q, db', n)
        <3>0. x \in Objs /\ req[r].refused \subseteq Objs
            BY <1>1, <1>4 DEF Requests
        <3>1. CASE Conflicts(req[r], db, x)
            BY <1>4, <1>6, <3>0, <3>1 DEF Conflicts
        <3>2. CASE \E n \in Objs : InNamespace(x, n) /\ Missing(req[r], db, n)
            <4>1. PICK n \in Objs : InNamespace(x, n) /\ Missing(req[r], db, n)
                BY <3>2
            <4>2. req[r].pc \in {"objects", "volumes"}
                <5>1. ~IsNamespace(x)
                    BY <3>0, <4>1, AdmissionAssumption DEF InNamespace
                <5> QED
                    BY <1>1, <1>4, <5>1 DEF OrderInv, NamespacesFirst, ApplyPhases
            <4>3. n # o
                BY <1>1, <4>1, <4>2, Phases DEF InNamespace
            <4>4. Missing(q, db', n)
                BY <1>4, <1>6, <4>1, <4>3 DEF Missing
            <4> QED
                BY <4>1, <4>4
        <3> QED
            BY <1>1, <1>4, <3>1, <3>2 DEF OrderInv, RefusedSoFar
    <2>4. RefusedSoFar(q, db')
        BY <2>3 DEF RefusedSoFar
    <2> QED
        BY <2>1, <2>2, <2>4 DEF OrderInv
<1>9. \A n : ~Lost(req[r], n) /\ ~Awaited(req[r], n) /\ ~Lost(q, n) /\ ~Awaited(q, n)
    BY <1>1, <1>4 DEF Lost, Awaited
<1>10. ASSUME NEW n \in Objs
       PROVE  /\ (\E x \in Reqs : Lost(req[x], n)) => \E x \in Reqs : Lost(s[x], n)
              /\ (\E x \in Reqs : Lost(req[x], n) \/ Awaited(req[x], n))
                   => \E x \in Reqs : Lost(s[x], n) \/ Awaited(s[x], n)
    BY <1>5, <1>9
<1>11. ASSUME NEW x \in Objs, NEW n \in Objs, InNamespace(x, n), db'[x] # Gone, db'[n] = Gone
       PROVE  \E y \in Reqs : Lost(s[y], n) \/ Awaited(s[y], n)
    <2>1. db[x] # Gone /\ db[n] = Gone
        BY <1>6, <1>11 DEF InNamespace, Admits, There
    <2> QED
        BY <1>1, <1>10, <1>11, <2>1 DEF NamespaceInv
<1>12. W \in SUBSET Objs /\ \A x \in Objs \ W : db'[x] = db[x]
    BY <1>2, <1>6
<1>13. OnlyPodsPlaced(q.snap)
    BY <1>1, <1>4
<1> HIDE DEF s
<1> QED
    BY <1>0, <1>2, <1>4, <1>5, <1>7, <1>8, <1>10, <1>11, <1>12, <1>13, OrderWrite

\* The steps of Load, and of Snap, keep the order.
LEMMA SnapshotOrder ==
    ASSUME RestoreInv, Ordered, NEW r \in Reqs, SnapshotStep(r)
    PROVE  Ordered'
<1>1. CASE SnapReturns(r) \/ \E k \in Kinds : List(r, k) \/ ListFails(r, k)
    BY <1>1, SnapOrder
<1>2. ASSUME NEW o \in Objs, LookUpClaim(r, o) PROVE Ordered'
    <2>1. /\ req[r].pc \in ApplyPhases /\ UNCHANGED <<db, initial, file>>
          /\ req[r] \in Requests /\ req[r].op = "load" /\ req \in [Reqs -> Requests]
        BY <1>2, LoadFacts DEF LookUpClaim, Applying
    <2>2. PICK found, missed :
              req' = [req EXCEPT ![r] = [req[r] EXCEPT !.found = found, !.missed = missed]]
        <3>1. CASE req' = [req EXCEPT ![r].found[o] = IF There(ClaimOf[o]) THEN db[ClaimOf[o]].uid ELSE 0]
            <4> DEFINE uid == IF There(ClaimOf[o]) THEN db[ClaimOf[o]].uid ELSE 0
            <4>1. req' = [req EXCEPT ![r] = [req[r] EXCEPT !.found = [req[r].found EXCEPT ![o] = uid],
                                                           !.missed = req[r].missed]]
                BY <2>1, <3>1 DEF Requests
            <4> QED
                BY <4>1
        <3>2. CASE req' = [req EXCEPT ![r].found[o] = 0, ![r].missed = @ \cup {o}]
            <4>1. req' = [req EXCEPT ![r] = [req[r] EXCEPT !.found = [req[r].found EXCEPT ![o] = 0],
                                                           !.missed = req[r].missed \cup {o}]]
                BY <2>1, <3>2 DEF Requests
            <4> QED
                BY <4>1
        <3> QED
            BY <1>2, <3>1, <3>2 DEF LookUpClaim
    <2> DEFINE q == [req[r] EXCEPT !.found = found, !.missed = missed]
    <2>3. /\ q.op = "load" /\ q.pc = req[r].pc /\ q.err = req[r].err /\ q.snap = req[r].snap
          /\ q.touched = req[r].touched /\ q.refused = req[r].refused
        BY <2>1 DEF Requests
    <2>4. req' = [req EXCEPT ![r] = q]
        BY <2>2
    <2> HIDE DEF q
    <2> QED
        BY <2>1, <2>3, <2>4, LoadGoesOn
<1>3. ASSUME NEW o \in Objs, Apply(r, o) PROVE Ordered'
    <2>1. CASE Admits(o, req[r].snap[o])
        BY <1>3, <2>1, AdmittedOrder
    <2>2. CASE ~Admits(o, req[r].snap[o])
        <3>1. /\ req[r].pc \in ApplyPhases /\ o \in req[r].tasks /\ UNCHANGED <<db, initial, file>>
              /\ req' = [req EXCEPT ![r] = Refused(@, o)]
            BY <1>3, <2>2 DEF Apply, Applying
        <3> QED
            BY <2>2, <3>1, RefusedOrder
    <2> QED
        BY <2>1, <2>2
<1>4. ASSUME NEW o \in Objs, ApplyFails(r, o) PROVE Ordered'
    <2> DEFINE q == TaskEnds(req[r], o, TRUE)
    <2>1. /\ req' = [req EXCEPT ![r] = q] /\ UNCHANGED <<db, initial, file>>
          /\ req[r].pc \in ApplyPhases
        BY <1>4 DEF ApplyFails, Applying
    <2>2. req[r] \in Requests /\ req[r].op = "load"
        BY <2>1, LoadFacts
    <2>3. /\ q.op = "load" /\ q.pc = req[r].pc /\ q.err /\ q.snap = req[r].snap
          /\ q.touched = req[r].touched /\ q.refused = req[r].refused
        BY <2>2 DEF Requests, TaskEnds
    <2> HIDE DEF q
    <2> QED
        BY <2>1, <2>3, LoadGoesOn
<1>5. CASE RestartScheduler(r)
    <2>1. /\ req[r].pc = "restart" /\ UNCHANGED <<db, initial, file>>
          /\ \/ req' = [req EXCEPT ![r] = Failed(@)]
             \/ req' = [req EXCEPT ![r].pc = "namespaces", ![r].tasks = TasksOf(r, "namespaces")]
        BY <1>5 DEF RestartScheduler
    <2>2. CASE req' = [req EXCEPT ![r] = Failed(@)]
        BY <2>1, <2>2, FailOrder
    <2>3. CASE req' = [req EXCEPT ![r].pc = "namespaces", ![r].tasks = TasksOf(r, "namespaces")]
        <3> DEFINE q == [req[r] EXCEPT !.pc = "namespaces", !.tasks = TasksOf(r, "namespaces")]
        <3>1. req[r] \in Requests /\ req[r].op = "load" /\ req \in [Reqs -> Requests]
            BY <2>1, LoadFacts
        <3>2. req' = [req EXCEPT ![r] = q]
            BY <2>3, <3>1
        <3>3. /\ q.op = "load" /\ q.pc = "namespaces" /\ q.snap = req[r].snap
              /\ q.touched = req[r].touched /\ q.refused = req[r].refused
            BY <3>1 DEF Requests
        <3> HIDE DEF q
        <3> QED
            BY <2>1, <3>2, <3>3, LoadGoesOn
    <2> QED
        BY <2>1, <2>2, <2>3
<1>6. CASE NextPhase(r)
    <2>1. PICK pc, tasks :
              /\ WaitReturns(r, pc, tasks)
              /\ \/ req[r].pc = "namespaces" /\ pc = "objects"
                 \/ req[r].pc = "objects" /\ pc = "volumes"
                 \/ req[r].pc = "volumes" /\ pc = "ok"
        BY <1>6 DEF NextPhase, ApplyPhases
    <2>2. /\ UNCHANGED <<db, initial, file>> /\ req[r].pc \in ApplyPhases /\ req[r].tasks = {}
          /\ req[r] \in Requests /\ req[r].op = "load" /\ req \in [Reqs -> Requests]
        BY <1>6, <2>1, LoadFacts DEF NextPhase, WaitReturns
    <2>3. CASE req[r].err
        <3>1. req' = [req EXCEPT ![r] = Failed(@)]
            BY <2>1, <2>2, <2>3 DEF WaitReturns
        <3> QED
            BY <2>2, <3>1, FailOrder
    <2>4. CASE ~req[r].err
        <3> DEFINE q == [req[r] EXCEPT !.pc = pc, !.tasks = tasks]
        <3>1. req' = [req EXCEPT ![r] = q]
            BY <2>1, <2>2, <2>4 DEF WaitReturns
        <3>2. /\ q.op = "load" /\ q.pc = pc /\ q.snap = req[r].snap
              /\ q.touched = req[r].touched /\ q.refused = req[r].refused
            BY <2>2 DEF Requests
        <3> HIDE DEF q
        <3> QED
            BY <2>1, <2>2, <2>4, <3>1, <3>2, LoadGoesOn
    <2> QED
        BY <2>3, <2>4
<1> QED
    BY <1>1, <1>2, <1>3, <1>4, <1>5, <1>6 DEF SnapshotStep

-----------------------------------------------------------------------------
(***************************************************************************)
(* The theorems.                                                           *)
(***************************************************************************)

\* What is restored and applied so far: at first, and after every step.
LEMMA InitRestored == Init => RestoreInv
<1> SUFFICES ASSUME Init PROVE RestoreInv
    OBVIOUS
<1>1. /\ db \in [Objs -> Object \cup {Gone}] /\ initial = db
      /\ \A o \in Objs : db[o] # Gone => db[o].uid <= 1 /\ (o \in Claims => db[o].uid # 0)
      /\ file \in [Objs -> Saved \cup {Gone}] /\ req = [r \in Reqs |-> Idle]
      /\ lastUid = 1 /\ events = 0 /\ MaxUid \in Nat \ {0} /\ MaxEvents \in Nat
    BY RestoreAssumption DEF Init
<1>2. TypeOK
    BY <1>1, IdleOK DEF TypeOK, There
<1>3. UidsGiven
    BY <1>1 DEF UidsGiven, Given, Idle
<1>4. \A r \in Reqs : RequestInv(req[r], db, initial)
    BY <1>1, IdleOK
<1> QED
    BY <1>2, <1>3, <1>4 DEF RestoreInv

LEMMA NextRestored == RestoreInv /\ [Next]_vars => RestoreInv'
<1> SUFFICES ASSUME RestoreInv, [Next]_vars PROVE RestoreInv'
    OBVIOUS
<1>1. CASE UNCHANGED vars
    <2>1. UNCHANGED <<db, initial, file, req, lastUid, events>>
        BY <1>1 DEF vars
    <2> QED
        BY <2>1 DEF RestoreInv, TypeOK, UidsGiven, Given, There
<1>2. ASSUME NEW r \in Reqs, Snap(r) \/ Load(r) \/ ResetRequest(r) PROVE RestoreInv'
    BY <1>2, BeginStep
<1>3. ASSUME NEW r \in Reqs, RequestStep(r) PROVE RestoreInv'
    BY <1>3, SnapshotKeeps, ResetKeeps DEF RequestStep
<1>4. CASE OthersStep
    BY <1>4, OthersKeep
<1>5. CASE ServerRestart
    BY <1>5, RestartKeeps
<1> QED
    BY <1>1, <1>2, <1>3, <1>4, <1>5 DEF Next

\* The order of the steps: at first, and after every step.
LEMMA InitOrdered == Init => Ordered
<1> SUFFICES ASSUME Init PROVE Ordered
    OBVIOUS
<1>1. /\ db \in InitialClusters /\ initial = db /\ file \in Files
      /\ \A r \in Reqs : /\ req[r].op = "none" /\ req[r].pc = "idle" /\ req[r].refused = {}
                         /\ req[r].snap = [o \in Objs |-> Gone]
    BY DEF Init, Idle
<1>2. PlacedInv
    BY <1>1, AdmissionAssumption DEF PlacedInv, OnlyPodsPlaced
<1>3. NamespaceInv
    BY <1>1, AdmissionAssumption DEF NamespaceInv
<1>4. \A r \in Reqs : OrderInv(req[r], db, initial)
    BY <1>1 DEF OrderInv, PutsInitial, ListedSoFar, NamespacesFirst, RefusedSoFar
<1> QED
    BY <1>2, <1>3, <1>4 DEF Ordered

LEMMA NextOrdered == RestoreInv /\ Ordered /\ [Next]_vars => Ordered'
<1> SUFFICES ASSUME RestoreInv, Ordered, [Next]_vars PROVE Ordered'
    OBVIOUS
<1>1. CASE UNCHANGED vars
    <2>1. UNCHANGED <<db, initial, file, req, lastUid, events>>
        BY <1>1 DEF vars
    <2>2. NamespaceInv' /\ PlacedInv'
        BY <2>1 DEF Ordered, NamespaceInv, PlacedInv
    <2> QED
        BY <2>1, <2>2 DEF Ordered
<1>2. ASSUME NEW r \in Reqs, Snap(r) \/ Load(r) \/ ResetRequest(r) PROVE Ordered'
    BY <1>2, BeginOrder
<1>3. ASSUME NEW r \in Reqs, RequestStep(r) PROVE Ordered'
    BY <1>3, SnapshotOrder, ResetOrder DEF RequestStep
<1>4. CASE OthersStep
    BY <1>4, OthersOrder
<1>5. CASE ServerRestart
    BY <1>5, RestartOrder
<1> QED
    BY <1>1, <1>2, <1>3, <1>4, <1>5 DEF Next

\* The inductive invariant holds: each object that a Reset has put back or a
\* Load has applied stays so until someone else writes it (reset.go:58-85,
\* snapshot.go:154-192), and the order of the steps accounts for every object
\* that is without its namespace.
THEOREM RestoreInvariant == Spec => []IInv
<1>1. Init => IInv
    BY InitRestored, InitOrdered DEF IInv
<1>2. IInv /\ [Next]_vars => IInv'
    BY NextRestored, NextOrdered DEF IInv
<1> QED
    BY <1>1, <1>2, PTL DEF Spec

\* The variables of the cluster and of the requests have their types
\* (snapshot.go and reset.go).
THEOREM RestoreTypeCorrect == Spec => []TypeOK
<1>1. IInv => TypeOK
    BY DEF IInv, RestoreInv
<1> QED
    BY <1>1, RestoreInvariant, PTL

\* A Reset that answers with success has put every object back as it was when
\* the server started, except what others wrote meanwhile (reset.go:58-85).
THEOREM ResetRestoresAll == Spec => []ResetRestores
<1>1. IInv => ResetRestores
    BY DEF IInv, RestoreInv, RequestInv, PutSoFar, ResetRestores, Done
<1> QED
    BY <1>1, RestoreInvariant, PTL

\* A Load that answers with success has brought in every object of its file,
\* on a node if it was, except what others wrote since (snapshot.go:154-192).
THEOREM LoadAppliesAll == Spec => []LoadApplies
<1>1. ASSUME RestoreInv, NEW r \in Done("load"), NEW o \in Objs, InFile(r, o), o \notin req[r].touched
      PROVE  There(o) /\ (req[r].snap[o].placed => db[o].placed)
    <2>1. r \in Reqs /\ req[r].op = "load" /\ req[r].pc = "ok" /\ RequestInv(req[r], db, initial)
        BY <1>1 DEF Done, RestoreInv
    <2>2. Handled(req[r], o)
        BY <1>1, <2>1, Phases DEF Handled, Asked, InFile, PhasesDone, RequestInv, TasksInPhase
    <2> QED
        BY <1>1, <2>1, <2>2 DEF RequestInv, AppliedSoFar, There
<1>2. IInv => LoadApplies
    BY <1>1 DEF IInv, LoadApplies
<1> QED
    BY <1>2, RestoreInvariant, PTL

\* A loaded volume that was bound names the uid that its claim has in this
\* cluster, when its look-up had its answer and nobody else wrote either of
\* them (snapshot.go:442-467).
THEOREM ClaimsAreLocalAlways == Spec => []ClaimsAreLocal
<1>1. ASSUME RestoreInv, NEW r \in Done("load"), NEW v \in Volumes,
             InFile(r, v), req[r].snap[v].bound, v \notin req[r].missed,
             InFile(r, ClaimOf[v]), {v, ClaimOf[v]} \cap req[r].touched = {}
      PROVE  db[v].claim = db[ClaimOf[v]].uid
    <2>1. r \in Reqs /\ req[r].op = "load" /\ req[r].pc = "ok" /\ RequestInv(req[r], db, initial)
        BY <1>1 DEF Done, RestoreInv
    <2>2. v \in Objs /\ ClaimOf[v] \in Objs
        BY ObjectsAssumption DEF Volumes
    <2>3. Handled(req[r], v) /\ Handled(req[r], ClaimOf[v])
        BY <1>1, <2>1, <2>2, Phases
           DEF Handled, Asked, InFile, PhasesDone, RequestInv, TasksInPhase
    <2> QED
        BY <1>1, <2>1, <2>3 DEF RequestInv, NamesSoFar, InFile
<1>2. IInv => ClaimsAreLocal
    BY <1>1 DEF IInv, ClaimsAreLocal
<1> QED
    BY <1>2, RestoreInvariant, PTL

\* The API server refuses a Load another object than a pod only because the object
\* is there and was written since it was saved (the apply functions send the
\* resourceVersion of the file, snapshot.go:380-521), or for want of a namespace
\* that someone else wrote meanwhile, that a Reset has lost, or that is not in the
\* file: the phases are in the right order (snapshot.go:167-189).
THEOREM RefusalsHaveAReason == Spec => []RefusedForAReason
<1>1. IInv => RefusedForAReason
    BY DEF IInv, Ordered, OrderInv, RefusedForAReason
<1> QED
    BY <1>1, RestoreInvariant, PTL

\* Unless a Reset is under way or failed, only what is in a namespace that
\* someone wrote in the middle of a Reset is without it (reset.go:58-85).
THEOREM NoOrphansAlways == Spec => []NoOrphans
<1>1. ASSUME IInv, ResetNotUnderWay, NEW o \in Orphans, NEW n \in Objs, InNamespace(o, n), ~There(n)
      PROVE  \E r \in Reqs : req[r].op = "reset" /\ n \in req[r].touched
    <2>1. \E r \in Reqs : Lost(req[r], n) \/ Awaited(req[r], n)
        BY <1>1 DEF IInv, Ordered, NamespaceInv, Orphans, There
    <2> QED
        BY <1>1, <2>1 DEF Lost, Awaited, ResetNotUnderWay
<1>2. IInv => NoOrphans
    BY <1>1 DEF NoOrphans
<1> QED
    BY <1>2, RestoreInvariant, PTL

\* A snapshot during which nobody wrote, in a cluster where nothing is without
\* its namespace, has the namespaces of its objects (snapshot.go:119-152).
THEOREM SnapshotsHaveNamespaces == Spec => SnapHasNamespaces
<1> DEFINE A == \A r \in Reqs :
                  SnapReturns(r) /\ req'[r].pc = "ok" /\ req[r].touched = {} /\ Orphans = {}
                      => HasNamespaces(file')
<1>1. ASSUME IInv, NEW r \in Reqs, SnapReturns(r), req'[r].pc = "ok", req[r].touched = {}, Orphans = {}
      PROVE  HasNamespaces(file')
    <2>1. /\ req \in [Reqs -> Requests] /\ req[r] \in Requests /\ req[r].pc = "list"
          /\ req[r].tasks = {} /\ req[r].op = "snap" /\ ListedSoFar(req[r], db)
        BY <1>1 DEF SnapReturns, IInv, RestoreInv, TypeOK, RequestInv, Stages, Ordered, OrderInv
    <2>2. ~req[r].err
        <3> SUFFICES ASSUME req[r].err PROVE FALSE
            OBVIOUS
        <3>1. req'[r] = Failed(req[r])
            BY <1>1, <2>1 DEF SnapReturns, WaitReturns
        <3> QED
            BY <1>1, <3>1, FailedOrder
    <2>3. file' = req[r].snap
        BY <1>1, <2>2 DEF SnapReturns
    <2>4. \A o \in Objs : file'[o] = Gone <=> db[o] = Gone \/ o \in System
        <3>1. ASSUME NEW o \in Objs, db[o] # Gone
              PROVE  [claim |-> db[o].claim, bound |-> db[o].bound, placed |-> db[o].placed,
                      ver |-> "current"] # Gone
            <4>1. db[o] \in Object
                BY <1>1, <3>1 DEF IInv, RestoreInv, TypeOK
            <4>2. [claim |-> db[o].claim, bound |-> db[o].bound, placed |-> db[o].placed,
                   ver |-> "current"] \in Saved
                BY <4>1 DEF Object, Saved
            <4> QED
                BY <4>2, RestoreAssumption
        <3> QED
            BY <1>1, <2>1, <2>2, <2>3, <3>1 DEF ListedSoFar, Ignored
    <2>5. \A o, n \in Objs : InNamespace(o, n) /\ db[o] # Gone => db[n] # Gone
        BY <1>1 DEF Orphans, There
    <2> QED
        BY <2>4, <2>5 DEF HasNamespaces
<1>2. IInv /\ [Next]_vars => [A]_vars
    BY <1>1
<1> QED
    BY <1>2, RestoreInvariant, PTL DEF Spec, SnapHasNamespaces

=============================================================================
