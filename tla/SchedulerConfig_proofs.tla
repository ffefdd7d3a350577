----------------------- MODULE SchedulerConfig_proofs -----------------------
(***************************************************************************)
(* Proofs about SchedulerConfig, for any number of requests, any           *)
(* configurations, and any bounds: its types, and that a request with no   *)
(* other in flight leaves the file as it reports, or as it was.            *)
(***************************************************************************)
EXTENDS SchedulerConfig, TLAPS

-----------------------------------------------------------------------------
(***************************************************************************)
(* The configuration file's documents.                                     *)
(***************************************************************************)

\* The document of a configuration is a document, and that of a configuration
\* that decodes is itself.
LEMMA DocumentType ==
    /\ \A cfg \in Config \cup {NoConfig} : DocumentOf(cfg) \in Document
    /\ \A doc : Decodes(doc) => doc \in Config /\ DocumentOf(doc) = doc
BY ConfigAssumption DEF DocumentOf, Decodes, Document

\* What GetSchedulerCfg returns is a configuration.
LEMMA ReadConfigType ==
    ASSUME Readable, configured \in BOOLEAN
    PROVE  /\ ReadConfig \in Config
           /\ configured => ReadConfig = file /\ Decodes(file)
BY ConfigAssumption DEF ReadConfig, Readable, Decodes

\* A request attempts its own configuration, or the old one.
LEMMA TargetType ==
    ASSUME TypeOK, NEW r \in Requests, pc[r] # "idle"
    PROVE  /\ job[r] \in Job
           /\ Target(r) \in Config \cup {NoConfig}
           /\ Written(r) \in Document
BY DocumentType DEF TypeOK, Target, Written, Job

-----------------------------------------------------------------------------
(***************************************************************************)
(* Types.                                                                  *)
(***************************************************************************)

\* The variables of the requests have their types when one of them ends.
LEMMA EndType ==
    ASSUME TypeOK, NEW r \in Requests, pc[r] # "idle",
           NEW how \in {"clean", "rolledBack", "failed"}, End(r, how)
    PROVE  /\ pc' \in [Requests -> PC]
           /\ job' \in [Requests -> Job \cup {NoJob}]
           /\ \A q \in Requests : pc'[q] # "idle" => job'[q] \in Job
           /\ last' \in Outcome \cup {NoOutcome}
           /\ started' \in Nat
BY DEF End, TypeOK, PC, Outcome

\* ... and when an attempt of one of them fails.
LEMMA AttemptFailsType ==
    ASSUME TypeOK, NEW r \in Requests, pc[r] # "idle", AttemptFails(r)
    PROVE  /\ pc' \in [Requests -> PC]
           /\ job' \in [Requests -> Job \cup {NoJob}]
           /\ \A q \in Requests : pc'[q] # "idle" => job'[q] \in Job
           /\ last' \in Outcome \cup {NoOutcome}
           /\ started' \in Nat
<1>1. CASE job[r].attempt = 1
    <2>1. job[r] \in Job
        BY DEF TypeOK
    <2>2. [job[r] EXCEPT !.attempt = 2] \in Job
        BY <2>1 DEF Job
    <2> QED
        BY <1>1, <2>2 DEF AttemptFails, TypeOK, PC
<1>2. CASE job[r].attempt # 1
    BY <1>2, EndType DEF AttemptFails
<1> QED
    BY <1>1, <1>2

\* ... and when one of them goes on to its next call.
LEMMA AdvanceType ==
    ASSUME TypeOK, NEW r \in Requests, NEW from \in PC \ {"idle"}, NEW to \in PC,
           Advance(r, from, to)
    PROVE  /\ pc' \in [Requests -> PC]
           /\ job' \in [Requests -> Job \cup {NoJob}]
           /\ \A q \in Requests : pc'[q] # "idle" => job'[q] \in Job
           /\ last' \in Outcome \cup {NoOutcome}
           /\ started' \in Nat
BY DEF Advance, TypeOK, PC

\* A request that begins has a well-formed job.
LEMMA BeginType ==
    ASSUME TypeOK, NEW r \in Requests, NEW kind \in Kind,
           NEW cfg \in Config \cup {NoConfig}, Begin(r, kind, cfg)
    PROVE  TypeOK'
<1> DEFINE new == [kind |-> kind, cfg |-> cfg, old |-> NoConfig,
                   attempt |-> 1, alone |-> AtRest, before |-> file,
                   seen |-> faults]
<1>1. new \in Job
    BY DEF Job, TypeOK, AtRest
<1>2. \A q \in Requests :
          pc[q] # "idle" => [job[q] EXCEPT !.alone = FALSE] \in Job
    <2> SUFFICES ASSUME NEW q \in Requests, pc[q] # "idle"
                 PROVE  [job[q] EXCEPT !.alone = FALSE] \in Job
        OBVIOUS
    <2>1. job[q] \in Job
        BY DEF TypeOK
    <2> QED
        BY <2>1 DEF Job
<1>3. \A q \in Requests :
          /\ job'[q] \in Job \cup {NoJob}
          /\ pc'[q] \in PC
          /\ pc'[q] # "idle" => job'[q] \in Job
    BY <1>1, <1>2 DEF Begin, TypeOK, PC
<1>4. /\ job' = [q \in Requests |-> job'[q]]
      /\ pc' = [q \in Requests |-> pc'[q]]
    BY DEF Begin, TypeOK
<1>5. /\ pc' \in [Requests -> PC]
      /\ job' \in [Requests -> Job \cup {NoJob}]
    BY <1>3, <1>4
<1> QED
    BY <1>3, <1>5 DEF Begin, TypeOK, serverVars, procVars

\* The configurations requests are made for are configurations.
LEMMA RequestType ==
    ASSUME TypeOK, NEW r \in Requests, Request(r)
    PROVE  TypeOK'
<1>1. CASE Apply(r)
    <2>1. PICK p \in Applied : Begin(r, "apply", WithProfiles(p))
        BY <1>1 DEF Apply
    <2>2. WithProfiles(p) \in Config
        BY <1>1, ConfigAssumption DEF Apply, WithProfiles, TypeOK, Config
    <2> QED
        BY <2>1, <2>2, BeginType DEF Kind
<1>2. CASE Reset(r)
    <2>1. initial \in Config
        BY DEF TypeOK
    <2> QED
        BY <1>2, <2>1, BeginType DEF Reset, Kind
<1>3. CASE Import(r)
    BY <1>3, ConfigAssumption, BeginType DEF Import, Kind
<1> QED
    BY <1>1, <1>2, <1>3 DEF Request

\* A step of a request keeps the types.
LEMMA AttemptType ==
    ASSUME TypeOK, NEW r \in Requests, Attempt(r)
    PROVE  TypeOK'
<1>1. CASE ReadOld(r)
    <2>1. CASE Readable
        <3>1. job[r] \in Job /\ configured \in BOOLEAN
            BY <1>1, ConfigAssumption DEF ReadOld, TypeOK
        <3>2. [job[r] EXCEPT !.old = ReadConfig] \in Job
            BY <2>1, <3>1, ReadConfigType DEF Job
        <3> QED
            BY <1>1, <2>1, <3>2 DEF ReadOld, TypeOK, PC, serverVars, procVars
    <2>2. CASE ~Readable
        BY <1>1, <2>2, EndType DEF ReadOld, TypeOK, serverVars, procVars
    <2> QED
        BY <2>1, <2>2
<1>2. CASE Find(r)
    BY <1>2, AdvanceType DEF Find, TypeOK, PC, serverVars, procVars
<1>3. CASE NotFound(r)
    BY <1>3, AttemptFailsType DEF NotFound, TypeOK, serverVars, procVars
<1>4. CASE Truncate(r)
    BY <1>4, AdvanceType DEF Truncate, TypeOK, PC, Document, serverVars, procVars
<1>5. CASE Write(r)
    <2>1. pc[r] # "idle"
        BY <1>5 DEF Write, Advance
    <2>2. file' \in Document
        BY <1>5, <2>1, TargetType DEF Write, Document
    <2> QED
        BY <1>5, <2>2, AdvanceType DEF Write, TypeOK, PC, serverVars, procVars
<1>6. CASE Restart(r)
    BY <1>6, AdvanceType DEF Restart, TypeOK, PC, serverVars
<1>7. CASE Inspect(r)
    <2>1. pc[r] # "idle"
        BY <1>7 DEF Inspect
    <2>2. job[r] \in Job
        BY <2>1 DEF TypeOK
    <2>3. CurrentAfter(r) \in Config \cup {NoConfig}
        BY <2>2 DEF CurrentAfter, Job
    <2>4. CASE proc \in {"starting", "up"}
        BY <1>7, <2>1, <2>3, <2>4, EndType DEF Inspect, TypeOK, procVars
    <2>5. CASE proc \notin {"starting", "up"}
        BY <1>7, <2>1, <2>5, AttemptFailsType DEF Inspect, TypeOK, procVars
    <2> QED
        BY <2>4, <2>5
<1> QED
    BY <1>1, <1>2, <1>3, <1>4, <1>5, <1>6, <1>7 DEF Attempt

\* A failing call keeps the types.
LEMMA CallFailsType ==
    ASSUME TypeOK, NEW r \in Requests, CallFails(r)
    PROVE  TypeOK'
<1>1. pc[r] # "idle"
    BY DEF CallFails
<1> QED
    BY <1>1, AttemptFailsType DEF CallFails, TypeOK, serverVars, procVars

\* The processes keep the types.
LEMMA ProcessType ==
    ASSUME TypeOK, Load \/ StartAgain \/ Exit \/ ServerExit \/ ServerStart
    PROVE  TypeOK'
<1>1. CASE Load
    BY <1>1, ConfigAssumption DEF Load, TypeOK, serverVars, jobVars
<1>2. CASE StartAgain
    BY <1>2 DEF StartAgain, TypeOK, serverVars, jobVars
<1>3. CASE Exit
    BY <1>3 DEF Exit, TypeOK, serverVars, jobVars
<1>4. CASE ServerExit
    BY <1>4 DEF ServerExit, TypeOK, PC, procVars
<1>5. CASE ServerStart
    <2>1. configured \in BOOLEAN
        BY ConfigAssumption DEF TypeOK
    <2>2. ReadConfig \in Config
        BY <1>5, <2>1, ReadConfigType DEF ServerStart
    <2> QED
        BY <1>5, <2>2 DEF ServerStart, TypeOK, procVars, jobVars
<1> QED
    BY <1>1, <1>2, <1>3, <1>4, <1>5

\* The first state is well typed.
LEMMA InitType == Init => TypeOK
<1> SUFFICES ASSUME Init PROVE TypeOK
    OBVIOUS
<1>1. configured \in BOOLEAN /\ file \in Config \ Undecodable
    BY ConfigAssumption DEF Init
<1>2. ReadConfig \in Config
    BY <1>1, ReadConfigType DEF Readable, Decodes
<1> QED
    BY <1>1, <1>2 DEF Init, TypeOK, PC, Document

\* Every step keeps the types.
LEMMA TypeStep == TypeOK /\ [Next]_vars => TypeOK'
<1> SUFFICES ASSUME TypeOK, [Next]_vars PROVE TypeOK'
    OBVIOUS
<1>1. ASSUME NEW r \in Requests, Request(r) \/ Attempt(r) \/ CallFails(r)
      PROVE  TypeOK'
    BY <1>1, RequestType, AttemptType, CallFailsType
<1>2. CASE Load \/ StartAgain \/ Exit \/ ServerExit \/ ServerStart
    BY <1>2, ProcessType
<1>3. CASE UNCHANGED vars
    BY <1>3 DEF TypeOK, vars, serverVars, procVars, jobVars
<1> QED
    BY <1>1, <1>2, <1>3 DEF Next

\* Every variable of the scheduler service, the file and the containers keeps
\* its type.
THEOREM SchedulerTypeCorrect == Spec => []TypeOK
BY InitType, TypeStep, PTL DEF Spec

-----------------------------------------------------------------------------
(***************************************************************************)
(* The inductive invariant.                                                *)
(***************************************************************************)

\* When a request that is alone ends, what it reports agrees with the file if
\* it is clean, and the file is restored if it is rolled back.
LEMMA EndInv ==
    ASSUME FileInv, TypeOK', NEW r \in Requests, pc[r] # "idle",
           NEW how \in {"clean", "rolledBack", "failed"}, End(r, how),
           UNCHANGED <<configured, server, file>>,
           job[r].alone /\ how = "clean" =>
               current' = job[r].cfg /\ file = DocumentOf(job[r].cfg),
           job[r].alone /\ how = "rolledBack" /\ configured =>
               file = job[r].before
    PROVE  FileInv'
<1>1. DownIsIdle'
    BY DEF FileInv, DownIsIdle, AtRest, End, TypeOK
<1>2. AloneIsAlone'
    BY DEF FileInv, AloneIsAlone, End, TypeOK
<1>3. AloneOwnsFile'
    <2> SUFFICES ASSUME NEW q \in Requests, pc'[q] # "idle", job'[q].alone
                 PROVE  FALSE
        BY DEF AloneOwnsFile
    <2>1. q # r /\ pc[q] # "idle" /\ job[q].alone
        BY DEF End, FileInv, TypeOK
    <2> QED
        BY <2>1 DEF FileInv, AloneIsAlone
<1>7. AloneOwnsCurrent'
    <2> SUFFICES ASSUME NEW q \in Requests, pc'[q] # "idle", job'[q].alone
                 PROVE  FALSE
        BY DEF AloneOwnsCurrent
    <2>1. q # r /\ pc[q] # "idle" /\ job[q].alone
        BY DEF End, FileInv, TypeOK
    <2> QED
        BY <2>1 DEF FileInv, AloneIsAlone
<1>4. last'.job = job[r] /\ last'.how = how
    BY DEF End
<1>5. CleanRequestAgrees'
    BY <1>4 DEF CleanRequestAgrees, Ended
<1>6. RollbackRestoresFile'
    BY <1>4 DEF RollbackRestoresFile, Ended
<1> QED
    BY <1>1, <1>2, <1>3, <1>5, <1>6, <1>7 DEF FileInv

\* When a request that is in flight goes on and stays in flight, nothing ends,
\* and its claim on the file is all there is to show.
LEMMA GoOnInv ==
    ASSUME FileInv, TypeOK', NEW r \in Requests, pc[r] # "idle", pc'[r] # "idle",
           \A q \in Requests \ {r} : pc'[q] = pc[q] /\ job'[q] = job[q],
           job'[r].alone = job[r].alone,
           job'[r].kind = job[r].kind,
           job'[r].cfg = job[r].cfg,
           UNCHANGED <<configured, server, current, last>>,
           job[r].alone =>
               /\ pc'[r] = "readold" => file' = job'[r].before
               /\ pc'[r] # "readold" /\ configured =>
                     /\ job'[r].old = job'[r].before
                     /\ Decodes(job'[r].before)
               /\ pc'[r] = "write" => file' = EmptyFile
               /\ pc'[r] \in {"restart", "inspect"} => file' = Written(r)'
    PROVE  FileInv'
<1>1. ~AtRest /\ ~AtRest'
    BY DEF AtRest
<1>2. DownIsIdle' /\ CleanRequestAgrees' /\ RollbackRestoresFile'
    BY <1>1 DEF FileInv, DownIsIdle, CleanRequestAgrees, RollbackRestoresFile, Ended
<1>3. AloneIsAlone'
    BY DEF FileInv, AloneIsAlone
<1>4. AloneOwnsFile'
    <2> SUFFICES ASSUME NEW q \in Requests, pc'[q] # "idle", job'[q].alone
                 PROVE  q = r
        BY DEF AloneOwnsFile
    <2>1. q # r => pc[q] # "idle" /\ job[q].alone
        OBVIOUS
    <2> QED
        BY <2>1 DEF FileInv, AloneIsAlone
<1>5. AloneOwnsCurrent'
    <2> SUFFICES ASSUME NEW q \in Requests, pc'[q] # "idle", job'[q].alone,
                        job'[q].kind = "apply"
                 PROVE  current \in Config /\ job'[q].cfg.rest = current.rest
        BY DEF AloneOwnsCurrent
    <2>1. /\ pc[q] # "idle" /\ job[q].alone /\ job[q].kind = "apply"
          /\ job'[q].cfg = job[q].cfg
        OBVIOUS
    <2> QED
        BY <2>1 DEF FileInv, AloneOwnsCurrent
<1> QED
    BY <1>2, <1>3, <1>4, <1>5 DEF FileInv

\* A request that begins while others are in flight is not alone, nor are they;
\* one that begins alone finds the file as it notes it.
LEMMA BeginInv ==
    ASSUME FileInv, TypeOK', NEW r \in Requests, NEW kind, NEW cfg,
           Begin(r, kind, cfg),
           kind = "apply" => current \in Config /\ cfg.rest = current.rest
    PROVE  FileInv'
<1>1. ~AtRest'
    BY DEF Begin, AtRest, FileInv, TypeOK
<1>2. server = "up" /\ server' = "up"
    BY DEF Begin, serverVars
<1>3. DownIsIdle' /\ CleanRequestAgrees' /\ RollbackRestoresFile'
    BY <1>1, <1>2 DEF DownIsIdle, CleanRequestAgrees, RollbackRestoresFile, Ended
<1>4. /\ pc'[r] = "readold" /\ job'[r].alone = AtRest
      /\ job'[r].before = file /\ file' = file
      /\ job'[r].kind = kind /\ job'[r].cfg = cfg /\ current' = current
    BY DEF Begin, FileInv, TypeOK, serverVars
<1>5. ASSUME NEW q \in Requests, q # r, pc'[q] # "idle"
      PROVE  pc[q] # "idle" /\ job'[q].alone = FALSE
    <2>1. pc[q] # "idle" /\ job'[q] = [job[q] EXCEPT !.alone = FALSE]
        BY <1>5 DEF Begin, FileInv, TypeOK
    <2>2. job[q] \in Job
        BY <2>1 DEF FileInv, TypeOK
    <2> QED
        BY <2>1, <2>2 DEF Job
<1>6. AloneIsAlone'
    <2> SUFFICES ASSUME NEW p \in Requests, NEW q \in Requests,
                        pc'[p] # "idle", job'[p].alone, pc'[q] # "idle"
                 PROVE  q = p
        BY DEF AloneIsAlone
    <2>1. p = r /\ AtRest
        BY <1>4, <1>5
    <2>2. q = r
        BY <2>1, <1>5 DEF AtRest
    <2> QED
        BY <2>1, <2>2
<1>7. AloneOwnsFile'
    <2> SUFFICES ASSUME NEW q \in Requests, pc'[q] # "idle", job'[q].alone
                 PROVE  /\ pc'[q] = "readold"
                        /\ file' = job'[q].before
        BY DEF AloneOwnsFile
    <2>1. q = r
        BY <1>5
    <2> QED
        BY <2>1, <1>4
<1>8. AloneOwnsCurrent'
    <2> SUFFICES ASSUME NEW q \in Requests, pc'[q] # "idle", job'[q].alone,
                        job'[q].kind = "apply"
                 PROVE  current' \in Config /\ job'[q].cfg.rest = current'.rest
        BY DEF AloneOwnsCurrent
    <2>1. q = r
        BY <1>5
    <2> QED
        BY <2>1, <1>4
<1> QED
    BY <1>3, <1>6, <1>7, <1>8 DEF FileInv

\* Reading the old configuration keeps the invariant.
LEMMA ReadOldInv ==
    ASSUME FileInv, TypeOK', NEW r \in Requests, ReadOld(r)
    PROVE  FileInv'
<1>1. /\ pc[r] = "readold"
      /\ UNCHANGED <<configured, server, current, file>>
    BY DEF ReadOld, serverVars
<1>2. job[r] \in Job /\ configured \in BOOLEAN
    BY <1>1, ConfigAssumption DEF FileInv, TypeOK
<1>3. CASE Readable
    <2>1. /\ pc' = [pc EXCEPT ![r] = "find"]
          /\ job' = [job EXCEPT ![r].old = ReadConfig]
          /\ last' = last
        BY <1>3 DEF ReadOld
    <2>2. pc'[r] = "find" /\ job'[r] = [job[r] EXCEPT !.old = ReadConfig]
        BY <2>1 DEF FileInv, TypeOK
    <2>3. /\ job'[r].alone = job[r].alone
          /\ job'[r].kind = job[r].kind
          /\ job'[r].cfg = job[r].cfg
          /\ job'[r].before = job[r].before
          /\ job'[r].old = ReadConfig
        BY <1>2, <2>2 DEF Job
    <2>4. \A q \in Requests \ {r} : pc'[q] = pc[q] /\ job'[q] = job[q]
        BY <2>1 DEF FileInv, TypeOK
    <2>5. job[r].alone /\ configured =>
              job'[r].old = job'[r].before /\ Decodes(job'[r].before)
        BY <1>1, <1>2, <1>3, <2>3, ReadConfigType DEF FileInv, AloneOwnsFile
    <2> QED
        BY <1>1, <2>1, <2>2, <2>3, <2>4, <2>5, GoOnInv
<1>4. CASE ~Readable
    BY <1>1, <1>4, EndInv DEF ReadOld
<1> QED
    BY <1>3, <1>4

\* An attempt that fails keeps the invariant.
LEMMA AttemptFailsInv ==
    ASSUME FileInv, TypeOK', NEW r \in Requests, pc[r] \notin {"idle", "readold"},
           AttemptFails(r), UNCHANGED <<configured, server, current, file>>
    PROVE  FileInv'
<1>1. job[r] \in Job
    BY DEF FileInv, TypeOK
<1>2. CASE job[r].attempt = 1
    <2>1. /\ pc' = [pc EXCEPT ![r] = "find"]
          /\ job' = [job EXCEPT ![r].attempt = 2]
          /\ last' = last
        BY <1>2 DEF AttemptFails
    <2>2. pc'[r] = "find" /\ job'[r] = [job[r] EXCEPT !.attempt = 2]
        BY <2>1 DEF FileInv, TypeOK
    <2>3. /\ job'[r].alone = job[r].alone
          /\ job'[r].kind = job[r].kind
          /\ job'[r].cfg = job[r].cfg
          /\ job'[r].before = job[r].before
          /\ job'[r].old = job[r].old
        BY <1>1, <2>2 DEF Job
    <2>4. \A q \in Requests \ {r} : pc'[q] = pc[q] /\ job'[q] = job[q]
        BY <2>1 DEF FileInv, TypeOK
    <2>5. job[r].alone /\ configured =>
              job'[r].old = job'[r].before /\ Decodes(job'[r].before)
        BY <2>3 DEF FileInv, AloneOwnsFile
    <2> QED
        BY <2>1, <2>2, <2>3, <2>4, <2>5, GoOnInv
<1>3. CASE job[r].attempt # 1
    BY <1>3, EndInv DEF AttemptFails
<1> QED
    BY <1>2, <1>3

\* The calls of an attempt keep the invariant: a lone request finds the file as
\* it left it.
LEMMA AdvanceInv ==
    ASSUME FileInv, TypeOK', NEW r \in Requests,
           NEW from \in PC \ {"idle", "readold"},
           NEW to \in PC \ {"idle", "readold"}, Advance(r, from, to),
           UNCHANGED <<configured, server, current>>,
           job[r].alone =>
               /\ to = "write" => file' = EmptyFile
               /\ to \in {"restart", "inspect"} => file' = Written(r)
    PROVE  FileInv'
<1>1. pc'[r] = to /\ pc[r] = from /\ job' = job /\ last' = last
    BY DEF Advance, FileInv, TypeOK
<1>2. \A q \in Requests \ {r} : pc'[q] = pc[q]
    BY DEF Advance, FileInv, TypeOK
<1>3. Written(r)' = Written(r)
    BY <1>1 DEF Written, Target
<1>4. job[r].alone /\ configured =>
          job[r].old = job[r].before /\ Decodes(job[r].before)
    BY <1>1 DEF FileInv, AloneOwnsFile
<1> QED
    BY <1>1, <1>2, <1>3, <1>4, GoOnInv

\* Looking at the container keeps the invariant.
LEMMA InspectInv ==
    ASSUME FileInv, TypeOK', NEW r \in Requests, Inspect(r)
    PROVE  FileInv'
<1>1. pc[r] = "inspect" /\ UNCHANGED <<configured, server, file>>
    BY DEF Inspect
<1>2. job[r] \in Job
    BY <1>1 DEF FileInv, TypeOK
<1>3. CASE proc \in {"starting", "up"}
    <2>1. current' = job[r].cfg
        BY <1>3 DEF Inspect, CurrentAfter
    <2>2. job[r].alone => file = DocumentOf(Target(r))
        BY <1>1 DEF FileInv, AloneOwnsFile, Written
    <2>3. CASE job[r].attempt = 1
        <3>1. End(r, "clean")
            BY <1>3, <2>3 DEF Inspect
        <3>2. Target(r) = job[r].cfg
            BY <2>3 DEF Target
        <3> QED
            BY <1>1, <2>1, <2>2, <3>1, <3>2, EndInv
    <2>4. CASE job[r].attempt # 1
        <3>1. End(r, "rolledBack")
            BY <1>3, <2>4 DEF Inspect
        <3>2. Target(r) = job[r].old
            BY <2>4 DEF Target
        <3>3. job[r].alone /\ configured => DocumentOf(job[r].old) = job[r].before
            BY <1>1, DocumentType DEF FileInv, AloneOwnsFile
        <3> QED
            BY <1>1, <2>2, <3>1, <3>2, <3>3, EndInv
    <2> QED
        BY <2>3, <2>4
<1>4. CASE proc \notin {"starting", "up"}
    BY <1>1, <1>4, AttemptFailsInv DEF Inspect
<1> QED
    BY <1>3, <1>4

\* Every step of a request keeps the invariant.
LEMMA AttemptInv ==
    ASSUME FileInv, TypeOK', NEW r \in Requests, Attempt(r)
    PROVE  FileInv'
<1>1. CASE ReadOld(r)
    BY <1>1, ReadOldInv
<1>2. CASE Find(r)
    BY <1>2, AdvanceInv DEF Find, PC, serverVars
<1>3. CASE NotFound(r)
    BY <1>3, AttemptFailsInv DEF NotFound, serverVars
<1>4. CASE Truncate(r)
    BY <1>4, AdvanceInv DEF Truncate, PC, serverVars
<1>5. CASE Write(r)
    <2>1. pc[r] = "write"
        BY <1>5 DEF Write, Advance
    <2>2. job[r].alone => file = EmptyFile
        BY <2>1 DEF FileInv, AloneOwnsFile
    <2>3. job[r].alone => file' = Written(r)
        BY <1>5, <2>2 DEF Write
    <2> QED
        BY <1>5, <2>3, AdvanceInv DEF Write, PC, serverVars
<1>6. CASE Restart(r)
    <2>1. pc[r] = "restart" /\ file' = file
        BY <1>6 DEF Restart, Advance
    <2>2. job[r].alone => file' = Written(r)
        BY <2>1 DEF FileInv, AloneOwnsFile
    <2> QED
        BY <1>6, <2>2, AdvanceInv DEF Restart, PC, serverVars
<1>7. CASE Inspect(r)
    BY <1>7, InspectInv
<1> QED
    BY <1>1, <1>2, <1>3, <1>4, <1>5, <1>6, <1>7 DEF Attempt

\* The scheduler's process does not touch what the invariant is about.
LEMMA ProcessInv ==
    ASSUME FileInv, TypeOK', UNCHANGED <<serverVars, file, jobVars>>
    PROVE  FileInv'
<1>1. AtRest' = AtRest
    BY DEF AtRest, jobVars
<1>2. DownIsIdle' /\ CleanRequestAgrees' /\ RollbackRestoresFile'
    BY <1>1 DEF FileInv, DownIsIdle, CleanRequestAgrees, RollbackRestoresFile,
                Ended, serverVars, jobVars
<1>3. AloneIsAlone' /\ AloneOwnsFile' /\ AloneOwnsCurrent'
    BY DEF FileInv, AloneIsAlone, AloneOwnsFile, AloneOwnsCurrent, Written, Target,
           serverVars, jobVars
<1> QED
    BY <1>2, <1>3 DEF FileInv

\* The server goes down without a trace, and comes back with nothing in flight.
LEMMA ServerInv ==
    ASSUME FileInv, TypeOK', ServerExit \/ ServerStart
    PROVE  FileInv'
<1>1. AtRest' /\ last' = NoOutcome
    BY DEF ServerExit, ServerStart, AtRest, FileInv, DownIsIdle, jobVars
<1> QED
    BY <1>1 DEF FileInv, DownIsIdle, AloneIsAlone, AloneOwnsFile, AloneOwnsCurrent,
                CleanRequestAgrees, RollbackRestoresFile, Ended, AtRest

\* The invariant holds initially, and every step keeps it.
LEMMA FileInit == Init => FileInv
BY InitType DEF Init, FileInv, DownIsIdle, AloneIsAlone, AloneOwnsFile,
                AloneOwnsCurrent, CleanRequestAgrees, RollbackRestoresFile, Ended, AtRest

LEMMA FileStep == FileInv /\ [Next]_vars => FileInv'
<1> SUFFICES ASSUME FileInv, [Next]_vars PROVE FileInv'
    OBVIOUS
<1>1. TypeOK'
    BY TypeStep DEF FileInv
<1>2. ASSUME NEW r \in Requests, Request(r)
      PROVE  FileInv'
    <2>1. CASE Apply(r)
        <3>1. PICK p \in Applied : Begin(r, "apply", WithProfiles(p))
            BY <2>1 DEF Apply
        <3>2. current \in Config /\ WithProfiles(p).rest = current.rest
            BY <2>1 DEF Apply, WithProfiles, FileInv, TypeOK, Config
        <3> QED
            BY <1>1, <3>1, <3>2, BeginInv
    <2>2. CASE Reset(r)
        BY <1>1, <2>2, BeginInv DEF Reset
    <2>3. CASE Import(r)
        BY <1>1, <2>3, BeginInv DEF Import
    <2> QED
        BY <1>2, <2>1, <2>2, <2>3 DEF Request
<1>3. ASSUME NEW r \in Requests, Attempt(r)
      PROVE  FileInv'
    BY <1>1, <1>3, AttemptInv
<1>4. ASSUME NEW r \in Requests, CallFails(r)
      PROVE  FileInv'
    BY <1>1, <1>4, AttemptFailsInv DEF CallFails, serverVars
<1>5. CASE Load \/ StartAgain \/ Exit
    BY <1>1, <1>5, ProcessInv DEF Load, StartAgain, Exit
<1>6. CASE ServerExit \/ ServerStart
    BY <1>1, <1>6, ServerInv
<1>7. CASE UNCHANGED vars
    BY <1>1, <1>7, ProcessInv DEF vars
<1> QED
    BY <1>2, <1>3, <1>4, <1>5, <1>6, <1>7 DEF Next

-----------------------------------------------------------------------------
(***************************************************************************)
(* A lone reset.                                                           *)
(***************************************************************************)

\* The document that a lone reset writes first, of a configuration the scheduler
\* comes up with, is one that the scheduler comes up with.
LEMMA ResetWrites ==
    ASSUME IInv, NEW r \in Requests, pc[r] = "inspect",
           job[r].alone, job[r].kind = "reset", Undisturbed(job[r])
    PROVE  /\ job[r].attempt = 1
           /\ file \in Startable
<1>1. job[r] \in Job
    BY DEF IInv, FileInv, TypeOK
<1>2. job[r].attempt = 1
    BY <1>1 DEF IInv, ResetOnCourse, Job
<1>3. file = DocumentOf(job[r].cfg)
    BY <1>2 DEF IInv, FileInv, AloneOwnsFile, Written, Target
<1>4. job[r].cfg \in Startable /\ Decodes(job[r].cfg)
    BY ConfigAssumption DEF Undisturbed, Decodes
<1> QED
    BY <1>2, <1>3, <1>4, DocumentType

\* A request that begins is on its course.
LEMMA BeginCourse ==
    ASSUME IInv, FileInv', NEW r \in Requests, NEW kind, NEW cfg,
           Begin(r, kind, cfg), kind = "reset" => cfg = initial
    PROVE  IInv'
<1>1. /\ pc'[r] = "readold" /\ job'[r].attempt = 1 /\ job'[r].seen = faults
      /\ job'[r].kind = kind /\ job'[r].cfg = cfg
      /\ last' = NoOutcome /\ faults' = faults /\ initial' = initial
    BY DEF Begin, IInv, FileInv, TypeOK, serverVars
<1>2. ASSUME NEW q \in Requests, q # r, pc'[q] # "idle"
      PROVE  job'[q].alone = FALSE /\ job'[q].seen <= faults
    <2>1. pc[q] # "idle" /\ job'[q] = [job[q] EXCEPT !.alone = FALSE]
        BY <1>2 DEF Begin, IInv, FileInv, TypeOK
    <2>2. job[q] \in Job
        BY <2>1 DEF IInv, FileInv, TypeOK
    <2>3. job'[q].seen = job[q].seen /\ job'[q].alone = FALSE
        BY <2>1, <2>2 DEF Job
    <2> QED
        BY <2>1, <2>3 DEF IInv, SeenSoFar
<1>3. faults \in Nat
    BY DEF IInv, FileInv, TypeOK
<1>4. SeenSoFar'
    <2>1. ASSUME NEW q \in Requests, pc'[q] # "idle"
          PROVE  job'[q].seen <= faults
        <3>1. CASE q = r
            BY <1>1, <1>3, <3>1
        <3>2. CASE q # r
            BY <1>2, <2>1, <3>2
        <3> QED
            BY <3>1, <3>2
    <2> QED
        BY <1>1, <2>1 DEF SeenSoFar
<1>5. ResetOnCourse'
    <2> SUFFICES ASSUME NEW q \in Requests, pc'[q] # "idle", job'[q].alone,
                        job'[q].kind = "reset"
                 PROVE  /\ job'[q].cfg = initial'
                        /\ pc'[q] = "readold" /\ job'[q].attempt = 1
        BY DEF ResetOnCourse
    <2>1. q = r
        BY <1>2
    <2> QED
        BY <1>1, <2>1
<1>6. ResetEnded'
    BY <1>1 DEF ResetEnded, Ended
<1> QED
    BY <1>4, <1>5, <1>6 DEF IInv

\* A request that ends was on its course: an undisturbed reset has to have
\* succeeded, or to have found no container.
LEMMA EndCourse ==
    ASSUME IInv, FileInv', NEW r \in Requests, pc[r] # "idle",
           NEW how \in {"clean", "rolledBack", "failed"}, End(r, how),
           UNCHANGED <<configured, initial>>, faults' \in {faults, faults + 1},
           /\ job[r].alone /\ job[r].kind = "reset"
           /\ Undisturbed(job[r]) /\ faults' = faults
           => how = "clean" \/ proc' = "stopped"
    PROVE  IInv'
<1>1. /\ last'.job = job[r] /\ last'.how = how
      /\ pc' = [pc EXCEPT ![r] = "idle"]
      /\ \A q \in Requests \ {r} : job'[q] = job[q]
    BY DEF End, IInv, FileInv, TypeOK
<1>2. /\ faults \in Nat /\ job[r].seen <= faults
      /\ job[r] \in Job /\ job[r].seen \in Nat
    BY DEF IInv, FileInv, TypeOK, SeenSoFar, Job
<1>3. \A q \in Requests : pc'[q] # "idle" => q # r /\ pc[q] # "idle" /\ job'[q] = job[q]
    BY <1>1 DEF IInv, FileInv, TypeOK
<1>4. SeenSoFar'
    <2>1. ASSUME NEW q \in Requests, pc'[q] # "idle"
          PROVE  job'[q].seen <= faults'
        <3>1. pc[q] # "idle" /\ job'[q] = job[q]
            BY <1>3, <2>1
        <3>2. job[q].seen <= faults /\ job[q].seen \in Nat
            BY <3>1 DEF IInv, FileInv, TypeOK, SeenSoFar, Job
        <3> QED
            BY <1>2, <3>1, <3>2
    <2>2. last'.job.seen <= faults'
        BY <1>1, <1>2
    <2> QED
        BY <2>1, <2>2 DEF SeenSoFar
<1>5. ResetOnCourse'
    <2> SUFFICES ASSUME NEW q \in Requests, pc'[q] # "idle", job'[q].alone
                 PROVE  FALSE
        BY DEF ResetOnCourse
    <2>1. q # r /\ pc[q] # "idle" /\ job[q].alone
        BY <1>3
    <2> QED
        BY <2>1 DEF IInv, FileInv, AloneIsAlone
<1>6. ResetEnded'
    <2> SUFFICES ASSUME job[r].alone, job[r].kind = "reset"
                 PROVE  /\ job[r].cfg = initial
                        /\ /\ job[r].seen = faults'
                           /\ job[r].cfg \in Startable
                           /\ configured => Decodes(job[r].before)
                           => how = "clean" \/ proc' = "stopped"
        BY <1>1 DEF ResetEnded, Ended, Undisturbed
    <2>1. job[r].cfg = initial
        BY DEF IInv, ResetOnCourse
    <2>2. job[r].seen = faults' => faults' = faults
        BY <1>2
    <2> QED
        BY <2>1, <2>2 DEF Undisturbed
<1> QED
    BY <1>4, <1>5, <1>6 DEF IInv

\* A request that goes on stays on its course.
LEMMA GoOnCourse ==
    ASSUME IInv, FileInv', NEW r \in Requests, pc[r] # "idle", pc'[r] # "idle",
           \A q \in Requests \ {r} : pc'[q] = pc[q] /\ job'[q] = job[q],
           job'[r].alone = job[r].alone,
           job'[r].kind = job[r].kind,
           job'[r].cfg = job[r].cfg,
           job'[r].seen = job[r].seen,
           job'[r].before = job[r].before,
           UNCHANGED <<configured, initial, last>>, faults' \in {faults, faults + 1},
           /\ job[r].alone /\ job[r].kind = "reset"
           /\ Undisturbed(job[r]) /\ faults' = faults
           => /\ job'[r].attempt = 2 => pc'[r] = "find" /\ proc' = "stopped"
              /\ pc'[r] \in {"truncate", "write", "restart"} => proc' # "stopped"
              /\ pc'[r] = "inspect" => proc' \in {"starting", "up"}
    PROVE  IInv'
<1>1. faults \in Nat /\ faults <= faults'
    BY DEF IInv, FileInv, TypeOK
<1>2. ASSUME NEW q \in Requests, pc[q] # "idle"
      PROVE  job[q].seen \in Nat /\ job[q].seen <= faults
    BY <1>2 DEF IInv, FileInv, TypeOK, SeenSoFar, Job
<1>3. last # NoOutcome => last.job.seen \in Nat /\ last.job.seen <= faults
    BY DEF IInv, FileInv, TypeOK, SeenSoFar, Outcome, Job
<1>4. SeenSoFar'
    <2>1. ASSUME NEW q \in Requests, pc'[q] # "idle"
          PROVE  job'[q].seen <= faults'
        <3>1. pc[q] # "idle" /\ job'[q].seen = job[q].seen
            BY <2>1
        <3> QED
            BY <1>1, <1>2, <3>1
    <2> QED
        BY <1>1, <1>3, <2>1 DEF SeenSoFar
<1>5. ResetOnCourse'
    <2> SUFFICES ASSUME NEW q \in Requests, pc'[q] # "idle", job'[q].alone
                 PROVE  q = r
        <3>1. ASSUME job[r].alone, job[r].kind = "reset"
              PROVE  job[r].cfg = initial
            BY <3>1 DEF IInv, ResetOnCourse
        <3>2. job[r].seen = faults' => faults' = faults
            BY <1>1, <1>2
        <3> QED
            BY <3>1, <3>2 DEF ResetOnCourse, Undisturbed
    <2>1. q # r => pc[q] # "idle" /\ job[q].alone
        OBVIOUS
    <2> QED
        BY <2>1 DEF IInv, FileInv, AloneIsAlone
<1>6. ResetEnded'
    BY DEF ResetEnded, Ended, AtRest
<1> QED
    BY <1>4, <1>5, <1>6 DEF IInv

\* An attempt that fails, fails for want of a container, or with a fault.
LEMMA AttemptFailsCourse ==
    ASSUME IInv, FileInv', NEW r \in Requests, pc[r] \notin {"idle", "readold"},
           AttemptFails(r), UNCHANGED <<configured, initial>>,
           faults' \in {faults, faults + 1},
           /\ job[r].alone /\ job[r].kind = "reset"
           /\ Undisturbed(job[r]) /\ faults' = faults
           => proc' = "stopped"
    PROVE  IInv'
<1>1. job[r] \in Job
    BY DEF IInv, FileInv, TypeOK
<1>2. CASE job[r].attempt = 1
    <2>1. /\ pc' = [pc EXCEPT ![r] = "find"]
          /\ job' = [job EXCEPT ![r].attempt = 2]
          /\ last' = last
        BY <1>2 DEF AttemptFails
    <2>2. pc'[r] = "find" /\ job'[r] = [job[r] EXCEPT !.attempt = 2]
        BY <2>1 DEF IInv, FileInv, TypeOK
    <2>3. /\ job'[r].alone = job[r].alone
          /\ job'[r].kind = job[r].kind
          /\ job'[r].cfg = job[r].cfg
          /\ job'[r].seen = job[r].seen
          /\ job'[r].before = job[r].before
        BY <1>1, <2>2 DEF Job
    <2>4. \A q \in Requests \ {r} : pc'[q] = pc[q] /\ job'[q] = job[q]
        BY <2>1 DEF IInv, FileInv, TypeOK
    <2> QED
        BY <2>1, <2>2, <2>3, <2>4, GoOnCourse
<1>3. CASE job[r].attempt # 1
    BY <1>3, EndCourse DEF AttemptFails
<1> QED
    BY <1>2, <1>3

\* A call keeps the course, unless it leaves the scheduler not running.
LEMMA AdvanceCourse ==
    ASSUME IInv, FileInv', NEW r \in Requests,
           NEW from \in PC \ {"idle"}, NEW to \in PC \ {"idle", "find"},
           Advance(r, from, to), UNCHANGED <<configured, initial, faults>>,
           from = "find" => proc # "stopped",
           to \in {"truncate", "write", "restart"} => proc' = proc /\ from # "inspect",
           to = "inspect" => proc' = "starting",
           from \in {"find", "truncate", "write", "restart"}
    PROVE  IInv'
<1>1. pc'[r] = to /\ pc[r] = from /\ job' = job /\ last' = last
    BY DEF Advance, IInv, FileInv, TypeOK
<1>2. \A q \in Requests \ {r} : pc'[q] = pc[q]
    BY DEF Advance, IInv, FileInv, TypeOK
<1>3. job[r].alone /\ job[r].kind = "reset" /\ Undisturbed(job[r]) =>
          job[r].attempt # 2 /\ proc # "stopped"
    BY <1>1 DEF IInv, ResetOnCourse
<1> QED
    BY <1>1, <1>2, <1>3, GoOnCourse

\* Every step of a request keeps it on its course.
LEMMA AttemptCourse ==
    ASSUME IInv, FileInv', NEW r \in Requests, Attempt(r)
    PROVE  IInv'
<1>1. CASE ReadOld(r)
    <2>1. /\ pc[r] = "readold"
          /\ UNCHANGED <<configured, initial, file, proc, faults>>
        BY <1>1 DEF ReadOld, serverVars, procVars
    <2>2. job[r] \in Job
        BY <2>1 DEF IInv, FileInv, TypeOK
    <2>3. CASE Readable
        <3>1. /\ pc' = [pc EXCEPT ![r] = "find"]
              /\ job' = [job EXCEPT ![r].old = ReadConfig]
              /\ last' = last
            BY <1>1, <2>3 DEF ReadOld
        <3>2. pc'[r] = "find" /\ job'[r] = [job[r] EXCEPT !.old = ReadConfig]
            BY <3>1 DEF IInv, FileInv, TypeOK
        <3>3. /\ job'[r].alone = job[r].alone
              /\ job'[r].kind = job[r].kind
              /\ job'[r].cfg = job[r].cfg
              /\ job'[r].seen = job[r].seen
              /\ job'[r].before = job[r].before
              /\ job'[r].attempt = job[r].attempt
            BY <2>2, <3>2 DEF Job
        <3>4. \A q \in Requests \ {r} : pc'[q] = pc[q] /\ job'[q] = job[q]
            BY <3>1 DEF IInv, FileInv, TypeOK
        <3>5. job[r].alone /\ job[r].kind = "reset" /\ Undisturbed(job[r]) =>
                  job[r].attempt # 2
            BY <2>1 DEF IInv, ResetOnCourse
        <3> QED
            BY <2>1, <3>1, <3>2, <3>3, <3>4, <3>5, GoOnCourse
    <2>4. CASE ~Readable
        <3>1. job[r].alone => ~Undisturbed(job[r])
            BY <2>1, <2>4 DEF Readable, Undisturbed, IInv, FileInv, AloneOwnsFile
        <3> QED
            BY <1>1, <2>1, <2>4, <3>1, EndCourse DEF ReadOld
    <2> QED
        BY <2>3, <2>4
<1>2. CASE Find(r)
    BY <1>2, AdvanceCourse DEF Find, PC, serverVars, procVars
<1>3. CASE NotFound(r)
    BY <1>3, AttemptFailsCourse DEF NotFound, serverVars, procVars
<1>4. CASE Truncate(r)
    BY <1>4, AdvanceCourse DEF Truncate, PC, serverVars, procVars
<1>5. CASE Write(r)
    BY <1>5, AdvanceCourse DEF Write, PC, serverVars, procVars
<1>6. CASE Restart(r)
    BY <1>6, AdvanceCourse DEF Restart, PC, serverVars
<1>7. CASE Inspect(r)
    <2>1. pc[r] = "inspect" /\ UNCHANGED <<configured, initial, proc, faults>>
        BY <1>7 DEF Inspect, procVars
    <2>2. job[r].alone /\ job[r].kind = "reset" /\ Undisturbed(job[r]) =>
              job[r].attempt = 1 /\ proc \in {"starting", "up"}
        BY <2>1, ResetWrites DEF IInv, ResetOnCourse
    <2>3. CASE proc \in {"starting", "up"}
        <3>1. CASE job[r].attempt = 1
            <4>1. End(r, "clean")
                BY <1>7, <2>3, <3>1 DEF Inspect
            <4> QED
                BY <2>1, <4>1, EndCourse
        <3>2. CASE job[r].attempt # 1
            <4>1. End(r, "rolledBack")
                BY <1>7, <2>3, <3>2 DEF Inspect
            <4> QED
                BY <2>1, <2>2, <3>2, <4>1, EndCourse
        <3> QED
            BY <3>1, <3>2
    <2>4. CASE proc \notin {"starting", "up"}
        BY <1>7, <2>1, <2>2, <2>4, AttemptFailsCourse DEF Inspect
    <2> QED
        BY <2>3, <2>4
<1> QED
    BY <1>1, <1>2, <1>3, <1>4, <1>5, <1>6, <1>7 DEF Attempt

\* The scheduler that a lone reset has restarted comes up, and a container that
\* is stopped stays so.
LEMMA ProcessCourse ==
    ASSUME IInv, FileInv', Load \/ StartAgain \/ Exit
    PROVE  IInv'
<1>1. /\ UNCHANGED <<configured, initial, file, pc, job, last>>
      /\ faults' \in {faults, faults + 1} /\ proc # "stopped" /\ proc' # "stopped"
    BY DEF Load, StartAgain, Exit, serverVars, jobVars
<1>2. faults \in Nat /\ faults <= faults'
    BY <1>1 DEF IInv, FileInv, TypeOK
<1>3. ASSUME NEW q \in Requests, pc[q] # "idle"
      PROVE  job[q].seen \in Nat /\ job[q].seen <= faults
    BY <1>3 DEF IInv, FileInv, TypeOK, SeenSoFar, Job
<1>4. last # NoOutcome => last.job.seen \in Nat /\ last.job.seen <= faults
    BY DEF IInv, FileInv, TypeOK, SeenSoFar, Outcome, Job
<1>5. SeenSoFar'
    BY <1>1, <1>2, <1>3, <1>4 DEF SeenSoFar
<1>6. ResetOnCourse'
    <2> SUFFICES ASSUME NEW r \in Requests, pc[r] # "idle", job[r].alone,
                        job[r].kind = "reset"
                 PROVE  /\ job[r].cfg = initial
                        /\ /\ job[r].seen = faults'
                           /\ job[r].cfg \in Startable
                           /\ configured => Decodes(job[r].before)
                           => /\ job[r].attempt # 2
                              /\ pc[r] = "inspect" => proc' \in {"starting", "up"}
        BY <1>1 DEF ResetOnCourse, Undisturbed
    <2>1. job[r].cfg = initial
        BY DEF IInv, ResetOnCourse
    <2> SUFFICES ASSUME Undisturbed(job[r]), faults' = faults
                 PROVE  /\ job[r].attempt # 2
                        /\ pc[r] = "inspect" => proc' \in {"starting", "up"}
        BY <1>1, <1>2, <1>3, <2>1 DEF Undisturbed
    <2>2. job[r].attempt # 2
        BY <1>1 DEF IInv, ResetOnCourse
    <2>3. ASSUME pc[r] = "inspect"
          PROVE  proc' \in {"starting", "up"}
        <3>1. file \in Startable
            BY <2>3, ResetWrites
        <3>2. CASE Load
            BY <3>1, <3>2 DEF Load
        <3>3. CASE StartAgain
            BY <3>3 DEF StartAgain
        <3>4. CASE Exit
            BY <1>2, <3>4 DEF Exit
        <3> QED
            BY <3>2, <3>3, <3>4
    <2> QED
        BY <2>2, <2>3
<1>7. ResetEnded'
    <2>1. last # NoOutcome /\ last.job.seen = faults' => faults' = faults
        BY <1>1, <1>2, <1>4
    <2> QED
        BY <1>1, <2>1 DEF IInv, ResetEnded, Ended, AtRest, Undisturbed
<1> QED
    BY <1>5, <1>6, <1>7 DEF IInv

\* The invariant holds initially, and every step keeps it.
LEMMA InvInit == Init => IInv
BY FileInit DEF Init, IInv, SeenSoFar, ResetOnCourse, ResetEnded, Ended

LEMMA InvStep == IInv /\ [Next]_vars => IInv'
<1> SUFFICES ASSUME IInv, [Next]_vars PROVE IInv'
    OBVIOUS
<1>1. FileInv'
    BY FileStep DEF IInv
<1>2. ASSUME NEW r \in Requests, Request(r)
      PROVE  IInv'
    <2>1. CASE Apply(r)
        BY <1>1, <2>1, BeginCourse DEF Apply
    <2>2. CASE Reset(r)
        BY <1>1, <2>2, BeginCourse DEF Reset
    <2>3. CASE Import(r)
        BY <1>1, <2>3, BeginCourse DEF Import
    <2> QED
        BY <1>2, <2>1, <2>2, <2>3 DEF Request
<1>3. ASSUME NEW r \in Requests, Attempt(r)
      PROVE  IInv'
    BY <1>1, <1>3, AttemptCourse
<1>4. ASSUME NEW r \in Requests, CallFails(r)
      PROVE  IInv'
    <2>1. faults \in Nat /\ faults' = faults + 1
        BY <1>4 DEF CallFails, IInv, FileInv, TypeOK
    <2>2. faults' # faults
        BY <2>1
    <2> QED
        BY <1>1, <1>4, <2>1, <2>2, AttemptFailsCourse DEF CallFails, serverVars
<1>5. CASE Load \/ StartAgain \/ Exit
    BY <1>1, <1>5, ProcessCourse
<1>6. CASE ServerExit \/ ServerStart
    <2>1. AtRest' /\ last' = NoOutcome
        BY <1>6 DEF ServerExit, ServerStart, AtRest, IInv, FileInv, DownIsIdle, jobVars
    <2> QED
        BY <1>1, <2>1 DEF IInv, SeenSoFar, ResetOnCourse, ResetEnded, Ended, AtRest
<1>7. CASE UNCHANGED vars
    BY <1>1, <1>7 DEF IInv, SeenSoFar, ResetOnCourse, ResetEnded, Ended, AtRest,
                      Undisturbed, vars, serverVars, procVars, jobVars
<1> QED
    BY <1>2, <1>3, <1>4, <1>5, <1>6, <1>7 DEF Next

\* The inductive invariant: a lone request is disturbed by nothing but itself, and
\* a lone reset by nothing but faults, a document that does not decode and a
\* container that is not there.
THEOREM SchedulerInvariant == Spec => []IInv
BY InvInit, InvStep, PTL DEF Spec

\* A lone request that succeeds at once leaves the file and the server's current
\* configuration in agreement, whatever faults and requests came before.
THEOREM CleanAgrees == Spec => []CleanRequestAgrees
<1>1. IInv => CleanRequestAgrees
    BY DEF IInv, FileInv
<1> QED
    BY <1>1, SchedulerInvariant, PTL

\* With the path of the file configured, a lone request that is rolled back
\* leaves the file as it found it.
THEOREM RollbackRestoresTheFile == Spec => []RollbackRestoresFile
<1>1. IInv => RollbackRestoresFile
    BY DEF IInv, FileInv
<1> QED
    BY <1>1, SchedulerInvariant, PTL

\* A lone reset that meets no fault, of a file that can be read and a container
\* that is not stopped, leaves the server and the file with the configuration that
\* the server started with, however the requests before it left them.
THEOREM ResetRestoresTheInitial == Spec => []ResetRestoresReadable
<1>1. IInv => ResetRestoresReadable
    BY DEF IInv, FileInv, CleanRequestAgrees, ResetEnded, Undisturbed,
           ResetRestoresReadable
<1> QED
    BY <1>1, SchedulerInvariant, PTL

\* A lone apply request that succeeds, at once or by rolling back, changes
\* nothing but the profiles and extenders of the current configuration.
THEOREM ApplyKeepsTheRest == Spec => ApplyKeepsRest
<1> DEFINE Keeps(r) ==
        /\ pc[r] = "inspect" /\ pc'[r] = "idle"
        /\ job[r].kind = "apply" /\ job[r].alone
        /\ current' # current
        => /\ current \in Config
           /\ current'.rest = current.rest
<1>1. ASSUME IInv, [Next]_vars
      PROVE  [\A r \in Requests : Keeps(r)]_vars
    <2> SUFFICES ASSUME NEW r \in Requests, Next,
                        pc[r] = "inspect", pc'[r] = "idle",
                        job[r].kind = "apply", job[r].alone,
                        current' # current
                 PROVE  current \in Config /\ current'.rest = current.rest
        BY <1>1
    <2>1. current \in Config /\ job[r].cfg.rest = current.rest
        BY <1>1 DEF IInv, FileInv, AloneOwnsCurrent
    <2>2. ~ServerStart
        BY <1>1 DEF ServerStart, IInv, FileInv, DownIsIdle, AtRest
    <2>3. PICK q \in Requests : Inspect(q) /\ current' = job[q].cfg
        BY <2>2 DEF Next, Request, Apply, Reset, Import, Begin, Attempt, ReadOld,
                    Find, NotFound, Truncate, Write, Restart, Inspect,
                    CurrentAfter, CallFails, Load, StartAgain, Exit, ServerExit,
                    serverVars
    <2>4. q = r
        BY <1>1, <2>3 DEF Inspect, IInv, FileInv, AloneIsAlone
    <2> QED
        BY <2>1, <2>3, <2>4
<1>2. QED
    BY <1>1, SchedulerInvariant, PTL DEF Spec, ApplyKeepsRest
=============================================================================
