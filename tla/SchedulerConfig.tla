-------------------------- MODULE SchedulerConfig --------------------------
(***************************************************************************)
(* The scheduler configuration: the simulator server's scheduler service,  *)
(* the configuration file it shares with the debuggable scheduler, and the *)
(* scheduler's container.                                                  *)
(*                                                                         *)
(* The requests that change the configuration (apply, reset and import)    *)
(* run in goroutines of their own, without a lock.  Each writes the file,  *)
(* restarts the container, looks at the container once, and when anything  *)
(* fails does the same again with the configuration it takes for the old   *)
(* one.  The scheduler reads the file when its process starts, and Docker  *)
(* starts the process again whenever it exits.                             *)
(***************************************************************************)
EXTENDS Naturals, FiniteSets

CONSTANTS
    Requests,      \* goroutines that handle requests
    Profiles,      \* values of what an apply request sets
    Rests,         \* values of everything else in a configuration
    Undecodable,   \* configurations whose document does not decode (no kind)
    Startable,     \* configurations the scheduler comes up with
    Default,       \* the default configuration
    Shipped,       \* the content of the file when the containers are created
    NoConfig,      \* the nil configuration
    EmptyFile,     \* the file between truncation and write
    MixedFile,     \* what two overlapping writes may leave; does not decode
    NullFile,      \* the document of the nil configuration: {}
    NoJob,         \* no request
    NoOutcome,     \* no request has ended since
    Applied,       \* the profiles users apply
    Imported,      \* the configurations users import
    PathChoices,   \* whether the path of the file is (not) configured
    MaxRequests,   \* bound: requests in all
    MaxFaults      \* bound: failed calls, exits and crashes in all

Config == [profiles : Profiles, rest : Rests]
Document == Config \cup {EmptyFile, MixedFile, NullFile}

ASSUME ConfigAssumption ==
    /\ Undecodable \subseteq Config
    /\ Startable \subseteq Config \ Undecodable
    /\ {Default, Shipped} \subseteq Startable
    /\ Applied \subseteq Profiles
    /\ Imported \subseteq Config \cup {NoConfig}
    /\ PathChoices \subseteq BOOLEAN
    /\ {NoConfig, EmptyFile, MixedFile, NullFile} \cap Config = {}

VARIABLES
    configured,  \* whether KUBE_SCHEDULER_CONFIG_PATH is set
    server,      \* the simulator server
    initial,     \* initialSchedulerCfg
    current,     \* currentSchedulerCfg
    file,        \* the content of the configuration file
    proc,        \* the scheduler's container
    active,      \* the configuration the scheduler runs with
    pc,          \* where each request is
    job,         \* what each request works on
    last,        \* history: how the last request ended
    started,     \* requests so far
    faults       \* faults so far

serverVars == <<configured, server, initial, current>>
procVars   == <<proc, active>>
jobVars    == <<pc, job, last, started>>
vars == <<serverVars, file, procVars, jobVars, faults>>

Kind == {"apply", "reset", "import"}
PC == {"idle", "readold", "find", "truncate", "write", "restart", "inspect"}

\* alone, before and seen are history: whether no other request was in flight,
\* and the file and the faults when the request began.
Job == [kind : Kind, cfg : Config \cup {NoConfig},
        old : Config \cup {NoConfig}, attempt : 1 .. 2,
        alone : BOOLEAN, before : Document, seen : Nat]

Outcome == [job : Job, how : {"clean", "rolledBack", "failed"}]

TypeOK ==
    /\ configured \in PathChoices
    /\ server \in {"up", "down"}
    /\ initial \in Config
    /\ current \in Config \cup {NoConfig}
    /\ file \in Document
    /\ proc \in {"starting", "up", "crashed", "stopped"}
    /\ active \in Config \cup {NoConfig}
    /\ pc \in [Requests -> PC]
    /\ job \in [Requests -> Job \cup {NoJob}]
    /\ \A r \in Requests : pc[r] # "idle" => job[r] \in Job
    /\ last \in Outcome \cup {NoOutcome}
    /\ started \in Nat
    /\ faults \in Nat

-----------------------------------------------------------------------------

\* What os.WriteFile is given for a configuration.
DocumentOf(cfg) == IF cfg = NoConfig THEN NullFile ELSE cfg

Decodes(doc) == doc \in Config \ Undecodable

\* Whether GetSchedulerCfg succeeds, and what it returns: the file is read only
\* if its path is configured.
Readable == configured => Decodes(file)
ReadConfig == IF configured THEN file ELSE Default

\* The server takes its initial configuration for the current one, whatever
\* the scheduler runs with.
Init ==
    /\ configured \in PathChoices
    /\ server = "up"
    /\ file = Shipped
    /\ initial = ReadConfig
    /\ current = initial
    /\ proc = "starting"
    /\ active = NoConfig
    /\ pc = [r \in Requests |-> "idle"]
    /\ job = [r \in Requests |-> NoJob]
    /\ last = NoOutcome
    /\ started = 0
    /\ faults = 0

AtRest == \A r \in Requests : pc[r] = "idle"
MayFail == faults < MaxFaults

-----------------------------------------------------------------------------
(***************************************************************************)
(* The requests.                                                           *)
(***************************************************************************)

\* A request for cfg arrives; it overlaps those in flight.
Begin(r, kind, cfg) ==
    /\ server = "up"
    /\ pc[r] = "idle"
    /\ started < MaxRequests
    /\ started' = started + 1
    /\ pc' = [pc EXCEPT ![r] = "readold"]
    /\ job' = [q \in Requests |->
                 IF q = r
                   THEN [kind |-> kind, cfg |-> cfg, old |-> NoConfig,
                         attempt |-> 1, alone |-> AtRest, before |-> file,
                         seen |-> faults]
                 ELSE IF pc[q] = "idle" THEN job[q]
                 ELSE [job[q] EXCEPT !.alone = FALSE]]
    /\ last' = NoOutcome
    /\ UNCHANGED <<serverVars, file, procVars, faults>>

\* Mutant: the posted configuration is taken whole.
MutWithProfiles(p) == [profiles |-> p, rest |-> Default.rest]

\* Only the profiles and extenders are taken from the posted configuration.
WithProfiles(p) == [current EXCEPT !.profiles = p]

\* Without a current configuration the handler panics, and changes nothing.
Apply(r) ==
    /\ current # NoConfig
    /\ \E p \in Applied : Begin(r, "apply", WithProfiles(p))

\* Mutant: the initial configuration follows the current one.
MutReset(r) == Begin(r, "reset", current)

Reset(r) == Begin(r, "reset", initial)

Import(r) == \E cfg \in Imported : Begin(r, "import", cfg)

\* The request ends.
End(r, how) ==
    /\ pc' = [pc EXCEPT ![r] = "idle"]
    /\ job' = [job EXCEPT ![r] = NoJob]
    /\ last' = [job |-> job[r], how |-> how]
    /\ UNCHANGED started

\* RestartScheduler reads the configuration to roll back to.
ReadOld(r) ==
    /\ pc[r] = "readold"
    /\ IF Readable
         THEN /\ job' = [job EXCEPT ![r].old = ReadConfig]
              /\ pc' = [pc EXCEPT ![r] = "find"]
              /\ UNCHANGED <<last, started>>
         ELSE End(r, "failed")
    /\ UNCHANGED <<serverVars, file, procVars, faults>>

\* The configuration of the attempt under way.
Target(r) == IF job[r].attempt = 1 THEN job[r].cfg ELSE job[r].old

\* An attempt fails: roll back, or give up.
AttemptFails(r) ==
    IF job[r].attempt = 1
      THEN /\ pc' = [pc EXCEPT ![r] = "find"]
           /\ job' = [job EXCEPT ![r].attempt = 2]
           /\ UNCHANGED <<last, started>>
      ELSE End(r, "failed")

Advance(r, from, to) ==
    /\ pc[r] = from
    /\ pc' = [pc EXCEPT ![r] = to]
    /\ UNCHANGED <<job, last, started>>

\* ContainerList has the containers that are not stopped.
Find(r) ==
    /\ proc # "stopped"
    /\ Advance(r, "find", "truncate")
    /\ UNCHANGED <<serverVars, file, procVars, faults>>

\* Mutant: there being no container is not an error.
MutNotFound(r) ==
    /\ pc[r] = "find"
    /\ proc = "stopped"
    /\ current' = job[r].cfg
    /\ End(r, "clean")
    /\ UNCHANGED <<configured, server, initial, file, procVars, faults>>

NotFound(r) ==
    /\ pc[r] = "find"
    /\ proc = "stopped"
    /\ AttemptFails(r)
    /\ UNCHANGED <<serverVars, file, procVars, faults>>

\* Mutant: the file is opened without truncating it.
MutTruncate(r) ==
    /\ Advance(r, "truncate", "write")
    /\ UNCHANGED <<serverVars, file, procVars, faults>>

\* os.WriteFile opens the file, which empties it...
Truncate(r) ==
    /\ Advance(r, "truncate", "write")
    /\ file' = EmptyFile
    /\ UNCHANGED <<serverVars, procVars, faults>>

\* Mutant: the second attempt writes the configuration that failed.
MutWritten(r) == DocumentOf(job[r].cfg)

\* The document the attempt writes.
Written(r) == DocumentOf(Target(r))

\* ... and writes from its start, over what another request has written since.
Write(r) ==
    /\ Advance(r, "write", "restart")
    /\ file' \in {Written(r)} \cup
                 (IF file \in {EmptyFile, Written(r)} THEN {} ELSE {MixedFile})
    /\ UNCHANGED <<serverVars, procVars, faults>>

\* Mutant: the container is left as it is.
MutRestart(r) ==
    /\ Advance(r, "restart", "inspect")
    /\ UNCHANGED <<serverVars, file, procVars, faults>>

\* ContainerRestart returns when the process has been started.
Restart(r) ==
    /\ Advance(r, "restart", "inspect")
    /\ proc' = "starting"
    /\ active' = NoConfig
    /\ UNCHANGED <<serverVars, file, faults>>

\* What RestartScheduler keeps as the current configuration when it succeeds,
\* with the new configuration or by rolling back.
CurrentAfter(r) == job[r].cfg

\* ContainerInspect says running as long as the process has not exited.
Inspect(r) ==
    /\ pc[r] = "inspect"
    /\ IF proc \in {"starting", "up"}
         THEN /\ current' = CurrentAfter(r)
              /\ End(r, IF job[r].attempt = 1 THEN "clean" ELSE "rolledBack")
         ELSE /\ AttemptFails(r)
              /\ UNCHANGED current
    /\ UNCHANGED <<configured, server, initial, file, procVars, faults>>

\* A call fails: the file may be left empty, and the container stopped, or
\* restarted nonetheless.
CallFails(r) ==
    /\ pc[r] \in {"find", "truncate", "write", "restart", "inspect"}
    /\ MayFail
    /\ faults' = faults + 1
    /\ AttemptFails(r)
    /\ \/ UNCHANGED procVars
       \/ /\ pc[r] = "restart"
          /\ proc' \in {"stopped", "starting"}
          /\ active' = NoConfig
    /\ UNCHANGED <<serverVars, file>>

-----------------------------------------------------------------------------
(***************************************************************************)
(* The scheduler's container, and the server's own.                        *)
(***************************************************************************)

\* The process reads the file; it exits if it cannot come up with it.
Load ==
    /\ proc = "starting"
    /\ IF file \in Startable
         THEN proc' = "up" /\ active' = file
         ELSE proc' = "crashed" /\ UNCHANGED active
    /\ UNCHANGED <<serverVars, file, jobVars, faults>>

\* restart: always.
StartAgain ==
    /\ proc = "crashed"
    /\ proc' = "starting"
    /\ UNCHANGED <<serverVars, file, active, jobVars, faults>>

Exit ==
    /\ proc = "up"
    /\ MayFail
    /\ faults' = faults + 1
    /\ proc' = "crashed"
    /\ active' = NoConfig
    /\ UNCHANGED <<serverVars, file, jobVars>>

\* The server's process ends, and its requests with it.
ServerExit ==
    /\ server = "up"
    /\ MayFail
    /\ faults' = faults + 1
    /\ server' = "down"
    /\ pc' = [r \in Requests |-> "idle"]
    /\ job' = [r \in Requests |-> NoJob]
    /\ last' = NoOutcome
    /\ UNCHANGED <<configured, initial, current, file, procVars, started>>

\* It starts again, unless it cannot read the file.
ServerStart ==
    /\ server = "down"
    /\ Readable
    /\ server' = "up"
    /\ initial' = ReadConfig
    /\ current' = ReadConfig
    /\ UNCHANGED <<configured, file, procVars, jobVars, faults>>

-----------------------------------------------------------------------------

Attempt(r) ==
    \/ ReadOld(r) \/ Find(r) \/ NotFound(r) \/ Truncate(r)
    \/ Write(r) \/ Restart(r) \/ Inspect(r)

Request(r) == Apply(r) \/ Reset(r) \/ Import(r)

Next ==
    \/ \E r \in Requests : Request(r) \/ Attempt(r) \/ CallFails(r)
    \/ Load \/ StartAgain \/ Exit
    \/ ServerExit \/ ServerStart

\* Goroutines are scheduled, and Docker keeps starting the scheduler.
Fairness ==
    /\ \A r \in Requests : WF_vars(Attempt(r))
    /\ WF_vars(Load)
    /\ WF_vars(StartAgain)

Spec == Init /\ [][Next]_vars /\ Fairness

-----------------------------------------------------------------------------
(***************************************************************************)
(* Properties.                                                             *)
(***************************************************************************)

\* The last request to arrive has ended, and none was in flight with it.
Ended == AtRest /\ last # NoOutcome /\ last.job.alone

\* A request that succeeded at once is what the server reports, what the next
\* process of the scheduler will read, and what was asked for.
CleanRequestAgrees ==
    Ended /\ last.how = "clean" =>
        /\ current = last.job.cfg
        /\ file = DocumentOf(current)

\* RestartScheduler rolls back to the old configuration: with the path of the
\* file configured, the file has its old content again.
RollbackRestoresFile ==
    Ended /\ last.how = "rolledBack" /\ configured => file = last.job.before

\* While the server is down, nothing is in flight.
DownIsIdle == server = "down" => AtRest /\ last = NoOutcome

\* A request marked alone is the only one in flight.
AloneIsAlone ==
    \A r, q \in Requests :
        pc[r] # "idle" /\ job[r].alone /\ pc[q] # "idle" => q = r

\* The file is what the only request in flight has made of it, and the old
\* configuration that request has read is the one the file held.
AloneOwnsFile ==
    \A r \in Requests :
        pc[r] # "idle" /\ job[r].alone =>
            /\ pc[r] = "readold" => file = job[r].before
            /\ pc[r] # "readold" /\ configured =>
                  /\ job[r].old = job[r].before
                  /\ Decodes(job[r].before)
            /\ pc[r] = "write" => file = EmptyFile
            /\ pc[r] \in {"restart", "inspect"} => file = Written(r)

\* An apply request alone in flight differs from the current configuration in
\* the profiles and extenders only.
AloneOwnsCurrent ==
    \A r \in Requests :
        pc[r] # "idle" /\ job[r].alone /\ job[r].kind = "apply" =>
            /\ current \in Config
            /\ job[r].cfg.rest = current.rest

\* What a lone request reads and writes is not disturbed, so that the properties
\* about it hold when it ends.
FileInv ==
    /\ TypeOK
    /\ DownIsIdle
    /\ AloneIsAlone
    /\ AloneOwnsFile
    /\ AloneOwnsCurrent
    /\ CleanRequestAgrees
    /\ RollbackRestoresFile

\* No fault since the request began, for a configuration the scheduler comes up
\* with, and a file that could be read.
Undisturbed(j) ==
    /\ j.seen = faults
    /\ j.cfg \in Startable
    /\ configured => Decodes(j.before)

\* The faults that a request in flight, or the last one, has seen are past.
SeenSoFar ==
    /\ \A r \in Requests : pc[r] # "idle" => job[r].seen <= faults
    /\ last # NoOutcome => last.job.seen <= faults

\* A lone reset is for the initial configuration; undisturbed, it fails only
\* where there is no container, and the scheduler it restarts keeps running.
ResetOnCourse ==
    \A r \in Requests :
        pc[r] # "idle" /\ job[r].alone /\ job[r].kind = "reset" =>
            /\ job[r].cfg = initial
            /\ Undisturbed(job[r]) =>
                  /\ job[r].attempt = 2 => pc[r] = "find" /\ proc = "stopped"
                  /\ pc[r] \in {"truncate", "write", "restart"} => proc # "stopped"
                  /\ pc[r] = "inspect" => proc \in {"starting", "up"}

\* ... so it ends with success, or finds no container.
ResetEnded ==
    Ended /\ last.job.kind = "reset" =>
        /\ last.job.cfg = initial
        /\ Undisturbed(last.job) => last.how = "clean" \/ proc = "stopped"

\* The inductive invariant.
IInv ==
    /\ FileInv
    /\ SeenSoFar
    /\ ResetOnCourse
    /\ ResetEnded

\* A reset without faults, of a file that can be read and of a container that
\* is not stopped, restores the initial configuration.
ResetRestoresReadable ==
    /\ Ended
    /\ last.job.kind = "reset"
    /\ last.job.seen = faults
    /\ last.job.cfg \in Startable
    /\ configured => Decodes(last.job.before)
    /\ proc # "stopped"
    => /\ current = initial
       /\ file = DocumentOf(initial)

\* An apply request changes the profiles and extenders only: what it ends with
\* has the rest of the configuration it found, if no other request overlaps.
ApplyKeepsRest ==
    [][\A r \in Requests :
         /\ pc[r] = "inspect" /\ pc'[r] = "idle"
         /\ job[r].kind = "apply" /\ job[r].alone
         /\ current' # current
         => /\ current \in Config
            /\ current'.rest = current.rest]_vars

\* What a request that succeeded at once asked for is what the scheduler comes
\* to run, if it can, and if no other request arrives.
CleanRequestTakesEffect ==
    Ended /\ last.how = "clean" /\ last.job.cfg \in Startable
        ~> last = NoOutcome \/ active = last.job.cfg

\* docs/api.md:24, of POST schedulerconfiguration: "update scheduler
\* configuration and restart scheduler with new configuration"; it answers 202
\* when the request has succeeded.
AcceptedIsRun ==
    Ended /\ last.how # "failed" /\ proc = "up" => active = last.job.cfg

=============================================================================
