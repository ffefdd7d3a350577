------------------------ MODULE DebuggableScheduler -------------------------
(***************************************************************************)
(* The debuggable scheduler from the user's configuration on: NewConfigs   *)
(* reads and converts the profile, CreateOptions builds the registry and   *)
(* replaces the scheme's defaults, kube-scheduler starts with the result   *)
(* and schedules pods.  A restart does all of it again.                    *)
(***************************************************************************)
EXTENDS PluginSets, SchedulerLogger

CONSTANT Instances  \* [profile, args, pods]: a profile's plugins, the plugins it gives
                    \* arguments to, and the pods there are

VARIABLES
    file,      \* the instance's profile and arguments
    pods,      \* the pods to schedule
    phase,     \* how far the process has got
    scheme,    \* the default plugins by the scheme's defaulting function
    versioned, \* the converted profile
    args,      \* its plugin arguments
    registry,  \* names of the plugin factories passed to kube-scheduler
    weights,   \* scorePluginWeight of the plugin result store
    restarts

PluginSet ==
    [enabled : Seq([name : RegisteredMultiPointPluginNames(DefaultPlugins.multiPoint), weight : Int]),
     disabled : SUBSET ((DOMAIN Implements \cup {"*"}) \X {FALSE})]

\* Profiles that kube-scheduler starts with as they are: the plugins of an extension
\* point implement it; and the plugins they enable are among the registered ones, in
\* their original form.
ASSUME InstancesAssumption ==
    /\ DefaultMultiPoint \in Seq([name : (DOMAIN Implements) \X {FALSE}, weight : Int])
    /\ OutOfTree \subseteq DOMAIN Implements /\ "*" \notin DOMAIN Implements
    /\ Instances \subseteq [profile : [Points \cup {"multiPoint"} -> PluginSet],
                           args : SUBSET DOMAIN Implements, pods : SUBSET Pods]
    /\ \A i \in Instances, pt \in Converted :
        \A n \in Names(i.profile[pt].enabled) : pt \in Implements[n[1]]

vars == <<loggerVars, file, pods, phase, scheme, versioned, args, registry, weights, restarts>>

Init ==
    /\ \E i \in Instances : file = [profile |-> i.profile, args |-> i.args] /\ pods = i.pods
    /\ phase = "start" /\ scheme = DefaultPlugins
    /\ versioned = DefaultPlugins /\ args = <<>> /\ registry = {} /\ weights = <<>>
    /\ restarts = 0
    /\ LoggerInit

\* ConvertConfigurationForSimulator, and the defaults it applies afterwards.
NewConfigs ==
    /\ phase = "start" /\ phase' = "converted"
    /\ versioned' = SetDefaults(ConvertForSimulator(file.profile, scheme.multiPoint), scheme)
    /\ args' = NewPluginConfig(file.args, scheme.multiPoint)
    /\ UNCHANGED <<file, pods, scheme, registry, weights, restarts, loggerVars>>

NewRegistry ==
    /\ phase = "converted" /\ phase' = "registered"
    /\ weights' = getScorePluginWeight(versioned)
    /\ registry' = newPluginFactories(scheme.multiPoint)
    /\ UNCHANGED <<file, pods, scheme, versioned, args, restarts, loggerVars>>

\* The scheme's defaulting function returns the converted profile from now on.
AddTypeDefaultingFunc ==
    /\ phase = "registered" /\ phase' = "defaulted"
    /\ scheme' = versioned
    /\ UNCHANGED <<file, pods, versioned, args, registry, weights, restarts, loggerVars>>

\* The plugins that kube-scheduler runs at a point.
Running(pt) == Expand(scheme, pt)
Logs(pt) == pluginName(Name(Logger)) \in Names(Running(pt))

\* kube-scheduler creates the plugins.
Start ==
    /\ phase = "defaulted" /\ phase' = "running"
    /\ IF Logs("score") \/ Logs("postBind") THEN New ELSE UNCHANGED <<states, actions, writers>>
    /\ UNCHANGED <<cycle, binding, assigned, unaware, attempts, cut, file, pods, scheme, versioned,
                   args, registry, weights, restarts>>

SchedulerStep ==
    /\ phase = "running"
    /\ \/ \E p \in pods, feasible \in SUBSET Nodes \ {{}} : Schedule(p, feasible)
       \/ \E n \in Nodes, energy \in {"value", "-1"} : Score(n, energy, Logs("score"))
       \/ CycleFails
       \/ \E n \in Nodes : Assume(n)
       \/ \E p \in pods : Bind(p) \/ SeesBound(p) \/ PostBind(p, Logs("postBind"))
    /\ UNCHANGED <<file, pods, phase, scheme, versioned, args, registry, weights, restarts>>

\* The process ends and is started again.
StartsAgain ==
    /\ pods # {} /\ restarts < MaxRestarts /\ restarts' = restarts + 1
    /\ phase' = "start" /\ scheme' = DefaultPlugins
    /\ versioned' = DefaultPlugins /\ args' = <<>> /\ registry' = {} /\ weights' = <<>>
    /\ UNCHANGED <<file, pods>>

Restart == phase = "running" /\ StartsAgain /\ Killed

\* kube-scheduler does not start without a plugin.
StartFails ==
    /\ phase = "defaulted" /\ StartsAgain
    /\ (Logs("score") \/ Logs("postBind")) /\ NewFails
    /\ UNCHANGED <<cycle, binding, assigned, unaware, attempts, cut>>

Next ==
    NewConfigs \/ NewRegistry \/ AddTypeDefaultingFunc \/ Start \/ StartFails \/ SchedulerStep \/ Restart

Spec == Init /\ [][Next]_vars

-----------------------------------------------------------------------------
Unwrapped(s) == [i \in DOMAIN s |-> TrimSuffix(s[i].name)]

\* What kube-scheduler would make of the user's profile and arguments itself.
Original == SetDefaults(file.profile, DefaultPlugins)

\* The wrapped profile schedules as the user's does: at every converted point the same
\* plugins in the same order, wrapped once and known to the registry, with the
\* arguments and score weights of their originals.
EffectiveSame ==
    phase = "running" =>
        /\ \A pt \in Converted :
            LET run == Running(pt)
                acts == {e \in ToSet(run) : pt \in Implements[e.name[1]]}
            IN  /\ Unwrapped(Selected(run, acts)) = Unwrapped(Expand(Original, pt))
                /\ \A n \in Names(run) :
                    /\ n[2] /\ n \in registry
                    /\ \A m \in {n, TrimSuffix(n)} :
                        m \in DOMAIN args <=> n[1] \in file.args \cup DefaultArgs
                    /\ n \in DOMAIN args =>
                        args[n] = IF n[1] \in file.args THEN "user" ELSE "default"
        /\ \A n \in Names(Running("score")) :
            "score" \in Implements[n[1]] =>
                FrameworkWeight(scheme, n) = FrameworkWeight(Original, TrimSuffix(n))

\* plugins.go:287: the store's weights are those of the enabled score plugins.
RecordsFrameworkWeights ==
    phase = "running" =>
        \A n \in Names(Running("score")) : weights[TrimSuffix(n)] = FrameworkWeight(scheme, n)

\* A logged action is a binding, with the candidates it was chosen from before it in the
\* state log, each once; and every binding is logged, unless the scheduler was stopped or
\* the API server's answer was lost before PostBind.  Missed from this are the rows that
\* were not written, and only of a file a write to which has failed.
LogTellsDecisions ==
    /\ \A r \in ToSet(actions) : assigned[r.pod] = r.node
    /\ \A i, j \in DOMAIN actions : actions[i].pod = actions[j].pod => i = j
    /\ phase = "running" /\ Logs("score") =>
        \A r \in ToSet(actions) :
            LET rows == {i \in DOMAIN states : states[i].by = r.by}
            IN  /\ \A i, j \in rows : states[i].node = states[j].node => i = j
                /\ {states[i].node : i \in rows} = Candidates(r.feasible) \ Lost(r, missed)
    /\ phase = "running" /\ Logs("postBind") =>
        \A p \in pods \ cut :
            assigned[p] # NoNode /\ binding[p] = None =>
                \/ \E r \in ToSet(actions) : r.pod = p
                \/ \E m \in missed : m.file = "actions" /\ m.pod = p
    /\ \A m \in missed : faults[m.file] > 0

-----------------------------------------------------------------------------
(* The inductive invariant. *)

\* What every process ends up with, and where it logs.
Effective ==
    [p \in {i.profile : i \in Instances} |->
        LET pls == SetDefaults(ConvertForSimulator(p, DefaultPlugins.multiPoint), DefaultPlugins)
        IN  [plugins |-> pls,
             logsAt |-> {pt \in Converted : pluginName(Name(Logger)) \in Names(Expand(pls, pt))}]]

\* Each phase of the start finds the defaults it needs, the old ones or the new.
StartsFromDefaults ==
    /\ file.profile \in DOMAIN Effective /\ pods \subseteq Pods
    /\ phase \in {"start", "converted", "registered", "defaulted", "running"}
    /\ phase \in {"start", "converted", "registered"} => scheme = DefaultPlugins
    /\ phase # "start" =>
        versioned = Effective[file.profile].plugins /\ args = NewPluginConfig(file.args, DefaultPlugins.multiPoint)
    /\ phase \notin {"start", "converted"} => registry = newPluginFactories(DefaultPlugins.multiPoint)
    /\ phase \in {"defaulted", "running"} => scheme = versioned
    /\ phase # "running" => cycle = None /\ \A p \in Pods : binding[p] = None

IInv ==
    /\ LoggerTypeOK /\ StartsFromDefaults /\ AttemptsApart /\ OneAttempt /\ MissesAfterFault
    /\ LET logsAt == Effective[file.profile].logsAt
       IN  /\ "score" \in logsAt => ScoresLogged
           /\ "postBind" \in logsAt => BindingsLogged

=============================================================================
