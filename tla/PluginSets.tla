----------------------------- MODULE PluginSets -----------------------------
(***************************************************************************)
(* The conversion of a profile's plugins for the simulator, as operators:  *)
(* scheduler/plugin/plugins.go, and what kube-scheduler makes of plugin    *)
(* sets (external).  A name is a pair: the plugin, and whether it is the   *)
(* wrapped one.  A profile's plugins are a function from the extension     *)
(* points, and MultiPoint, to plugin sets.                                 *)
(***************************************************************************)
EXTENDS Integers, SequencesExt, Selection

CONSTANTS
    DefaultMultiPoint,  \* MultiPoint.Enabled of the default configuration
    OutOfTree,          \* the registered plugins that are not in-tree
    Converted,          \* the extension points that ConvertForSimulator converts
    Unconverted,        \* those it does not: QueueSort, PreEnqueue
    Implements,         \* plugin -> the points it implements
    DefaultArgs         \* the plugins with arguments in the default configuration

Points == Converted \cup Unconverted

\* A wrapped plugin takes no part in queueSort, and its name in "*".
ASSUME PointsAssumption ==
    /\ {"score", "postBind"} \subseteq Converted
    /\ Converted \cap Unconverted = {}
    /\ "queueSort" \notin Converted /\ "multiPoint" \notin Points

Name(p) == <<p, FALSE>>
All == Name("*")
Entry(p, w) == [name |-> Name(p), weight |-> w]
Empty == [enabled |-> <<>>, disabled |-> {}]

\* By WrappedPlugin's suffix; TrimSuffix takes it away.
pluginName(n) == <<n[1], TRUE>>
TrimSuffix(n) == Name(n[1])

Names(s) == {s[i].name : i \in DOMAIN s}
LastOf(s, n) == Max({i \in DOMAIN s : s[i].name = n})

\* A default plugin keeps its place with the user's weight; the rest is appended.
mergePluginSet(default, custom) ==
    LET off == default.disabled \cup custom.disabled
        keeps == {e \in ToSet(default.enabled) : All \notin off /\ e.name \notin off}
        kept == Selected(default.enabled, keeps)
        Again(e) == e.name \in Names(custom.enabled)
        replaced == {LastOf(custom.enabled, e.name) : e \in {x \in ToSet(kept) : Again(x)}}
        rest == Selected([i \in DOMAIN custom.enabled |-> i], DOMAIN custom.enabled \ replaced)
    IN  [enabled |->
            [i \in DOMAIN kept |->
                IF Again(kept[i]) THEN custom.enabled[LastOf(custom.enabled, kept[i].name)]
                                  ELSE kept[i]]
            \o [i \in DOMAIN rest |-> custom.enabled[rest[i]]],
         disabled |-> off]

applyPluginSet(custom, default) ==
    LET merged == mergePluginSet(default, custom)
    IN  [enabled |-> [i \in DOMAIN merged.enabled |->
                        [merged.enabled[i] EXCEPT !.name = pluginName(@)]],
         disabled |-> {IF n = All THEN n ELSE pluginName(n) : n \in merged.disabled}]

\* Mutant of disableAllPluginSet: the defaults stay enabled beside the wrapped ones.
MutDisableAll(set) == set

disableAllPluginSet(set) == [set EXCEPT !.disabled = {All}]

ConvertForSimulator(pls, default) ==
    [pt \in DOMAIN pls |->
        CASE pt = "multiPoint" -> disableAllPluginSet(applyPluginSet(pls[pt], default))
          [] pt \in Converted -> applyPluginSet(pls[pt], Empty)
          [] OTHER -> pls[pt]]

RegisteredMultiPointPluginNames(default) == Names(default.enabled) \cup {Name(p) : p \in OutOfTree}

\* The originals of in-tree plugins are in every scheduler's registry.
newPluginFactories(default) ==
    {Name(p) : p \in OutOfTree} \cup {pluginName(n) : n \in RegisteredMultiPointPluginNames(default)}

\* pc: the plugins the user gives arguments to.  A wrapped plugin gets its original's.
NewPluginConfig(pc, default) ==
    LET args == [n \in {Name(p) : p \in DefaultArgs \cup pc} |-> IF n[1] \in pc THEN "user" ELSE "default"]
        wrapped == {pluginName(n) : n \in DOMAIN args \cap RegisteredMultiPointPluginNames(default)}
    IN  [n \in DOMAIN args \cup wrapped |-> args[TrimSuffix(n)]]

\* MultiPoint comes after Score, and the last one counts.
getScorePluginWeight(pls) ==
    LET s == pls.score.enabled \o pls.multiPoint.enabled
        WeightOf(n) == s[Max({i \in DOMAIN s : TrimSuffix(s[i].name) = n})].weight
    IN  [n \in {TrimSuffix(e) : e \in Names(s)} |-> IF WeightOf(n) = 0 THEN 1 ELSE WeightOf(n)]

-----------------------------------------------------------------------------
(* kube-scheduler *)

DefaultPlugins ==
    [pt \in Points \cup {"multiPoint"} |->
        IF pt = "multiPoint" THEN [enabled |-> DefaultMultiPoint, disabled |-> {}] ELSE Empty]

SetDefaults(pls, default) == [pt \in DOMAIN pls |-> mergePluginSet(default[pt], pls[pt])]

\* A wrapped plugin implements every point, but QueueSort only if its original does.
Implementing(n, pt) == pt \in Implements[n[1]] \/ (n[2] /\ pt # "queueSort")

\* The plugins of a point, in order: those of MultiPoint that the point configures
\* again, the other ones of MultiPoint, the other ones of the point.
Expand(pls, pt) ==
    LET own == pls[pt].enabled
        listed == {e \in ToSet(pls.multiPoint.enabled) :
                      /\ Implementing(e.name, pt)
                      /\ {All, e.name} \cap pls[pt].disabled = {}}
        multi == Selected(pls.multiPoint.enabled, listed)
        overrides == {e \in ToSet(own) : e.name \in Names(multi)}
        onlyMulti == {e \in ToSet(multi) : e.name \notin Names(own)}
    IN  Selected(own, overrides) \o Selected(multi, onlyMulti) \o Selected(own, ToSet(own) \ overrides)

\* The first one counts: a point's own weight before MultiPoint's.
FrameworkWeight(pls, n) ==
    LET s == pls.score.enabled \o pls.multiPoint.enabled
        w == s[Min({i \in DOMAIN s : s[i].name = n})].weight
    IN  IF w = 0 THEN 1 ELSE w

=============================================================================
