----------------------- MODULE SchedulingCycle_proofs -----------------------
(***************************************************************************)
(* Proofs about SchedulingCycle, for every cluster, profile, set of hooks  *)
(* and list of extenders: the wrapped plugins and the proxy behave as the  *)
(* original plugins and extenders do (a refinement), the stores explain    *)
(* what the scheduler rejected, which node it chose and how the attempt    *)
(* ended, and a failed attempt holds nothing.                              *)
(***************************************************************************)
EXTENDS SchedulingCycle, SequenceLemmas

-----------------------------------------------------------------------------
(***************************************************************************)
(* The lists of the framework.                                             *)
(***************************************************************************)

LEMMA PointsAre == FW!Points = PluginPoints \cup ExtPoints /\ PluginPoints \cap ExtPoints = {}
BY DEF FW!Points, PluginPoints, ExtPoints

LEMMA CallableAre ==
    ASSUME NEW pt
    PROVE  /\ Callable(pt) \subseteq Plugins \cup Ids
           /\ pt \in PluginPoints => Callable(pt) \subseteq Plugins
           /\ pt \notin FW!Points => Callable(pt) = {}
BY DEF Callable, PluginPoints, FW!Points

\* A configured extender.
LEMMA ExtenderIs ==
    ASSUME NEW i \in Ids
    PROVE  Extenders[i] \in [url : STRING, weight : Nat, verb : [Verbs -> STRING]]
<1> DEFINE E == [url : STRING, weight : Nat, verb : [Verbs -> STRING]]
<1>1. Extenders \in Seq(E) /\ i \in 1 .. Len(Extenders)
    BY ExtenderAssumption DEF Ids
<1> HIDE DEF E
<1>2. Extenders[i] \in E
    BY <1>1
<1> QED
    BY <1>2 DEF E

LEMMA CallingIn ==
    ASSUME NEW v
    PROVE  Calling(v) \in Seq({i \in Ids : Calls(i, v)})
<1>1. Len(Extenders) \in Nat
    BY ExtenderAssumption
<1>2. [i \in Ids |-> i] \in Seq(Ids)
    BY <1>1 DEF Ids
<1>3. Selected([i \in Ids |-> i], {i \in Ids : Calls(i, v)}) \in Seq(Ids \cap {i \in Ids : Calls(i, v)})
    BY <1>2, SelectedIn
<1>4. Ids \cap {i \in Ids : Calls(i, v)} = {i \in Ids : Calls(i, v)}
    OBVIOUS
<1> QED
    BY <1>3, <1>4 DEF Calling

LEMMA ReverseIn ==
    /\ Reverse(Profile) \in Seq(Plugins)
    /\ \A p \in Plugins : \E k \in DOMAIN Reverse(Profile) : Reverse(Profile)[k] = p
<1>1. Profile \in Seq(Plugins) /\ Len(Profile) \in Nat /\ DOMAIN Profile = 1 .. Len(Profile)
    BY ProfileAssumption
<1>2. \A i \in 1 .. Len(Profile) : Len(Profile) - i + 1 \in 1 .. Len(Profile)
    BY <1>1
<1>3. \A i \in 1 .. Len(Profile) : Profile[Len(Profile) - i + 1] \in Plugins
    BY <1>1, <1>2
<1>4. Reverse(Profile) = [i \in 1 .. Len(Profile) |-> Profile[Len(Profile) - i + 1]]
    BY DEF Reverse
<1>5. Reverse(Profile) \in Seq(Plugins)
    BY <1>1, <1>3, <1>4
<1>6. ASSUME NEW p \in Plugins
      PROVE  \E k \in DOMAIN Reverse(Profile) : Reverse(Profile)[k] = p
    <2>1. PICK i \in 1 .. Len(Profile) : Profile[i] = p
        BY <1>1 DEF Plugins
    <2>2. Len(Profile) - i + 1 \in 1 .. Len(Profile) /\ Len(Profile) - (Len(Profile) - i + 1) + 1 = i
        BY <1>1, <2>1
    <2> QED
        BY <1>4, <2>1, <2>2
<1> QED
    BY <1>5, <1>6

\* Every point's list has only those that may be called there.
LEMMA Lists ==
    /\ DOMAIN ListAt = FW!Points
    /\ \A pt \in FW!Points : ListAt[pt] \in Seq(Callable(pt))
    /\ \A pt \in PluginPoints \ {"Normalize", "Unreserve"} : ListAt[pt] = Profile
    /\ ListAt["ExtFilter"] = Calling("filter") /\ ListAt["ExtPrioritize"] = Calling("prioritize")
    /\ ListAt["Unreserve"] = Reverse(Profile)
<1>1. DOMAIN ListAt = FW!Points
    BY PointsAre DEF ListAt
<1>2. /\ ListAt["ExtFilter"] = Calling("filter") /\ ListAt["ExtPrioritize"] = Calling("prioritize")
      /\ ListAt["ExtBind"] = Calling("bind")
      /\ ListAt["Normalize"] = Selected(Profile, {p \in Plugins : ScoreExtensions(p)})
      /\ ListAt["Unreserve"] = Reverse(Profile)
    BY DEF ListAt, PluginPoints, ExtPoints
<1>3. \A pt \in PluginPoints \ {"Normalize", "Unreserve"} : ListAt[pt] = Profile
    BY DEF ListAt, PluginPoints, ExtPoints
<1>4. Profile \in Seq(Plugins)
    BY ProfileAssumption
<1>5. ListAt["Normalize"] \in Seq({p \in Plugins : ScoreExtensions(p)})
    <2>1. Selected(Profile, {p \in Plugins : ScoreExtensions(p)})
            \in Seq(Plugins \cap {p \in Plugins : ScoreExtensions(p)})
        BY <1>4, SelectedIn
    <2>2. Plugins \cap {p \in Plugins : ScoreExtensions(p)} = {p \in Plugins : ScoreExtensions(p)}
        OBVIOUS
    <2> QED
        BY <1>2, <2>1, <2>2
<1>6. ASSUME NEW pt \in FW!Points
      PROVE  ListAt[pt] \in Seq(Callable(pt))
    <2>1. CASE pt \in ExtPoints
        <3>1. CASE pt = "ExtFilter"
            <4>1. Callable(pt) = {i \in Ids : Calls(i, "filter")}
                BY <3>1 DEF Callable, PluginPoints
            <4>2. Calling("filter") \in Seq({i \in Ids : Calls(i, "filter")})
                BY CallingIn
            <4> QED
                BY <1>2, <3>1, <4>1, <4>2
        <3>2. CASE pt = "ExtPrioritize"
            <4>1. Callable(pt) = {i \in Ids : Calls(i, "prioritize")}
                BY <3>2 DEF Callable, PluginPoints
            <4>2. Calling("prioritize") \in Seq({i \in Ids : Calls(i, "prioritize")})
                BY CallingIn
            <4> QED
                BY <1>2, <3>2, <4>1, <4>2
        <3>3. CASE pt = "ExtBind"
            <4>1. Callable(pt) = {i \in Ids : Calls(i, "bind")}
                BY <3>3 DEF Callable, PluginPoints
            <4>2. Calling("bind") \in Seq({i \in Ids : Calls(i, "bind")})
                BY CallingIn
            <4> QED
                BY <1>2, <3>3, <4>1, <4>2
        <3> QED
            BY <2>1, <3>1, <3>2, <3>3 DEF ExtPoints
    <2>2. CASE pt = "Normalize"
        BY <1>5, <2>2 DEF Callable
    <2>3. CASE pt = "Unreserve"
        BY <1>2, <2>3, ReverseIn DEF Callable, PluginPoints
    <2>4. CASE pt \in PluginPoints \ {"Normalize", "Unreserve"}
        <3>1. Callable(pt) = Plugins
            BY <2>4 DEF Callable, PluginPoints
        <3> QED
            BY <1>3, <1>4, <2>4, <3>1
    <2> QED
        BY <2>1, <2>2, <2>3, <2>4, PointsAre
<1> QED
    BY <1>1, <1>2, <1>3, <1>6

\* What the framework asks of its user is so.
LEMMA FrameworkHolds == FW!FrameworkAssumption
<1>1. Scale \in Nat
    BY ExtenderAssumption DEF Scale
<1>2. ExtWeight \in [Ids -> Nat]
    BY ExtenderIs DEF ExtWeight
<1>3. ListAt \in [FW!Points -> Seq(Plugins \cup Ids)]
    <2>1. \A pt \in FW!Points : ListAt[pt] \in Seq(Plugins \cup Ids)
        BY Lists, CallableAre
    <2>2. ListAt = [pt \in FW!Points |-> ListAt[pt]]
        BY PointsAre DEF ListAt
    <2> QED
        BY <2>1, <2>2
<1> QED
    <2>1. FW!IsFiniteSet(Nodes) /\ Nodes # {} /\ NoNode \notin Nodes /\ MaxCycles \in Nat
        BY CycleAssumption DEF IsFiniteSet, FW!IsFiniteSet
    <2>2. Weight \in [Plugins -> Nat]
        BY ProfileAssumption
    <2> QED
        BY <1>1, <1>2, <1>3, <2>1, <2>2 DEF FW!FrameworkAssumption

-----------------------------------------------------------------------------
(***************************************************************************)
(* What a scheduler with the originals only has left to call.              *)
(***************************************************************************)

\* Both instances of the framework select as this module does.
LEMMA SelectionsAgree ==
    ASSUME NEW s, NEW S
    PROVE  FW!Selected(s, S) = Selected(s, S) /\ Promise!Selected(s, S) = Selected(s, S)
BY DEF FW!Selected, Promise!Selected, Selected

LEMMA UnwrappedNone ==
    ASSUME NEW pt
    PROVE  Unwrapped(<<>>, pt) = <<>>
<1>1. <<>> \in Seq({})
    OBVIOUS
<1> QED
    BY <1>1, SelectedUnfolds DEF Unwrapped

LEMMA UnwrappedOthers ==
    ASSUME NEW pt, pt \notin PluginPoints, NEW s
    PROVE  Unwrapped(s, pt) = s
BY DEF Unwrapped

\* The first wrapper's call is one of the other scheduler's, if there is an
\* original, and otherwise one that it does not make.
LEMMA UnwrappedFirst ==
    ASSUME NEW pt \in PluginPoints, NEW s \in Seq(Plugins), s # <<>>
    PROVE  /\ Original(Head(s), pt) =>
                /\ Unwrapped(s, pt) # <<>>
                /\ Head(Unwrapped(s, pt)) = Head(s)
                /\ Tail(Unwrapped(s, pt)) = Unwrapped(Tail(s), pt)
           /\ ~Original(Head(s), pt) => Unwrapped(s, pt) = Unwrapped(Tail(s), pt)
<1> DEFINE S == {p \in Plugins : Original(p, pt)}
<1>1. Unwrapped(s, pt) = Selected(s, S) /\ Unwrapped(Tail(s), pt) = Selected(Tail(s), S)
    BY DEF Unwrapped
<1>2. Head(s) \in Plugins /\ Tail(s) \in Seq(Plugins)
    OBVIOUS
<1>3. Head(s) \in S <=> Original(Head(s), pt)
    BY <1>2
<1> HIDE DEF S
<1>4. Selected(s, S) = IF Head(s) \in S THEN <<Head(s)>> \o Selected(Tail(s), S)
                       ELSE Selected(Tail(s), S)
    BY SelectedUnfolds
<1>5. Selected(Tail(s), S) \in Seq(Plugins \cap S)
    BY <1>2, SelectedIn
<1>6. Selected(Tail(s), S) \in Seq(Plugins)
    BY <1>5
<1>7. ASSUME NEW r \in Seq(Plugins)
      PROVE  <<Head(s)>> \o r # <<>> /\ Head(<<Head(s)>> \o r) = Head(s) /\ Tail(<<Head(s)>> \o r) = r
    BY <1>2
<1> QED
    BY <1>1, <1>3, <1>4, <1>6, <1>7

\* The other scheduler has the same calls before it at a point that is entered.
LEMMA CalledUnwrapped ==
    ASSUME NEW pt \in FW!Points, NEW as, NEW sk
    PROVE  Unwrapped(FW!Called(pt, as, sk), pt) = Promise!Called(pt, as, sk)
<1> DEFINE L == ListAt[pt]
           W == [q \in DOMAIN ListAt |-> Unwrapped(ListAt[q], q)]
           T == (Plugins \cup Ids) \ sk
           S == {p \in Plugins : Original(p, pt)}
<1>1. W[pt] = Unwrapped(L, pt)
    BY Lists
<1>2. /\ FW!Called(pt, as, sk) =
            IF pt = "ExtFilter" /\ as = {} THEN <<>>
            ELSE IF pt \in FW!NodePoints \cup {"Normalize"} THEN Selected(L, T) ELSE L
      /\ Promise!Called(pt, as, sk) =
            IF pt = "ExtFilter" /\ as = {} THEN <<>>
            ELSE IF pt \in FW!NodePoints \cup {"Normalize"} THEN Selected(W[pt], T) ELSE W[pt]
    <2>1. FW!Selected(L, T) = Selected(L, T) /\ Promise!Selected(W[pt], T) = Selected(W[pt], T)
        BY SelectionsAgree
    <2>2. FW!NodePoints = Promise!NodePoints
        BY DEF FW!NodePoints, Promise!NodePoints
    <2>3. FW!Called(pt, as, sk) =
            IF pt = "ExtFilter" /\ as = {} THEN <<>>
            ELSE IF pt \in FW!NodePoints \cup {"Normalize"} THEN FW!Selected(L, T) ELSE L
        BY DEF FW!Called
    <2>4. Promise!Called(pt, as, sk) =
            IF pt = "ExtFilter" /\ as = {} THEN <<>>
            ELSE IF pt \in Promise!NodePoints \cup {"Normalize"} THEN Promise!Selected(W[pt], T) ELSE W[pt]
        BY DEF Promise!Called
    <2> HIDE DEF L, W, T
    <2> QED
        BY <2>1, <2>2, <2>3, <2>4
<1>3. CASE pt \in FW!NodePoints \cup {"Normalize"}
    <2>1. pt \in PluginPoints /\ pt # "ExtFilter"
        BY <1>3 DEF FW!NodePoints, PluginPoints
    <2>2. L \in Seq(Plugins \cup Ids)
        BY Lists, CallableAre
    <2>3. Unwrapped(L, pt) = Selected(L, S) /\ Unwrapped(Selected(L, T), pt) = Selected(Selected(L, T), S)
        BY <2>1 DEF Unwrapped
    <2> HIDE DEF L, W, S, T
    <2>4. Selected(Selected(L, T), S) = Selected(Selected(L, S), T)
        BY <2>2, SelectedTwice
    <2> QED
        BY <1>1, <1>2, <1>3, <2>1, <2>3, <2>4
<1>4. CASE pt \notin FW!NodePoints \cup {"Normalize"}
    <2> HIDE DEF L, W, S, T
    <2> QED
        BY <1>1, <1>2, <1>4, UnwrappedNone
<1> QED
    BY <1>3, <1>4

LEMMA EnterUnwrapped ==
    ASSUME NEW pt \in FW!Points, NEW as, NEW sk, FW!Enter(pt, as, sk)
    PROVE  Promise!Enter(pt, as, sk)
<1> DEFINE called == FW!Called(pt, as, sk)
<1>1. /\ point' = pt
      /\ todo' = IF pt \in FW!NodePoints THEN <<>> ELSE called
      /\ lane' = [n \in Nodes |-> IF pt \in FW!NodePoints /\ n \in as THEN called ELSE <<>>]
    BY DEF FW!Enter
<1>2. Unwrapped(called, pt) = Promise!Called(pt, as, sk)
    BY CalledUnwrapped
<1>3. FW!NodePoints = Promise!NodePoints
    BY DEF FW!NodePoints, Promise!NodePoints
<1> HIDE DEF called
<1>4. Unwrapped(todo', point') = IF pt \in FW!NodePoints THEN <<>> ELSE Promise!Called(pt, as, sk)
    BY <1>1, <1>2, UnwrappedNone
<1>5. \A n \in Nodes : Unwrapped(lane'[n], point') =
        IF pt \in FW!NodePoints /\ n \in as THEN Promise!Called(pt, as, sk) ELSE <<>>
    BY <1>1, <1>2, UnwrappedNone
<1> QED
    BY <1>1, <1>3, <1>4, <1>5 DEF Promise!Enter

LEMMA DoneUnwrapped ==
    ASSUME NEW pt, FW!Done(pt)
    PROVE  Promise!Done(pt)
<1>1. point' = pt /\ todo' = <<>> /\ lane' = [n \in Nodes |-> <<>>]
    BY DEF FW!Done, FW!NoLane
<1>2. Unwrapped(todo', point') = <<>> /\ \A n \in Nodes : Unwrapped(lane'[n], point') = <<>>
    BY <1>1, UnwrappedNone
<1> QED
    BY <1>1, <1>2 DEF Promise!Done, Promise!NoLane

\* What is left and where stays as it is, for the other scheduler.
Keeps == UNCHANGED <<point, Unwrapped(todo, point), [n \in Nodes |-> Unwrapped(lane[n], point)]>>

LEMMA PopUnwrapped ==
    ASSUME point \in PluginPoints, todo \in Seq(Plugins), todo # <<>>, FW!Pop
    PROVE  /\ Original(Head(todo), point) =>
                Unwrapped(todo, point) # <<>> /\ Head(Unwrapped(todo, point)) = Head(todo) /\ Promise!Pop
           /\ ~Original(Head(todo), point) => Keeps
<1>1. todo' = Tail(todo) /\ point' = point /\ lane' = lane
    BY DEF FW!Pop
<1>2. \A n \in Nodes : Unwrapped(lane'[n], point') = Unwrapped(lane[n], point)
    BY <1>1
<1>3. [n \in Nodes |-> Unwrapped(lane'[n], point')] = [n \in Nodes |-> Unwrapped(lane[n], point)]
    BY <1>2
<1> QED
    BY <1>1, <1>3, UnwrappedFirst DEF Promise!Pop, Keeps

\* At an extender's point both have the same calls.
LEMMA ExtPopUnwrapped ==
    ASSUME point \notin PluginPoints, FW!Pop
    PROVE  Unwrapped(todo, point) = todo /\ Promise!Pop
<1>1. todo' = Tail(todo) /\ point' = point /\ lane' = lane
    BY DEF FW!Pop
<1>2. \A n \in Nodes : Unwrapped(lane'[n], point') = Unwrapped(lane[n], point)
    BY <1>1
<1>3. [n \in Nodes |-> Unwrapped(lane'[n], point')] = [n \in Nodes |-> Unwrapped(lane[n], point)]
    BY <1>2
<1>4. Unwrapped(todo, point) = todo /\ Unwrapped(todo', point') = todo'
    BY <1>1, UnwrappedOthers
<1> QED
    BY <1>1, <1>3, <1>4 DEF Promise!Pop

-----------------------------------------------------------------------------
(***************************************************************************)
(* The refinement: the calls of plugins.                                   *)
(***************************************************************************)

LEMMA Stutters ==
    ASSUME Keeps, UNCHANGED <<alive, skipped, waiting, score, extScore, node, cycles, answer, held>>
    PROVE  UNCHANGED Promise!cvars
BY DEF Keeps, Promise!cvars, Promise!fw

\* A way through a wrapper with an original is a call of the original, on whose
\* answer, or a hook's, the scheduler acts.
LEMMA Asked ==
    ASSUME NEW p, NEW says, NEW neutral, Original(p, point),
           NEW w \in Ways(p, point, says, neutral), Heard(w)
    PROVE  \E a \in says :
              /\ w.s = a.s /\ w.v = a.v /\ Promise!Call(p, says, a)
              /\ ~w.ran => <<p, point>> \in Hooked
<1>1. w \in Before(p, point, says)
        \cup UNION {{Ran(a, b) : b \in AfterHook(p, point, a, says)} : a \in says}
    BY DEF Ways
<1>2. CASE w \in Before(p, point, says)
    <2>1. <<p, point>> \in Hooked /\ \E b \in says : w = Unran(b.s, b.v)
        BY <1>2 DEF Before
    <2>2. PICK b \in says : w = Unran(b.s, b.v)
        BY <2>1
    <2>3. w.s = b.s /\ w.v = b.v /\ answer' = answer
        BY <2>2 DEF Unran, Heard
    <2> QED
        BY <2>1, <2>3 DEF Promise!Call
<1>3. CASE w \in UNION {{Ran(a, b) : b \in AfterHook(p, point, a, says)} : a \in says}
    <2>1. PICK a \in says : \E b \in AfterHook(p, point, a, says) : w = Ran(a, b)
        BY <1>3
    <2>2. PICK b \in AfterHook(p, point, a, says) : w = Ran(a, b)
        BY <2>1
    <2>3. w.s = b.s /\ w.v = b.v /\ answer' = a /\ w.ran
        BY <2>2 DEF Ran, Heard
    <2>4. b = a \/ (<<p, point>> \in Hooked /\ b \in says)
        BY <2>2 DEF AfterHook
    <2> QED
        BY <2>1, <2>3, <2>4 DEF Promise!Call
<1> QED
    BY <1>1, <1>2, <1>3

\* Without an original the wrapper gives the neutral answer.
LEMMA Neutral ==
    ASSUME NEW p, NEW pt, NEW says, NEW s, NEW v, ~Original(p, pt),
           NEW w \in Ways(p, pt, says, Unran(s, v))
    PROVE  w.s = s /\ w.v = v /\ ~w.ran /\ (Heard(w) => answer' = answer)
<1>1. w = Unran(s, v)
    BY DEF Ways
<1> QED
    BY <1>1 DEF Unran, Heard

\* What the refinement needs of the invariant.
LEMMA Facts ==
    ASSUME TypeOK, CallsLeft, Scored
    PROVE  /\ point \in PluginPoints => todo \in Seq(Plugins)
           /\ alive \subseteq Nodes
           /\ lane \in [Nodes -> Seq(Plugins)]
           /\ score \in [Plugins -> [Nodes -> 0 .. MaxScore]]
           /\ waiting \in BOOLEAN
           /\ point = "PreFilter" => alive # {}
<1>1. FW!FrameworkTypeOK
    BY DEF TypeOK
<1>2. point \in PluginPoints => todo \in Seq(Plugins)
    <2>1. point \in PluginPoints => Callable(point) \subseteq Plugins
        BY CallableAre
    <2>2. todo \in Seq(Callable(point))
        BY DEF CallsLeft
    <2> QED
        BY <2>1, <2>2
<1>3. score \in [Plugins -> [Nodes -> 0 .. MaxScore]]
    <2>1. score \in [Plugins -> [Nodes -> Nat]]
        BY <1>1 DEF FW!FrameworkTypeOK
    <2>2. \A q \in Plugins, n \in Nodes : score[q][n] \in 0 .. MaxScore
        BY <2>1, CycleAssumption DEF Scored
    <2> QED
        BY <2>1, <2>2
<1> QED
    BY <1>1, <1>2, <1>3 DEF FW!FrameworkTypeOK, CallsLeft

LEMMA PreFilterRefines ==
    ASSUME TypeOK, CallsLeft, Scored, NEW p \in Plugins, PreFilter(p)
    PROVE  Promise!PreFilter(p) \/ UNCHANGED Promise!cvars
<1>1. PICK w \in Ways(p, "PreFilter", Promise!PreFilterSays, Unran("Success", Nodes)) :
        FW!PreFilterReturned(p, w.s, w.v) /\ Heard(w) /\ Rest
    BY DEF PreFilter
<1>2. /\ point = "PreFilter" /\ todo # <<>> /\ p = Head(todo)
      /\ alive' = CASE w.s = "Unschedulable" -> {} [] w.s = "Skip" -> alive [] OTHER -> alive \cap w.v
      /\ skipped' = IF w.s = "Skip" THEN skipped \cup {p} ELSE skipped
      /\ IF alive' = {} THEN FW!Unschedulable ELSE FW!Pop
      /\ UNCHANGED <<waiting, score, extScore, node, cycles>>
    BY <1>1 DEF FW!PreFilterReturned, FW!Next_
<1>3. held' = held
    BY <1>1 DEF Rest
<1>4. point \in PluginPoints /\ todo \in Seq(Plugins) /\ "PostFilter" \in FW!Points
    BY <1>2, Facts DEF PluginPoints, FW!Points
<1>5. CASE Original(p, "PreFilter")
    <2>1. PICK a \in Promise!PreFilterSays : w.s = a.s /\ w.v = a.v /\ Promise!Call(p, Promise!PreFilterSays, a)
        BY <1>1, <1>2, <1>5, Asked
    <2>2. Unwrapped(todo, point) # <<>> /\ p = Head(Unwrapped(todo, point))
        BY <1>2, <1>4, <1>5, UnwrappedFirst
    <2>3. FW!Unschedulable => Promise!Unschedulable
        BY <1>4, EnterUnwrapped DEF FW!Unschedulable, Promise!Unschedulable
    <2>4. FW!Pop => Promise!Pop
        BY <1>2, <1>4, <1>5, PopUnwrapped
    <2>5. Promise!PreFilterReturned(p, a.s, a.v)
        BY <1>2, <2>1, <2>2, <2>3, <2>4 DEF Promise!PreFilterReturned, Promise!Next_
    <2> QED
        BY <1>3, <2>1, <2>5 DEF Promise!PreFilter, Promise!Ask
<1>6. CASE ~Original(p, "PreFilter")
    <2>1. w.s = "Success" /\ w.v = Nodes /\ answer' = answer
        BY <1>1, <1>6, Neutral
    <2>2. alive' = alive /\ alive # {} /\ skipped' = skipped
        BY <1>2, <2>1, Facts
    <2>3. Keeps
        BY <1>2, <1>4, <1>6, <2>2, PopUnwrapped
    <2> QED
        BY <1>2, <1>3, <2>1, <2>2, <2>3, Stutters
<1> QED
    BY <1>5, <1>6

\* A point called per node: what is left there of one node's calls.
LEMMA LaneUnwrapped ==
    ASSUME point \in PluginPoints, lane \in [Nodes -> Seq(Plugins)], UNCHANGED <<point, todo>>,
           NEW n \in Nodes, lane[n] # <<>>,
           NEW ok, lane' = [lane EXCEPT ![n] = IF ok THEN Tail(@) ELSE <<>>]
    PROVE  LET lanes == [m \in Nodes |-> Unwrapped(lane[m], point)]
           IN  /\ Unwrapped(todo', point') = Unwrapped(todo, point)
               /\ Original(Head(lane[n]), point) =>
                    /\ lanes[n] # <<>> /\ Head(lanes[n]) = Head(lane[n])
                    /\ [m \in Nodes |-> Unwrapped(lane'[m], point')] =
                            [lanes EXCEPT ![n] = IF ok THEN Tail(@) ELSE <<>>]
               /\ ~Original(Head(lane[n]), point) /\ ok => Keeps
<1> DEFINE lanes == [m \in Nodes |-> Unwrapped(lane[m], point)]
           later == [m \in Nodes |-> Unwrapped(lane'[m], point')]
<1>1. lane[n] \in Seq(Plugins)
    OBVIOUS
<1>2. /\ Original(Head(lane[n]), point) =>
            /\ lanes[n] # <<>> /\ Head(lanes[n]) = Head(lane[n])
            /\ Tail(lanes[n]) = Unwrapped(Tail(lane[n]), point)
      /\ ~Original(Head(lane[n]), point) => lanes[n] = Unwrapped(Tail(lane[n]), point)
    BY <1>1, UnwrappedFirst
<1>3. \A m \in Nodes : later[m] = IF m = n THEN Unwrapped(IF ok THEN Tail(lane[n]) ELSE <<>>, point) ELSE lanes[m]
    OBVIOUS
<1>4. Unwrapped(<<>>, point) = <<>>
    BY UnwrappedNone
<1>5. /\ DOMAIN lanes = Nodes /\ DOMAIN later = Nodes
      /\ later = [m \in Nodes |-> later[m]] /\ lanes = [m \in Nodes |-> lanes[m]]
    OBVIOUS
<1>6. ~Original(Head(lane[n]), point) /\ ok => later = lanes
    <2> SUFFICES ASSUME ~Original(Head(lane[n]), point) /\ ok
                 PROVE  later = lanes
        OBVIOUS
    <2>1. \A m \in Nodes : later[m] = lanes[m]
        BY <1>2, <1>3
    <2> HIDE DEF lanes, later
    <2> QED
        BY <1>5, <2>1
<1>7. Original(Head(lane[n]), point) =>
        later = [lanes EXCEPT ![n] = IF ok THEN Tail(@) ELSE <<>>]
    <2> SUFFICES ASSUME Original(Head(lane[n]), point)
                 PROVE  later = [lanes EXCEPT ![n] = IF ok THEN Tail(@) ELSE <<>>]
        OBVIOUS
    <2> DEFINE new == IF ok THEN Tail(lanes[n]) ELSE <<>>
    <2>1. \A m \in Nodes : later[m] = IF m = n THEN new ELSE lanes[m]
        BY <1>2, <1>3, <1>4
    <2> HIDE DEF lanes, later
    <2> QED
        BY <1>5, <2>1
<1>8. ~Original(Head(lane[n]), point) /\ ok => Keeps
    BY <1>6 DEF Keeps
<1> QED
    BY <1>2, <1>7, <1>8

LEMMA FilterRefines ==
    ASSUME TypeOK, CallsLeft, Scored, NEW p \in Plugins, NEW n \in Nodes, Filter(p, n)
    PROVE  Promise!Filter(p, n) \/ UNCHANGED Promise!cvars
<1>1. PICK w \in Ways(p, "Filter", Promise!FilterSays, Unran("Success", "none")) :
        FW!FilterReturned(p, n, w.s) /\ Heard(w) /\ Rest
    BY DEF Filter, FilterWays
<1> DEFINE ok == w.s = "Success"
           lanes == [m \in Nodes |-> Unwrapped(lane[m], point)]
<1>2. /\ point = "Filter" /\ lane[n] # <<>> /\ p = Head(lane[n])
      /\ alive' = IF w.s = "Success" THEN alive ELSE alive \ {n}
      /\ lane' = [lane EXCEPT ![n] = IF ok THEN Tail(@) ELSE <<>>]
      /\ UNCHANGED <<point, todo, skipped, waiting, score, extScore, node, cycles>>
    BY <1>1 DEF FW!FilterReturned
<1>3. held' = held
    BY <1>1 DEF Rest
<1>4. point \in PluginPoints /\ lane \in [Nodes -> Seq(Plugins)]
    BY <1>2, Facts DEF PluginPoints
<1>6. CASE Original(p, "Filter")
    <2>1. PICK a \in Promise!FilterSays : w.s = a.s /\ w.v = a.v /\ Promise!Call(p, Promise!FilterSays, a)
        BY <1>1, <1>2, <1>6, Asked
    <2>2. /\ lanes[n] # <<>> /\ p = Head(lanes[n]) /\ Unwrapped(todo', point') = Unwrapped(todo, point)
          /\ [m \in Nodes |-> Unwrapped(lane'[m], point')] =
                [lanes EXCEPT ![n] = IF ok THEN Tail(@) ELSE <<>>]
        BY <1>2, <1>4, <1>6, LaneUnwrapped
    <2>3. Promise!FilterReturned(p, n, a.s)
        BY <1>2, <2>1, <2>2 DEF Promise!FilterReturned
    <2> QED
        BY <1>3, <2>1, <2>3 DEF Promise!Filter, Promise!Ask
<1>7. CASE ~Original(p, "Filter")
    <2>1. w.s = "Success" /\ answer' = answer
        BY <1>1, <1>7, Neutral
    <2>2. Keeps
        BY <1>2, <1>4, <1>7, <2>1, LaneUnwrapped
    <2> QED
        BY <1>2, <1>3, <2>1, <2>2, Stutters
<1> QED
    BY <1>6, <1>7

LEMMA PostFilterRefines ==
    ASSUME TypeOK, CallsLeft, Scored, NEW p \in Plugins, PostFilter(p)
    PROVE  Promise!PostFilter(p) \/ UNCHANGED Promise!cvars
<1>1. PICK w \in Ways(p, "PostFilter", Promise!PostFilterSays, Unran("Unschedulable", NoNode)) :
        FW!PostFilterReturned(p, w.s) /\ Heard(w) /\ held' = held
    BY DEF PostFilter, Rest
<1>2. /\ point = "PostFilter" /\ todo # <<>> /\ p = Head(todo)
      /\ IF w.s = "Success" THEN FW!Done("Idle") ELSE FW!Pop
      /\ UNCHANGED <<alive, skipped, waiting, score, extScore, node, cycles>>
    BY <1>1 DEF FW!PostFilterReturned, FW!Next_, FW!PopOr
<1>3. point \in PluginPoints /\ todo \in Seq(Plugins)
    BY <1>2, Facts DEF PluginPoints
<1>4. CASE Original(p, "PostFilter")
    <2>1. PICK a \in Promise!PostFilterSays :
            /\ w.s = a.s /\ w.v = a.v /\ Promise!Call(p, Promise!PostFilterSays, a)
            /\ ~w.ran => <<p, point>> \in Hooked
        BY <1>1, <1>2, <1>4, Asked
    <2>2. Unwrapped(todo, point) # <<>> /\ p = Head(Unwrapped(todo, point))
        BY <1>2, <1>3, <1>4, UnwrappedFirst
    <2>3. FW!Pop => Promise!Pop
        BY <1>2, <1>3, <1>4, PopUnwrapped
    <2>4. FW!Done("Idle") => Promise!Done("Idle")
        BY DoneUnwrapped
    <2>5. Promise!PostFilterReturned(p, a.s)
        BY <1>2, <2>1, <2>2, <2>3, <2>4 DEF Promise!PostFilterReturned, Promise!Next_, Promise!PopOr
    <2> QED
        BY <1>1, <1>2, <2>1, <2>5 DEF Promise!PostFilter, Promise!Ask
<1>5. CASE ~Original(p, "PostFilter")
    <2>1. w.s = "Unschedulable" /\ ~w.ran /\ answer' = answer
        BY <1>1, <1>5, Neutral
    <2>2. Keeps
        BY <1>2, <1>3, <1>5, <2>1, PopUnwrapped
    <2> QED
        BY <1>1, <1>2, <2>1, <2>2, Stutters
<1> QED
    BY <1>4, <1>5

LEMMA PreScoreRefines ==
    ASSUME TypeOK, CallsLeft, Scored, NEW p \in Plugins, PreScore(p)
    PROVE  Promise!PreScore(p) \/ UNCHANGED Promise!cvars
<1>1. PICK w \in Ways(p, "PreScore", Promise!PreScoreSays, Unran("Success", "none")) :
        FW!PreScoreReturned(p, w.s) /\ Heard(w) /\ held' = held
    BY DEF PreScore, Rest
<1>2. /\ point = "PreScore" /\ todo # <<>> /\ p = Head(todo)
      /\ skipped' = IF w.s = "Skip" THEN skipped \cup {p} ELSE skipped
      /\ IF w.s = "Unschedulable" THEN FW!Done("Idle") ELSE FW!Pop
      /\ UNCHANGED <<alive, waiting, score, extScore, node, cycles>>
    BY <1>1 DEF FW!PreScoreReturned, FW!Next_, FW!PopOr
<1>3. point \in PluginPoints /\ todo \in Seq(Plugins)
    BY <1>2, Facts DEF PluginPoints
<1>4. CASE Original(p, "PreScore")
    <2>1. PICK a \in Promise!PreScoreSays :
            /\ w.s = a.s /\ w.v = a.v /\ Promise!Call(p, Promise!PreScoreSays, a)
            /\ ~w.ran => <<p, point>> \in Hooked
        BY <1>1, <1>2, <1>4, Asked
    <2>2. Unwrapped(todo, point) # <<>> /\ p = Head(Unwrapped(todo, point))
        BY <1>2, <1>3, <1>4, UnwrappedFirst
    <2>3. FW!Pop => Promise!Pop
        BY <1>2, <1>3, <1>4, PopUnwrapped
    <2>4. FW!Done("Idle") => Promise!Done("Idle")
        BY DoneUnwrapped
    <2>5. Promise!PreScoreReturned(p, a.s)
        BY <1>2, <2>1, <2>2, <2>3, <2>4 DEF Promise!PreScoreReturned, Promise!Next_, Promise!PopOr
    <2> QED
        BY <1>1, <1>2, <2>1, <2>5 DEF Promise!PreScore, Promise!Ask
<1>5. CASE ~Original(p, "PreScore")
    <2>1. w.s = "Success" /\ ~w.ran /\ answer' = answer
        BY <1>1, <1>5, Neutral
    <2>2. Keeps
        BY <1>2, <1>3, <1>5, <2>1, PopUnwrapped
    <2> QED
        BY <1>1, <1>2, <2>1, <2>2, Stutters
<1> QED
    BY <1>4, <1>5

LEMMA PermitRefines ==
    ASSUME TypeOK, CallsLeft, Scored, NEW p \in Plugins, Permit(p)
    PROVE  Promise!Permit(p) \/ UNCHANGED Promise!cvars
<1>1. PICK w \in Ways(p, "Permit", Promise!PermitSays, Unran("Success", "none")) :
        FW!PermitReturned(p, w.s) /\ Heard(w) /\ held' = held
    BY DEF Permit, Rest
<1>2. /\ point = "Permit" /\ todo # <<>> /\ p = Head(todo)
      /\ waiting' = (waiting \/ w.s = "Wait")
      /\ IF w.s = "Unschedulable" THEN FW!Undo ELSE FW!Pop
      /\ UNCHANGED <<alive, skipped, score, extScore, node, cycles>>
    BY <1>1 DEF FW!PermitReturned, FW!Next_, FW!PopOr
<1>3. point \in PluginPoints /\ todo \in Seq(Plugins)
    BY <1>2, Facts DEF PluginPoints
<1>4. CASE Original(p, "Permit")
    <2>1. PICK a \in Promise!PermitSays :
            /\ w.s = a.s /\ w.v = a.v /\ Promise!Call(p, Promise!PermitSays, a)
            /\ ~w.ran => <<p, point>> \in Hooked
        BY <1>1, <1>2, <1>4, Asked
    <2>2. Unwrapped(todo, point) # <<>> /\ p = Head(Unwrapped(todo, point))
        BY <1>2, <1>3, <1>4, UnwrappedFirst
    <2>3. FW!Pop => Promise!Pop
        BY <1>2, <1>3, <1>4, PopUnwrapped
    <2>4. FW!Undo => Promise!Undo
        BY EnterUnwrapped DEF FW!Undo, Promise!Undo, FW!Points
    <2>5. Promise!PermitReturned(p, a.s)
        BY <1>2, <2>1, <2>2, <2>3, <2>4 DEF Promise!PermitReturned, Promise!Next_, Promise!PopOr
    <2> QED
        BY <1>1, <1>2, <2>1, <2>5 DEF Promise!Permit, Promise!Ask
<1>5. CASE ~Original(p, "Permit")
    <2>1. w.s = "Success" /\ ~w.ran /\ answer' = answer
        BY <1>1, <1>5, Neutral
    <2>2. Keeps
        BY <1>2, <1>3, <1>5, <2>1, PopUnwrapped
    <2>3. waiting' = waiting
        BY <1>2, <2>1, Facts
    <2> QED
        BY <1>1, <1>2, <2>1, <2>2, <2>3, Stutters
<1> QED
    BY <1>4, <1>5

LEMMA PreBindRefines ==
    ASSUME TypeOK, CallsLeft, Scored, NEW p \in Plugins, PreBind(p)
    PROVE  Promise!PreBind(p) \/ UNCHANGED Promise!cvars
<1>1. PICK w \in Ways(p, "PreBind", Promise!PreBindSays, Unran("Success", "none")) :
        FW!PreBindReturned(p, w.s) /\ Heard(w) /\ held' = held
    BY DEF PreBind, Rest
<1>2. /\ point = "PreBind" /\ todo # <<>> /\ p = Head(todo)
      /\ IF w.s = "Success" THEN FW!Pop ELSE FW!Undo
      /\ UNCHANGED <<alive, skipped, waiting, score, extScore, node, cycles>>
    BY <1>1 DEF FW!PreBindReturned, FW!Next_, FW!PopOr
<1>3. point \in PluginPoints /\ todo \in Seq(Plugins)
    BY <1>2, Facts DEF PluginPoints
<1>4. CASE Original(p, "PreBind")
    <2>1. PICK a \in Promise!PreBindSays :
            /\ w.s = a.s /\ w.v = a.v /\ Promise!Call(p, Promise!PreBindSays, a)
            /\ ~w.ran => <<p, point>> \in Hooked
        BY <1>1, <1>2, <1>4, Asked
    <2>2. Unwrapped(todo, point) # <<>> /\ p = Head(Unwrapped(todo, point))
        BY <1>2, <1>3, <1>4, UnwrappedFirst
    <2>3. FW!Pop => Promise!Pop
        BY <1>2, <1>3, <1>4, PopUnwrapped
    <2>4. FW!Undo => Promise!Undo
        BY EnterUnwrapped DEF FW!Undo, Promise!Undo, FW!Points
    <2>5. Promise!PreBindReturned(p, a.s)
        BY <1>2, <2>1, <2>2, <2>3, <2>4 DEF Promise!PreBindReturned, Promise!Next_, Promise!PopOr
    <2> QED
        BY <1>1, <1>2, <2>1, <2>5 DEF Promise!PreBind, Promise!Ask
<1>5. CASE ~Original(p, "PreBind")
    <2>1. w.s = "Success" /\ ~w.ran /\ answer' = answer
        BY <1>1, <1>5, Neutral
    <2>2. Keeps
        BY <1>2, <1>3, <1>5, <2>1, PopUnwrapped
    <2> QED
        BY <1>1, <1>2, <2>1, <2>2, Stutters
<1> QED
    BY <1>4, <1>5

LEMMA BindRefines ==
    ASSUME TypeOK, CallsLeft, Scored, NEW p \in Plugins, Bind(p)
    PROVE  Promise!Bind(p) \/ UNCHANGED Promise!cvars
<1>1. PICK w \in Ways(p, "Bind", Promise!BindSays, Unran("Skip", "none")) :
        FW!BindReturned(p, w.s) /\ Heard(w) /\ held' = held
    BY DEF Bind, Rest
<1>2. /\ point = "Bind" /\ todo # <<>> /\ p = Head(todo)
      /\ CASE w.s = "Skip" -> FW!Pop
           [] w.s = "Success" -> FW!Enter("PostBind", alive, skipped)
           [] OTHER -> FW!Undo
      /\ UNCHANGED <<alive, skipped, waiting, score, extScore, node, cycles>>
    BY <1>1 DEF FW!BindReturned, FW!Next_, FW!PopOr
<1>3. point \in PluginPoints /\ todo \in Seq(Plugins)
    BY <1>2, Facts DEF PluginPoints
<1>4. CASE Original(p, "Bind")
    <2>1. PICK a \in Promise!BindSays :
            /\ w.s = a.s /\ w.v = a.v /\ Promise!Call(p, Promise!BindSays, a)
            /\ ~w.ran => <<p, point>> \in Hooked
        BY <1>1, <1>2, <1>4, Asked
    <2>2. Unwrapped(todo, point) # <<>> /\ p = Head(Unwrapped(todo, point))
        BY <1>2, <1>3, <1>4, UnwrappedFirst
    <2>3. FW!Pop => Promise!Pop
        BY <1>2, <1>3, <1>4, PopUnwrapped
    <2>4. FW!Undo => Promise!Undo
        BY EnterUnwrapped DEF FW!Undo, Promise!Undo, FW!Points
    <2>5. FW!Enter("PostBind", alive, skipped) => Promise!Enter("PostBind", alive, skipped)
        BY EnterUnwrapped DEF FW!Points
    <2>6. Promise!BindReturned(p, a.s)
        BY <1>2, <2>1, <2>2, <2>3, <2>4, <2>5 DEF Promise!BindReturned, Promise!Next_, Promise!PopOr
    <2> QED
        BY <1>1, <1>2, <2>1, <2>6 DEF Promise!Bind, Promise!Ask
<1>5. CASE ~Original(p, "Bind")
    <2>1. w.s = "Skip" /\ ~w.ran /\ answer' = answer
        BY <1>1, <1>5, Neutral
    <2>2. Keeps
        BY <1>2, <1>3, <1>5, <2>1, PopUnwrapped
    <2> QED
        BY <1>1, <1>2, <2>1, <2>2, Stutters
<1> QED
    BY <1>4, <1>5

LEMMA ReserveRefines ==
    ASSUME TypeOK, CallsLeft, Scored, NEW p \in Plugins, Reserve(p)
    PROVE  Promise!Reserve(p) \/ UNCHANGED Promise!cvars
<1>1. PICK w \in Ways(p, "Reserve", Promise!ReserveSays, Unran("Success", "none")) :
        FW!ReserveReturned(p, w.s) /\ Heard(w) /\ held' = IF w.ran THEN held \cup {p} ELSE held
    BY DEF Reserve, Rest
<1>2. /\ point = "Reserve" /\ todo # <<>> /\ p = Head(todo)
      /\ IF w.s = "Success" THEN FW!Pop ELSE FW!Undo
      /\ UNCHANGED <<alive, skipped, waiting, score, extScore, node, cycles>>
    BY <1>1 DEF FW!ReserveReturned, FW!Next_, FW!PopOr
<1>3. point \in PluginPoints /\ todo \in Seq(Plugins)
    BY <1>2, Facts DEF PluginPoints
<1>4. CASE Original(p, "Reserve")
    <2>1. PICK a \in Promise!ReserveSays :
            /\ w.s = a.s /\ w.v = a.v /\ Promise!Call(p, Promise!ReserveSays, a)
            /\ ~w.ran => <<p, point>> \in Hooked
        BY <1>1, <1>2, <1>4, Asked
    <2>2. Unwrapped(todo, point) # <<>> /\ p = Head(Unwrapped(todo, point))
        BY <1>2, <1>3, <1>4, UnwrappedFirst
    <2>3. FW!Pop => Promise!Pop
        BY <1>2, <1>3, <1>4, PopUnwrapped
    <2>4. FW!Undo => Promise!Undo
        BY EnterUnwrapped DEF FW!Undo, Promise!Undo, FW!Points
    <2>5. Promise!ReserveReturned(p, a.s)
        BY <1>2, <2>1, <2>2, <2>3, <2>4 DEF Promise!ReserveReturned, Promise!Next_, Promise!PopOr
    <2> QED
        BY <1>1, <1>2, <2>1, <2>5 DEF Promise!Reserve, Promise!Ask
<1>5. CASE ~Original(p, "Reserve")
    <2>1. w.s = "Success" /\ ~w.ran /\ answer' = answer
        BY <1>1, <1>5, Neutral
    <2>2. Keeps
        BY <1>2, <1>3, <1>5, <2>1, PopUnwrapped
    <2> QED
        BY <1>1, <1>2, <2>1, <2>2, Stutters
<1> QED
    BY <1>4, <1>5

\* A score without an original is the one that the scheduler holds anyway.
LEMMA ScoreRefines ==
    ASSUME TypeOK, CallsLeft, Scored, NEW p \in Plugins, NEW n \in Nodes, Score(p, n)
    PROVE  Promise!Score(p, n) \/ UNCHANGED Promise!cvars
<1> DEFINE says == Promise!ScoreSays(p, n)
           lanes == [m \in Nodes |-> Unwrapped(lane[m], point)]
<1>1. PICK w \in Ways(p, "Score", says, Unran("Success", 0)) :
        FW!ScoreReturned(p, n, w.s, w.v) /\ Heard(w) /\ held' = held
    BY DEF Score, Rest
<1>2. /\ point = "Score" /\ lane[n] # <<>> /\ p = Head(lane[n])
      /\ score' = [score EXCEPT ![p][n] = w.v]
      /\ IF w.s = "Success" THEN lane' = [lane EXCEPT ![n] = Tail(@)] /\ UNCHANGED <<point, todo>>
                            ELSE FW!Done("Idle")
      /\ UNCHANGED <<alive, skipped, waiting, extScore, node, cycles>>
    BY <1>1 DEF FW!ScoreReturned
<1>3. point \in PluginPoints /\ lane \in [Nodes -> Seq(Plugins)]
    BY <1>2, Facts DEF PluginPoints
<1>4. CASE Original(p, "Score")
    <2> HIDE DEF says
    <2>1. PICK a \in says : w.s = a.s /\ w.v = a.v /\ Promise!Call(p, says, a)
        BY <1>1, <1>2, <1>4, Asked
    <2>2. FW!Done("Idle") => Promise!Done("Idle")
        BY DoneUnwrapped
    <2>3. lanes[n] # <<>> /\ p = Head(lanes[n])
        BY <1>2, <1>3, <1>4, UnwrappedFirst
    <2>4. w.s = "Success" =>
            /\ point' = point /\ Unwrapped(todo', point') = Unwrapped(todo, point)
            /\ [m \in Nodes |-> Unwrapped(lane'[m], point')] = [lanes EXCEPT ![n] = Tail(@)]
        <3>1. SUFFICES ASSUME w.s = "Success"
                       PROVE  /\ point' = point /\ Unwrapped(todo', point') = Unwrapped(todo, point)
                              /\ [m \in Nodes |-> Unwrapped(lane'[m], point')] = [lanes EXCEPT ![n] = Tail(@)]
            OBVIOUS
        <3>2. UNCHANGED <<point, todo>> /\ lane' = [lane EXCEPT ![n] = IF TRUE THEN Tail(@) ELSE <<>>]
            BY <1>2, <3>1
        <3>3. /\ Unwrapped(todo', point') = Unwrapped(todo, point)
              /\ [m \in Nodes |-> Unwrapped(lane'[m], point')] =
                    [lanes EXCEPT ![n] = IF TRUE THEN Tail(@) ELSE <<>>]
            BY <1>2, <1>3, <1>4, <3>2, LaneUnwrapped
        <3> QED
            BY <3>2, <3>3
    <2>5. Promise!ScoreReturned(p, n, a.s, a.v)
        BY <1>2, <2>1, <2>2, <2>3, <2>4 DEF Promise!ScoreReturned
    <2> QED
        BY <1>1, <2>1, <2>5 DEF Promise!Score, Promise!Ask, says
<1>5. CASE ~Original(p, "Score")
    <2>1. w.s = "Success" /\ w.v = 0 /\ answer' = answer
        BY <1>1, <1>5, Neutral
    <2>2. UNCHANGED <<point, todo>> /\ lane' = [lane EXCEPT ![n] = IF TRUE THEN Tail(@) ELSE <<>>]
        BY <1>2, <2>1
    <2>3. Keeps
        BY <1>2, <1>3, <1>5, <2>2, LaneUnwrapped
    <2>4. score' = score
        <3>1. score[p][n] = 0 /\ score \in [Plugins -> [Nodes -> 0 .. MaxScore]]
            BY <1>5, Facts DEF Scored
        <3> QED
            BY <1>2, <2>1, <3>1
    <2> QED
        BY <1>1, <1>2, <2>1, <2>3, <2>4, Stutters
<1> QED
    BY <1>4, <1>5

LEMMA NormalizeScoreRefines ==
    ASSUME TypeOK, CallsLeft, Scored, NEW p \in Plugins, NormalizeScore(p)
    PROVE  Promise!NormalizeScore(p)
<1>1. PICK w \in Ways(p, "Normalize", Promise!NormalizeSays, Unran("Success", "none")) :
        /\ FW!NormalizeReturned(p, w.s, IF w.ran THEN Promise!Normalized(p) ELSE score[p])
        /\ Heard(w) /\ held' = held
    BY DEF NormalizeScore, Rest
<1> DEFINE v == IF w.ran THEN Promise!Normalized(p) ELSE score[p]
<1>2. /\ point = "Normalize" /\ todo # <<>> /\ p = Head(todo)
      /\ score' = [score EXCEPT ![p] = v]
      /\ IF w.s = "Success" THEN FW!Pop ELSE FW!Done("Idle")
      /\ UNCHANGED <<alive, skipped, waiting, extScore, node, cycles>>
    BY <1>1 DEF FW!NormalizeReturned, FW!Next_, FW!PopOr
<1>3. point \in PluginPoints /\ todo \in Seq(Plugins)
    BY <1>2, Facts DEF PluginPoints
<1>4. Original(p, "Normalize")
    <2>1. todo \in Seq({q \in Plugins : ScoreExtensions(q)})
        BY <1>2 DEF CallsLeft, Callable
    <2>2. Head(todo) \in {q \in Plugins : ScoreExtensions(q)}
        BY <1>2, <2>1
    <2> QED
        BY <1>2, <2>2 DEF ScoreExtensions
<1>5. PICK a \in Promise!NormalizeSays :
        /\ w.s = a.s /\ Promise!Call(p, Promise!NormalizeSays, a)
        /\ ~w.ran => <<p, point>> \in Hooked
    BY <1>1, <1>2, <1>4, Asked
<1>6. Unwrapped(todo, point) # <<>> /\ p = Head(Unwrapped(todo, point))
    BY <1>2, <1>3, <1>4, UnwrappedFirst
<1>7. FW!Pop => Promise!Pop
    BY <1>2, <1>3, <1>4, PopUnwrapped
<1>8. FW!Done("Idle") => Promise!Done("Idle")
    BY DoneUnwrapped
<1>9. v \in {Promise!Normalized(p), score[p]}
    OBVIOUS
<1>10. <<p, point>> \in Hooked \/ v = Promise!Normalized(p)
    BY <1>5
<1> HIDE DEF v
<1>11. Promise!NormalizeReturned(p, a.s, v)
    BY <1>2, <1>5, <1>6, <1>7, <1>8 DEF Promise!NormalizeReturned, Promise!Next_, Promise!PopOr
<1> QED
    BY <1>1, <1>5, <1>9, <1>10, <1>11 DEF Promise!NormalizeScore, Promise!Ask

LEMMA PostBindRefines ==
    ASSUME TypeOK, CallsLeft, Scored, NEW p \in Plugins, PostBind(p)
    PROVE  Promise!PostBind(p) \/ UNCHANGED Promise!cvars
<1>1. /\ point = "PostBind" /\ todo # <<>> /\ p = Head(todo) /\ FW!Pop
      /\ UNCHANGED <<alive, skipped, waiting, score, extScore, node, cycles, answer, held>>
    BY DEF PostBind, Rest, FW!VoidReturned, FW!Next_
<1>2. point \in PluginPoints /\ todo \in Seq(Plugins)
    BY <1>1, Facts DEF PluginPoints
<1>3. CASE Original(p, "PostBind")
    <2>1. Unwrapped(todo, point) # <<>> /\ p = Head(Unwrapped(todo, point)) /\ Promise!Pop
        BY <1>1, <1>2, <1>3, PopUnwrapped
    <2> QED
        BY <1>1, <2>1 DEF Promise!PostBind, Promise!VoidReturned, Promise!Next_
<1>4. CASE ~Original(p, "PostBind")
    BY <1>1, <1>2, <1>4, PopUnwrapped, Stutters
<1> QED
    BY <1>3, <1>4

LEMMA UnreserveRefines ==
    ASSUME TypeOK, CallsLeft, Scored, NEW p \in Plugins, Unreserve(p)
    PROVE  Promise!Unreserve(p) \/ UNCHANGED Promise!cvars
<1>1. PICK ran \in UnreserveRuns(p) : held' = IF ran THEN held \ {p} ELSE held
    BY DEF Unreserve
<1>2. /\ point = "Unreserve" /\ todo # <<>> /\ p = Head(todo) /\ FW!Pop
      /\ UNCHANGED <<alive, skipped, waiting, score, extScore, node, cycles, answer>>
    BY DEF Unreserve, FW!VoidReturned, FW!Next_
<1>3. point \in PluginPoints /\ todo \in Seq(Plugins)
    BY <1>2, Facts DEF PluginPoints
<1>4. CASE Original(p, "Unreserve")
    <2>1. Unwrapped(todo, point) # <<>> /\ p = Head(Unwrapped(todo, point)) /\ Promise!Pop
        BY <1>2, <1>3, <1>4, PopUnwrapped
    <2>2. held' = held \ {p} \/ (<<p, point>> \in Hooked /\ held' = held)
        BY <1>1, <1>2, <1>4 DEF UnreserveRuns
    <2> QED
        BY <1>2, <2>1, <2>2 DEF Promise!Unreserve, Promise!VoidReturned, Promise!Next_
<1>5. CASE ~Original(p, "Unreserve")
    <2>1. held' = held
        BY <1>1, <1>5 DEF UnreserveRuns
    <2> QED
        BY <1>2, <1>3, <1>5, <2>1, PopUnwrapped, Stutters
<1> QED
    BY <1>4, <1>5

-----------------------------------------------------------------------------
(***************************************************************************)
(* The refinement: the extenders and the scheduler.                        *)
(***************************************************************************)

LEMMA ScaleIs == MaxNode \div MaxExtender \in Nat
BY ExtenderAssumption

LEMMA CallsIs ==
    ASSUME NEW i \in Ids, NEW v \in Verbs
    PROVE  /\ Calls(i, v) <=> Extenders[i].verb[v] # ""
           /\ Calls(i, v) => OverrideExtendersCfgToSimulator[i].verb[v] = <<v, i>>
<1>1. Extenders[i] \in [url : STRING, weight : Nat, verb : [Verbs -> STRING]]
    BY ExtenderIs
<1>2. OverrideExtendersCfgToSimulator[i].verb[v] = IF Extenders[i].verb[v] # "" THEN <<v, i>> ELSE <<>>
    BY <1>1 DEF OverrideExtendersCfgToSimulator
<1>3. <<v, i>> # <<>>
    OBVIOUS
<1> QED
    BY <1>2, <1>3 DEF Calls

\* A call under a verb that extender i has ends up at extender i.
LEMMA RoutedRight ==
    ASSUME NEW i \in Ids, NEW v \in Verbs, Calls(i, v)
    PROVE  Route(v, i) = [url |-> Extenders[i].url, verb |-> Extenders[i].verb[v]]
<1>1. OverrideExtendersCfgToSimulator[i].verb[v] = <<v, i>>
    BY CallsIs
<1> QED
    BY <1>1 DEF Route, createExtenders

\* The proxy's factor can be taken out of what it answers.
LEMMA FactorOut ==
    ASSUME NEW i \in Ids, NEW v \in Nat
    PROVE  prioritized(i, v) = v * prioritized(i, 1) /\ prioritized(i, v) \in Nat
<1> DEFINE w == Extenders[i].weight
           k == MaxNode \div MaxExtender
<1>1. w \in Nat /\ k \in Nat
    BY ExtenderIs, ScaleIs
<1> HIDE DEF w, k
<1>2. v * w * k = v * (1 * w * k)
    BY <1>1
<1>3. v * w * k \in Nat
    <2>1. v * w \in Nat
        BY <1>1
    <2> QED
        BY <1>1, <2>1
<1> QED
    BY <1>2, <1>3 DEF prioritized, createExtenders, w, k

LEMMA ExtenderCalled ==
    ASSUME CallsLeft, todo # <<>>, NEW v \in Verbs, NEW i \in Ids, i = Head(todo),
           <<point, v>> \in {<<"ExtFilter", "filter">>, <<"ExtPrioritize", "prioritize">>, <<"ExtBind", "bind">>}
    PROVE  /\ Calls(i, v) /\ point \notin PluginPoints /\ point \in FW!Points
           /\ Route(v, i) = [url |-> Extenders[i].url, verb |-> Extenders[i].verb[v]]
<1>1. Callable(point) = {j \in Ids : Calls(j, v)} /\ point \notin PluginPoints /\ point \in FW!Points
    BY DEF Callable, PluginPoints, FW!Points
<1>2. todo \in Seq({j \in Ids : Calls(j, v)})
    BY <1>1 DEF CallsLeft
<1>3. Calls(i, v)
    BY <1>2
<1> QED
    BY <1>1, <1>3, RoutedRight

\* The service that a call of the other scheduler goes to.
LEMMA ServedIs ==
    ASSUME NEW i \in Ids, NEW v \in Verbs
    PROVE  [u \in Verbs |-> [j \in Ids |-> [url |-> Extenders[j].url, verb |-> Extenders[j].verb[u]]]][v][i]
            = [url |-> Extenders[i].url, verb |-> Extenders[i].verb[v]]
OBVIOUS

LEMMA ExtFilterRefines ==
    ASSUME TypeOK, CallsLeft, NEW i \in Ids, ExtFilter(i)
    PROVE  Promise!ExtFilter(i)
<1>1. PICK a \in Promise!ExtFilterSays :
        FW!ExtFilterReturned(i, a.s, a.v) /\ answer' = [from |-> Route("filter", i), says |-> a] /\ held' = held
    BY DEF ExtFilter, Answered
<1>2. /\ point = "ExtFilter" /\ todo # <<>> /\ i = Head(todo)
      /\ alive' = IF a.s THEN alive \cap a.v ELSE alive
      /\ IF ~a.s THEN FW!Done("Idle") ELSE IF alive' = {} THEN FW!Unschedulable ELSE FW!Pop
      /\ UNCHANGED <<skipped, waiting, score, extScore, node, cycles>>
    BY <1>1 DEF FW!ExtFilterReturned, FW!Next_
<1>3. "filter" \in Verbs
    BY DEF Verbs
<1>4. /\ point \notin PluginPoints
      /\ Route("filter", i) = [url |-> Extenders[i].url, verb |-> Extenders[i].verb["filter"]]
    BY <1>2, <1>3, ExtenderCalled
<1>5. Unwrapped(todo, point) = todo /\ (FW!Pop => Promise!Pop)
    BY <1>4, UnwrappedOthers, ExtPopUnwrapped
<1>6. FW!Done("Idle") => Promise!Done("Idle")
    BY DoneUnwrapped
<1>7. FW!Unschedulable => Promise!Unschedulable
    BY EnterUnwrapped DEF FW!Unschedulable, Promise!Unschedulable, FW!Points
<1>8. Promise!ExtFilterReturned(i, a.s, a.v)
    BY <1>2, <1>5, <1>6, <1>7 DEF Promise!ExtFilterReturned, Promise!Next_
<1> QED
    BY <1>1, <1>3, <1>4, <1>8, ServedIs DEF Promise!ExtFilter

LEMMA ExtPrioritizeRefines ==
    ASSUME TypeOK, CallsLeft, NEW i \in Ids, ExtPrioritize(i)
    PROVE  Promise!ExtPrioritize(i)
<1>1. PICK a \in Promise!ExtPrioritizeSays :
        /\ FW!ExtPrioritizeReturned(i, a.s, Ranks(i, a.v))
        /\ answer' = [from |-> Route("prioritize", i), says |-> a] /\ held' = held
    BY DEF ExtPrioritize, Answered
<1> DEFINE r == Ranks(i, a.v)
           q == [n \in Nodes |-> a.v[n] * [j \in Ids |-> prioritized(j, 1)][i]]
<1>2. /\ point = "ExtPrioritize" /\ todo # <<>> /\ i = Head(todo)
      /\ extScore' = [n \in Nodes |-> IF a.s /\ n \in alive
                                      THEN extScore[n] + r[n] * ExtWeight[i] * Scale
                                      ELSE extScore[n]]
      /\ FW!Pop
      /\ UNCHANGED <<alive, skipped, waiting, score, node, cycles>>
    BY <1>1 DEF FW!ExtPrioritizeReturned, FW!Next_
<1>3. "prioritize" \in Verbs
    BY DEF Verbs
<1>4. /\ point \notin PluginPoints
      /\ Route("prioritize", i) = [url |-> Extenders[i].url, verb |-> Extenders[i].verb["prioritize"]]
    BY <1>2, <1>3, ExtenderCalled
<1>5. Unwrapped(todo, point) = todo /\ Promise!Pop
    BY <1>2, <1>4, ExtPopUnwrapped
<1>6. a.v \in [Nodes -> Nat]
    <2>1. a.v \in Priorities \/ a.v = [n \in Nodes |-> 0]
        BY DEF Promise!ExtPrioritizeSays, Promise!Said
    <2> QED
        BY <2>1, CycleAssumption
<1>7. r = q
    <2>1. \A n \in Nodes : prioritized(i, a.v[n]) = a.v[n] * prioritized(i, 1)
        BY <1>6, FactorOut
    <2> QED
        BY <2>1 DEF Ranks
<1> HIDE DEF r, q
<1>8. Promise!ExtPrioritizeReturned(i, a.s, q)
    BY <1>2, <1>5, <1>7 DEF Promise!ExtPrioritizeReturned, Promise!Next_
<1> QED
    BY <1>1, <1>3, <1>4, <1>8, ServedIs DEF Promise!ExtPrioritize, q

LEMMA ExtBindRefines ==
    ASSUME TypeOK, CallsLeft, NEW i \in Ids, ExtBind(i)
    PROVE  Promise!ExtBind(i)
<1>1. PICK a \in Promise!ExtBindSays :
        FW!ExtBindReturned(i, a.s) /\ answer' = [from |-> Route("bind", i), says |-> a] /\ held' = held
    BY DEF ExtBind, Answered
<1>2. /\ point = "ExtBind" /\ todo # <<>> /\ i = Head(todo)
      /\ IF a.s THEN FW!Enter("PostBind", alive, skipped) ELSE FW!Undo
      /\ UNCHANGED <<alive, skipped, waiting, score, extScore, node, cycles>>
    BY <1>1 DEF FW!ExtBindReturned, FW!Next_
<1>3. "bind" \in Verbs
    BY DEF Verbs
<1>4. /\ point \notin PluginPoints
      /\ Route("bind", i) = [url |-> Extenders[i].url, verb |-> Extenders[i].verb["bind"]]
    BY <1>2, <1>3, ExtenderCalled
<1>5. Unwrapped(todo, point) = todo
    BY <1>4, UnwrappedOthers
<1>6. FW!Enter("PostBind", alive, skipped) => Promise!Enter("PostBind", alive, skipped)
    BY EnterUnwrapped DEF FW!Points
<1>7. FW!Undo => Promise!Undo
    BY EnterUnwrapped DEF FW!Undo, Promise!Undo, FW!Points
<1>8. Promise!ExtBindReturned(i, a.s)
    BY <1>2, <1>5, <1>6, <1>7 DEF Promise!ExtBindReturned, Promise!Next_
<1> QED
    BY <1>1, <1>3, <1>4, <1>8, ServedIs DEF Promise!ExtBind

\* Both choose between the same nodes.
LEMMA BestSame == FW!Best = Promise!Best
<1>1. \A n : FW!Total(n) = Promise!Total(n)
    BY DEF FW!Total, Promise!Total, FW!SumFunctionOnSet, Promise!SumFunctionOnSet,
           FW!FoldFunctionOnSet, Promise!FoldFunctionOnSet, FW!MapThenFoldSet, Promise!MapThenFoldSet
<1> QED
    BY <1>1 DEF FW!Best, Promise!Best

LEMMA AdvanceRefines ==
    ASSUME FW!Advance
    PROVE  Promise!Advance
<1>1. point \in FW!Points \ {"ExtBind"} /\ todo = <<>> /\ lane = [n \in Nodes |-> <<>>]
      /\ UNCHANGED <<alive, waiting, cycles>>
    BY DEF FW!Advance, FW!Drained, FW!NoLane
<1>2. PICK bound \in {FALSE, ListAt["ExtBind"] # <<>>} :
        LET to == FW!After(point, bound)
        IN  /\ IF to \in FW!Points THEN FW!Enter(to, alive, skipped) ELSE FW!Done(to)
            /\ IF to = "Reserve"
               THEN node' \in FW!Best /\ score' = FW!NoScore /\ extScore' = [n \in Nodes |-> 0]
               ELSE UNCHANGED <<node, score, extScore>>
            /\ skipped' = IF to = "PreScore" THEN {} ELSE skipped
    BY DEF FW!Advance
<1> DEFINE to == FW!After(point, bound)
           W == [q \in DOMAIN ListAt |-> Unwrapped(ListAt[q], q)]
<1>3. Unwrapped(todo, point) = <<>> /\ [n \in Nodes |-> Unwrapped(lane[n], point)] = [n \in Nodes |-> <<>>]
    BY <1>1, UnwrappedNone
<1>4. FW!Points = Promise!Points /\ FW!NoScore = Promise!NoScore
    BY DEF FW!Points, Promise!Points, FW!NoScore, Promise!NoScore
<1>5. to = Promise!After(point, bound)
    BY DEF FW!After, Promise!After, FW!Cardinality, Promise!Cardinality
<1>6. bound \in {FALSE, W["ExtBind"] # <<>>}
    <2>1. "ExtBind" \in DOMAIN ListAt /\ "ExtBind" \notin PluginPoints
        BY Lists DEF FW!Points, PluginPoints
    <2> QED
        BY <2>1, UnwrappedOthers
<1> HIDE DEF to, W
<1>7. IF to \in Promise!Points THEN Promise!Enter(to, alive, skipped) ELSE Promise!Done(to)
    BY <1>2, <1>4, EnterUnwrapped, DoneUnwrapped DEF to
<1>8. /\ IF to = "Reserve"
         THEN node' \in Promise!Best /\ score' = Promise!NoScore /\ extScore' = [n \in Nodes |-> 0]
         ELSE UNCHANGED <<node, score, extScore>>
      /\ skipped' = IF to = "PreScore" THEN {} ELSE skipped
    BY <1>2, <1>4, BestSame DEF to
<1> QED
    BY <1>1, <1>3, <1>4, <1>5, <1>6, <1>7, <1>8 DEF Promise!Advance, Promise!Drained, Promise!NoLane, W

LEMMA SchedulerRefines ==
    ASSUME Begin \/ Scheduler
    PROVE  Promise!Steps /\ answer' = NoAnswer /\ UNCHANGED held
<1>1. answer' = NoAnswer /\ UNCHANGED held
    BY DEF Begin, Scheduler
<1>2. FW!Begin => Promise!Begin
    <2>1. FW!Enter("PreFilter", Nodes, {}) => Promise!Enter("PreFilter", Nodes, {})
        BY EnterUnwrapped DEF FW!Points
    <2>2. FW!NoScore = Promise!NoScore
        BY DEF FW!NoScore, Promise!NoScore
    <2> QED
        BY <2>1, <2>2 DEF FW!Begin, Promise!Begin
<1>3. FW!Advance => Promise!Advance
    BY AdvanceRefines
<1>4. FW!WaitOnPermit => Promise!WaitOnPermit
    <2>1. \A pt \in {"PreBind", "Unreserve"} :
            FW!Enter(pt, alive, skipped) => Promise!Enter(pt, alive, skipped)
        BY EnterUnwrapped DEF FW!Points
    <2> QED
        BY <2>1 DEF FW!WaitOnPermit, Promise!WaitOnPermit
<1> QED
    BY <1>1, <1>2, <1>3, <1>4 DEF Begin, Scheduler, Promise!Steps

\* What only the stores and the history see.
LEMMA UnseenRefines ==
    ASSUME UNCHANGED <<fw, answer, held>>
    PROVE  UNCHANGED Promise!cvars
<1>1. UNCHANGED <<point, todo, lane, alive, skipped, waiting, score, extScore, node, cycles, answer, held>>
    BY DEF fw
<1>2. Unwrapped(todo', point') = Unwrapped(todo, point)
      /\ \A n \in Nodes : Unwrapped(lane'[n], point') = Unwrapped(lane[n], point)
    BY <1>1
<1>3. [n \in Nodes |-> Unwrapped(lane'[n], point')] = [n \in Nodes |-> Unwrapped(lane[n], point)]
    BY <1>2
<1>4. Keeps
    BY <1>1, <1>2, <1>3 DEF Keeps
<1> QED
    BY <1>1, <1>4, Stutters

LEMMA InitRefines ==
    ASSUME Init
    PROVE  Promise!Init
<1>1. FW!FrameworkInit /\ answer = NoAnswer /\ held = {}
    BY DEF Init
<1>2. /\ point = "Idle" /\ todo = <<>> /\ lane = [n \in Nodes |-> <<>>]
      /\ alive = {} /\ skipped = {} /\ waiting = FALSE
      /\ score = FW!NoScore /\ extScore = [n \in Nodes |-> 0] /\ node = NoNode /\ cycles = 0
    BY <1>1 DEF FW!FrameworkInit, FW!NoLane
<1>3. Unwrapped(todo, point) = <<>> /\ [n \in Nodes |-> Unwrapped(lane[n], point)] = [n \in Nodes |-> <<>>]
    BY <1>2, UnwrappedNone
<1>4. FW!NoScore = Promise!NoScore
    BY DEF FW!NoScore, Promise!NoScore
<1> QED
    BY <1>1, <1>2, <1>3, <1>4 DEF Promise!Init, Promise!FrameworkInit, Promise!NoLane

\* Every step is one of the other scheduler, or none that it sees.
LEMMA StepRefines ==
    ASSUME TypeOK, CallsLeft, Scored, Next
    PROVE  Promise!Next \/ UNCHANGED Promise!cvars
<1>1. CASE Begin \/ Scheduler
    BY <1>1, SchedulerRefines DEF Promise!Next
<1>2. CASE Reflect
    BY <1>2, UnseenRefines DEF Reflect
<1>3. ASSUME NEW p \in Plugins, PreFilter(p) \/ PostFilter(p) \/ PreScore(p) \/ NormalizeScore(p)
      PROVE  Promise!Next \/ UNCHANGED Promise!cvars
    BY <1>3, PreFilterRefines, PostFilterRefines, PreScoreRefines, NormalizeScoreRefines DEF Promise!Next
<1>4. ASSUME NEW p \in Plugins, Reserve(p) \/ Permit(p) \/ PreBind(p)
      PROVE  Promise!Next \/ UNCHANGED Promise!cvars
    BY <1>4, ReserveRefines, PermitRefines, PreBindRefines DEF Promise!Next
<1>5. ASSUME NEW p \in Plugins, Bind(p) \/ PostBind(p) \/ Unreserve(p)
      PROVE  Promise!Next \/ UNCHANGED Promise!cvars
    BY <1>5, BindRefines, PostBindRefines, UnreserveRefines DEF Promise!Next
<1>6. ASSUME NEW p \in Plugins, NEW n \in Nodes, Filter(p, n) \/ Score(p, n) \/ DryRunFilter(p, n)
      PROVE  Promise!Next \/ UNCHANGED Promise!cvars
    <2>1. CASE Filter(p, n)
        BY <2>1, FilterRefines DEF Promise!Next
    <2>2. CASE Score(p, n)
        BY <2>2, ScoreRefines DEF Promise!Next
    <2>3. CASE DryRunFilter(p, n)
        BY <2>3, UnseenRefines DEF DryRunFilter
    <2> QED
        BY <1>6, <2>1, <2>2, <2>3
<1>7. ASSUME NEW i \in Ids, ExtFilter(i) \/ ExtPrioritize(i) \/ ExtBind(i) \/ ExtPreempt(i)
      PROVE  Promise!Next \/ UNCHANGED Promise!cvars
    <2>1. CASE ExtFilter(i) \/ ExtPrioritize(i) \/ ExtBind(i)
        BY <2>1, ExtFilterRefines, ExtPrioritizeRefines, ExtBindRefines DEF Promise!Next
    <2>2. CASE ExtPreempt(i)
        BY <2>2, UnseenRefines DEF ExtPreempt
    <2> QED
        BY <1>7, <2>1, <2>2
<1> QED
    BY <1>1, <1>2, <1>3, <1>4, <1>5, <1>6, <1>7 DEF Next

-----------------------------------------------------------------------------
(***************************************************************************)
(* The scheduler's own state keeps its shape.                              *)
(***************************************************************************)

Shape == FW!FrameworkTypeOK /\ CallsLeft /\ Scored

LEMMA CallingOnce == \A v : NoneTwice(Calling(v))
<1> SUFFICES ASSUME NEW v
             PROVE  NoneTwice(Calling(v))
    OBVIOUS
<1> DEFINE s == [i \in Ids |-> i]
           S == {i \in Ids : Calls(i, v)}
<1>1. Len(Extenders) \in Nat
    BY ExtenderAssumption
<1>2. s \in Seq(Ids) /\ \A j, k \in DOMAIN s : s[j] = s[k] => j = k
    BY <1>1 DEF Ids
<1>3. Calling(v) = Selected(s, S)
    BY DEF Calling
<1> HIDE DEF s, S
<1>4. \A j, k \in DOMAIN Selected(s, S) : Selected(s, S)[j] = Selected(s, S)[k] => j = k
    BY <1>2, SelectedOnce
<1> QED
    BY <1>3, <1>4 DEF NoneTwice

\* Who is called at a point that is entered.
LEMMA CalledIs ==
    ASSUME NEW pt \in FW!Points, NEW as, NEW sk
    PROVE  /\ FW!Called(pt, as, sk) \in Seq(Callable(pt))
           /\ pt \in {"PreFilter", "ExtFilter", "ExtPrioritize"} => NoneTwice(FW!Called(pt, as, sk))
           /\ pt \in {"PreFilter", "Reserve"} => FW!Called(pt, as, sk) = Profile
           /\ pt = "Unreserve" => FW!Called(pt, as, sk) = Reverse(Profile)
<1> DEFINE L == ListAt[pt]
           T == (Plugins \cup Ids) \ sk
<1>1. FW!Called(pt, as, sk) =
        IF pt = "ExtFilter" /\ as = {} THEN <<>>
        ELSE IF pt \in {"Filter", "Score", "Normalize"} THEN Selected(L, T) ELSE L
    <2>1. FW!Selected(L, T) = Selected(L, T)
        BY SelectionsAgree
    <2>2. FW!Called(pt, as, sk) =
            IF pt = "ExtFilter" /\ as = {} THEN <<>>
            ELSE IF pt \in FW!NodePoints \cup {"Normalize"} THEN FW!Selected(L, T) ELSE L
        BY DEF FW!Called
    <2>3. FW!NodePoints \cup {"Normalize"} = {"Filter", "Score", "Normalize"}
        BY DEF FW!NodePoints
    <2> HIDE DEF L, T
    <2> QED
        BY <2>1, <2>2, <2>3
<1>2. L \in Seq(Callable(pt))
    BY Lists
<1> HIDE DEF T
<1>3. Selected(L, T) \in Seq(Callable(pt))
    <2>1. Selected(L, T) \in Seq(Callable(pt) \cap T)
        BY <1>2, SelectedIn
    <2> QED
        BY <2>1
<1>4. FW!Called(pt, as, sk) \in Seq(Callable(pt))
    <2> HIDE DEF L
    <2>1. <<>> \in Seq(Callable(pt))
        OBVIOUS
    <2> QED
        BY <1>1, <1>2, <1>3, <2>1
<1>5. NoneTwice(<<>>)
    BY DEF NoneTwice
<1>6. NoneTwice(Profile)
    BY ProfileAssumption DEF NoneTwice
<1>7. /\ pt \in {"PreFilter", "Reserve"} => L = Profile
      /\ pt = "ExtFilter" => L = Calling("filter")
      /\ pt = "ExtPrioritize" => L = Calling("prioritize")
      /\ pt = "Unreserve" => L = Reverse(Profile)
    BY Lists DEF PluginPoints
<1> HIDE DEF L
<1> QED
    BY <1>1, <1>4, <1>5, <1>6, <1>7, CallingOnce

LEMMA EnterIs ==
    ASSUME NEW pt \in FW!Points, NEW as, NEW sk, FW!Enter(pt, as, sk)
    PROVE  /\ point' = pt
           /\ todo' \in Seq(Callable(pt))
           /\ lane' \in [Nodes -> Seq(Plugins)]
           /\ \A n \in Nodes : lane'[n] # <<>> => n \in as
           /\ pt \in {"PreFilter", "ExtFilter", "ExtPrioritize"} => NoneTwice(todo')
           /\ pt \in {"PreFilter", "Reserve"} => todo' = Profile
           /\ pt = "Unreserve" => todo' = Reverse(Profile)
<1> DEFINE called == FW!Called(pt, as, sk)
<1>1. /\ point' = pt
      /\ todo' = IF pt \in FW!NodePoints THEN <<>> ELSE called
      /\ lane' = [n \in Nodes |-> IF pt \in FW!NodePoints /\ n \in as THEN called ELSE <<>>]
    BY DEF FW!Enter
<1>2. pt \in FW!NodePoints => Callable(pt) = Plugins /\ pt \notin {"PreFilter", "ExtFilter", "ExtPrioritize", "Reserve", "Unreserve"}
    BY DEF FW!NodePoints, Callable, PluginPoints
<1>3. /\ called \in Seq(Callable(pt))
      /\ pt \in {"PreFilter", "ExtFilter", "ExtPrioritize"} => NoneTwice(called)
      /\ pt \in {"PreFilter", "Reserve"} => called = Profile
      /\ pt = "Unreserve" => called = Reverse(Profile)
    BY CalledIs
<1> HIDE DEF called
<1>4. todo' \in Seq(Callable(pt))
    BY <1>1, <1>3
<1>5. \A n \in Nodes : lane'[n] \in Seq(Plugins) /\ (lane'[n] # <<>> => n \in as)
    <2>1. <<>> \in Seq(Plugins) /\ <<>> \in Seq(Callable(pt))
        OBVIOUS
    <2> QED
        BY <1>1, <1>2, <1>3, <2>1
<1> QED
    BY <1>1, <1>2, <1>3, <1>4, <1>5

LEMMA PopIs ==
    ASSUME CallsLeft, todo # <<>>, FW!Pop
    PROVE  /\ point' = point /\ lane' = lane
           /\ todo' \in Seq(Callable(point'))
           /\ NoneTwice(todo) => NoneTwice(todo') /\ \A k \in DOMAIN todo' : todo'[k] # Head(todo)
           /\ \A k \in DOMAIN todo' : k + 1 \in DOMAIN todo /\ todo'[k] = todo[k + 1]
           /\ \A k \in DOMAIN todo : todo[k] = Head(todo) \/ \E j \in DOMAIN todo' : todo'[j] = todo[k]
<1>1. point' = point /\ lane' = lane /\ todo' = Tail(todo)
    BY DEF FW!Pop
<1> DEFINE C == Callable(point)
<1>2. todo \in Seq(C)
    BY DEF CallsLeft
<1> HIDE DEF C
<1>3. todo' \in Seq(C) /\ DOMAIN todo' = 1 .. (Len(todo) - 1) /\ DOMAIN todo = 1 .. Len(todo) /\ Len(todo) \in Nat
    BY <1>1, <1>2
<1>4. \A k \in DOMAIN todo' : k + 1 \in DOMAIN todo /\ todo'[k] = todo[k + 1] /\ k + 1 # 1
    BY <1>1, <1>2, <1>3
<1>5. todo[1] = Head(todo) /\ 1 \in DOMAIN todo
    BY <1>2, <1>3
<1>6. \A k \in DOMAIN todo : k = 1 \/ (k - 1 \in DOMAIN todo' /\ k - 1 + 1 = k)
    BY <1>3
<1>7. NoneTwice(todo) => NoneTwice(todo') /\ \A k \in DOMAIN todo' : todo'[k] # Head(todo)
    <2>1. SUFFICES ASSUME NoneTwice(todo)
                   PROVE  NoneTwice(todo') /\ \A k \in DOMAIN todo' : todo'[k] # Head(todo)
        OBVIOUS
    <2>2. ASSUME NEW j \in DOMAIN todo', NEW k \in DOMAIN todo', todo'[j] = todo'[k]
          PROVE  j = k
        <3>1. j + 1 = k + 1
            BY <1>4, <2>1, <2>2 DEF NoneTwice
        <3> QED
            BY <1>3, <3>1
    <2>3. \A k \in DOMAIN todo' : todo'[k] # Head(todo)
        BY <1>4, <1>5, <2>1 DEF NoneTwice
    <2> QED
        BY <2>2, <2>3 DEF NoneTwice
<1>8. \A k \in DOMAIN todo : todo[k] = Head(todo) \/ \E j \in DOMAIN todo' : todo'[j] = todo[k]
    BY <1>4, <1>5, <1>6
<1> QED
    BY <1>1, <1>3, <1>4, <1>7, <1>8 DEF C

\* The three ways in which what is left to be called changes.
Moves ==
    \/ todo # <<>> /\ FW!Pop
    \/ \E pt \in FW!Points \ {"PreFilter"}, as \in SUBSET alive', sk \in SUBSET Plugins : FW!Enter(pt, as, sk)
    \/ \E pt \in {"Idle", "Waiting", "Bound"} : FW!Done(pt)

LEMMA MovesKeep ==
    ASSUME Shape, Moves, alive' \in SUBSET Nodes, alive' = alive \/ point' # "Filter",
           point' = "PreFilter" => alive' # {}
    PROVE  /\ CallsLeft'
           /\ point' \in FW!Points \cup {"Idle", "Waiting", "Bound"}
           /\ todo' \in Seq(Plugins \cup Ids)
           /\ lane' \in [Nodes -> Seq(Plugins)]
<1>1. CallsLeft /\ point \in FW!Points \cup {"Idle", "Waiting", "Bound"} /\ lane \in [Nodes -> Seq(Plugins)]
    BY DEF Shape, FW!FrameworkTypeOK
<1>2. /\ point' \in FW!Points \cup {"Idle", "Waiting", "Bound"}
      /\ todo' \in Seq(Callable(point'))
      /\ lane' \in [Nodes -> Seq(Plugins)]
      /\ point' \in {"PreFilter", "ExtFilter", "ExtPrioritize"} => NoneTwice(todo')
      /\ point' = "Filter" => \A n \in Nodes : lane'[n] # <<>> => n \in alive'
    <2>1. CASE todo # <<>> /\ FW!Pop
        BY <1>1, <2>1, PopIs DEF CallsLeft
    <2>2. CASE \E pt \in FW!Points \ {"PreFilter"}, as \in SUBSET alive', sk \in SUBSET Plugins : FW!Enter(pt, as, sk)
        BY <2>2, EnterIs
    <2>3. CASE \E pt \in {"Idle", "Waiting", "Bound"} : FW!Done(pt)
        <3>1. point' \in {"Idle", "Waiting", "Bound"} /\ todo' = <<>> /\ lane' = [n \in Nodes |-> <<>>]
            BY <2>3 DEF FW!Done, FW!NoLane
        <3> QED
            BY <3>1
    <2> QED
        BY <2>1, <2>2, <2>3 DEF Moves
<1>3. todo' \in Seq(Plugins \cup Ids)
    BY <1>2, CallableAre
<1> QED
    BY <1>2, <1>3 DEF CallsLeft

LEMMA ShapeIs ==
    ASSUME Shape
    PROVE  /\ CallsLeft /\ Scored
           /\ point \in FW!Points \cup {"Idle", "Waiting", "Bound"}
           /\ todo \in Seq(Plugins \cup Ids) /\ lane \in [Nodes -> Seq(Plugins)]
           /\ alive \subseteq Nodes /\ skipped \subseteq Plugins /\ waiting \in BOOLEAN
           /\ score \in [Plugins -> [Nodes -> Nat]] /\ extScore \in [Nodes -> Nat]
           /\ node \in Nodes \cup {NoNode} /\ cycles \in 0 .. MaxCycles
BY DEF Shape, FW!FrameworkTypeOK

LEMMA ShapeKept ==
    ASSUME Shape, Moves, alive' \in SUBSET Nodes, alive' = alive \/ point' # "Filter",
           point' = "PreFilter" => alive' # {},
           skipped' \subseteq Plugins, waiting' \in BOOLEAN,
           score' \in [Plugins -> [Nodes -> Nat]], Scored', extScore' \in [Nodes -> Nat],
           node' \in Nodes \cup {NoNode}, cycles' \in 0 .. MaxCycles
    PROVE  Shape'
<1>1. /\ CallsLeft'
      /\ point' \in FW!Points \cup {"Idle", "Waiting", "Bound"}
      /\ todo' \in Seq(Plugins \cup Ids)
      /\ lane' \in [Nodes -> Seq(Plugins)]
    BY MovesKeep
<1> QED
    BY <1>1 DEF Shape, FW!FrameworkTypeOK, FW!Points

\* The first point is not entered but by Begin.
LEMMA PreFilterStays ==
    ASSUME Moves, CallsLeft, point' = "PreFilter"
    PROVE  point = "PreFilter" /\ todo # <<>> /\ FW!Pop
<1>1. \A pt \in FW!Points \ {"PreFilter"} : \A as, sk : FW!Enter(pt, as, sk) => point' # "PreFilter"
    BY EnterIs
<1>2. \A pt \in {"Idle", "Waiting", "Bound"} : FW!Done(pt) => point' # "PreFilter"
    BY DEF FW!Done
<1>3. todo # <<>> /\ FW!Pop
    BY <1>1, <1>2 DEF Moves
<1> QED
    BY <1>3, PopIs

\* Most steps only move on.
LEMMA ShapeMoved ==
    ASSUME Shape, Moves, UNCHANGED <<alive, score, extScore, node, cycles>>,
           skipped' \subseteq Plugins, waiting' \in BOOLEAN
    PROVE  Shape'
<1>1. point' = "PreFilter" => alive' # {}
    BY PreFilterStays DEF Shape, CallsLeft
<1>2. Scored'
    BY DEF Shape, Scored
<1> QED
    BY <1>1, <1>2, ShapeIs, ShapeKept

\* The moves of the framework that fail an attempt, or pass it on.
LEMMA FailureMoves ==
    ASSUME Shape
    PROVE  /\ FW!Unschedulable => Moves
           /\ FW!Undo /\ alive' = alive => Moves
           /\ FW!Enter("PostBind", alive, skipped) /\ alive' = alive => Moves
           /\ FW!Enter("PreBind", alive, skipped) /\ alive' = alive => Moves
           /\ FW!Done("Idle") => Moves
           /\ FW!Pop /\ todo # <<>> => Moves
<1>1. \A pt \in {"Unreserve", "PostBind", "PreBind"} :
        FW!Enter(pt, alive, skipped) /\ alive' = alive => Moves
    <2>1. {"Unreserve", "PostBind", "PreBind"} \subseteq FW!Points \ {"PreFilter"}
        BY DEF FW!Points
    <2> QED
        BY <2>1, ShapeIs DEF Moves
<1>2. FW!Unschedulable => Moves
    BY DEF Moves, FW!Unschedulable, FW!Points
<1> QED
    BY <1>1, <1>2 DEF Moves, FW!Undo

LEMMA PluginsMove ==
    ASSUME Shape, NEW p \in Plugins, NEW s,
           \/ FW!PostFilterReturned(p, s) \/ FW!PreScoreReturned(p, s) \/ FW!ReserveReturned(p, s)
           \/ FW!PermitReturned(p, s) \/ FW!PreBindReturned(p, s) \/ FW!BindReturned(p, s)
    PROVE  Shape'
<1>1. CASE FW!PostFilterReturned(p, s)
    BY <1>1, FailureMoves, ShapeIs, ShapeMoved DEF FW!PostFilterReturned, FW!Next_
<1>2. CASE FW!PreScoreReturned(p, s)
    <2>1. skipped' \subseteq Plugins
        BY <1>2, ShapeIs DEF FW!PreScoreReturned
    <2> QED
        BY <1>2, <2>1, FailureMoves, ShapeIs, ShapeMoved DEF FW!PreScoreReturned, FW!Next_
<1>3. CASE FW!ReserveReturned(p, s)
    BY <1>3, FailureMoves, ShapeIs, ShapeMoved DEF FW!ReserveReturned, FW!Next_, FW!PopOr
<1>4. CASE FW!PermitReturned(p, s)
    <2>1. waiting' \in BOOLEAN
        BY <1>4, ShapeIs DEF FW!PermitReturned
    <2> QED
        BY <1>4, <2>1, FailureMoves, ShapeIs, ShapeMoved DEF FW!PermitReturned, FW!Next_
<1>5. CASE FW!PreBindReturned(p, s)
    BY <1>5, FailureMoves, ShapeIs, ShapeMoved DEF FW!PreBindReturned, FW!Next_, FW!PopOr
<1>6. CASE FW!BindReturned(p, s)
    BY <1>6, FailureMoves, ShapeIs, ShapeMoved DEF FW!BindReturned, FW!Next_
<1> QED
    BY <1>1, <1>2, <1>3, <1>4, <1>5, <1>6

LEMMA VoidMoves ==
    ASSUME Shape, NEW p, NEW pt, FW!VoidReturned(pt, p)
    PROVE  Shape'
BY FailureMoves, ShapeIs, ShapeMoved DEF FW!VoidReturned, FW!Next_

LEMMA ExtBindMoves ==
    ASSUME Shape, NEW i, NEW ok, FW!ExtBindReturned(i, ok)
    PROVE  Shape'
BY FailureMoves, ShapeIs, ShapeMoved DEF FW!ExtBindReturned, FW!Next_

\* What a plugin with an original, or a hook, may say.
LEMMA WaysSay ==
    ASSUME NEW p, NEW pt, NEW says, NEW neutral, NEW w \in Ways(p, pt, says, neutral)
    PROVE  \/ /\ ~Original(p, pt) /\ w = neutral
           \/ /\ Original(p, pt) /\ w.ran /\ w.said \in says
              /\ \E b \in says : /\ w.s = b.s /\ w.v = b.v
                                 /\ <<p, pt>> \notin Hooked => b = w.said
           \/ /\ Original(p, pt) /\ ~w.ran /\ <<p, pt>> \in Hooked
              /\ \E b \in says : w.s = b.s /\ w.v = b.v /\ b.s # "Success"
<1>1. CASE ~Original(p, pt)
    BY <1>1 DEF Ways
<1>2. CASE Original(p, pt)
    <2>1. CASE w \in Before(p, pt, says)
        <3>1. <<p, pt>> \in Hooked /\ \E b \in says : w = Unran(b.s, b.v) /\ b.s # "Success"
            BY <2>1 DEF Before
        <3>2. PICK b \in says : w = Unran(b.s, b.v) /\ b.s # "Success"
            BY <3>1
        <3>3. ~w.ran /\ w.s = b.s /\ w.v = b.v
            BY <3>2 DEF Unran
        <3> QED
            BY <1>2, <3>1, <3>2, <3>3
    <2>2. CASE w \notin Before(p, pt, says)
        <3>1. PICK a \in says : \E b \in AfterHook(p, pt, a, says) : w = Ran(a, b)
            BY <1>2, <2>2 DEF Ways
        <3>2. PICK b \in AfterHook(p, pt, a, says) : w = Ran(a, b)
            BY <3>1
        <3>3. w.ran /\ w.said = a /\ w.s = b.s /\ w.v = b.v
            BY <3>2 DEF Ran
        <3>4. b \in says /\ (<<p, pt>> \notin Hooked => b = a)
            BY <3>2 DEF AfterHook
        <3> QED
            BY <1>2, <3>3, <3>4
    <2> QED
        BY <2>1, <2>2
<1> QED
    BY <1>1, <1>2

\* What every answer is, and the neutral one, what comes of a wrapper is.
LEMMA WaysValue ==
    ASSUME NEW p, NEW pt, NEW says, NEW neutral, NEW w \in Ways(p, pt, says, neutral), NEW V,
           \A a \in says : a.v \in V, neutral.v \in V, ~neutral.ran
    PROVE  /\ w.v \in V /\ (w.ran => w.said.v \in V)
           /\ ~Original(p, pt) => w.v = neutral.v
<1>1. CASE w = neutral
    BY <1>1
<1>2. CASE w # neutral
    <2> DEFINE fine == Original(p, pt) /\ (w.ran => w.said \in says) /\ \E b \in says : w.v = b.v
    <2>1. \/ /\ Original(p, pt) /\ w.ran /\ w.said \in says
             /\ \E b \in says : /\ w.s = b.s /\ w.v = b.v
                                /\ <<p, pt>> \notin Hooked => b = w.said
          \/ /\ Original(p, pt) /\ ~w.ran /\ <<p, pt>> \in Hooked
             /\ \E b \in says : w.s = b.s /\ w.v = b.v /\ b.s # "Success"
        <3>1. ~(~Original(p, pt) /\ w = neutral)
            BY <1>2
        <3> QED
            BY <3>1, WaysSay, Zenon
    <2>2. fine
        <3>1. CASE w.ran
            BY <2>1, <3>1
        <3>2. CASE ~w.ran
            BY <2>1, <3>2
        <3> QED
            BY <3>1, <3>2
    <2> QED
        BY <2>2
<1> QED
    BY <1>1, <1>2

LEMMA PreFilterMoves ==
    ASSUME Shape, NEW p \in Plugins, PreFilter(p)
    PROVE  Shape'
<1>1. PICK w \in Ways(p, "PreFilter", Promise!PreFilterSays, Unran("Success", Nodes)) :
        FW!PreFilterReturned(p, w.s, w.v)
    BY DEF PreFilter
<1>2. w.v \subseteq Nodes
    <2>1. \A a \in Promise!PreFilterSays : a.v \in SUBSET Nodes
        BY CycleAssumption DEF Promise!PreFilterSays, Promise!Said
    <2> DEFINE says == Promise!PreFilterSays
               neutral == Unran("Success", Nodes)
    <2>2. neutral.v \in SUBSET Nodes /\ ~neutral.ran
        BY DEF Unran
    <2>3. w \in Ways(p, "PreFilter", says, neutral)
        BY <1>1
    <2> HIDE DEF says, neutral
    <2>4. \A a \in says : a.v \in SUBSET Nodes
        BY <2>1 DEF says
    <2>5. w.v \in SUBSET Nodes
        BY <2>2, <2>3, <2>4, WaysValue
    <2> QED
        BY <2>5
<1>3. /\ point = "PreFilter" /\ todo # <<>>
      /\ alive' = CASE w.s = "Unschedulable" -> {} [] w.s = "Skip" -> alive [] OTHER -> alive \cap w.v
      /\ skipped' = IF w.s = "Skip" THEN skipped \cup {p} ELSE skipped
      /\ IF alive' = {} THEN FW!Unschedulable ELSE FW!Pop
      /\ UNCHANGED <<waiting, score, extScore, node, cycles>>
    BY <1>1 DEF FW!PreFilterReturned, FW!Next_
<1>4. alive' \subseteq Nodes /\ skipped' \subseteq Plugins
    BY <1>2, <1>3, ShapeIs
<1>5. Moves
    BY <1>3, FailureMoves
<1>6. point' # "Filter" /\ (point' = "PreFilter" => alive' # {})
    <2>1. FW!Unschedulable => point' = "PostFilter"
        BY DEF FW!Unschedulable, FW!Enter
    <2>2. FW!Pop => point' = point
        BY DEF FW!Pop
    <2> QED
        BY <1>3, <2>1, <2>2
<1>7. Scored'
    BY <1>3, ShapeIs DEF Scored
<1> QED
    BY <1>3, <1>4, <1>5, <1>6, <1>7, ShapeIs, ShapeKept

LEMMA FilterMoves ==
    ASSUME Shape, NEW p \in Plugins, NEW n \in Nodes, Filter(p, n)
    PROVE  Shape'
<1>1. PICK w \in FilterWays(p) : FW!FilterReturned(p, n, w.s)
    BY DEF Filter
<1>2. /\ point = "Filter" /\ lane[n] # <<>>
      /\ alive' = IF w.s = "Success" THEN alive ELSE alive \ {n}
      /\ lane' = [lane EXCEPT ![n] = IF w.s = "Success" THEN Tail(@) ELSE <<>>]
      /\ UNCHANGED <<point, todo, skipped, waiting, score, extScore, node, cycles>>
    BY <1>1 DEF FW!FilterReturned
<1>3. lane[n] \in Seq(Plugins) /\ Tail(lane[n]) \in Seq(Plugins) /\ <<>> \in Seq(Plugins)
    BY <1>2, ShapeIs
<1>4. lane' \in [Nodes -> Seq(Plugins)] /\ alive' \subseteq Nodes
    BY <1>2, <1>3, ShapeIs
<1>5. \A m \in Nodes : lane'[m] # <<>> => m \in alive'
    <2>1. SUFFICES ASSUME NEW m \in Nodes, lane'[m] # <<>>
                   PROVE  m \in alive'
        OBVIOUS
    <2>2. lane[m] # <<>> => m \in alive
        BY <1>2, ShapeIs DEF CallsLeft
    <2>3. CASE m = n
        BY <1>2, <2>1, <2>2, <2>3, ShapeIs
    <2>4. CASE m # n
        BY <1>2, <2>1, <2>2, <2>4, ShapeIs
    <2> QED
        BY <2>3, <2>4
<1>6. CallsLeft' /\ Scored'
    BY <1>2, <1>5, ShapeIs DEF CallsLeft, Scored
<1> QED
    BY <1>2, <1>4, <1>6, ShapeIs DEF Shape, FW!FrameworkTypeOK

\* The score that a wrapper may give: one that its original may, or none.
LEMMA ScoreGiven ==
    ASSUME NEW p \in Plugins, NEW n \in Nodes,
           NEW w \in Ways(p, "Score", Promise!ScoreSays(p, n), Unran("Success", 0))
    PROVE  /\ w.v \in 0 .. MaxScore /\ (~Original(p, "Score") => w.v = 0)
           /\ w.ran => w.said.v \in 0 .. MaxScore
<1>1. Ratings[p][n] \subseteq 0 .. MaxScore /\ 0 \in 0 .. MaxScore
    BY CycleAssumption
<1>2. \A a \in Promise!ScoreSays(p, n) : a.v \in 0 .. MaxScore
    BY <1>1 DEF Promise!ScoreSays, Promise!Said
<1> DEFINE says == Promise!ScoreSays(p, n)
           neutral == Unran("Success", 0)
<1>3. neutral.v = 0 /\ ~neutral.ran
    BY DEF Unran
<1>4. w \in Ways(p, "Score", says, neutral) /\ \A a \in says : a.v \in 0 .. MaxScore
    BY <1>2
<1> DEFINE V == 0 .. MaxScore
<1>5. 0 \in V /\ \A a \in says : a.v \in V
    BY <1>1, <1>4
<1> HIDE DEF says, neutral, V
<1>6. w.v \in V /\ (w.ran => w.said.v \in V) /\ (~Original(p, "Score") => w.v = neutral.v)
    BY <1>3, <1>4, <1>5, WaysValue
<1> QED
    BY <1>3, <1>6 DEF V

LEMMA ScoreMoves ==
    ASSUME Shape, NEW p \in Plugins, NEW n \in Nodes, Score(p, n)
    PROVE  Shape'
<1>1. PICK w \in Ways(p, "Score", Promise!ScoreSays(p, n), Unran("Success", 0)) :
        FW!ScoreReturned(p, n, w.s, w.v)
    BY DEF Score
<1>2. /\ point = "Score" /\ lane[n] # <<>>
      /\ score' = [score EXCEPT ![p][n] = w.v]
      /\ IF w.s = "Success" THEN lane' = [lane EXCEPT ![n] = Tail(@)] /\ UNCHANGED <<point, todo>>
                            ELSE FW!Done("Idle")
      /\ UNCHANGED <<alive, skipped, waiting, extScore, node, cycles>>
    BY <1>1 DEF FW!ScoreReturned
<1>3. w.v \in 0 .. MaxScore /\ (~Original(p, "Score") => w.v = 0) /\ MaxScore \in Nat
    BY <1>1, ScoreGiven, CycleAssumption
<1>4. score' \in [Plugins -> [Nodes -> Nat]]
    BY <1>2, <1>3, ShapeIs
<1>5. Scored'
    <2>1. SUFFICES ASSUME NEW q \in Plugins, NEW m \in Nodes
                   PROVE  score'[q][m] <= MaxScore /\ (~Original(q, "Score") => score'[q][m] = 0)
        BY DEF Scored
    <2>2. score'[q][m] = IF q = p /\ m = n THEN w.v ELSE score[q][m]
        BY <1>2, ShapeIs
    <2> QED
        BY <1>3, <2>2, ShapeIs DEF Scored
<1>6. CASE w.s = "Success"
    <2>1. lane[n] \in Seq(Plugins) /\ Tail(lane[n]) \in Seq(Plugins)
        BY <1>2, ShapeIs
    <2>2. lane' \in [Nodes -> Seq(Plugins)] /\ UNCHANGED <<point, todo>>
        BY <1>2, <1>6, <2>1, ShapeIs
    <2>3. CallsLeft'
        BY <1>2, <2>2, ShapeIs DEF CallsLeft
    <2> QED
        BY <1>2, <1>4, <1>5, <2>2, <2>3, ShapeIs DEF Shape, FW!FrameworkTypeOK
<1>7. CASE w.s # "Success"
    <2>1. Moves /\ point' = "Idle"
        BY <1>2, <1>7, FailureMoves DEF FW!Done
    <2> QED
        BY <1>2, <1>4, <1>5, <2>1, ShapeIs, ShapeKept
<1> QED
    BY <1>6, <1>7

\* The normalized scores lie in the same range.
LEMMA NormalizedIs ==
    ASSUME Shape, NEW p \in Plugins
    PROVE  Promise!Normalized(p) \in [Nodes -> 0 .. MaxScore]
<1>1. \A n \in Nodes : score[p][n] \in Nat /\ score[p][n] <= MaxScore
    BY ShapeIs DEF Scored
<1>2. MaxScore \in Nat
    BY CycleAssumption
<1> QED
    BY <1>1, <1>2 DEF Promise!Normalized

LEMMA NormalizeMoves ==
    ASSUME Shape, NEW p \in Plugins, NormalizeScore(p)
    PROVE  Shape'
<1>1. PICK w \in Ways(p, "Normalize", Promise!NormalizeSays, Unran("Success", "none")) :
        FW!NormalizeReturned(p, w.s, IF w.ran THEN Promise!Normalized(p) ELSE score[p])
    BY DEF NormalizeScore
<1> DEFINE v == IF w.ran THEN Promise!Normalized(p) ELSE score[p]
<1>2. /\ point = "Normalize" /\ todo # <<>> /\ p = Head(todo)
      /\ score' = [score EXCEPT ![p] = v]
      /\ IF w.s = "Success" THEN FW!Pop ELSE FW!Done("Idle")
      /\ UNCHANGED <<alive, skipped, waiting, extScore, node, cycles>>
    BY <1>1 DEF FW!NormalizeReturned, FW!Next_, FW!PopOr
<1>3. Original(p, "Score")
    <2>1. todo \in Seq({q \in Plugins : ScoreExtensions(q)})
        BY <1>2, ShapeIs DEF CallsLeft, Callable
    <2>2. Head(todo) \in {q \in Plugins : ScoreExtensions(q)}
        BY <1>2, <2>1
    <2> QED
        BY <1>2, <2>2 DEF ScoreExtensions
<1>4. v \in [Nodes -> Nat] /\ \A n \in Nodes : v[n] <= MaxScore
    <2>1. Promise!Normalized(p) \in [Nodes -> 0 .. MaxScore] /\ MaxScore \in Nat
        BY NormalizedIs, CycleAssumption
    <2>2. score[p] \in [Nodes -> Nat] /\ \A n \in Nodes : score[p][n] <= MaxScore
        BY ShapeIs DEF Scored
    <2> HIDE DEF v
    <2>3. CASE v = score[p]
        BY <2>2, <2>3
    <2>4. CASE v = Promise!Normalized(p)
        BY <2>1, <2>4
    <2> QED
        BY <2>3, <2>4 DEF v
<1> HIDE DEF v
<1>5. score' \in [Plugins -> [Nodes -> Nat]]
    BY <1>2, <1>4, ShapeIs
<1>6. Scored'
    BY <1>2, <1>3, <1>4, ShapeIs DEF Scored
<1>7. Moves /\ point' # "Filter" /\ point' # "PreFilter"
    BY <1>2, FailureMoves DEF FW!Pop, FW!Done
<1> QED
    BY <1>2, <1>5, <1>6, <1>7, ShapeIs, ShapeKept

LEMMA ExtFilterMoves ==
    ASSUME Shape, NEW i \in Ids, ExtFilter(i)
    PROVE  Shape'
<1>1. PICK a \in Promise!ExtFilterSays : FW!ExtFilterReturned(i, a.s, a.v)
    BY DEF ExtFilter
<1>2. /\ point = "ExtFilter" /\ todo # <<>>
      /\ alive' = IF a.s THEN alive \cap a.v ELSE alive
      /\ IF ~a.s THEN FW!Done("Idle") ELSE IF alive' = {} THEN FW!Unschedulable ELSE FW!Pop
      /\ UNCHANGED <<skipped, waiting, score, extScore, node, cycles>>
    BY <1>1 DEF FW!ExtFilterReturned, FW!Next_
<1>3. alive' \subseteq Nodes
    BY <1>2, ShapeIs
<1>4. Moves /\ point' \notin {"Filter", "PreFilter"}
    BY <1>2, FailureMoves DEF FW!Pop, FW!Done, FW!Unschedulable, FW!Enter
<1>5. Scored'
    BY <1>2, ShapeIs DEF Scored
<1> QED
    BY <1>2, <1>3, <1>4, <1>5, ShapeIs, ShapeKept

LEMMA ExtPrioritizeMoves ==
    ASSUME Shape, NEW i \in Ids, ExtPrioritize(i)
    PROVE  Shape'
<1>1. PICK a \in Promise!ExtPrioritizeSays : FW!ExtPrioritizeReturned(i, a.s, Ranks(i, a.v))
    BY DEF ExtPrioritize
<1> DEFINE r == Ranks(i, a.v)
<1>2. /\ point = "ExtPrioritize" /\ todo # <<>>
      /\ extScore' = [n \in Nodes |-> IF a.s /\ n \in alive
                                      THEN extScore[n] + r[n] * ExtWeight[i] * Scale
                                      ELSE extScore[n]]
      /\ FW!Pop
      /\ UNCHANGED <<alive, skipped, waiting, score, node, cycles>>
    BY <1>1 DEF FW!ExtPrioritizeReturned, FW!Next_
<1>3. a.v \in [Nodes -> Nat]
    <2>1. a.v \in Priorities \/ a.v = [n \in Nodes |-> 0]
        BY DEF Promise!ExtPrioritizeSays, Promise!Said
    <2> QED
        BY <2>1, CycleAssumption
<1>4. \A n \in Nodes : r[n] \in Nat
    BY <1>3, FactorOut DEF Ranks
<1>5. ExtWeight[i] \in Nat /\ Scale \in Nat
    BY FrameworkHolds DEF FW!FrameworkAssumption
<1>6. \A x, y \in Nat : x * y \in Nat
    OBVIOUS
<1> HIDE DEF r
<1>7. \A n \in Nodes : r[n] * ExtWeight[i] * Scale \in Nat
    BY <1>4, <1>5, <1>6
<1>8. extScore' \in [Nodes -> Nat]
    <2>1. \A n \in Nodes : extScore[n] \in Nat /\ extScore[n] + r[n] * ExtWeight[i] * Scale \in Nat
        BY <1>7, ShapeIs
    <2> QED
        BY <1>2, <2>1
<1>9. Moves /\ point' = "ExtPrioritize"
    BY <1>2, FailureMoves DEF FW!Pop
<1>10. Scored'
    BY <1>2, ShapeIs DEF Scored
<1> QED
    BY <1>2, <1>8, <1>9, <1>10, ShapeIs, ShapeKept

LEMMA NoScoreIs ==
    /\ FW!NoScore \in [Plugins -> [Nodes -> Nat]]
    /\ \A p \in Plugins, n \in Nodes : FW!NoScore[p][n] = 0
    /\ [n \in Nodes |-> 0] \in [Nodes -> Nat]
BY DEF FW!NoScore

LEMMA BeginMoves ==
    ASSUME Shape, FW!Begin
    PROVE  Shape'
<1>1. /\ point = "Idle" /\ cycles < MaxCycles /\ cycles' = cycles + 1
      /\ alive' = Nodes /\ skipped' = {} /\ waiting' = FALSE
      /\ score' = FW!NoScore /\ extScore' = [n \in Nodes |-> 0] /\ node' = NoNode
      /\ FW!Enter("PreFilter", Nodes, {})
    BY DEF FW!Begin
<1>2. "PreFilter" \in FW!Points
    BY DEF FW!Points
<1>3. /\ point' = "PreFilter" /\ todo' \in Seq(Callable("PreFilter"))
      /\ lane' \in [Nodes -> Seq(Plugins)] /\ NoneTwice(todo')
    BY <1>1, <1>2, EnterIs
<1>4. todo' \in Seq(Plugins \cup Ids)
    BY <1>3, CallableAre
<1>5. CallsLeft'
    BY <1>1, <1>3, CycleAssumption DEF CallsLeft
<1>6. Scored'
    <2>1. MaxScore \in Nat
        BY CycleAssumption
    <2>2. \A p \in Plugins, n \in Nodes : score'[p][n] = 0
        BY <1>1, NoScoreIs
    <2> QED
        BY <2>1, <2>2 DEF Scored
<1>7. cycles' \in 0 .. MaxCycles
    BY <1>1, ShapeIs, CycleAssumption
<1> QED
    BY <1>1, <1>2, <1>3, <1>4, <1>5, <1>6, <1>7, NoScoreIs DEF Shape, FW!FrameworkTypeOK

LEMMA AfterIs ==
    ASSUME NEW bound
    PROVE  /\ FW!After(point, bound) \in (FW!Points \ {"PreFilter"}) \cup {"Idle", "Waiting", "Bound"}
           /\ FW!After(point, bound) = "Filter" => point = "PreFilter"
           /\ FW!After(point, bound) = "PostBind" => FALSE
           /\ FW!After(point, bound) = "ExtBind" => point = "PreBind" /\ bound
BY DEF FW!After, FW!Points

LEMMA AdvanceMoves ==
    ASSUME Shape, FW!Advance
    PROVE  Shape'
<1>1. PICK bound \in {FALSE, ListAt["ExtBind"] # <<>>} :
        LET to == FW!After(point, bound)
        IN  /\ IF to \in FW!Points THEN FW!Enter(to, alive, skipped) ELSE FW!Done(to)
            /\ IF to = "Reserve"
               THEN node' \in FW!Best /\ score' = FW!NoScore /\ extScore' = [n \in Nodes |-> 0]
               ELSE UNCHANGED <<node, score, extScore>>
            /\ skipped' = IF to = "PreScore" THEN {} ELSE skipped
    BY DEF FW!Advance
<1> DEFINE to == FW!After(point, bound)
<1>2. to \in (FW!Points \ {"PreFilter"}) \cup {"Idle", "Waiting", "Bound"}
    BY AfterIs
<1>3. UNCHANGED <<alive, waiting, cycles>>
    BY DEF FW!Advance
<1> HIDE DEF to
<1>4. Moves
    <2>1. {"Idle", "Waiting", "Bound"} \cap FW!Points = {}
        BY DEF FW!Points
    <2>2. CASE to \in FW!Points
        <3>1. FW!Enter(to, alive, skipped) /\ to \in FW!Points \ {"PreFilter"}
            BY <1>1, <1>2, <2>1, <2>2 DEF to
        <3>2. alive \in SUBSET alive' /\ skipped \in SUBSET Plugins
            BY <1>3, ShapeIs
        <3> QED
            BY <3>1, <3>2 DEF Moves
    <2>3. CASE to \notin FW!Points
        BY <1>1, <1>2, <2>3 DEF Moves, to
    <2> QED
        BY <2>2, <2>3
<1>5. point' = to
    BY <1>1 DEF to, FW!Enter, FW!Done
<1>6. point' # "PreFilter"
    <2>1. "PreFilter" \notin {"Idle", "Waiting", "Bound"}
        OBVIOUS
    <2> QED
        BY <1>2, <1>5, <2>1
<1>7. FW!Best \subseteq alive
    BY DEF FW!Best
<1>8. CASE to = "Reserve"
    <2>1. node' \in Nodes \cup {NoNode} /\ score' = FW!NoScore /\ extScore' = [n \in Nodes |-> 0]
        BY <1>1, <1>7, <1>8, ShapeIs DEF to
    <2>2. Scored'
        <3>1. MaxScore \in Nat
            BY CycleAssumption
        <3>2. \A p \in Plugins, n \in Nodes : score'[p][n] = 0
            BY <2>1, NoScoreIs
        <3> QED
            BY <3>1, <3>2 DEF Scored
    <2>3. skipped' \subseteq Plugins
        BY <1>1, ShapeIs
    <2> QED
        BY <1>3, <1>4, <1>6, <2>1, <2>2, <2>3, NoScoreIs, ShapeIs, ShapeKept
<1>9. CASE to # "Reserve"
    <2>1. UNCHANGED <<node, score, extScore>>
        BY <1>1, <1>9 DEF to
    <2>2. skipped' \subseteq Plugins
        BY <1>1, ShapeIs
    <2> QED
        BY <1>3, <1>4, <2>1, <2>2, ShapeIs, ShapeMoved
<1> QED
    BY <1>8, <1>9

LEMMA WaitMoves ==
    ASSUME Shape, FW!WaitOnPermit
    PROVE  Shape'
<1>1. /\ FW!Enter("PreBind", alive, skipped) \/ FW!Enter("Unreserve", alive, skipped)
      /\ UNCHANGED <<alive, skipped, waiting, score, extScore, node, cycles>>
    BY DEF FW!WaitOnPermit
<1>2. Moves
    BY <1>1, FailureMoves DEF FW!Undo
<1> QED
    BY <1>1, <1>2, ShapeIs, ShapeMoved

LEMMA ShapeUnseen ==
    ASSUME Shape, UNCHANGED fw
    PROVE  Shape'
BY DEF fw, Shape, FW!FrameworkTypeOK, CallsLeft, Scored

LEMMA PluginSteps ==
    ASSUME Shape, NEW p \in Plugins,
           \/ PostFilter(p) \/ PreScore(p) \/ Reserve(p) \/ Permit(p)
           \/ PreBind(p) \/ Bind(p) \/ PostBind(p) \/ Unreserve(p)
    PROVE  Shape'
<1>1. CASE PostFilter(p)
    <2>1. \E s : FW!PostFilterReturned(p, s)
        BY <1>1 DEF PostFilter
    <2> QED
        BY <2>1, PluginsMove
<1>2. CASE PreScore(p)
    <2>1. \E s : FW!PreScoreReturned(p, s)
        BY <1>2 DEF PreScore
    <2> QED
        BY <2>1, PluginsMove
<1>3. CASE Reserve(p)
    <2>1. \E s : FW!ReserveReturned(p, s)
        BY <1>3 DEF Reserve
    <2> QED
        BY <2>1, PluginsMove
<1>4. CASE Permit(p)
    <2>1. \E s : FW!PermitReturned(p, s)
        BY <1>4 DEF Permit
    <2> QED
        BY <2>1, PluginsMove
<1>5. CASE PreBind(p)
    <2>1. \E s : FW!PreBindReturned(p, s)
        BY <1>5 DEF PreBind
    <2> QED
        BY <2>1, PluginsMove
<1>6. CASE Bind(p)
    <2>1. \E s : FW!BindReturned(p, s)
        BY <1>6 DEF Bind
    <2> QED
        BY <2>1, PluginsMove
<1>7. CASE PostBind(p) \/ Unreserve(p)
    BY <1>7, VoidMoves DEF PostBind, Unreserve
<1> QED
    BY <1>1, <1>2, <1>3, <1>4, <1>5, <1>6, <1>7

LEMMA ShapeStep ==
    ASSUME Shape, Next
    PROVE  Shape'
<1>1. CASE Begin \/ Scheduler
    BY <1>1, BeginMoves, AdvanceMoves, WaitMoves DEF Begin, Scheduler
<1>2. CASE Reflect
    BY <1>2, ShapeUnseen DEF Reflect
<1>3. ASSUME NEW p \in Plugins, PreFilter(p) \/ NormalizeScore(p)
      PROVE  Shape'
    BY <1>3, PreFilterMoves, NormalizeMoves
<1>4. ASSUME NEW p \in Plugins,
             \/ PostFilter(p) \/ PreScore(p) \/ Reserve(p) \/ Permit(p)
             \/ PreBind(p) \/ Bind(p) \/ PostBind(p) \/ Unreserve(p)
      PROVE  Shape'
    BY <1>4, PluginSteps
<1>5. ASSUME NEW p \in Plugins, NEW n \in Nodes, Filter(p, n) \/ Score(p, n) \/ DryRunFilter(p, n)
      PROVE  Shape'
    <2>1. DryRunFilter(p, n) => Shape'
        BY ShapeUnseen DEF DryRunFilter
    <2> QED
        BY <1>5, <2>1, FilterMoves, ScoreMoves
<1>6. ASSUME NEW i \in Ids, ExtFilter(i) \/ ExtPrioritize(i) \/ ExtBind(i) \/ ExtPreempt(i)
      PROVE  Shape'
    <2>1. ExtPreempt(i) => Shape'
        BY ShapeUnseen DEF ExtPreempt
    <2>2. ExtBind(i) => Shape'
        BY ExtBindMoves DEF ExtBind
    <2> QED
        BY <1>6, <2>1, <2>2, ExtFilterMoves, ExtPrioritizeMoves
<1> QED
    BY <1>1, <1>2, <1>3, <1>4, <1>5, <1>6 DEF Next

LEMMA ShapeInit ==
    ASSUME Init
    PROVE  Shape
<1>1. FW!FrameworkInit
    BY DEF Init
<1>2. /\ point = "Idle" /\ todo = <<>> /\ lane = [n \in Nodes |-> <<>>]
      /\ alive = {} /\ skipped = {} /\ waiting = FALSE
      /\ score = FW!NoScore /\ extScore = [n \in Nodes |-> 0] /\ node = NoNode /\ cycles = 0
    BY <1>1 DEF FW!FrameworkInit, FW!NoLane
<1>3. <<>> \in Seq(Plugins \cup Ids) /\ <<>> \in Seq(Plugins) /\ <<>> \in Seq(Callable(point))
    OBVIOUS
<1>4. CallsLeft
    BY <1>2, <1>3 DEF CallsLeft
<1>5. MaxScore \in Nat /\ MaxCycles \in Nat
    BY CycleAssumption
<1>6. Scored
    BY <1>2, <1>5, NoScoreIs DEF Scored
<1>7. lane \in [Nodes -> Seq(Plugins)] /\ todo \in Seq(Plugins \cup Ids) /\ cycles \in 0 .. MaxCycles
    BY <1>2, <1>3, <1>5
<1> QED
    BY <1>2, <1>4, <1>6, <1>7, NoScoreIs DEF Shape, FW!FrameworkTypeOK

-----------------------------------------------------------------------------
(***************************************************************************)
(* A failed attempt holds nothing.                                         *)
(***************************************************************************)

\* The actions before Reserve are of the points before Reserve.
LEMMA EarlyActions ==
    /\ Begin => point = "Idle"
    /\ \A p \in Plugins :
        /\ PreFilter(p) => point = "PreFilter" /\ todo # <<>> /\ p = Head(todo)
        /\ PostFilter(p) => point = "PostFilter"
        /\ PreScore(p) => point = "PreScore"
        /\ NormalizeScore(p) => point = "Normalize"
        /\ \A n \in Nodes : /\ Filter(p, n) => point = "Filter" /\ lane[n] # <<>>
                            /\ Score(p, n) => point = "Score"
                            /\ DryRunFilter(p, n) => point = "PostFilter"
    /\ \A i \in Ids :
        /\ ExtFilter(i) => point = "ExtFilter" /\ todo # <<>> /\ i = Head(todo)
        /\ ExtPrioritize(i) => point = "ExtPrioritize"
        /\ ExtPreempt(i) => point = "PostFilter"
<1>1. Begin => point = "Idle"
    BY DEF Begin, FW!Begin
<1>2. ASSUME NEW p \in Plugins
      PROVE  /\ PreFilter(p) => point = "PreFilter" /\ todo # <<>> /\ p = Head(todo)
             /\ PostFilter(p) => point = "PostFilter"
             /\ PreScore(p) => point = "PreScore"
             /\ NormalizeScore(p) => point = "Normalize"
    BY DEF PreFilter, PostFilter, PreScore, NormalizeScore, FW!PreFilterReturned,
           FW!PostFilterReturned, FW!PreScoreReturned, FW!NormalizeReturned, FW!Next_
<1>3. ASSUME NEW p \in Plugins, NEW n \in Nodes
      PROVE  /\ Filter(p, n) => point = "Filter" /\ lane[n] # <<>>
             /\ Score(p, n) => point = "Score"
             /\ DryRunFilter(p, n) => point = "PostFilter"
    BY DEF Filter, Score, DryRunFilter, FW!FilterReturned, FW!ScoreReturned, Preempting
<1>4. ASSUME NEW i \in Ids
      PROVE  /\ ExtFilter(i) => point = "ExtFilter" /\ todo # <<>> /\ i = Head(todo)
             /\ ExtPrioritize(i) => point = "ExtPrioritize"
             /\ ExtPreempt(i) => point = "PostFilter"
    BY DEF ExtFilter, ExtPrioritize, ExtPreempt, FW!ExtFilterReturned,
           FW!ExtPrioritizeReturned, FW!Next_, Preempting
<1> QED
    BY <1>1, <1>2, <1>3, <1>4

\* What the actions from Reserve on do to the point.
LEMMA LateActions ==
    ASSUME Shape
    PROVE  /\ \A p \in Plugins :
                /\ Reserve(p) => point = "Reserve" /\ todo # <<>> /\ (FW!Pop \/ FW!Undo)
                /\ Permit(p) => point = "Permit" /\ todo # <<>> /\ (FW!Pop \/ FW!Undo)
                /\ PreBind(p) => point = "PreBind" /\ todo # <<>> /\ (FW!Pop \/ FW!Undo)
                /\ Bind(p) => /\ point = "Bind" /\ todo # <<>>
                              /\ FW!Pop \/ FW!Undo \/ FW!Enter("PostBind", alive, skipped)
                /\ PostBind(p) => point = "PostBind" /\ todo # <<>> /\ FW!Pop
                /\ Unreserve(p) => point = "Unreserve" /\ todo # <<>> /\ FW!Pop /\ p = Head(todo)
           /\ \A i \in Ids : ExtBind(i) => /\ point = "ExtBind"
                                           /\ FW!Undo \/ FW!Enter("PostBind", alive, skipped)
<1>1. ASSUME NEW p \in Plugins
      PROVE  /\ Reserve(p) => point = "Reserve" /\ todo # <<>> /\ (FW!Pop \/ FW!Undo)
             /\ Permit(p) => point = "Permit" /\ todo # <<>> /\ (FW!Pop \/ FW!Undo)
             /\ PreBind(p) => point = "PreBind" /\ todo # <<>> /\ (FW!Pop \/ FW!Undo)
             /\ PostBind(p) => point = "PostBind" /\ todo # <<>> /\ FW!Pop
             /\ Unreserve(p) => point = "Unreserve" /\ todo # <<>> /\ FW!Pop /\ p = Head(todo)
    BY DEF Reserve, Permit, PreBind, PostBind, Unreserve, FW!ReserveReturned, FW!PermitReturned,
           FW!PreBindReturned, FW!VoidReturned, FW!PopOr, FW!Next_
<1>2. ASSUME NEW p \in Plugins, Bind(p)
      PROVE  /\ point = "Bind" /\ todo # <<>>
             /\ FW!Pop \/ FW!Undo \/ FW!Enter("PostBind", alive, skipped)
    <2>1. PICK s : FW!BindReturned(p, s)
        BY <1>2 DEF Bind
    <2> QED
        BY <2>1 DEF FW!BindReturned, FW!Next_
<1>3. ASSUME NEW i \in Ids, ExtBind(i)
      PROVE  point = "ExtBind" /\ (FW!Undo \/ FW!Enter("PostBind", alive, skipped))
    BY <1>3 DEF ExtBind, FW!ExtBindReturned, FW!Next_
<1> QED
    BY <1>1, <1>2, <1>3

LEMMA UndoIs ==
    /\ FW!Undo => point' = "Unreserve" /\ todo' = Reverse(Profile)
    /\ \A pt \in {"PostBind", "PreBind", "Unreserve"} :
        FW!Enter(pt, alive, skipped) => point' = pt /\ (pt = "Unreserve" => todo' = Reverse(Profile))
<1>1. {"PostBind", "PreBind", "Unreserve"} \subseteq FW!Points
    BY DEF FW!Points
<1> QED
    BY <1>1, EnterIs DEF FW!Undo

LEMMA AdvanceIs ==
    ASSUME FW!Advance
    PROVE  \E bound \in {FALSE, ListAt["ExtBind"] # <<>>} :
              LET to == FW!After(point, bound)
              IN  /\ point' = to /\ todo = <<>> /\ point \in FW!Points \ {"ExtBind"}
                  /\ to = "Unreserve" => todo' = Reverse(Profile)
                  /\ to = "Reserve" => todo' = Profile
                  /\ to = "Reserve" \/ UNCHANGED node
                  /\ to \in FW!Points => FW!Enter(to, alive, skipped)
<1>1. PICK bound \in {FALSE, ListAt["ExtBind"] # <<>>} :
        LET to == FW!After(point, bound)
        IN  /\ IF to \in FW!Points THEN FW!Enter(to, alive, skipped) ELSE FW!Done(to)
            /\ to = "Reserve" \/ UNCHANGED node
    BY DEF FW!Advance
<1>2. todo = <<>> /\ point \in FW!Points \ {"ExtBind"}
    BY DEF FW!Advance, FW!Drained
<1> DEFINE to == FW!After(point, bound)
<1>3. to \in FW!Points \cup {"Idle", "Waiting", "Bound"}
    BY AfterIs
<1>4. "Unreserve" \in FW!Points /\ "Reserve" \in FW!Points
    BY DEF FW!Points
<1> HIDE DEF to
<1>5. point' = to /\ (to = "Unreserve" => todo' = Reverse(Profile)) /\ (to = "Reserve" => todo' = Profile)
    <2>1. CASE to \in FW!Points
        BY <1>1, <2>1, EnterIs DEF to
    <2>2. CASE to \notin FW!Points
        BY <1>1, <1>4, <2>2 DEF to, FW!Done
    <2> QED
        BY <2>1, <2>2
<1> QED
    BY <1>1, <1>2, <1>5 DEF to

\* From Reserve on an attempt goes on, or to Unreserve, which calls every plugin.
LEMMA LateMoves ==
    ASSUME Shape, Next, point \notin BeforeReserve
    PROVE  \/ UNCHANGED <<point, todo>>
           \/ todo # <<>> /\ FW!Pop /\ (point = "Unreserve" => Unreserve(Head(todo)))
           \/ point' \notin BeforeReserve /\ (point' = "Unreserve" => todo' = Reverse(Profile))
           \/ point = "Unreserve" /\ todo = <<>>
<1> DEFINE Goal == \/ UNCHANGED <<point, todo>>
                   \/ todo # <<>> /\ FW!Pop /\ (point = "Unreserve" => Unreserve(Head(todo)))
                   \/ point' \notin BeforeReserve /\ (point' = "Unreserve" => todo' = Reverse(Profile))
                   \/ point = "Unreserve" /\ todo = <<>>
<1>1. {"Unreserve", "PostBind", "PreBind"} \cap BeforeReserve = {}
    BY DEF BeforeReserve
<1>2. CASE Scheduler
    <2>1. CASE FW!Advance
        <3>1. PICK bound \in {FALSE, ListAt["ExtBind"] # <<>>} :
                /\ point' = FW!After(point, bound) /\ todo = <<>> /\ point \in FW!Points
                /\ FW!After(point, bound) = "Unreserve" => todo' = Reverse(Profile)
            BY <2>1, AdvanceIs
        <3>2. point \in {"Reserve", "Permit", "PreBind", "ExtBind", "Bind", "PostBind", "Unreserve"}
            BY <3>1 DEF BeforeReserve, FW!Points
        <3>3. point # "Unreserve" =>
                FW!After(point, bound) \in {"Permit", "Waiting", "PreBind", "ExtBind", "Bind", "Unreserve", "Bound"}
                \/ point = "ExtBind"
            BY <3>2 DEF FW!After
        <3>4. point # "ExtBind"
            BY <2>1 DEF FW!Advance
        <3>5. point = "Unreserve" \/ FW!After(point, bound) \notin BeforeReserve
            BY <3>3, <3>4 DEF BeforeReserve
        <3> QED
            BY <3>1, <3>5
    <2>2. CASE FW!WaitOnPermit
        BY <1>1, <2>2, UndoIs DEF FW!WaitOnPermit
    <2> QED
        BY <1>2, <2>1, <2>2 DEF Scheduler
<1>3. CASE Reflect
    BY <1>3 DEF Reflect, fw
<1>4. ASSUME NEW p \in Plugins,
             Reserve(p) \/ Permit(p) \/ PreBind(p) \/ Bind(p) \/ PostBind(p) \/ Unreserve(p)
      PROVE  Goal
    BY <1>1, <1>4, LateActions, UndoIs
<1>5. ASSUME NEW i \in Ids, ExtBind(i)
      PROVE  Goal
    BY <1>1, <1>5, LateActions, UndoIs
<1>6. ~Begin /\ (\A p \in Plugins : /\ ~PreFilter(p) /\ ~PostFilter(p) /\ ~PreScore(p) /\ ~NormalizeScore(p)
                                    /\ \A n \in Nodes : ~Filter(p, n) /\ ~Score(p, n) /\ ~DryRunFilter(p, n))
             /\ (\A i \in Ids : ~ExtFilter(i) /\ ~ExtPrioritize(i) /\ ~ExtPreempt(i))
    BY EarlyActions DEF BeforeReserve
<1> QED
    BY <1>2, <1>3, <1>4, <1>5, <1>6 DEF Next

\* What is held is what a Reserve plugin holds, until its Unreserve.
LEMMA HeldIs ==
    ASSUME Shape, Next
    PROVE  /\ held' \subseteq held \/ \E p \in Plugins : /\ Reserve(p) /\ held' \subseteq held \cup {p}
                                                         /\ Original(p, "Reserve")
           /\ \A p \in Plugins : Unreserve(p) /\ Original(p, "Reserve") /\ <<p, "Unreserve">> \notin Hooked
                                    => p \notin held'
<1>1. ASSUME NEW p \in Plugins, Reserve(p)
      PROVE  held' \subseteq held \/ (held' \subseteq held \cup {p} /\ Original(p, "Reserve"))
    <2>1. PICK w \in Ways(p, "Reserve", Promise!ReserveSays, Unran("Success", "none")) :
            held' = IF w.ran THEN held \cup {p} ELSE held
        BY <1>1 DEF Reserve
    <2>2. ~Original(p, "Reserve") => w = Unran("Success", "none")
        BY WaysSay
    <2>3. ~Unran("Success", "none").ran
        BY DEF Unran
    <2>4. w.ran => Original(p, "Reserve")
        BY <2>2, <2>3
    <2> QED
        BY <2>1, <2>4
<1>2. ASSUME NEW p \in Plugins, Unreserve(p)
      PROVE  /\ held' \subseteq held
             /\ Original(p, "Reserve") /\ <<p, "Unreserve">> \notin Hooked => p \notin held'
    <2>1. PICK ran \in UnreserveRuns(p) : held' = IF ran THEN held \ {p} ELSE held
        BY <1>2 DEF Unreserve
    <2>2. Original(p, "Reserve") = Original(p, "Unreserve")
        BY DEF Original
    <2>3. Original(p, "Reserve") /\ <<p, "Unreserve">> \notin Hooked => ran = TRUE
        BY <2>1, <2>2 DEF UnreserveRuns
    <2> QED
        BY <2>1, <2>3
<1>3. Begin \/ Scheduler \/ Reflect => held' = held
    BY DEF Begin, Scheduler, Reflect
<1>4. ASSUME NEW p \in Plugins,
             \/ PreFilter(p) \/ PostFilter(p) \/ PreScore(p) \/ NormalizeScore(p)
             \/ Permit(p) \/ PreBind(p) \/ Bind(p) \/ PostBind(p)
      PROVE  held' = held
    BY <1>4 DEF PreFilter, PostFilter, PreScore, NormalizeScore, Permit, PreBind, Bind, PostBind, Rest
<1>5. ASSUME NEW p \in Plugins, NEW n \in Nodes, Filter(p, n) \/ Score(p, n) \/ DryRunFilter(p, n)
      PROVE  held' = held
    BY <1>5 DEF Filter, Score, DryRunFilter, Rest
<1>6. ASSUME NEW i \in Ids, ExtFilter(i) \/ ExtPrioritize(i) \/ ExtBind(i) \/ ExtPreempt(i)
      PROVE  held' = held
    BY <1>6 DEF ExtFilter, ExtPrioritize, ExtBind, ExtPreempt, Answered
<1>7. held' \subseteq held \/ \E p \in Plugins : /\ Reserve(p) /\ held' \subseteq held \cup {p}
                                                 /\ Original(p, "Reserve")
    BY <1>1, <1>2, <1>3, <1>4, <1>5, <1>6 DEF Next
<1> QED
    BY <1>2, <1>7

LEMMA ReservedStep ==
    ASSUME Shape, Reserved, held \subseteq Plugins, Next
    PROVE  Reserved'
<1>1. SUFFICES ASSUME NEW p \in held'
               PROVE  /\ Original(p, "Reserve")
                      /\ \/ <<p, "Unreserve">> \in Hooked
                         \/ /\ point' \notin BeforeReserve
                            /\ point' = "Unreserve" => \E k \in DOMAIN todo' : todo'[k] = p
    BY DEF Reserved
<1>2. p \in held \/ (p \in Plugins /\ Original(p, "Reserve") /\ Reserve(p))
    BY <1>1, HeldIs
<1>3. Original(p, "Reserve")
    BY <1>2 DEF Reserved
<1>4. SUFFICES ASSUME <<p, "Unreserve">> \notin Hooked
               PROVE  /\ point' \notin BeforeReserve
                      /\ point' = "Unreserve" => \E k \in DOMAIN todo' : todo'[k] = p
    BY <1>3
<1>5. point \notin BeforeReserve /\ (point = "Unreserve" => \E k \in DOMAIN todo : todo[k] = p)
    <2>1. CASE p \in held
        BY <1>4, <2>1 DEF Reserved
    <2>2. CASE p \in Plugins /\ Reserve(p)
        BY <2>2, LateActions DEF BeforeReserve
    <2> QED
        BY <1>2, <2>1, <2>2
<1>6. p \in Plugins
    BY <1>2
<1>7. CASE UNCHANGED <<point, todo>>
    BY <1>5, <1>7
<1>8. CASE todo # <<>> /\ FW!Pop /\ (point = "Unreserve" => Unreserve(Head(todo)))
    <2>1. point' = point
        BY <1>8 DEF FW!Pop
    <2>2. CASE point = "Unreserve"
        <3>1. CallsLeft
            BY DEF Shape
        <3>2. PICK k \in DOMAIN todo : todo[k] = p
            BY <1>5, <2>2
        <3>3. todo[k] = Head(todo) \/ \E j \in DOMAIN todo' : todo'[j] = todo[k]
            BY <1>8, <3>1, PopIs
        <3>4. Head(todo) # p
            BY <1>1, <1>3, <1>4, <1>6, <1>8, <2>2, HeldIs
        <3> QED
            BY <1>5, <2>1, <3>2, <3>3, <3>4
    <2> QED
        BY <1>5, <2>1, <2>2
<1>9. CASE point' \notin BeforeReserve /\ (point' = "Unreserve" => todo' = Reverse(Profile))
    BY <1>6, <1>9, ReverseIn
<1>10. CASE point = "Unreserve" /\ todo = <<>>
    BY <1>5, <1>10
<1> QED
    BY <1>5, <1>7, <1>8, <1>9, <1>10, LateMoves

-----------------------------------------------------------------------------
(***************************************************************************)
(* The plugin result store.                                                *)
(***************************************************************************)

LEMMA EmptyMapIs ==
    ASSUME NEW K, NEW V
    PROVE  EmptyMap \in MapOf(K, V) /\ DOMAIN EmptyMap = {}
BY DEF EmptyMap, MapOf

LEMMA MapIs ==
    ASSUME NEW K, NEW V
    PROVE  \A m : m \in MapOf(K, V) <=> \E D \in SUBSET K : m \in [D -> V]
BY DEF MapOf

LEMMA PutIs ==
    ASSUME NEW K, NEW V, NEW m \in MapOf(K, V), NEW k \in K, NEW v \in V
    PROVE  /\ Put(m, k, v) \in MapOf(K, V)
           /\ DOMAIN Put(m, k, v) = DOMAIN m \cup {k}
           /\ \A x \in DOMAIN m \cup {k} : Put(m, k, v)[x] = IF x = k THEN v ELSE m[x]
<1>1. PICK D \in SUBSET K : m \in [D -> V]
    BY MapIs
<1>2. Put(m, k, v) \in [D \cup {k} -> V]
    BY <1>1 DEF Put
<1>3. Put(m, k, v) \in MapOf(K, V)
    BY <1>2, MapIs
<1> QED
    BY <1>3 DEF Put

LEMMA AtIs ==
    ASSUME NEW K, NEW L, NEW V, NEW m \in MapOf(K, MapOf(L, V)), NEW k
    PROVE  At(m, k) \in MapOf(L, V)
<1>1. PICK D \in SUBSET K : m \in [D -> MapOf(L, V)]
    BY MapIs
<1> QED
    BY <1>1, EmptyMapIs DEF At

LEMMA Put2Is ==
    ASSUME NEW K, NEW L, NEW V, NEW m \in MapOf(K, MapOf(L, V)), NEW k \in K, NEW l \in L, NEW v \in V
    PROVE  /\ Put2(m, k, l, v) \in MapOf(K, MapOf(L, V))
           /\ \A x \in K : At(Put2(m, k, l, v), x) = IF x = k THEN Put(At(m, k), l, v) ELSE At(m, x)
<1>1. At(m, k) \in MapOf(L, V)
    BY AtIs
<1>2. Put(At(m, k), l, v) \in MapOf(L, V)
    BY <1>1, PutIs
<1> DEFINE new == Put(At(m, k), l, v)
           N == MapOf(L, V)
<1> HIDE DEF new, N
<1>3. /\ Put(m, k, new) \in MapOf(K, N) /\ DOMAIN Put(m, k, new) = DOMAIN m \cup {k}
      /\ \A x \in DOMAIN m \cup {k} : Put(m, k, new)[x] = IF x = k THEN new ELSE m[x]
    BY <1>2, PutIs DEF new, N
<1>4. \A x \in K : At(Put(m, k, new), x) = IF x = k THEN new ELSE At(m, x)
    BY <1>3 DEF At
<1> QED
    BY <1>3, <1>4 DEF Put2, new, N

\* What an operation records of rejections, and of the outcome of the attempt.
Rejections(d) == <<d.preFilterStatus, d.preFilterResult, d.filter>>
Outcome(d) == <<d.selectedNode, d.reserve, d.permit, d.prebind, d.bind>>

Stored(r) == r \in PodResults \cup {NoData}

LEMMA NewDataIs ==
    /\ newData \in PodResults
    /\ newData.selectedNode = NoNode
    /\ newData.preFilterStatus = EmptyMap /\ newData.preFilterResult = EmptyMap /\ newData.filter = EmptyMap
    /\ newData.reserve = EmptyMap /\ newData.permit = EmptyMap /\ newData.prebind = EmptyMap
    /\ newData.bind = EmptyMap
<1>1. newData \in PodResults
    BY EmptyMapIs DEF newData, PodResults, StatusMap, NodeMap
<1> QED
    BY <1>1 DEF newData

LEMMA DataIs ==
    ASSUME NEW r, Stored(r)
    PROVE  /\ Data(r) \in PodResults
           /\ r \in PodResults => Data(r) = r
BY NewDataIs, StoreAssumption DEF Stored, Data

LEMMA FieldsAre ==
    ASSUME NEW d \in PodResults
    PROVE  /\ d.selectedNode \in Nodes \cup {NoNode}
           /\ d.preFilterStatus \in StatusMap /\ d.preFilterResult \in MapOf(Plugins, SUBSET Nodes)
           /\ d.filter \in NodeMap(FW!Statuses) /\ d.postFilter \in NodeMap({"nominated"})
           /\ d.preScore \in StatusMap /\ d.score \in NodeMap(0 .. MaxScore)
           /\ d.finalScore \in NodeMap(Weighted)
           /\ d.reserve \in StatusMap /\ d.permit \in StatusMap
           /\ d.prebind \in StatusMap /\ d.bind \in StatusMap
BY DEF PodResults

\* Recording a status.
LEMMA StatusAdded ==
    ASSUME NEW r, Stored(r), NEW p \in Plugins, NEW s \in FW!Statuses
    PROVE  /\ AddPreScoreResult(r, p, s) \in PodResults
           /\ Rejections(AddPreScoreResult(r, p, s)) = Rejections(Data(r))
           /\ Outcome(AddPreScoreResult(r, p, s)) = Outcome(Data(r))
           /\ AddReserveResult(r, p, s) \in PodResults
           /\ AddReserveResult(r, p, s) = [Data(r) EXCEPT !.reserve = Put(@, p, s)]
           /\ AddPermitResult(r, p, s) \in PodResults
           /\ AddPermitResult(r, p, s) = [Data(r) EXCEPT !.permit = Put(@, p, s)]
           /\ AddPreBindResult(r, p, s) \in PodResults
           /\ AddPreBindResult(r, p, s) = [Data(r) EXCEPT !.prebind = Put(@, p, s)]
           /\ AddBindResult(r, p, s) \in PodResults
           /\ AddBindResult(r, p, s) = [Data(r) EXCEPT !.bind = Put(@, p, s)]
<1> DEFINE d == Data(r)
<1>1. d \in PodResults
    BY DataIs
<1> HIDE DEF d
<1>2. \A m \in StatusMap : Put(m, p, s) \in StatusMap
    BY PutIs DEF StatusMap
<1>3. /\ d.preScore \in StatusMap /\ d.reserve \in StatusMap /\ d.permit \in StatusMap
      /\ d.prebind \in StatusMap /\ d.bind \in StatusMap
    BY <1>1, FieldsAre
<1>4. [d EXCEPT !.preScore = Put(@, p, s)] \in PodResults
    BY <1>1, <1>2, <1>3 DEF PodResults
<1>5. [d EXCEPT !.reserve = Put(@, p, s)] \in PodResults
    BY <1>1, <1>2, <1>3 DEF PodResults
<1>6. [d EXCEPT !.permit = Put(@, p, s)] \in PodResults
    BY <1>1, <1>2, <1>3 DEF PodResults
<1>7. [d EXCEPT !.prebind = Put(@, p, s)] \in PodResults
    BY <1>1, <1>2, <1>3 DEF PodResults
<1>8. [d EXCEPT !.bind = Put(@, p, s)] \in PodResults
    BY <1>1, <1>2, <1>3 DEF PodResults
<1>9. /\ Rejections([d EXCEPT !.preScore = Put(@, p, s)]) = Rejections(d)
      /\ Outcome([d EXCEPT !.preScore = Put(@, p, s)]) = Outcome(d)
    BY <1>1 DEF PodResults, Rejections, Outcome
<1> QED
    BY <1>4, <1>5, <1>6, <1>7, <1>8, <1>9
    DEF AddPreScoreResult, AddReserveResult, AddPermitResult, AddPreBindResult, AddBindResult, d

LEMMA OthersKept ==
    ASSUME NEW d \in PodResults, NEW v
    PROVE  /\ Outcome([d EXCEPT !.reserve = v]) = <<d.selectedNode, v, d.permit, d.prebind, d.bind>>
           /\ Outcome([d EXCEPT !.permit = v]) = <<d.selectedNode, d.reserve, v, d.prebind, d.bind>>
           /\ Outcome([d EXCEPT !.prebind = v]) = <<d.selectedNode, d.reserve, d.permit, v, d.bind>>
           /\ Outcome([d EXCEPT !.bind = v]) = <<d.selectedNode, d.reserve, d.permit, d.prebind, v>>
           /\ Outcome([d EXCEPT !.selectedNode = v]) = <<v, d.reserve, d.permit, d.prebind, d.bind>>
           /\ Rejections([d EXCEPT !.reserve = v]) = Rejections(d)
           /\ Rejections([d EXCEPT !.permit = v]) = Rejections(d)
           /\ Rejections([d EXCEPT !.prebind = v]) = Rejections(d)
           /\ Rejections([d EXCEPT !.bind = v]) = Rejections(d)
           /\ Rejections([d EXCEPT !.selectedNode = v]) = Rejections(d)
BY DEF PodResults, Rejections, Outcome

LEMMA PreFilterAdded ==
    ASSUME NEW r, Stored(r), NEW p \in Plugins, NEW s \in FW!Statuses,
           NEW named \in BOOLEAN, NEW ns \in SUBSET Nodes
    PROVE  LET new == AddPreFilterResult(r, p, s, named, ns)
           IN  /\ new \in PodResults /\ Outcome(new) = Outcome(Data(r))
               /\ new.preFilterStatus = Put(Data(r).preFilterStatus, p, s)
               /\ new.preFilterResult = IF named THEN Put(Data(r).preFilterResult, p, ns)
                                        ELSE Data(r).preFilterResult
               /\ new.filter = Data(r).filter
<1> DEFINE d == Data(r)
           status == Put(d.preFilterStatus, p, s)
           result == IF named THEN Put(d.preFilterResult, p, ns) ELSE d.preFilterResult
           new == [d EXCEPT !.preFilterStatus = status, !.preFilterResult = result]
<1>1. d \in PodResults
    BY DataIs
<1>2. AddPreFilterResult(r, p, s, named, ns) = new
    BY <1>1 DEF AddPreFilterResult, PodResults
<1> HIDE DEF d
<1>3. status \in StatusMap
    BY <1>1, FieldsAre, PutIs DEF StatusMap
<1>4. result \in MapOf(Plugins, SUBSET Nodes)
    BY <1>1, FieldsAre, PutIs
<1>5. new \in PodResults /\ Outcome(new) = Outcome(d)
      /\ new.preFilterStatus = status /\ new.preFilterResult = result /\ new.filter = d.filter
    <2> HIDE DEF status, result
    <2> QED
        BY <1>1, <1>3, <1>4 DEF PodResults, Outcome
<1> QED
    BY <1>2, <1>5 DEF d

LEMMA FilterAdded ==
    ASSUME NEW r, Stored(r), NEW n \in Nodes, NEW p \in Plugins, NEW s \in FW!Statuses
    PROVE  LET new == AddFilterResult(r, n, p, s)
           IN  /\ new \in PodResults /\ Outcome(new) = Outcome(Data(r))
               /\ new.preFilterStatus = Data(r).preFilterStatus
               /\ new.preFilterResult = Data(r).preFilterResult
               /\ new.filter = Put2(Data(r).filter, n, p, s)
<1> DEFINE d == Data(r)
           filter == Put2(d.filter, n, p, s)
           new == [d EXCEPT !.filter = filter]
<1>1. d \in PodResults
    BY DataIs
<1>2. AddFilterResult(r, n, p, s) = new
    BY <1>1 DEF AddFilterResult
<1> HIDE DEF d
<1>3. filter \in NodeMap(FW!Statuses)
    BY <1>1, FieldsAre, Put2Is DEF NodeMap
<1>4. new \in PodResults /\ Outcome(new) = Outcome(d)
      /\ new.preFilterStatus = d.preFilterStatus /\ new.preFilterResult = d.preFilterResult
      /\ new.filter = filter
    <2> HIDE DEF filter
    <2> QED
        BY <1>1, <1>3 DEF PodResults, Outcome
<1> QED
    BY <1>2, <1>4 DEF d

LEMMA PostFilterAdded ==
    ASSUME NEW r, Stored(r), NEW nominated, NEW p \in Plugins
    PROVE  LET new == AddPostFilterResult(r, nominated, p, Nodes)
           IN  /\ new \in PodResults /\ Outcome(new) = Outcome(Data(r))
               /\ Rejections(new) = Rejections(Data(r))
<1> DEFINE d == Data(r)
           M == MapOf(Plugins, {"nominated"})
           post == [n \in DOMAIN d.postFilter \cup Nodes |->
                        IF n = nominated /\ n \in Nodes THEN Put(At(d.postFilter, n), p, "nominated")
                        ELSE At(d.postFilter, n)]
           new == [d EXCEPT !.postFilter = post]
<1>1. d \in PodResults
    BY DataIs
<1>2. AddPostFilterResult(r, nominated, p, Nodes) = new
    BY <1>1 DEF AddPostFilterResult, PodResults
<1> HIDE DEF d
<1>3. post \in NodeMap({"nominated"})
    <2>1. d.postFilter \in MapOf(Nodes, M)
        BY <1>1, FieldsAre DEF NodeMap
    <2>2. \A n : At(d.postFilter, n) \in M
        BY <2>1, AtIs
    <2>3. \A n : Put(At(d.postFilter, n), p, "nominated") \in M
        BY <2>2, PutIs
    <2>4. DOMAIN d.postFilter \in SUBSET Nodes
        BY <2>1, MapIs
    <2>5. post \in [DOMAIN d.postFilter \cup Nodes -> M]
        BY <2>2, <2>3
    <2> HIDE DEF M, post
    <2>6. post \in MapOf(Nodes, M)
        BY <2>4, <2>5, MapIs
    <2> QED
        BY <2>6 DEF NodeMap, M
<1>4. new \in PodResults /\ Outcome(new) = Outcome(d) /\ Rejections(new) = Rejections(d)
    <2> HIDE DEF post
    <2> QED
        BY <1>1, <1>3 DEF PodResults, Outcome, Rejections
<1> QED
    BY <1>2, <1>4 DEF d

\* The scores of the nodes ns.
LEMMA FinalScoreAdded ==
    ASSUME NEW r, Stored(r), NEW ns \in SUBSET Nodes, NEW p \in Plugins, NEW v,
           \A n \in ns : v[n] \in 0 .. MaxScore
    PROVE  LET new == AddNormalizedScoreResult(r, ns, p, v)
           IN  /\ new \in PodResults /\ Outcome(new) = Outcome(Data(r))
               /\ Rejections(new) = Rejections(Data(r))
<1> DEFINE d == Data(r)
           M == MapOf(Plugins, Weighted)
           final == [n \in DOMAIN d.finalScore \cup ns |->
                        IF n \in ns THEN Put(At(d.finalScore, n), p, applyWeightOnScore(p, v[n]))
                        ELSE d.finalScore[n]]
           new == [d EXCEPT !.finalScore = final]
<1>1. d \in PodResults
    BY DataIs
<1>2. AddNormalizedScoreResult(r, ns, p, v) = new
    BY <1>1 DEF AddNormalizedScoreResult, PodResults
<1> HIDE DEF d
<1>3. final \in NodeMap(Weighted)
    <2>1. d.finalScore \in MapOf(Nodes, M)
        BY <1>1, FieldsAre DEF NodeMap
    <2>2. \A n : At(d.finalScore, n) \in M
        BY <2>1, AtIs
    <2>3. \A n \in ns : applyWeightOnScore(p, v[n]) \in Weighted
        BY DEF Weighted
    <2>4. \A n \in ns : Put(At(d.finalScore, n), p, applyWeightOnScore(p, v[n])) \in M
        BY <2>2, <2>3, PutIs
    <2>5. DOMAIN d.finalScore \in SUBSET Nodes /\ \A n \in DOMAIN d.finalScore : d.finalScore[n] \in M
        <3> HIDE DEF M
        <3> QED
            BY <2>1, MapIs
    <2> HIDE DEF M
    <2>6. final \in [DOMAIN d.finalScore \cup ns -> M]
        BY <2>4, <2>5
    <2> HIDE DEF final
    <2>7. final \in MapOf(Nodes, M)
        BY <2>5, <2>6, MapIs
    <2> QED
        BY <2>7 DEF NodeMap, M
<1>4. new \in PodResults /\ Outcome(new) = Outcome(d) /\ Rejections(new) = Rejections(d)
    <2> HIDE DEF final
    <2> QED
        BY <1>1, <1>3 DEF PodResults, Outcome, Rejections
<1> QED
    BY <1>2, <1>4 DEF d

LEMMA ScoreAdded ==
    ASSUME NEW r, Stored(r), NEW n \in Nodes, NEW p \in Plugins, NEW v \in 0 .. MaxScore
    PROVE  LET new == AddScoreResult(r, n, p, v)
           IN  /\ new \in PodResults /\ Outcome(new) = Outcome(Data(r))
               /\ Rejections(new) = Rejections(Data(r))
<1> DEFINE d == Data(r)
           score1 == Put2(d.score, n, p, v)
           scored == [d EXCEPT !.score = score1]
<1>1. d \in PodResults
    BY DataIs
<1>2. AddScoreResult(r, n, p, v) = AddNormalizedScoreResult(scored, {n}, p, [m \in {n} |-> v])
    BY <1>1 DEF AddScoreResult, PodResults
<1> HIDE DEF d
<1>3. score1 \in NodeMap(0 .. MaxScore)
    BY <1>1, FieldsAre, Put2Is DEF NodeMap
<1>4. scored \in PodResults /\ Outcome(scored) = Outcome(d) /\ Rejections(scored) = Rejections(d)
    <2> HIDE DEF score1
    <2> QED
        BY <1>1, <1>3 DEF PodResults, Outcome, Rejections
<1> HIDE DEF scored
<1>5. Stored(scored) /\ Data(scored) = scored
    BY <1>4, DataIs DEF Stored
<1>6. {n} \in SUBSET Nodes /\ \A m \in {n} : [x \in {n} |-> v][m] \in 0 .. MaxScore
    OBVIOUS
<1> QED
    BY <1>2, <1>4, <1>5, <1>6, FinalScoreAdded DEF d

LEMMA SelectedNodeAdded ==
    ASSUME NEW r, Stored(r), NEW n \in Nodes \cup {NoNode}
    PROVE  /\ AddSelectedNode(r, n) \in PodResults
           /\ AddSelectedNode(r, n) = [Data(r) EXCEPT !.selectedNode = n]
<1>1. Data(r) \in PodResults
    BY DataIs
<1> QED
    BY <1>1 DEF AddSelectedNode, PodResults

-----------------------------------------------------------------------------
(***************************************************************************)
(* What the actions record.                                                *)
(***************************************************************************)

\* Without a hook the scheduler acts on what was recorded.
LEMMA WayRan ==
    ASSUME NEW p, NEW pt, NEW says, NEW s, NEW v, NEW w \in Ways(p, pt, says, Unran(s, v))
    PROVE  /\ w.ran => w.said \in says
           /\ <<p, pt>> \notin Hooked =>
                IF w.ran THEN w.s = w.said.s /\ w.v = w.said.v ELSE w.s = s /\ w.v = v
<1> DEFINE neutral == Unran(s, v)
<1>1. ~neutral.ran /\ neutral.s = s /\ neutral.v = v
    BY DEF Unran
<1>2. w \in Ways(p, pt, says, neutral)
    OBVIOUS
<1> HIDE DEF neutral
<1>3. CASE w = neutral
    BY <1>1, <1>3
<1>4. CASE w # neutral
    <2>1. \/ /\ w.ran /\ w.said \in says
             /\ \E b \in says : /\ w.s = b.s /\ w.v = b.v
                                /\ <<p, pt>> \notin Hooked => b = w.said
          \/ ~w.ran /\ <<p, pt>> \in Hooked
        BY <1>2, <1>4, WaysSay, Zenon
    <2> QED
        BY <2>1
<1> QED
    BY <1>3, <1>4

\* What the plugins say, as a status.
LEMMA StatusesSaid ==
    /\ \A a \in Promise!PreFilterSays :
        /\ a.s \in FW!Statuses /\ a.s \in {"Success", "Skip", "Unschedulable"} /\ a.v \in SUBSET Nodes
        /\ a.s # "Success" => a.v = Nodes
    /\ \A a \in Promise!FilterSays : a.s \in FW!Statuses /\ a.s \in {"Success", "Unschedulable"}
    /\ \A a \in Promise!PreScoreSays : a.s \in FW!Statuses
    /\ \A a \in Promise!ReserveSays : a.s \in FW!Statuses
    /\ \A a \in Promise!PermitSays : a.s \in FW!Statuses
    /\ \A a \in Promise!PreBindSays : a.s \in FW!Statuses
    /\ \A a \in Promise!BindSays : a.s \in FW!Statuses
BY CycleAssumption
DEF Promise!PreFilterSays, Promise!FilterSays, Promise!PreScoreSays, Promise!ReserveSays,
    Promise!PermitSays, Promise!PreBindSays, Promise!BindSays, Promise!Said, Promise!None, FW!Statuses

\* Nothing is recorded of rejections or of the outcome.
Unrecorded ==
    /\ Stored(store')
    /\ Rejections(Data(store')) = Rejections(Data(store)) /\ Outcome(Data(store')) = Outcome(Data(store))

LEMMA RecordedIs ==
    ASSUME NEW r, Stored(r), NEW new \in PodResults
    PROVE  Stored(new) /\ Data(new) = new
BY DataIs DEF Stored

LEMMA QuietActions ==
    ASSUME Shape, Stored(store), NEW p \in Plugins,
           \/ PostFilter(p) \/ PreScore(p) \/ NormalizeScore(p) \/ \E n \in Nodes : Score(p, n)
    PROVE  Unrecorded
<1>1. CASE PostFilter(p)
    <2>1. PICK w : store' = IF w.ran THEN AddPostFilterResult(store, w.said.v, p, Nodes) ELSE store
        BY <1>1 DEF PostFilter, Recorded
    <2> DEFINE new == AddPostFilterResult(store, w.said.v, p, Nodes)
    <2>2. new \in PodResults /\ Outcome(new) = Outcome(Data(store)) /\ Rejections(new) = Rejections(Data(store))
        BY PostFilterAdded
    <2> HIDE DEF new
    <2>3. store' = store \/ store' = new
        BY <2>1 DEF new
    <2> QED
        BY <2>2, <2>3, RecordedIs DEF Unrecorded
<1>2. CASE PreScore(p)
    <2>1. PICK w \in Ways(p, "PreScore", Promise!PreScoreSays, Unran("Success", "none")) :
            store' = IF w.ran THEN AddPreScoreResult(store, p, Message(w.said.s)) ELSE store
        BY <1>2 DEF PreScore, Recorded
    <2> DEFINE new == AddPreScoreResult(store, p, w.said.s)
    <2>2. w.ran => w.said.s \in FW!Statuses
        BY WayRan, StatusesSaid
    <2>3. w.ran => new \in PodResults /\ Outcome(new) = Outcome(Data(store)) /\ Rejections(new) = Rejections(Data(store))
        BY <2>2, StatusAdded
    <2> HIDE DEF new
    <2>4. store' = store \/ (w.ran /\ store' = new)
        BY <2>1 DEF new, Message
    <2> QED
        BY <2>3, <2>4, RecordedIs DEF Unrecorded
<1>3. CASE NormalizeScore(p)
    <2>1. PICK w \in Ways(p, "Normalize", Promise!NormalizeSays, Unran("Success", "none")) :
            store' = store \/ (w.ran /\ store' = AddNormalizedScoreResult(store, alive, p, Promise!Normalized(p)))
        BY <1>3 DEF NormalizeScore, Recorded
    <2> DEFINE v == Promise!Normalized(p)
    <2>2. alive \in SUBSET Nodes /\ \A n \in alive : v[n] \in 0 .. MaxScore
        BY ShapeIs, NormalizedIs
    <2> DEFINE new == AddNormalizedScoreResult(store, alive, p, v)
    <2> HIDE DEF v
    <2>3. new \in PodResults /\ Outcome(new) = Outcome(Data(store)) /\ Rejections(new) = Rejections(Data(store))
        BY <2>2, FinalScoreAdded
    <2> HIDE DEF new
    <2>4. store' = store \/ store' = new
        BY <2>1 DEF new, v
    <2> QED
        BY <2>3, <2>4, RecordedIs DEF Unrecorded
<1>4. ASSUME NEW n \in Nodes, Score(p, n)
      PROVE  Unrecorded
    <2>1. PICK w \in Ways(p, "Score", Promise!ScoreSays(p, n), Unran("Success", 0)) :
            store' = store \/ (w.ran /\ store' = AddScoreResult(store, n, p, w.said.v))
        BY <1>4 DEF Score, Recorded
    <2> DEFINE new == AddScoreResult(store, n, p, w.said.v)
    <2>2. w.ran => w.said.v \in 0 .. MaxScore
        BY ScoreGiven
    <2>3. w.ran => new \in PodResults /\ Outcome(new) = Outcome(Data(store)) /\ Rejections(new) = Rejections(Data(store))
        BY <2>2, ScoreAdded
    <2> HIDE DEF new
    <2>4. store' = store \/ (w.ran /\ store' = new)
        BY <2>1 DEF new
    <2> QED
        BY <2>3, <2>4, RecordedIs DEF Unrecorded
<1> QED
    BY <1>1, <1>2, <1>3, <1>4

\* What a PreFilter records: the status, and the nodes if it names some.
LEMMA PreFilterRecords ==
    ASSUME Stored(store), NEW p \in Plugins, PreFilter(p)
    PROVE  \E s \in {"Success", "Skip", "Unschedulable"}, v \in SUBSET Nodes, ran \in BOOLEAN :
              /\ Stored(store') /\ Outcome(Data(store')) = Outcome(Data(store))
              /\ Data(store').filter = Data(store).filter
              /\ s # "Success" => v = Nodes
              /\ ran => /\ Data(store').preFilterStatus = Put(Data(store).preFilterStatus, p, s)
                        /\ Data(store').preFilterResult = IF v # Nodes THEN Put(Data(store).preFilterResult, p, v)
                                                          ELSE Data(store).preFilterResult
              /\ ~ran => store' = store
              /\ <<p, "PreFilter">> \notin Hooked =>
                    /\ FW!PreFilterReturned(p, s, v)
                    /\ ~ran => s = "Success" /\ v = Nodes
<1>1. PICK w \in Ways(p, "PreFilter", Promise!PreFilterSays, Unran("Success", Nodes)) :
        /\ FW!PreFilterReturned(p, w.s, w.v)
        /\ Recorded(w, AddPreFilterResult(store, p, Message(w.said.s), w.said.v # Nodes, w.said.v))
    BY DEF PreFilter
<1> DEFINE says == Promise!PreFilterSays
<1>2. /\ w.ran => w.said \in says
      /\ <<p, "PreFilter">> \notin Hooked =>
            IF w.ran THEN w.s = w.said.s /\ w.v = w.said.v ELSE w.s = "Success" /\ w.v = Nodes
    BY WayRan
<1> HIDE DEF says
<1>3. CASE w.ran
    <2> DEFINE s == w.said.s
               v == w.said.v
    <2>1. /\ s \in FW!Statuses /\ s \in {"Success", "Skip", "Unschedulable"} /\ v \in SUBSET Nodes
          /\ s # "Success" => v = Nodes
        BY <1>2, <1>3, StatusesSaid DEF says
    <2>2. store' = AddPreFilterResult(store, p, s, v # Nodes, v)
        BY <1>1, <1>3 DEF Recorded, Message
    <2>3. <<p, "PreFilter">> \notin Hooked => FW!PreFilterReturned(p, s, v)
        BY <1>1, <1>2, <1>3
    <2> HIDE DEF s, v
    <2> DEFINE named == v # Nodes
    <2>4. named \in BOOLEAN
        OBVIOUS
    <2>5. /\ store' \in PodResults /\ Outcome(store') = Outcome(Data(store))
          /\ store'.preFilterStatus = Put(Data(store).preFilterStatus, p, s)
          /\ store'.preFilterResult = IF v # Nodes THEN Put(Data(store).preFilterResult, p, v)
                                      ELSE Data(store).preFilterResult
          /\ store'.filter = Data(store).filter
        <3> DEFINE new == AddPreFilterResult(store, p, s, named, v)
        <3>1. /\ new \in PodResults /\ Outcome(new) = Outcome(Data(store))
              /\ new.preFilterStatus = Put(Data(store).preFilterStatus, p, s)
              /\ new.preFilterResult = IF named THEN Put(Data(store).preFilterResult, p, v)
                                       ELSE Data(store).preFilterResult
              /\ new.filter = Data(store).filter
            <4> HIDE DEF named
            <4> QED
                BY <2>1, <2>4, PreFilterAdded
        <3>2. store' = new
            BY <2>2
        <3> HIDE DEF new
        <3> QED
            BY <3>1, <3>2
    <2>6. Stored(store') /\ Data(store') = store'
        BY <2>5, RecordedIs
    <2> QED
        BY <1>3, <2>1, <2>3, <2>5, <2>6
<1>4. CASE ~w.ran
    <2>1. store' = store
        BY <1>1, <1>4 DEF Recorded
    <2>2. Nodes \in SUBSET Nodes
        OBVIOUS
    <2>3. <<p, "PreFilter">> \notin Hooked => FW!PreFilterReturned(p, "Success", Nodes)
        BY <1>1, <1>2, <1>4
    <2> QED
        BY <2>1, <2>2, <2>3
<1> QED
    BY <1>3, <1>4

LEMMA FilterRecords ==
    ASSUME Stored(store), NEW p \in Plugins, NEW n \in Nodes, NEW w \in FilterWays(p),
           Recorded(w, AddFilterResult(store, n, p, Message(w.said.s)))
    PROVE  /\ Stored(store') /\ Outcome(Data(store')) = Outcome(Data(store))
           /\ Data(store').preFilterStatus = Data(store).preFilterStatus
           /\ Data(store').preFilterResult = Data(store).preFilterResult
           /\ w.ran => Data(store').filter = Put2(Data(store).filter, n, p, w.said.s)
           /\ ~w.ran => store' = store
           /\ <<p, "Filter">> \notin Hooked =>
                /\ w.s \in {"Success", "Unschedulable"}
                /\ IF w.ran THEN w.s = w.said.s ELSE w.s = "Success"
<1> DEFINE says == Promise!FilterSays
<1>1. /\ w.ran => w.said \in says
      /\ <<p, "Filter">> \notin Hooked =>
            IF w.ran THEN w.s = w.said.s /\ w.v = w.said.v ELSE w.s = "Success" /\ w.v = "none"
    BY WayRan DEF FilterWays
<1> HIDE DEF says
<1>2. w.ran => w.said.s \in FW!Statuses /\ w.said.s \in {"Success", "Unschedulable"}
    BY <1>1, StatusesSaid DEF says
<1>3. CASE w.ran
    <2>1. store' = AddFilterResult(store, n, p, w.said.s)
        BY <1>3 DEF Recorded, Message
    <2>2. /\ store' \in PodResults /\ Outcome(store') = Outcome(Data(store))
          /\ store'.preFilterStatus = Data(store).preFilterStatus
          /\ store'.preFilterResult = Data(store).preFilterResult
          /\ store'.filter = Put2(Data(store).filter, n, p, w.said.s)
        BY <1>2, <1>3, <2>1, FilterAdded
    <2>3. Stored(store') /\ Data(store') = store'
        BY <2>2, RecordedIs
    <2> QED
        BY <1>1, <1>2, <1>3, <2>2, <2>3
<1>4. CASE ~w.ran
    <2>1. store' = store
        BY <1>4 DEF Recorded
    <2> QED
        BY <1>1, <1>4, <2>1
<1> QED
    BY <1>3, <1>4

\* What a Reserve records: the node in any case, and the status.
LEMMA ReserveRecords ==
    ASSUME Stored(store), node \in Nodes \cup {NoNode}, NEW p \in Plugins, Reserve(p)
    PROVE  \E s \in FW!Statuses, ran \in BOOLEAN :
              LET d == Data(store)
              IN  /\ Stored(store') /\ Rejections(Data(store')) = Rejections(d)
                  /\ Outcome(Data(store')) = <<node, IF ran THEN Put(d.reserve, p, s) ELSE d.reserve,
                                               d.permit, d.prebind, d.bind>>
                  /\ <<p, "Reserve">> \notin Hooked => FW!ReserveReturned(p, s) /\ (~ran => s = "Success")
<1>1. PICK w \in Ways(p, "Reserve", Promise!ReserveSays, Unran("Success", "none")) :
        /\ FW!ReserveReturned(p, w.s)
        /\ store' = IF w.ran THEN AddReserveResult(AddSelectedNode(store, node), p, Message(w.said.s))
                    ELSE AddSelectedNode(store, node)
    BY DEF Reserve
<1> DEFINE says == Promise!ReserveSays
           d == Data(store)
           selected == AddSelectedNode(store, node)
<1>2. /\ w.ran => w.said \in says
      /\ <<p, "Reserve">> \notin Hooked =>
            IF w.ran THEN w.s = w.said.s /\ w.v = w.said.v ELSE w.s = "Success" /\ w.v = "none"
    BY WayRan
<1> HIDE DEF says
<1>3. d \in PodResults
    BY DataIs
<1>4. selected \in PodResults /\ selected = [d EXCEPT !.selectedNode = node]
    BY SelectedNodeAdded
<1> HIDE DEF d, selected
<1>5. /\ Rejections(selected) = Rejections(d)
      /\ Outcome(selected) = <<node, d.reserve, d.permit, d.prebind, d.bind>>
    BY <1>3, <1>4, OthersKept
<1>6. Stored(selected) /\ Data(selected) = selected
    BY <1>4, RecordedIs
<1>7. CASE w.ran
    <2> DEFINE s == w.said.s
    <2>1. s \in FW!Statuses
        BY <1>2, <1>7, StatusesSaid DEF says
    <2>2. store' = AddReserveResult(selected, p, s)
        BY <1>1, <1>7 DEF Message, selected
    <2>3. <<p, "Reserve">> \notin Hooked => FW!ReserveReturned(p, s)
        BY <1>1, <1>2, <1>7
    <2> HIDE DEF s
    <2>4. store' \in PodResults /\ store' = [selected EXCEPT !.reserve = Put(selected.reserve, p, s)]
        BY <1>6, <2>1, <2>2, StatusAdded
    <2>5. /\ Outcome(store') = <<selected.selectedNode, Put(selected.reserve, p, s), selected.permit,
                                 selected.prebind, selected.bind>>
          /\ Rejections(store') = Rejections(selected)
        <3> DEFINE m == Put(selected.reserve, p, s)
                   new == [selected EXCEPT !.reserve = m]
        <3>1. /\ Outcome(new) = <<selected.selectedNode, m, selected.permit, selected.prebind, selected.bind>>
              /\ Rejections(new) = Rejections(selected)
            <4> HIDE DEF m
            <4>1. selected \in PodResults
                BY <1>4
            <4> QED
                BY <4>1, OthersKept
        <3>2. store' = new
            BY <2>4
        <3> HIDE DEF new
        <3> QED
            BY <3>1, <3>2
    <2>6. /\ selected.selectedNode = node /\ selected.reserve = d.reserve /\ selected.permit = d.permit
          /\ selected.prebind = d.prebind /\ selected.bind = d.bind
        BY <1>5 DEF Outcome
    <2>7. Stored(store') /\ Data(store') = store'
        BY <2>4, RecordedIs
    <2>8. Outcome(Data(store')) = <<node, Put(d.reserve, p, s), d.permit, d.prebind, d.bind>>
        BY <2>5, <2>6, <2>7
    <2> QED
        BY <1>5, <2>1, <2>3, <2>5, <2>7, <2>8 DEF d
<1>8. CASE ~w.ran
    <2>1. store' = selected
        BY <1>1, <1>8 DEF selected
    <2>2. <<p, "Reserve">> \notin Hooked => FW!ReserveReturned(p, "Success")
        BY <1>1, <1>2, <1>8
    <2>3. "Success" \in FW!Statuses
        BY DEF FW!Statuses
    <2> QED
        BY <1>5, <1>6, <2>1, <2>2, <2>3 DEF d
<1> QED
    BY <1>7, <1>8

\* The same of a Permit, a PreBind and a Bind.
LEMMA PermitRecords ==
    ASSUME Stored(store), NEW p \in Plugins, Permit(p)
    PROVE  \E s \in FW!Statuses, ran \in BOOLEAN :
              LET d == Data(store)
              IN  /\ Stored(store') /\ Rejections(Data(store')) = Rejections(d)
                  /\ Outcome(Data(store')) = <<d.selectedNode, d.reserve, IF ran THEN Put(d.permit, p, s) ELSE d.permit,
                                               d.prebind, d.bind>>
                  /\ ~ran => store' = store
                  /\ <<p, "Permit">> \notin Hooked => FW!PermitReturned(p, s) /\ (~ran => s = "Success")
<1>1. PICK w \in Ways(p, "Permit", Promise!PermitSays, Unran("Success", "none")) :
        /\ FW!PermitReturned(p, w.s)
        /\ store' = IF w.ran THEN AddPermitResult(store, p, w.said.s) ELSE store
    BY DEF Permit, Recorded, Message
<1> DEFINE says == Promise!PermitSays
           d == Data(store)
<1>2. /\ w.ran => w.said \in says
      /\ <<p, "Permit">> \notin Hooked =>
            IF w.ran THEN w.s = w.said.s /\ w.v = w.said.v ELSE w.s = "Success" /\ w.v = "none"
    BY WayRan
<1> HIDE DEF says
<1>3. d \in PodResults
    BY DataIs
<1>4. CASE w.ran
    <2> DEFINE s == w.said.s
    <2>1. s \in FW!Statuses /\ (<<p, "Permit">> \notin Hooked => FW!PermitReturned(p, s))
        BY <1>1, <1>2, <1>4, StatusesSaid DEF says
    <2> HIDE DEF s
    <2>2. store' = AddPermitResult(store, p, s)
        BY <1>1, <1>4 DEF s
    <2>3. store' \in PodResults /\ store' = [d EXCEPT !.permit = Put(d.permit, p, s)]
        BY <2>1, <2>2, StatusAdded
    <2> HIDE DEF d
    <2>4. /\ Outcome(store') = <<d.selectedNode, d.reserve, Put(d.permit, p, s), d.prebind, d.bind>>
          /\ Rejections(store') = Rejections(d)
        BY <1>3, <2>3, OthersKept
    <2>5. Stored(store') /\ Data(store') = store'
        BY <2>3, RecordedIs
    <2> QED
        BY <2>1, <2>4, <2>5 DEF d
<1>5. CASE ~w.ran
    <2>1. store' = store /\ Outcome(d) = <<d.selectedNode, d.reserve, d.permit, d.prebind, d.bind>>
        BY <1>1, <1>5 DEF Outcome
    <2>2. "Success" \in FW!Statuses /\ (<<p, "Permit">> \notin Hooked => FW!PermitReturned(p, "Success"))
        BY <1>1, <1>2, <1>5 DEF FW!Statuses
    <2> QED
        BY <2>1, <2>2
<1> QED
    BY <1>4, <1>5

LEMMA PreBindRecords ==
    ASSUME Stored(store), NEW p \in Plugins, PreBind(p)
    PROVE  \E s \in FW!Statuses, ran \in BOOLEAN :
              LET d == Data(store)
              IN  /\ Stored(store') /\ Rejections(Data(store')) = Rejections(d)
                  /\ Outcome(Data(store')) = <<d.selectedNode, d.reserve, d.permit,
                                               IF ran THEN Put(d.prebind, p, s) ELSE d.prebind, d.bind>>
                  /\ ~ran => store' = store
                  /\ <<p, "PreBind">> \notin Hooked => FW!PreBindReturned(p, s) /\ (~ran => s = "Success")
<1>1. PICK w \in Ways(p, "PreBind", Promise!PreBindSays, Unran("Success", "none")) :
        /\ FW!PreBindReturned(p, w.s)
        /\ store' = IF w.ran THEN AddPreBindResult(store, p, w.said.s) ELSE store
    BY DEF PreBind, Recorded, Message
<1> DEFINE says == Promise!PreBindSays
           d == Data(store)
<1>2. /\ w.ran => w.said \in says
      /\ <<p, "PreBind">> \notin Hooked =>
            IF w.ran THEN w.s = w.said.s /\ w.v = w.said.v ELSE w.s = "Success" /\ w.v = "none"
    BY WayRan
<1> HIDE DEF says
<1>3. d \in PodResults
    BY DataIs
<1>4. CASE w.ran
    <2> DEFINE s == w.said.s
    <2>1. s \in FW!Statuses /\ (<<p, "PreBind">> \notin Hooked => FW!PreBindReturned(p, s))
        BY <1>1, <1>2, <1>4, StatusesSaid DEF says
    <2> HIDE DEF s
    <2>2. store' = AddPreBindResult(store, p, s)
        BY <1>1, <1>4 DEF s
    <2>3. store' \in PodResults /\ store' = [d EXCEPT !.prebind = Put(d.prebind, p, s)]
        BY <2>1, <2>2, StatusAdded
    <2> HIDE DEF d
    <2>4. /\ Outcome(store') = <<d.selectedNode, d.reserve, d.permit, Put(d.prebind, p, s), d.bind>>
          /\ Rejections(store') = Rejections(d)
        BY <1>3, <2>3, OthersKept
    <2>5. Stored(store') /\ Data(store') = store'
        BY <2>3, RecordedIs
    <2> QED
        BY <2>1, <2>4, <2>5 DEF d
<1>5. CASE ~w.ran
    <2>1. store' = store /\ Outcome(d) = <<d.selectedNode, d.reserve, d.permit, d.prebind, d.bind>>
        BY <1>1, <1>5 DEF Outcome
    <2>2. "Success" \in FW!Statuses /\ (<<p, "PreBind">> \notin Hooked => FW!PreBindReturned(p, "Success"))
        BY <1>1, <1>2, <1>5 DEF FW!Statuses
    <2> QED
        BY <2>1, <2>2
<1> QED
    BY <1>4, <1>5

LEMMA BindRecords ==
    ASSUME Stored(store), NEW p \in Plugins, Bind(p)
    PROVE  \E s \in FW!Statuses, ran \in BOOLEAN :
              LET d == Data(store)
              IN  /\ Stored(store') /\ Rejections(Data(store')) = Rejections(d)
                  /\ Outcome(Data(store')) = <<d.selectedNode, d.reserve, d.permit, d.prebind,
                                               IF ran THEN Put(d.bind, p, s) ELSE d.bind>>
                  /\ ~ran => store' = store
                  /\ <<p, "Bind">> \notin Hooked => FW!BindReturned(p, s) /\ (~ran => s = "Skip")
<1>1. PICK w \in Ways(p, "Bind", Promise!BindSays, Unran("Skip", "none")) :
        /\ FW!BindReturned(p, w.s)
        /\ store' = IF w.ran THEN AddBindResult(store, p, w.said.s) ELSE store
    BY DEF Bind, Recorded, Message
<1> DEFINE says == Promise!BindSays
           d == Data(store)
<1>2. /\ w.ran => w.said \in says
      /\ <<p, "Bind">> \notin Hooked =>
            IF w.ran THEN w.s = w.said.s /\ w.v = w.said.v ELSE w.s = "Skip" /\ w.v = "none"
    BY WayRan
<1> HIDE DEF says
<1>3. d \in PodResults
    BY DataIs
<1>4. CASE w.ran
    <2> DEFINE s == w.said.s
    <2>1. s \in FW!Statuses /\ (<<p, "Bind">> \notin Hooked => FW!BindReturned(p, s))
        BY <1>1, <1>2, <1>4, StatusesSaid DEF says
    <2> HIDE DEF s
    <2>2. store' = AddBindResult(store, p, s)
        BY <1>1, <1>4 DEF s
    <2>3. store' \in PodResults /\ store' = [d EXCEPT !.bind = Put(d.bind, p, s)]
        BY <2>1, <2>2, StatusAdded
    <2> HIDE DEF d
    <2>4. /\ Outcome(store') = <<d.selectedNode, d.reserve, d.permit, d.prebind, Put(d.bind, p, s)>>
          /\ Rejections(store') = Rejections(d)
        BY <1>3, <2>3, OthersKept
    <2>5. Stored(store') /\ Data(store') = store'
        BY <2>3, RecordedIs
    <2> QED
        BY <2>1, <2>4, <2>5 DEF d
<1>5. CASE ~w.ran
    <2>1. store' = store /\ Outcome(d) = <<d.selectedNode, d.reserve, d.permit, d.prebind, d.bind>>
        BY <1>1, <1>5 DEF Outcome
    <2>2. "Skip" \in FW!Statuses /\ (<<p, "Bind">> \notin Hooked => FW!BindReturned(p, "Skip"))
        BY <1>1, <1>2, <1>5 DEF FW!Statuses
    <2> QED
        BY <2>1, <2>2
<1> QED
    BY <1>4, <1>5

\* The extender result store.
ExtStored(r) == r \in ExtResults \cup {NoResults}

LEMMA ResultsIs ==
    ASSUME NEW r, ExtStored(r)
    PROVE  /\ Results(r) \in ExtResults /\ (r \in ExtResults => Results(r) = r)
           /\ Results(NoResults) = emptyResults
           /\ \A v \in Verbs : DOMAIN emptyResults[v] = {}
<1>1. emptyResults \in ExtResults
    <2>1. \A K, V : [u \in {} |-> u] \in MapOf(K, V)
        BY DEF MapOf
    <2> QED
        BY <2>1 DEF emptyResults, ExtResults, Verbs
<1>2. \A v \in Verbs : DOMAIN emptyResults[v] = {}
    BY DEF emptyResults
<1> QED
    BY <1>1, <1>2, StoreAssumption DEF ExtStored, Results

\* What an extender may be recorded to have answered.
Answers(v) ==
    CASE v = "filter" -> SUBSET Nodes
      [] v = "prioritize" -> Ranked
      [] v = "preempt" -> {"victims"}
      [] v = "bind" -> {"bound"}

LEMMA ExtResultsAre ==
    ASSUME NEW r
    PROVE  r \in ExtResults <=> /\ r = [v \in Verbs |-> r[v]]
                                /\ \A v \in Verbs : r[v] \in MapOf(Urls, Answers(v))
<1>1. /\ MapOf(Urls, Answers("filter")) = MapOf(Urls, SUBSET Nodes)
      /\ MapOf(Urls, Answers("prioritize")) = MapOf(Urls, Ranked)
      /\ MapOf(Urls, Answers("preempt")) = MapOf(Urls, {"victims"})
      /\ MapOf(Urls, Answers("bind")) = MapOf(Urls, {"bound"})
    BY DEF Answers
<1> DEFINE A == MapOf(Urls, Answers("filter"))
           B == MapOf(Urls, Answers("prioritize"))
           C == MapOf(Urls, Answers("preempt"))
           D == MapOf(Urls, Answers("bind"))
<1>2. ExtResults = [filter : A, prioritize : B, preempt : C, bind : D]
    BY <1>1 DEF ExtResults
<1>3. (\A v \in Verbs : r[v] \in MapOf(Urls, Answers(v)))
        <=> r["filter"] \in A /\ r["prioritize"] \in B /\ r["preempt"] \in C /\ r["bind"] \in D
    BY DEF Verbs
<1> HIDE DEF A, B, C, D
<1>4. r \in [filter : A, prioritize : B, preempt : C, bind : D]
        <=> /\ r = [v \in Verbs |-> r[v]]
            /\ r["filter"] \in A /\ r["prioritize"] \in B /\ r["preempt"] \in C /\ r["bind"] \in D
    BY DEF Verbs
<1> QED
    BY <1>2, <1>3, <1>4

LEMMA ResultAdded ==
    ASSUME NEW r, ExtStored(r), NEW v \in Verbs, NEW i \in Ids, NEW res \in Answers(v)
    PROVE  LET new == AddResult(r, v, i, res)
               url == Extenders[i].url
           IN  /\ ExtStored(new) /\ Results(new) = new
               /\ \A u \in Verbs \ {v} : new[u] = Results(r)[u]
               /\ DOMAIN new[v] = DOMAIN Results(r)[v] \cup {url}
               /\ \A x \in DOMAIN new[v] : new[v][x] = IF x = url THEN res ELSE Results(r)[v][x]
<1> DEFINE old == Results(r)
           url == Extenders[i].url
           added == [u \in DOMAIN old[v] \cup {url} |-> IF u = url THEN res ELSE old[v][u]]
           new == [old EXCEPT ![v] = added]
<1>1. AddResult(r, v, i, res) = new
    BY DEF AddResult, createExtenders
<1>2. old \in ExtResults
    BY ResultsIs
<1> HIDE DEF old
<1>3. /\ old = [u \in Verbs |-> old[u]]
      /\ \A u \in Verbs : old[u] \in MapOf(Urls, Answers(u))
    BY <1>2, ExtResultsAre
<1>4. url \in Urls
    BY DEF Urls
<1> HIDE DEF url
<1>5. added \in MapOf(Urls, Answers(v))
    <2>1. PICK D \in SUBSET Urls : old[v] \in [D -> Answers(v)]
        BY <1>3, MapIs
    <2>2. added \in [D \cup {url} -> Answers(v)]
        BY <2>1
    <2> HIDE DEF added
    <2>3. D \cup {url} \in SUBSET Urls
        BY <1>4, <2>1
    <2> QED
        BY <2>2, <2>3, MapIs
<1>6. DOMAIN added = DOMAIN old[v] \cup {url}
      /\ \A x \in DOMAIN added : added[x] = IF x = url THEN res ELSE old[v][x]
    OBVIOUS
<1> HIDE DEF added
<1>7. new = [u \in Verbs |-> new[u]] /\ new[v] = added /\ \A u \in Verbs \ {v} : new[u] = old[u]
    BY <1>3
<1> HIDE DEF new
<1>8. \A u \in Verbs : new[u] \in MapOf(Urls, Answers(u))
    BY <1>3, <1>5, <1>7
<1>9. new \in ExtResults
    BY <1>7, <1>8, ExtResultsAre
<1>10. ExtStored(new) /\ Results(new) = new
    BY <1>9, ResultsIs DEF ExtStored
<1> QED
    BY <1>1, <1>6, <1>7, <1>10 DEF old, url

\* The answers of the extenders are recorded, and only they.
LEMMA ExtenderRecords ==
    ASSUME ExtStored(extStore), NEW i \in Ids
    PROVE  /\ ExtFilter(i) => \E a \in Promise!ExtFilterSays :
                /\ FW!ExtFilterReturned(i, a.s, a.v) /\ a.v \in SUBSET Nodes
                /\ extStore' = IF a.s THEN AddResult(extStore, "filter", i, a.v) ELSE extStore
                /\ a.v \in Answers("filter") /\ a.s \in BOOLEAN
           /\ ExtPrioritize(i) => \/ extStore' = extStore
                                  \/ \E res \in Answers("prioritize") :
                                        extStore' = AddResult(extStore, "prioritize", i, res)
           /\ ExtBind(i) => \E ok \in BOOLEAN :
                /\ FW!ExtBindReturned(i, ok)
                /\ extStore' = IF ok THEN AddResult(extStore, "bind", i, "bound") ELSE extStore
           /\ ExtPreempt(i) => extStore' = AddResult(extStore, "preempt", i, "victims")
           /\ "bound" \in Answers("bind") /\ "victims" \in Answers("preempt")
<1>1. ASSUME ExtFilter(i)
      PROVE  \E a \in Promise!ExtFilterSays :
                /\ FW!ExtFilterReturned(i, a.s, a.v) /\ a.v \in SUBSET Nodes
                /\ extStore' = IF a.s THEN AddResult(extStore, "filter", i, a.v) ELSE extStore
                /\ a.v \in Answers("filter") /\ a.s \in BOOLEAN
    <2>1. PICK a \in Promise!ExtFilterSays : FW!ExtFilterReturned(i, a.s, a.v) /\ Answered("filter", i, a, a.v)
        BY <1>1 DEF ExtFilter
    <2>2. a.v \in SUBSET Nodes /\ a.s \in BOOLEAN
        BY DEF Promise!ExtFilterSays, Promise!Said
    <2>3. a.v \in Answers("filter")
        BY <2>2 DEF Answers
    <2> QED
        BY <2>1, <2>2, <2>3 DEF Answered
<1>2. ASSUME ExtPrioritize(i)
      PROVE  \/ extStore' = extStore
             \/ \E res \in Answers("prioritize") : extStore' = AddResult(extStore, "prioritize", i, res)
    <2>1. PICK a \in Promise!ExtPrioritizeSays :
            extStore' = IF a.s THEN AddResult(extStore, "prioritize", i, Ranks(i, a.v)) ELSE extStore
        BY <1>2 DEF ExtPrioritize, Answered
    <2> DEFINE res == Ranks(i, a.v)
    <2>2. CASE a.s = TRUE
        <3>1. a.v \in Priorities
            BY <2>2 DEF Promise!ExtPrioritizeSays, Promise!Said
        <3>2. res \in Answers("prioritize")
            BY <3>1 DEF Answers, Ranked
        <3> QED
            BY <2>1, <2>2, <3>2
    <2>3. CASE a.s = FALSE
        <3>1. extStore' = extStore
            BY <2>1, <2>3
        <3> QED
            BY <3>1
    <2> QED
        BY <2>2, <2>3 DEF Promise!ExtPrioritizeSays, Promise!Said
<1>3. ASSUME ExtBind(i)
      PROVE  \E ok \in BOOLEAN :
                /\ FW!ExtBindReturned(i, ok)
                /\ extStore' = IF ok THEN AddResult(extStore, "bind", i, "bound") ELSE extStore
    <2>1. PICK a \in Promise!ExtBindSays : FW!ExtBindReturned(i, a.s) /\ Answered("bind", i, a, "bound")
        BY <1>3 DEF ExtBind
    <2>2. a.s \in BOOLEAN
        BY DEF Promise!ExtBindSays, Promise!Said
    <2> QED
        BY <2>1, <2>2 DEF Answered
<1>4. ExtPreempt(i) => extStore' = AddResult(extStore, "preempt", i, "victims")
    BY DEF ExtPreempt
<1>5. "bound" \in Answers("bind") /\ "victims" \in Answers("preempt")
    BY DEF Answers
<1> QED
    BY <1>1, <1>2, <1>3, <1>4, <1>5

RejectionsSame == /\ Rejections(Data(store')) = Rejections(Data(store))
                  /\ Results(extStore')["filter"] = Results(extStore)["filter"]
OutcomeSame == /\ Outcome(Data(store')) = Outcome(Data(store))
               /\ Results(extStore')["bind"] = Results(extStore)["bind"]

\* The stores keep their types, and only some actions change what is recorded
\* of rejections and of the outcome.
LEMMA PluginsRecord ==
    ASSUME Shape, Stored(store), ExtStored(extStore), NEW p \in Plugins
    PROVE  /\ PostFilter(p) \/ PreScore(p) \/ NormalizeScore(p) \/ (\E n \in Nodes : Score(p, n))
                \/ PostBind(p) \/ Unreserve(p)
              => Stored(store') /\ extStore' = extStore /\ RejectionsSame /\ OutcomeSame
           /\ PreFilter(p) \/ (\E n \in Nodes : Filter(p, n) \/ DryRunFilter(p, n))
              => Stored(store') /\ extStore' = extStore /\ OutcomeSame
           /\ Reserve(p) \/ Permit(p) \/ PreBind(p) \/ Bind(p)
              => Stored(store') /\ extStore' = extStore /\ RejectionsSame
<1>1. ASSUME PostFilter(p) \/ PreScore(p) \/ NormalizeScore(p) \/ (\E n \in Nodes : Score(p, n))
      PROVE  Stored(store') /\ extStore' = extStore /\ RejectionsSame /\ OutcomeSame
    <2>1. Unrecorded
        BY <1>1, QuietActions
    <2>2. extStore' = extStore
        BY <1>1 DEF PostFilter, PreScore, NormalizeScore, Score, Rest
    <2> QED
        BY <2>1, <2>2 DEF Unrecorded, RejectionsSame, OutcomeSame
<1>2. ASSUME PostBind(p) \/ Unreserve(p)
      PROVE  Stored(store') /\ extStore' = extStore /\ RejectionsSame /\ OutcomeSame
    BY <1>2 DEF PostBind, Unreserve, Rest, RejectionsSame, OutcomeSame
<1>3. ASSUME PreFilter(p)
      PROVE  Stored(store') /\ extStore' = extStore /\ OutcomeSame
    <2>1. extStore' = extStore
        BY <1>3 DEF PreFilter, Rest
    <2> QED
        BY <1>3, <2>1, PreFilterRecords DEF OutcomeSame
<1>4. ASSUME NEW n \in Nodes, Filter(p, n) \/ DryRunFilter(p, n)
      PROVE  Stored(store') /\ extStore' = extStore /\ OutcomeSame
    <2>1. extStore' = extStore
        BY <1>4 DEF Filter, DryRunFilter, Rest
    <2>2. PICK w \in FilterWays(p) : Recorded(w, AddFilterResult(store, n, p, Message(w.said.s)))
        BY <1>4 DEF Filter, DryRunFilter
    <2> QED
        BY <2>1, <2>2, FilterRecords DEF OutcomeSame
<1>5. ASSUME Reserve(p) \/ Permit(p) \/ PreBind(p) \/ Bind(p)
      PROVE  Stored(store') /\ extStore' = extStore /\ RejectionsSame
    <2>1. extStore' = extStore
        BY <1>5 DEF Reserve, Permit, PreBind, Bind, Rest
    <2>2. Stored(store') /\ Rejections(Data(store')) = Rejections(Data(store))
        BY <1>5, ShapeIs, ReserveRecords, PermitRecords, PreBindRecords, BindRecords
    <2> QED
        BY <2>1, <2>2 DEF RejectionsSame
<1> QED
    BY <1>1, <1>2, <1>3, <1>4, <1>5

LEMMA ExtendersRecord ==
    ASSUME ExtStored(extStore), NEW i \in Ids
    PROVE  /\ ExtFilter(i) => ExtStored(extStore') /\ store' = store /\ OutcomeSame
           /\ ExtPrioritize(i) \/ ExtPreempt(i)
              => ExtStored(extStore') /\ store' = store /\ RejectionsSame /\ OutcomeSame
           /\ ExtBind(i) => ExtStored(extStore') /\ store' = store /\ RejectionsSame
<1>1. ASSUME NEW v \in Verbs, NEW res \in Answers(v), extStore' = AddResult(extStore, v, i, res)
      PROVE  ExtStored(extStore') /\ \A u \in Verbs \ {v} : Results(extStore')[u] = Results(extStore)[u]
    BY <1>1, ResultAdded
<1>2. {"filter", "prioritize", "preempt", "bind"} = Verbs
    BY DEF Verbs
<1>3. ASSUME ExtFilter(i)
      PROVE  ExtStored(extStore') /\ store' = store /\ OutcomeSame
    <2>1. store' = store
        BY <1>3 DEF ExtFilter, Answered
    <2>2. PICK a : /\ extStore' = IF a.s THEN AddResult(extStore, "filter", i, a.v) ELSE extStore
                   /\ a.v \in Answers("filter")
        BY <1>3, ExtenderRecords
    <2>3. ExtStored(extStore') /\ Results(extStore')["bind"] = Results(extStore)["bind"]
        BY <1>1, <1>2, <2>2
    <2> QED
        BY <2>1, <2>3 DEF OutcomeSame
<1>4. ASSUME ExtPrioritize(i) \/ ExtPreempt(i)
      PROVE  ExtStored(extStore') /\ store' = store /\ RejectionsSame /\ OutcomeSame
    <2>1. store' = store
        BY <1>4 DEF ExtPrioritize, ExtPreempt, Answered
    <2>2. \/ extStore' = extStore
          \/ \E v \in {"prioritize", "preempt"} : \E res \in Answers(v) : extStore' = AddResult(extStore, v, i, res)
        BY <1>4, ExtenderRecords
    <2>3. /\ ExtStored(extStore') /\ Results(extStore')["bind"] = Results(extStore)["bind"]
          /\ Results(extStore')["filter"] = Results(extStore)["filter"]
        BY <1>1, <1>2, <2>2
    <2> QED
        BY <2>1, <2>3 DEF RejectionsSame, OutcomeSame
<1>5. ASSUME ExtBind(i)
      PROVE  ExtStored(extStore') /\ store' = store /\ RejectionsSame
    <2>1. store' = store
        BY <1>5 DEF ExtBind, Answered
    <2>2. extStore' = extStore \/ extStore' = AddResult(extStore, "bind", i, "bound")
        BY <1>5, ExtenderRecords
    <2>3. ExtStored(extStore') /\ Results(extStore')["filter"] = Results(extStore)["filter"]
        BY <1>1, <1>2, <2>2, ExtenderRecords
    <2> QED
        BY <2>1, <2>3 DEF RejectionsSame
<1> QED
    BY <1>3, <1>4, <1>5

LEMMA StoresStep ==
    ASSUME Shape, Stored(store), ExtStored(extStore), Next
    PROVE  Stored(store') /\ ExtStored(extStore')
<1>1. Begin \/ Scheduler => UNCHANGED <<store, extStore>>
    BY DEF Begin, Scheduler
<1>2. Reflect => store' \in {store, NoData} /\ extStore' \in {extStore, NoResults}
    BY DEF Reflect
<1>3. ASSUME NEW p \in Plugins,
             \/ PreFilter(p) \/ PostFilter(p) \/ PreScore(p) \/ NormalizeScore(p)
             \/ Reserve(p) \/ Permit(p) \/ PreBind(p) \/ Bind(p) \/ PostBind(p) \/ Unreserve(p)
             \/ \E n \in Nodes : Filter(p, n) \/ Score(p, n) \/ DryRunFilter(p, n)
      PROVE  Stored(store') /\ ExtStored(extStore')
    BY <1>3, PluginsRecord
<1>4. ASSUME NEW i \in Ids, ExtFilter(i) \/ ExtPrioritize(i) \/ ExtBind(i) \/ ExtPreempt(i)
      PROVE  Stored(store') /\ ExtStored(extStore')
    BY <1>4, ExtendersRecord
<1>5. Stored(NoData) /\ ExtStored(NoResults)
    BY DEF Stored, ExtStored
<1> QED
    BY <1>1, <1>2, <1>3, <1>4, <1>5 DEF Next

\* The history, and the deletions.
LEMMA HistoryStep ==
    ASSUME Next, reflects \in 0 .. MaxReflects, whole \in BOOLEAN, dryRun \in BOOLEAN
    PROVE  reflects' \in 0 .. MaxReflects /\ whole' \in BOOLEAN /\ dryRun' \in BOOLEAN
<1>1. MaxReflects \in Nat
    BY CycleAssumption
<1>2. CASE Begin \/ Scheduler \/ Reflect
    <2>1. Begin => reflects' = reflects /\ dryRun' = FALSE
        BY DEF Begin
    <2>2. Begin => whole' \in BOOLEAN
        <3>1. Begin => whole' = (store = NoData /\ extStore = NoResults)
            BY DEF Begin
        <3>2. (store = NoData /\ extStore = NoResults) \in BOOLEAN
            OBVIOUS
        <3> QED
            BY <3>1, <3>2, Zenon
    <2>3. Scheduler => UNCHANGED <<reflects, whole, dryRun>>
        BY DEF Scheduler
    <2>4. Reflect => reflects' \in 0 .. MaxReflects /\ whole' = FALSE /\ dryRun' = dryRun
        BY <1>1 DEF Reflect
    <2> QED
        BY <1>2, <2>1, <2>2, <2>3, <2>4
<1>3. ASSUME NEW p \in Plugins,
             \/ PreFilter(p) \/ PostFilter(p) \/ PreScore(p) \/ NormalizeScore(p)
             \/ Reserve(p) \/ Permit(p) \/ PreBind(p) \/ Bind(p) \/ PostBind(p) \/ Unreserve(p)
      PROVE  UNCHANGED <<reflects, whole, dryRun>>
    BY <1>3 DEF PreFilter, PostFilter, PreScore, NormalizeScore, Reserve, Permit, PreBind, Bind, PostBind,
                Unreserve, Rest
<1>4. ASSUME NEW p \in Plugins, NEW n \in Nodes, Filter(p, n) \/ Score(p, n) \/ DryRunFilter(p, n)
      PROVE  UNCHANGED <<reflects, whole>> /\ dryRun' \in {dryRun, TRUE}
    BY <1>4 DEF Filter, Score, DryRunFilter, Rest
<1>5. ASSUME NEW i \in Ids, ExtFilter(i) \/ ExtPrioritize(i) \/ ExtBind(i) \/ ExtPreempt(i)
      PROVE  UNCHANGED <<reflects, whole, dryRun>>
    BY <1>5 DEF ExtFilter, ExtPrioritize, ExtBind, ExtPreempt, Answered
<1> QED
    BY <1>2, <1>3, <1>4, <1>5 DEF Next

-----------------------------------------------------------------------------
(***************************************************************************)
(* The results explain what was rejected.                                  *)
(***************************************************************************)

LEMMA PutHas ==
    \A m, k, v : /\ DOMAIN Put(m, k, v) = DOMAIN m \cup {k}
                 /\ Put(m, k, v)[k] = v
                 /\ \A x \in DOMAIN m : x # k => Put(m, k, v)[x] = m[x]
BY DEF Put

Passed(n) == PassedPreFilter(n) /\ PassedFilter(n) /\ PassedExtenders(n)

LEMMA ExplainedIs ==
    RejectionsExplained <=>
        (whole /\ ~dryRun /\ Unhooked("PreFilter") /\ Unhooked("Filter") /\ OneUrlEach
            => alive = {n \in Nodes : Passed(n)})
BY DEF RejectionsExplained, Passed

LEMMA RejectionsKept ==
    ASSUME RejectionsExplained, RejectionsSame, UNCHANGED <<alive, whole, dryRun>>
    PROVE  RejectionsExplained'
<1>1. /\ Data(store').preFilterStatus = Data(store).preFilterStatus
      /\ Data(store').preFilterResult = Data(store).preFilterResult
      /\ Data(store').filter = Data(store).filter
      /\ Results(extStore')["filter"] = Results(extStore)["filter"]
    BY DEF RejectionsSame, Rejections
<1>2. \A n : Passed(n)' <=> Passed(n)
    BY <1>1 DEF Passed, PassedPreFilter, PassedFilter, PassedExtenders, Recording
<1> QED
    BY <1>2 DEF RejectionsExplained, Passed, Unhooked, OneUrlEach

LEMMA NotYetKept ==
    ASSUME NotYetFiltered, RejectionsSame, whole' = whole,
           UNCHANGED <<point, todo>> \/ point' \notin {"PreFilter", "Filter", "ExtFilter"}
    PROVE  NotYetFiltered'
<1>1. /\ Data(store').preFilterResult = Data(store).preFilterResult
      /\ Results(extStore')["filter"] = Results(extStore)["filter"]
    BY DEF RejectionsSame, Rejections
<1> QED
    BY <1>1 DEF NotYetFiltered, OneUrlEach

LEMMA BeginExplains ==
    ASSUME Begin
    PROVE  RejectionsExplained' /\ NotYetFiltered'
<1>1. /\ whole' = (store = NoData /\ extStore = NoResults) /\ store' = store /\ extStore' = extStore
      /\ alive' = Nodes
    BY DEF Begin, FW!Begin
<1>2. ASSUME whole'
      PROVE  /\ DOMAIN Data(store').preFilterStatus = {} /\ DOMAIN Data(store').preFilterResult = {}
             /\ Data(store').filter = EmptyMap
             /\ DOMAIN Results(extStore')["filter"] = {}
    <2>1. Data(store') = newData
        BY <1>1, <1>2 DEF Data
    <2>2. Results(extStore') = emptyResults
        BY <1>1, <1>2 DEF Results
    <2>3. DOMAIN emptyResults["filter"] = {}
        BY DEF emptyResults, Verbs
    <2>4. DOMAIN EmptyMap = {}
        BY DEF EmptyMap
    <2> QED
        BY <2>1, <2>2, <2>3, <2>4, NewDataIs
<1>3. ASSUME whole', NEW n \in Nodes
      PROVE  Passed(n)'
    <2>1. At(EmptyMap, n) = EmptyMap /\ DOMAIN EmptyMap = {}
        BY DEF At, EmptyMap
    <2> QED
        BY <1>2, <1>3, <2>1 DEF Passed, PassedPreFilter, PassedFilter, PassedExtenders, Recording
<1>4. RejectionsExplained'
    BY <1>1, <1>3 DEF RejectionsExplained, Passed
<1>5. NotYetFiltered'
    BY <1>2 DEF NotYetFiltered
<1> QED
    BY <1>4, <1>5

LEMMA PreFilterExplains ==
    ASSUME Shape, Stored(store), RejectionsExplained, NotYetFiltered, NEW p \in Plugins, PreFilter(p)
    PROVE  RejectionsExplained' /\ NotYetFiltered'
<1> DEFINE d == Data(store)
           e == Data(store')
<1>1. UNCHANGED <<extStore, whole, dryRun>>
    BY DEF PreFilter, Rest
<1>2. PICK s \in {"Success", "Skip", "Unschedulable"}, v \in SUBSET Nodes, ran \in BOOLEAN :
        /\ e.filter = d.filter
        /\ s # "Success" => v = Nodes
        /\ ran => /\ e.preFilterStatus = Put(d.preFilterStatus, p, s)
                  /\ e.preFilterResult = IF v # Nodes THEN Put(d.preFilterResult, p, v) ELSE d.preFilterResult
        /\ ~ran => store' = store
        /\ <<p, "PreFilter">> \notin Hooked =>
              /\ FW!PreFilterReturned(p, s, v)
              /\ ~ran => s = "Success" /\ v = Nodes
    BY PreFilterRecords
<1>3. point = "PreFilter" /\ todo # <<>> /\ p = Head(todo) /\ CallsLeft /\ alive # {} /\ NoneTwice(todo)
    BY EarlyActions DEF Shape, CallsLeft
<1>4. 1 \in DOMAIN todo /\ todo[1] = p
    <2>1. todo \in Seq(Plugins \cup Ids)
        BY ShapeIs
    <2> QED
        BY <1>3, <2>1
<1> HIDE DEF d, e
<1>5. whole => p \notin DOMAIN d.preFilterResult /\ DOMAIN Results(extStore)["filter"] = {}
    BY <1>3, <1>4 DEF NotYetFiltered, d
<1>6. DOMAIN e.preFilterResult \subseteq DOMAIN d.preFilterResult \cup {p}
    <2>1. CASE ran
        BY <1>2, <2>1 DEF Put
    <2>2. CASE ~ran
        BY <1>2, <2>2 DEF d, e
    <2> QED
        BY <2>1, <2>2
<1>7. NotYetFiltered'
    <2>1. point' = "PostFilter" \/ FW!Pop
        <3>1. \E a, b : FW!PreFilterReturned(p, a, b)
            BY DEF PreFilter
        <3>2. FW!Unschedulable => point' = "PostFilter"
            BY DEF FW!Unschedulable, FW!Enter
        <3> QED
            BY <3>1, <3>2 DEF FW!PreFilterReturned
    <2>2. CASE point' = "PostFilter"
        BY <2>2 DEF NotYetFiltered
    <2>3. CASE FW!Pop
        <3>1. /\ point' = "PreFilter" /\ \A k \in DOMAIN todo' : todo'[k] # p
              /\ \A k \in DOMAIN todo' : k + 1 \in DOMAIN todo /\ todo'[k] = todo[k + 1]
            BY <1>3, <2>3, PopIs
        <3>2. whole => \A k \in DOMAIN todo' : todo'[k] \notin DOMAIN e.preFilterResult
            BY <1>3, <1>6, <3>1 DEF NotYetFiltered, d
        <3> QED
            BY <1>1, <1>5, <3>1, <3>2 DEF NotYetFiltered, e
    <2> QED
        BY <2>1, <2>2, <2>3
<1>8. ASSUME whole, ~dryRun, Unhooked("PreFilter"), Unhooked("Filter"), OneUrlEach
      PROVE  alive' = {n \in Nodes : Passed(n)'}
    <2>1. alive = {n \in Nodes : Passed(n)}
        BY <1>8, ExplainedIs
    <2>2. FW!PreFilterReturned(p, s, v) /\ (~ran => s = "Success" /\ v = Nodes)
        BY <1>2, <1>8 DEF Unhooked
    <2>3. alive' = CASE s = "Unschedulable" -> {} [] s = "Skip" -> alive [] OTHER -> alive \cap v
        BY <2>2 DEF FW!PreFilterReturned
    <2>4. \A n \in Nodes : (PassedFilter(n)' <=> PassedFilter(n)) /\ (PassedExtenders(n)' <=> PassedExtenders(n))
        BY <1>1, <1>2 DEF PassedFilter, PassedExtenders, d, e
    <2>5. ASSUME ~ran
          PROVE  \A n \in Nodes : PassedPreFilter(n)' <=> PassedPreFilter(n)
        BY <1>2, <2>5 DEF PassedPreFilter, Recording
    <2>6. CASE ~ran
        BY <2>1, <2>2, <2>3, <2>4, <2>5, <2>6 DEF Passed
    <2>7. CASE ran /\ s = "Unschedulable"
        <3>1. p \in DOMAIN e.preFilterStatus /\ e.preFilterStatus[p] = "Unschedulable"
            BY <1>2, <2>7 DEF Put
        <3>2. \A n : ~PassedPreFilter(n)'
            BY <3>1 DEF PassedPreFilter, Recording, e
        <3> QED
            BY <2>3, <2>7, <3>2 DEF Passed
    <2>8. CASE ran /\ s # "Unschedulable"
        <3>1. alive' = alive \cap v
            BY <1>2, <2>3, <2>8, ShapeIs
        <3>2. PICK a \in Nodes : Passed(a)
            BY <1>3, <2>1
        <3>3. \A q \in Plugins : ~(q \in DOMAIN d.preFilterStatus /\ d.preFilterStatus[q] = "Unschedulable")
            BY <3>2 DEF Passed, PassedPreFilter, Recording, d
        <3>4. \A q \in Plugins : ~(q \in DOMAIN e.preFilterStatus /\ e.preFilterStatus[q] = "Unschedulable")
            BY <1>2, <2>8, <3>3 DEF Put
        <3>5. \A n \in Nodes : PassedPreFilter(n) <=> \A q \in DOMAIN d.preFilterResult : n \in d.preFilterResult[q]
            BY <3>3 DEF PassedPreFilter, Recording, d
        <3>6. \A n \in Nodes : PassedPreFilter(n)' <=> \A q \in DOMAIN e.preFilterResult : n \in e.preFilterResult[q]
            BY <3>4 DEF PassedPreFilter, Recording, e
        <3>7. \A n \in Nodes : (\A q \in DOMAIN e.preFilterResult : n \in e.preFilterResult[q])
                <=> (\A q \in DOMAIN d.preFilterResult : n \in d.preFilterResult[q]) /\ n \in v
            <4>1. CASE v = Nodes
                BY <1>2, <2>8, <4>1
            <4>2. CASE v # Nodes
                <5>1. e.preFilterResult = Put(d.preFilterResult, p, v)
                    BY <1>2, <2>8, <4>2
                <5>2. p \notin DOMAIN d.preFilterResult
                    BY <1>5, <1>8
                <5> QED
                    BY <5>1, <5>2 DEF Put
            <4> QED
                BY <4>1, <4>2
        <3> QED
            BY <2>1, <2>4, <3>1, <3>5, <3>6, <3>7 DEF Passed
    <2> QED
        BY <2>6, <2>7, <2>8
<1>9. RejectionsExplained'
    BY <1>1, <1>8 DEF RejectionsExplained, Passed, Unhooked, OneUrlEach
<1> QED
    BY <1>7, <1>9

LEMMA FilterExplains ==
    ASSUME Shape, Stored(store), RejectionsExplained, NEW p \in Plugins, NEW n \in Nodes, Filter(p, n)
    PROVE  RejectionsExplained'
<1> DEFINE d == Data(store)
           e == Data(store')
<1>1. PICK w \in FilterWays(p) :
        FW!FilterReturned(p, n, w.s) /\ Recorded(w, AddFilterResult(store, n, p, Message(w.said.s)))
    BY DEF Filter
<1>2. UNCHANGED <<extStore, whole, dryRun>>
    BY DEF Filter, Rest
<1>3. /\ e.preFilterStatus = d.preFilterStatus /\ e.preFilterResult = d.preFilterResult
      /\ w.ran => e.filter = Put2(d.filter, n, p, w.said.s)
      /\ ~w.ran => store' = store
      /\ <<p, "Filter">> \notin Hooked =>
            /\ w.s \in {"Success", "Unschedulable"}
            /\ IF w.ran THEN w.s = w.said.s ELSE w.s = "Success"
    BY <1>1, FilterRecords
<1>4. n \in alive /\ alive' = (IF w.s = "Success" THEN alive ELSE alive \ {n})
    BY <1>1, ShapeIs DEF FW!FilterReturned, CallsLeft
<1> HIDE DEF d, e
<1>5. ASSUME whole, ~dryRun, Unhooked("PreFilter"), Unhooked("Filter"), OneUrlEach
      PROVE  alive' = {m \in Nodes : Passed(m)'}
    <2>1. alive = {m \in Nodes : Passed(m)}
        BY <1>5, ExplainedIs
    <2>2. \A m : (PassedPreFilter(m)' <=> PassedPreFilter(m)) /\ (PassedExtenders(m)' <=> PassedExtenders(m))
        BY <1>2, <1>3 DEF PassedPreFilter, PassedExtenders, Recording, d, e
    <2>3. <<p, "Filter">> \notin Hooked
        BY <1>5 DEF Unhooked
    <2>4. CASE ~w.ran
        <3>1. alive' = alive /\ \A m : PassedFilter(m)' <=> PassedFilter(m)
            BY <1>3, <1>4, <2>3, <2>4 DEF PassedFilter
        <3> QED
            BY <2>1, <2>2, <3>1 DEF Passed
    <2>5. CASE w.ran
        <3> DEFINE s == w.s
        <3>1. e.filter = Put2(d.filter, n, p, s) /\ s \in {"Success", "Unschedulable"}
            BY <1>3, <2>3, <2>5
        <3> HIDE DEF s
        <3>2. /\ At(e.filter, n) = Put(At(d.filter, n), p, s)
              /\ \A m \in Nodes : m # n => At(e.filter, m) = At(d.filter, m)
            <4>1. s \in FW!Statuses /\ d.filter \in MapOf(Nodes, MapOf(Plugins, FW!Statuses))
                BY <3>1, DataIs, FieldsAre DEF NodeMap, FW!Statuses, d
            <4> DEFINE f == d.filter
            <4> HIDE DEF f
            <4>2. \A m \in Nodes : At(Put2(f, n, p, s), m) = IF m = n THEN Put(At(f, n), p, s) ELSE At(f, m)
                BY <4>1, Put2Is DEF f
            <4> QED
                BY <3>1, <4>2 DEF f
        <3>3. \A m \in Nodes : m # n => (PassedFilter(m)' <=> PassedFilter(m))
            BY <3>2 DEF PassedFilter, d, e
        <3>4. Passed(n)
            BY <1>4, <2>1
        <3> DEFINE old == At(d.filter, n)
        <3>5. \A q \in DOMAIN old : old[q] = "Success"
            BY <3>4 DEF Passed, PassedFilter, d
        <3> HIDE DEF old
        <3>6. PassedFilter(n)' <=> s = "Success"
            <4>1. PassedFilter(n)' <=> \A q \in DOMAIN Put(old, p, s) : Put(old, p, s)[q] = "Success"
                BY <3>2 DEF PassedFilter, e, old
            <4>2. (\A q \in DOMAIN Put(old, p, s) : Put(old, p, s)[q] = "Success") <=> s = "Success"
                BY <3>5 DEF Put
            <4> QED
                BY <4>1, <4>2
        <3>7. \A m \in Nodes : Passed(m)' <=> Passed(m) /\ (m # n \/ s = "Success")
            BY <2>2, <3>3, <3>4, <3>6 DEF Passed
        <3>8. alive' = IF s = "Success" THEN alive ELSE alive \ {n}
            BY <1>4 DEF s
        <3> QED
            BY <2>1, <3>7, <3>8
    <2> QED
        BY <2>4, <2>5
<1> QED
    BY <1>2, <1>5 DEF RejectionsExplained, Passed, Unhooked, OneUrlEach

\* Tried on imagined nodes, or not, a filter does not record for PreFilter.
LEMMA FilterNotYet ==
    ASSUME Shape, Stored(store), NotYetFiltered, NEW p \in Plugins, NEW n \in Nodes,
           Filter(p, n) \/ DryRunFilter(p, n)
    PROVE  NotYetFiltered'
<1>1. PICK w \in FilterWays(p) : Recorded(w, AddFilterResult(store, n, p, Message(w.said.s)))
    BY DEF Filter, DryRunFilter
<1>2. Data(store').preFilterResult = Data(store).preFilterResult
    BY <1>1, FilterRecords
<1>3. UNCHANGED <<extStore, whole, point, todo>>
    BY DEF Filter, DryRunFilter, Rest, fw, FW!FilterReturned
<1> QED
    BY <1>2, <1>3 DEF NotYetFiltered, OneUrlEach

LEMMA ExtFilterExplains ==
    ASSUME Shape, ExtStored(extStore), RejectionsExplained, NotYetFiltered, NEW i \in Ids, ExtFilter(i)
    PROVE  RejectionsExplained' /\ NotYetFiltered'
<1>1. UNCHANGED <<store, whole, dryRun>>
    BY DEF ExtFilter, Answered
<1>2. PICK a \in Promise!ExtFilterSays :
        /\ FW!ExtFilterReturned(i, a.s, a.v) /\ a.v \in SUBSET Nodes
        /\ extStore' = IF a.s THEN AddResult(extStore, "filter", i, a.v) ELSE extStore
        /\ a.v \in Answers("filter") /\ a.s \in BOOLEAN
    BY ExtenderRecords
<1> DEFINE v == a.v
           url == Extenders[i].url
           f == Results(extStore)["filter"]
           g == Results(extStore')["filter"]
<1>3. point = "ExtFilter" /\ todo # <<>> /\ i = Head(todo) /\ CallsLeft /\ NoneTwice(todo)
    BY EarlyActions DEF Shape, CallsLeft
<1>4. 1 \in DOMAIN todo /\ todo[1] = i
    <2>1. todo \in Seq(Plugins \cup Ids)
        BY ShapeIs
    <2> QED
        BY <1>3, <2>1
<1>5. whole /\ OneUrlEach => url \notin DOMAIN f
    BY <1>3, <1>4 DEF NotYetFiltered
<1>6. /\ a.s => /\ DOMAIN g = DOMAIN f \cup {url}
                /\ \A x \in DOMAIN g : g[x] = IF x = url THEN v ELSE f[x]
      /\ ~a.s => g = f
    <2>1. "filter" \in Verbs
        BY DEF Verbs
    <2> QED
        BY <1>2, <2>1, ResultAdded
<1>7. /\ alive' = IF a.s THEN alive \cap v ELSE alive
      /\ IF ~a.s THEN FW!Done("Idle") ELSE IF alive' = {} THEN FW!Unschedulable ELSE FW!Pop
    BY <1>2 DEF FW!ExtFilterReturned
<1> HIDE DEF v, url, f, g
<1>8. NotYetFiltered'
    <2>1. CASE FW!Done("Idle") \/ FW!Unschedulable
        <3>1. point' \in {"Idle", "PostFilter"}
            BY <2>1 DEF FW!Done, FW!Unschedulable, FW!Enter
        <3> QED
            BY <3>1 DEF NotYetFiltered
    <2>2. CASE a.s /\ FW!Pop
        <3>1. /\ point' = "ExtFilter" /\ \A k \in DOMAIN todo' : todo'[k] # i
              /\ \A k \in DOMAIN todo' : k + 1 \in DOMAIN todo /\ todo'[k] = todo[k + 1]
              /\ todo' \in Seq(Callable("ExtFilter"))
            BY <1>3, <2>2, PopIs
        <3>2. \A k \in DOMAIN todo' : todo'[k] \in Ids
            <4>1. Callable("ExtFilter") = {j \in Ids : Calls(j, "filter")}
                BY DEF Callable, PluginPoints
            <4> QED
                BY <3>1, <4>1
        <3>3. whole /\ OneUrlEach => \A k \in DOMAIN todo' : Extenders[todo'[k]].url \notin DOMAIN g
            <4> SUFFICES ASSUME whole, OneUrlEach, NEW k \in DOMAIN todo'
                         PROVE  Extenders[todo'[k]].url \notin DOMAIN g
                OBVIOUS
            <4>1. Extenders[todo'[k]].url # url
                BY <3>1, <3>2 DEF OneUrlEach, url
            <4>2. Extenders[todo[k + 1]].url \notin DOMAIN f
                BY <1>3, <3>1 DEF NotYetFiltered, f
            <4> QED
                BY <1>6, <2>2, <3>1, <4>1, <4>2
        <3> QED
            BY <1>1, <3>1, <3>3 DEF NotYetFiltered, OneUrlEach, g
    <2> QED
        BY <1>2, <1>7, <2>1, <2>2
<1>9. ASSUME whole, ~dryRun, Unhooked("PreFilter"), Unhooked("Filter"), OneUrlEach
      PROVE  alive' = {n \in Nodes : Passed(n)'}
    <2>1. alive = {n \in Nodes : Passed(n)}
        BY <1>9, ExplainedIs
    <2>2. \A n : (PassedPreFilter(n)' <=> PassedPreFilter(n)) /\ (PassedFilter(n)' <=> PassedFilter(n))
        BY <1>1 DEF PassedPreFilter, PassedFilter, Recording
    <2>3. \A n : /\ PassedExtenders(n) <=> \A u \in DOMAIN f : n \in f[u]
                 /\ PassedExtenders(n)' <=> \A u \in DOMAIN g : n \in g[u]
        BY DEF PassedExtenders, f, g
    <2>4. CASE a.s
        <3>1. \A n : (\A u \in DOMAIN g : n \in g[u]) <=> (\A u \in DOMAIN f : n \in f[u]) /\ n \in v
            BY <1>5, <1>6, <1>9, <2>4
        <3>2. alive' = alive \cap v
            BY <1>7, <2>4
        <3> QED
            BY <2>1, <2>2, <2>3, <3>1, <3>2 DEF Passed
    <2>5. CASE ~a.s
        <3>1. alive' = alive /\ g = f
            BY <1>6, <1>7, <2>5
        <3> QED
            BY <2>1, <2>2, <2>3, <3>1 DEF Passed
    <2> QED
        BY <2>4, <2>5
<1>10. RejectionsExplained'
    BY <1>1, <1>9 DEF RejectionsExplained, Passed, Unhooked, OneUrlEach
<1> QED
    BY <1>8, <1>10

LEMMA SchedulerExplains ==
    ASSUME RejectionsExplained, NotYetFiltered, Scheduler
    PROVE  RejectionsExplained' /\ NotYetFiltered'
<1>1. UNCHANGED <<store, extStore, whole, dryRun, alive>>
    BY DEF Scheduler, FW!Advance, FW!WaitOnPermit
<1>2. RejectionsSame
    BY <1>1 DEF RejectionsSame
<1>3. RejectionsExplained'
    BY <1>1, <1>2, RejectionsKept
<1>4. CASE FW!Advance
    <2>1. PICK bound \in {FALSE, ListAt["ExtBind"] # <<>>} : point' = FW!After(point, bound)
        BY <1>4, AdvanceIs
    <2>2. /\ point' # "PreFilter"
          /\ point' = "Filter" => point = "PreFilter"
          /\ point' = "ExtFilter" => point = "Filter"
        <3>1. FW!After(point, bound) = "ExtFilter" => point = "Filter"
            BY DEF FW!After
        <3>2. FW!After(point, bound) # "PreFilter"
            BY AfterIs
        <3> QED
            BY <2>1, <3>1, <3>2, AfterIs
    <2> QED
        BY <1>1, <1>3, <2>2 DEF NotYetFiltered, OneUrlEach
<1>5. CASE FW!WaitOnPermit
    <2>1. point' \in {"PreBind", "Unreserve"}
        BY <1>5, UndoIs DEF FW!WaitOnPermit
    <2> QED
        BY <1>1, <1>2, <1>3, <2>1, NotYetKept
<1> QED
    BY <1>3, <1>4, <1>5 DEF Scheduler

\* The other actions leave alone what the two invariants are about.
LEMMA OthersExplain ==
    ASSUME Shape, Stored(store), ExtStored(extStore), RejectionsExplained, NotYetFiltered,
           \/ \E p \in Plugins :
                \/ PostFilter(p) \/ PreScore(p) \/ NormalizeScore(p) \/ Reserve(p) \/ Permit(p)
                \/ PreBind(p) \/ Bind(p) \/ PostBind(p) \/ Unreserve(p) \/ \E n \in Nodes : Score(p, n)
           \/ \E i \in Ids : ExtPrioritize(i) \/ ExtBind(i) \/ ExtPreempt(i)
    PROVE  RejectionsExplained' /\ NotYetFiltered'
<1> DEFINE Far == {"PreFilter", "Filter", "ExtFilter"}
           Kept == /\ UNCHANGED <<alive, whole, dryRun>>
                   /\ point' \notin Far
<1>1. ASSUME NEW p \in Plugins, PostFilter(p) \/ PreScore(p) \/ NormalizeScore(p) \/ \E n \in Nodes : Score(p, n)
      PROVE  Kept /\ RejectionsSame
    <2>1. RejectionsSame
        BY <1>1, PluginsRecord
    <2>2. UNCHANGED <<whole, dryRun>>
        BY <1>1 DEF PostFilter, PreScore, NormalizeScore, Score, Rest
    <2>3. alive' = alive /\ point \in {"PostFilter", "PreScore", "Normalize", "Score"} /\ point' \in {point, "Idle"}
        <3>1. ASSUME PostFilter(p)
              PROVE  alive' = alive /\ point = "PostFilter" /\ point' \in {point, "Idle"}
            BY <3>1 DEF PostFilter, FW!PostFilterReturned, FW!Next_, FW!Pop, FW!Done
        <3>2. ASSUME PreScore(p)
              PROVE  alive' = alive /\ point = "PreScore" /\ point' \in {point, "Idle"}
            BY <3>2 DEF PreScore, FW!PreScoreReturned, FW!Next_, FW!Pop, FW!Done
        <3>3. ASSUME NormalizeScore(p)
              PROVE  alive' = alive /\ point = "Normalize" /\ point' \in {point, "Idle"}
            BY <3>3 DEF NormalizeScore, FW!NormalizeReturned, FW!Next_, FW!PopOr, FW!Pop, FW!Done
        <3>4. ASSUME NEW n \in Nodes, Score(p, n)
              PROVE  alive' = alive /\ point = "Score" /\ point' \in {point, "Idle"}
            BY <3>4 DEF Score, FW!ScoreReturned, FW!Done
        <3> QED
            BY <1>1, <3>1, <3>2, <3>3, <3>4
    <2> QED
        BY <2>1, <2>2, <2>3
<1>2. ASSUME NEW p \in Plugins,
             Reserve(p) \/ Permit(p) \/ PreBind(p) \/ Bind(p) \/ PostBind(p) \/ Unreserve(p)
      PROVE  Kept /\ RejectionsSame
    <2>1. RejectionsSame
        BY <1>2, PluginsRecord
    <2>2. UNCHANGED <<whole, dryRun>>
        BY <1>2 DEF Reserve, Permit, PreBind, Bind, PostBind, Unreserve, Rest
    <2>3. alive' = alive
        BY <1>2 DEF Reserve, Permit, PreBind, Bind, PostBind, Unreserve, FW!ReserveReturned,
                    FW!PermitReturned, FW!PreBindReturned, FW!BindReturned, FW!VoidReturned
    <2>4. /\ point \in {"Reserve", "Permit", "PreBind", "Bind", "PostBind", "Unreserve"}
          /\ point' \in {point, "PostBind", "Unreserve"}
        BY <1>2, LateActions, UndoIs DEF FW!Pop
    <2> QED
        BY <2>1, <2>2, <2>3, <2>4
<1>3. ASSUME NEW i \in Ids, ExtPrioritize(i) \/ ExtBind(i) \/ ExtPreempt(i)
      PROVE  Kept /\ RejectionsSame
    <2>1. RejectionsSame
        BY <1>3, ExtendersRecord
    <2>2. UNCHANGED <<whole, dryRun>>
        BY <1>3 DEF ExtPrioritize, ExtBind, ExtPreempt, Answered
    <2>3. alive' = alive /\ point' \in {"ExtPrioritize", "PostBind", "Unreserve", "PostFilter"}
        <3>1. ASSUME ExtPrioritize(i)
              PROVE  alive' = alive /\ point' = "ExtPrioritize"
            BY <3>1 DEF ExtPrioritize, FW!ExtPrioritizeReturned, FW!Next_, FW!Pop
        <3>2. ASSUME ExtBind(i)
              PROVE  alive' = alive /\ point' \in {"PostBind", "Unreserve"}
            <4>1. alive' = alive
                BY <3>2 DEF ExtBind, FW!ExtBindReturned
            <4> QED
                BY <3>2, <4>1, LateActions, UndoIs
        <3>3. ASSUME ExtPreempt(i)
              PROVE  alive' = alive /\ point' = "PostFilter"
            BY <3>3 DEF ExtPreempt, Preempting, fw
        <3> QED
            BY <1>3, <3>1, <3>2, <3>3
    <2> QED
        BY <2>1, <2>2, <2>3
<1>4. Kept /\ RejectionsSame
    BY <1>1, <1>2, <1>3
<1> QED
    BY <1>4, RejectionsKept, NotYetKept

LEMMA ExplainsStep ==
    ASSUME Shape, Stored(store), ExtStored(extStore), RejectionsExplained, NotYetFiltered, Next
    PROVE  RejectionsExplained' /\ NotYetFiltered'
<1>1. CASE Begin \/ Scheduler
    BY <1>1, BeginExplains, SchedulerExplains
<1>2. CASE Reflect
    <2>1. whole' = FALSE
        BY <1>2 DEF Reflect
    <2> QED
        BY <2>1 DEF RejectionsExplained, NotYetFiltered
<1>3. ASSUME NEW p \in Plugins, PreFilter(p)
      PROVE  RejectionsExplained' /\ NotYetFiltered'
    BY <1>3, PreFilterExplains
<1>4. ASSUME NEW p \in Plugins, NEW n \in Nodes, Filter(p, n) \/ DryRunFilter(p, n)
      PROVE  RejectionsExplained' /\ NotYetFiltered'
    <2>1. DryRunFilter(p, n) => RejectionsExplained'
        BY DEF DryRunFilter, RejectionsExplained
    <2> QED
        BY <1>4, <2>1, FilterExplains, FilterNotYet
<1>5. ASSUME NEW i \in Ids, ExtFilter(i)
      PROVE  RejectionsExplained' /\ NotYetFiltered'
    BY <1>5, ExtFilterExplains
<1>6. CASE \/ \E p \in Plugins :
                \/ PostFilter(p) \/ PreScore(p) \/ NormalizeScore(p) \/ Reserve(p) \/ Permit(p)
                \/ PreBind(p) \/ Bind(p) \/ PostBind(p) \/ Unreserve(p) \/ \E n \in Nodes : Score(p, n)
           \/ \E i \in Ids : ExtPrioritize(i) \/ ExtBind(i) \/ ExtPreempt(i)
    BY <1>6, OthersExplain
<1> QED
    BY <1>1, <1>2, <1>3, <1>4, <1>5, <1>6 DEF Next

-----------------------------------------------------------------------------
(***************************************************************************)
(* The results tell how an attempt ended.                                  *)
(***************************************************************************)

Settled == \/ point \in {"Permit", "Waiting", "PreBind", "ExtBind", "Bind", "PostBind", "Bound"}
           \/ point = "Reserve" /\ todo # Profile
Ended == point \in {"PostBind", "Bound"}
Failed == point \in {"Unreserve", "Idle"}

LEMMA OutcomeIs ==
    OutcomeKnown <=>
        (whole => /\ Settled => Plugins = {} \/ Data(store).selectedNode = node
                  /\ Plugins = {} => store = NoData
                  /\ Unhooked("Bind") => IF Ended THEN BoundByPlugin # BoundByExtender
                                         ELSE ~BoundByPlugin /\ ~BoundByExtender
                  /\ ~Failed => NoneRefused)
BY DEF OutcomeKnown, Settled, Ended, Failed

LEMMA OutcomeIsNext ==
    OutcomeKnown' <=>
        (whole' => /\ Settled' => Plugins = {} \/ Data(store').selectedNode = node'
                   /\ Plugins = {} => store' = NoData
                   /\ Unhooked("Bind") => IF Ended' THEN BoundByPlugin' # BoundByExtender'
                                          ELSE ~BoundByPlugin' /\ ~BoundByExtender'
                   /\ ~Failed' => NoneRefused')
BY DEF OutcomeKnown, Settled, Ended, Failed, Unhooked, Plugins

\* What the outcome is read from.
LEMMA OutcomeReads ==
    /\ OutcomeSame => /\ Data(store').selectedNode = Data(store).selectedNode
                      /\ BoundByPlugin' <=> BoundByPlugin
                      /\ BoundByExtender' <=> BoundByExtender
                      /\ NoneRefused' <=> NoneRefused
<1>1. ASSUME OutcomeSame
      PROVE  /\ Data(store').selectedNode = Data(store).selectedNode
             /\ Data(store').reserve = Data(store).reserve /\ Data(store').permit = Data(store).permit
             /\ Data(store').prebind = Data(store).prebind /\ Data(store').bind = Data(store).bind
             /\ Results(extStore')["bind"] = Results(extStore)["bind"]
    BY <1>1 DEF OutcomeSame, Outcome
<1>2. OutcomeSame => (BoundByPlugin' <=> BoundByPlugin)
    BY <1>1 DEF BoundByPlugin, Recording, Plugins
<1>3. OutcomeSame => (BoundByExtender' <=> BoundByExtender)
    BY <1>1 DEF BoundByExtender
<1>4. OutcomeSame => (NoneRefused' <=> NoneRefused)
    BY <1>1 DEF NoneRefused, Recording, Plugins
<1> QED
    BY <1>1, <1>2, <1>3, <1>4

LEMMA OutcomeKept ==
    ASSUME OutcomeKnown, OutcomeSame, whole' = whole, Plugins = {} => store' = store,
           Settled' => (Settled \/ Plugins = {}) /\ node' = node, Ended' <=> Ended, Failed => Failed'
    PROVE  OutcomeKnown'
<1>1. /\ Data(store').selectedNode = Data(store).selectedNode
      /\ BoundByPlugin' <=> BoundByPlugin
      /\ BoundByExtender' <=> BoundByExtender
      /\ NoneRefused' <=> NoneRefused
    BY OutcomeReads
<1>2. SUFFICES ASSUME whole'
               PROVE  /\ Settled' => Plugins = {} \/ Data(store').selectedNode = node'
                      /\ Plugins = {} => store' = NoData
                      /\ Unhooked("Bind") => IF Ended' THEN BoundByPlugin' # BoundByExtender'
                                             ELSE ~BoundByPlugin' /\ ~BoundByExtender'
                      /\ ~Failed' => NoneRefused'
    BY OutcomeIsNext
<1>3. /\ Settled => Plugins = {} \/ Data(store).selectedNode = node
      /\ Plugins = {} => store = NoData
      /\ Unhooked("Bind") => IF Ended THEN BoundByPlugin # BoundByExtender
                             ELSE ~BoundByPlugin /\ ~BoundByExtender
      /\ ~Failed => NoneRefused
    BY <1>2, OutcomeIs
<1>4. Settled' => Plugins = {} \/ Data(store').selectedNode = node'
    BY <1>1, <1>3
<1>5. Unhooked("Bind") => IF Ended' THEN BoundByPlugin' # BoundByExtender'
                          ELSE ~BoundByPlugin' /\ ~BoundByExtender'
    <2>1. BoundByPlugin' = BoundByPlugin /\ BoundByExtender' = BoundByExtender
        <3>1. /\ BoundByPlugin \in BOOLEAN /\ BoundByPlugin' \in BOOLEAN
              /\ BoundByExtender \in BOOLEAN /\ BoundByExtender' \in BOOLEAN
            BY DEF BoundByPlugin, BoundByExtender
        <3> QED
            BY <1>1, <3>1
    <2> QED
        BY <1>3, <2>1
<1> QED
    BY <1>1, <1>3, <1>4, <1>5

LEMMA BeginOutcome ==
    ASSUME Begin
    PROVE  OutcomeKnown'
<1>1. /\ whole' = (store = NoData /\ extStore = NoResults) /\ store' = store /\ extStore' = extStore
      /\ point' = "PreFilter"
    BY DEF Begin, FW!Begin, FW!Enter
<1>2. ~Settled' /\ ~Ended'
    BY <1>1 DEF Settled, Ended
<1>3. SUFFICES ASSUME whole'
               PROVE  store' = NoData /\ ~BoundByPlugin' /\ ~BoundByExtender' /\ NoneRefused'
    BY <1>2, OutcomeIsNext
<1>4. store' = NoData /\ extStore' = NoResults
    BY <1>1, <1>3
<1>5. Data(store') = newData /\ Results(extStore') = emptyResults
    BY <1>4 DEF Data, Results
<1>6. /\ DOMAIN Data(store').reserve = {} /\ DOMAIN Data(store').permit = {}
      /\ DOMAIN Data(store').prebind = {} /\ DOMAIN Data(store').bind = {}
      /\ DOMAIN Results(extStore')["bind"] = {}
    <2>1. DOMAIN EmptyMap = {} /\ DOMAIN emptyResults["bind"] = {}
        BY DEF EmptyMap, emptyResults, Verbs
    <2> QED
        BY <1>5, <2>1, NewDataIs
<1> QED
    BY <1>4, <1>6 DEF BoundByPlugin, BoundByExtender, NoneRefused, Recording

LEMMA SchedulerOutcome ==
    ASSUME Shape, OutcomeKnown, Scheduler
    PROVE  OutcomeKnown'
<1>1. UNCHANGED <<store, extStore, whole>>
    BY DEF Scheduler
<1>2. OutcomeSame
    BY <1>1 DEF OutcomeSame
<1>3. /\ Settled' => (Settled \/ Plugins = {}) /\ node' = node
      /\ Ended' <=> Ended
      /\ Failed => Failed'
    <2>1. CASE FW!Advance
        <3>1. PICK bound \in {FALSE, ListAt["ExtBind"] # <<>>} :
                /\ point' = FW!After(point, bound) /\ todo = <<>> /\ point \in FW!Points \ {"ExtBind"}
                /\ point' = "Reserve" => todo' = Profile
                /\ point' = "Reserve" \/ UNCHANGED node
            BY <2>1, AdvanceIs
        <3>2. /\ point' = "Permit" <=> point = "Reserve"
              /\ point' = "Waiting" => point = "Permit"
              /\ point' = "PreBind" => point = "Permit"
              /\ point' \in {"ExtBind", "Bind"} => point = "PreBind"
              /\ point' = "Bound" <=> point = "PostBind"
              /\ point' # "PostBind"
              /\ point = "Unreserve" => point' = "Idle"
            BY <3>1 DEF FW!After, FW!Points
        <3>3. todo = Profile => Plugins = {}
            BY <3>1 DEF Plugins
        <3>4. point # "Bound" /\ point # "Idle"
            BY <3>1 DEF FW!Points
        <3>5. Settled' => (Settled \/ Plugins = {}) /\ node' = node
            BY <3>1, <3>2, <3>3 DEF Settled
        <3> QED
            BY <3>2, <3>4, <3>5 DEF Ended, Failed
    <2>2. CASE FW!WaitOnPermit
        <3>1. point = "Waiting" /\ point' \in {"PreBind", "Unreserve"} /\ node' = node
            BY <2>2, UndoIs DEF FW!WaitOnPermit
        <3> QED
            BY <3>1 DEF Settled, Ended, Failed
    <2> QED
        BY <2>1, <2>2 DEF Scheduler
<1> QED
    BY <1>1, <1>2, <1>3, OutcomeKept

LEMMA EarlyOutcome ==
    ASSUME Shape, Stored(store), ExtStored(extStore), OutcomeKnown,
           \/ \E p \in Plugins :
                \/ PreFilter(p) \/ PostFilter(p) \/ PreScore(p) \/ NormalizeScore(p)
                \/ \E n \in Nodes : Filter(p, n) \/ Score(p, n) \/ DryRunFilter(p, n)
           \/ \E i \in Ids : ExtFilter(i) \/ ExtPrioritize(i) \/ ExtPreempt(i)
    PROVE  OutcomeKnown'
<1> DEFINE Early == /\ point \in BeforeReserve \ {"Idle"} /\ point' \in BeforeReserve /\ whole' = whole
                    /\ OutcomeSame /\ (Plugins = {} => store' = store)
<1>1. ASSUME NEW p \in Plugins, PreFilter(p) \/ PostFilter(p) \/ PreScore(p) \/ NormalizeScore(p)
      PROVE  Early
    <2>1. OutcomeSame /\ Plugins # {}
        BY <1>1, PluginsRecord
    <2>2. whole' = whole
        BY <1>1 DEF PreFilter, PostFilter, PreScore, NormalizeScore, Rest
    <2>3. /\ point \in {"PreFilter", "PostFilter", "PreScore", "Normalize"}
          /\ point' \in {point, "Idle", "PostFilter"}
        <3>1. PreFilter(p) => point' \in {point, "Idle", "PostFilter"}
            BY DEF PreFilter, FW!PreFilterReturned, FW!Unschedulable, FW!Enter, FW!Pop
        <3>2. PostFilter(p) => point' \in {point, "Idle", "PostFilter"}
            BY DEF PostFilter, FW!PostFilterReturned, FW!Pop, FW!Done
        <3>3. PreScore(p) => point' \in {point, "Idle", "PostFilter"}
            BY DEF PreScore, FW!PreScoreReturned, FW!Pop, FW!Done
        <3>4. NormalizeScore(p) => point' \in {point, "Idle", "PostFilter"}
            BY DEF NormalizeScore, FW!NormalizeReturned, FW!PopOr, FW!Pop, FW!Done
        <3> QED
            BY <1>1, <3>1, <3>2, <3>3, <3>4, EarlyActions
    <2> QED
        BY <2>1, <2>2, <2>3 DEF BeforeReserve
<1>2. ASSUME NEW p \in Plugins, NEW n \in Nodes, Filter(p, n) \/ Score(p, n) \/ DryRunFilter(p, n)
      PROVE  Early
    <2>1. OutcomeSame /\ Plugins # {}
        BY <1>2, PluginsRecord
    <2>2. whole' = whole
        BY <1>2 DEF Filter, Score, DryRunFilter, Rest
    <2>3. point \in {"Filter", "Score", "PostFilter"} /\ point' \in {point, "Idle"}
        <3>1. Filter(p, n) => point' = point
            BY DEF Filter, FW!FilterReturned
        <3>2. Score(p, n) => point' \in {point, "Idle"}
            BY DEF Score, FW!ScoreReturned, FW!Done
        <3>3. DryRunFilter(p, n) => point' = point
            BY DEF DryRunFilter, fw
        <3> QED
            BY <1>2, <3>1, <3>2, <3>3, EarlyActions
    <2> QED
        BY <2>1, <2>2, <2>3 DEF BeforeReserve
<1>3. ASSUME NEW i \in Ids, ExtFilter(i) \/ ExtPrioritize(i) \/ ExtPreempt(i)
      PROVE  Early
    <2>1. OutcomeSame /\ store' = store
        BY <1>3, ExtendersRecord
    <2>2. whole' = whole
        BY <1>3 DEF ExtFilter, ExtPrioritize, ExtPreempt, Answered
    <2>3. /\ point \in {"ExtFilter", "ExtPrioritize", "PostFilter"}
          /\ point' \in {point, "Idle", "PostFilter"}
        <3>1. ExtFilter(i) => point' \in {point, "Idle", "PostFilter"}
            BY DEF ExtFilter, FW!ExtFilterReturned, FW!Done, FW!Unschedulable, FW!Enter, FW!Pop
        <3>2. ExtPrioritize(i) => point' = point
            BY DEF ExtPrioritize, FW!ExtPrioritizeReturned, FW!Pop
        <3>3. ExtPreempt(i) => point' = point
            BY DEF ExtPreempt, fw
        <3> QED
            BY <1>3, <3>1, <3>2, <3>3, EarlyActions
    <2> QED
        BY <2>1, <2>2, <2>3 DEF BeforeReserve
<1>4. Early
    BY <1>1, <1>2, <1>3
<1>5. ~Settled' /\ ~Ended /\ ~Ended' /\ ~Failed
    BY <1>4 DEF Settled, Ended, Failed, BeforeReserve
<1> QED
    BY <1>4, <1>5, OutcomeKept

\* A status put into a map.
Holds(m, q, s) == q \in DOMAIN m /\ m[q] = s

LEMMA HoldsPut ==
    \A m, p, s, q, t : Holds(Put(m, p, s), q, t) <=> IF q = p THEN s = t ELSE Holds(m, q, t)
BY DEF Holds, Put

LEMMA NoneRefusedIs ==
    /\ NoneRefused <=> \A q \in Plugins :
        /\ Holds(Data(store).prebind, q, "Unschedulable") => <<q, "PreBind">> \in Hooked
        /\ Holds(Data(store).reserve, q, "Unschedulable") => <<q, "Reserve">> \in Hooked
        /\ Holds(Data(store).permit, q, "Unschedulable") => <<q, "Permit">> \in Hooked
    /\ NoneRefused' <=> \A q \in Plugins :
        /\ Holds(Data(store').prebind, q, "Unschedulable") => <<q, "PreBind">> \in Hooked
        /\ Holds(Data(store').reserve, q, "Unschedulable") => <<q, "Reserve">> \in Hooked
        /\ Holds(Data(store').permit, q, "Unschedulable") => <<q, "Permit">> \in Hooked
    /\ BoundByPlugin <=> \E q \in Plugins : Holds(Data(store).bind, q, "Success")
    /\ BoundByPlugin' <=> \E q \in Plugins : Holds(Data(store').bind, q, "Success")
BY DEF NoneRefused, BoundByPlugin, Recording, Holds, Plugins

\* The outcome after a step of a plugin that does not bind: the node is, or
\* becomes, the recorded one, and what is recorded is no refusal, or undone.
LEMMA PluginOutcome ==
    ASSUME OutcomeKnown, UNCHANGED <<extStore, whole, node>>, Plugins # {},
           Data(store').bind = Data(store).bind,
           Settled' => Data(store').selectedNode = node
                       \/ (Settled /\ Data(store').selectedNode = Data(store).selectedNode),
           Ended' <=> Ended, Failed => Failed',
           ~Failed' /\ NoneRefused => NoneRefused'
    PROVE  OutcomeKnown'
<1>1. SUFFICES ASSUME whole'
               PROVE  /\ Settled' => Plugins = {} \/ Data(store').selectedNode = node'
                      /\ Plugins = {} => store' = NoData
                      /\ Unhooked("Bind") => IF Ended' THEN BoundByPlugin' # BoundByExtender'
                                             ELSE ~BoundByPlugin' /\ ~BoundByExtender'
                      /\ ~Failed' => NoneRefused'
    BY OutcomeIsNext
<1>2. /\ Settled => Plugins = {} \/ Data(store).selectedNode = node
      /\ Unhooked("Bind") => IF Ended THEN BoundByPlugin # BoundByExtender
                             ELSE ~BoundByPlugin /\ ~BoundByExtender
      /\ ~Failed => NoneRefused
    BY <1>1, OutcomeIs
<1>3. Unhooked("Bind") => IF Ended' THEN BoundByPlugin' # BoundByExtender'
                          ELSE ~BoundByPlugin' /\ ~BoundByExtender'
    <2>1. (BoundByPlugin' <=> BoundByPlugin) /\ (BoundByExtender' <=> BoundByExtender)
        BY NoneRefusedIs DEF BoundByExtender
    <2>2. BoundByPlugin' = BoundByPlugin /\ BoundByExtender' = BoundByExtender
        <3>1. /\ BoundByPlugin \in BOOLEAN /\ BoundByPlugin' \in BOOLEAN
              /\ BoundByExtender \in BOOLEAN /\ BoundByExtender' \in BOOLEAN
            BY DEF BoundByPlugin, BoundByExtender
        <3> QED
            BY <2>1, <3>1
    <2> QED
        BY <1>2, <2>2
<1>4. Settled' => Data(store').selectedNode = node'
    BY <1>2
<1> QED
    BY <1>2, <1>3, <1>4

LEMMA ReserveOutcome ==
    ASSUME Shape, Stored(store), OutcomeKnown, NEW p \in Plugins, Reserve(p)
    PROVE  OutcomeKnown'
<1>0. PICK s \in FW!Statuses, ran \in BOOLEAN :
        /\ Stored(store') /\ Rejections(Data(store')) = Rejections(Data(store))
        /\ Outcome(Data(store')) = <<node, IF ran THEN Put(Data(store).reserve, p, s) ELSE Data(store).reserve,
              Data(store).permit, Data(store).prebind, Data(store).bind>>
        /\ <<p, "Reserve">> \notin Hooked => FW!ReserveReturned(p, s) /\ (~ran => s = "Success")
    BY ShapeIs, ReserveRecords
<1> DEFINE d == Data(store)
           e == Data(store')
<1>1. Outcome(e) = <<node, IF ran THEN Put(d.reserve, p, s) ELSE d.reserve, d.permit, d.prebind, d.bind>>
    BY <1>0
<1>10. <<p, "Reserve">> \notin Hooked => FW!ReserveReturned(p, s) /\ (~ran => s = "Success")
    BY <1>0
<1> HIDE DEF d, e
<1>2. /\ e.selectedNode = node /\ e.reserve = (IF ran THEN Put(d.reserve, p, s) ELSE d.reserve)
      /\ e.permit = d.permit /\ e.prebind = d.prebind /\ e.bind = d.bind
    BY <1>1 DEF Outcome
<1>3. UNCHANGED <<extStore, whole, node>>
    BY DEF Reserve, FW!ReserveReturned
<1>4. point = "Reserve" /\ point' \in {"Reserve", "Unreserve"}
    BY LateActions, UndoIs DEF FW!Pop
<1>5. ASSUME ~Failed', NoneRefused
      PROVE  NoneRefused'
    <2>1. <<p, "Reserve">> \notin Hooked => s = "Success"
        <3>1. point' # "Unreserve"
            BY <1>5 DEF Failed
        <3>2. FW!ReserveReturned(p, s) /\ s # "Success" => point' = "Unreserve"
            BY UndoIs DEF FW!ReserveReturned, FW!PopOr
        <3> QED
            BY <1>10, <3>1, <3>2
    <2>2. \A q : Holds(e.reserve, q, "Unschedulable") =>
                    (q = p /\ s = "Unschedulable") \/ Holds(d.reserve, q, "Unschedulable")
        BY <1>2, HoldsPut
    <2> QED
        BY <1>2, <1>5, <2>1, <2>2, NoneRefusedIs DEF d, e
<1>6. ~Ended /\ ~Ended' /\ ~Failed
    BY <1>4 DEF Ended, Failed
<1>7. e.selectedNode = node /\ e.bind = d.bind /\ Plugins # {}
    BY <1>2
<1> QED
    BY <1>3, <1>5, <1>6, <1>7, PluginOutcome DEF d, e

LEMMA PermitOutcome ==
    ASSUME Shape, Stored(store), OutcomeKnown, NEW p \in Plugins, Permit(p)
    PROVE  OutcomeKnown'
<1>0. PICK s \in FW!Statuses, ran \in BOOLEAN :
        /\ Stored(store') /\ Rejections(Data(store')) = Rejections(Data(store))
        /\ Outcome(Data(store')) = <<Data(store).selectedNode, Data(store).reserve, IF ran THEN Put(Data(store).permit, p, s) ELSE Data(store).permit,
              Data(store).prebind, Data(store).bind>>
        /\ ~ran => store' = store
        /\ <<p, "Permit">> \notin Hooked => FW!PermitReturned(p, s) /\ (~ran => s = "Success")
    BY PermitRecords
<1> DEFINE d == Data(store)
           e == Data(store')
<1>1. Outcome(e) = <<d.selectedNode, d.reserve, IF ran THEN Put(d.permit, p, s) ELSE d.permit, d.prebind, d.bind>>
    BY <1>0
<1>10. <<p, "Permit">> \notin Hooked => FW!PermitReturned(p, s) /\ (~ran => s = "Success")
    BY <1>0
<1> HIDE DEF d, e
<1>2. /\ e.selectedNode = d.selectedNode /\ e.permit = (IF ran THEN Put(d.permit, p, s) ELSE d.permit)
      /\ e.reserve = d.reserve /\ e.prebind = d.prebind /\ e.bind = d.bind
    BY <1>1 DEF Outcome
<1>3. UNCHANGED <<extStore, whole, node>>
    BY DEF Permit, Rest, FW!PermitReturned
<1>4. point = "Permit" /\ point' \in {"Permit", "Unreserve"}
    BY LateActions, UndoIs DEF FW!Pop
<1>5. ASSUME ~Failed', NoneRefused
      PROVE  NoneRefused'
    <2>1. <<p, "Permit">> \notin Hooked => s # "Unschedulable"
        <3>1. point' # "Unreserve"
            BY <1>5 DEF Failed
        <3>2. FW!PermitReturned(p, s) /\ s = "Unschedulable" => point' = "Unreserve"
            BY UndoIs DEF FW!PermitReturned
        <3> QED
            BY <1>10, <3>1, <3>2
    <2>2. \A q : Holds(e.permit, q, "Unschedulable") =>
                    (q = p /\ s = "Unschedulable") \/ Holds(d.permit, q, "Unschedulable")
        BY <1>2, HoldsPut
    <2> QED
        BY <1>2, <1>5, <2>1, <2>2, NoneRefusedIs DEF d, e
<1>6. ~Ended /\ ~Ended' /\ ~Failed /\ Settled
    BY <1>4 DEF Ended, Failed, Settled
<1>7. e.selectedNode = d.selectedNode /\ e.bind = d.bind /\ Plugins # {}
    BY <1>2
<1> QED
    BY <1>3, <1>5, <1>6, <1>7, PluginOutcome DEF d, e

LEMMA PreBindOutcome ==
    ASSUME Shape, Stored(store), OutcomeKnown, NEW p \in Plugins, PreBind(p)
    PROVE  OutcomeKnown'
<1>0. PICK s \in FW!Statuses, ran \in BOOLEAN :
        /\ Stored(store') /\ Rejections(Data(store')) = Rejections(Data(store))
        /\ Outcome(Data(store')) = <<Data(store).selectedNode, Data(store).reserve, Data(store).permit,
                                             IF ran THEN Put(Data(store).prebind, p, s) ELSE Data(store).prebind, Data(store).bind>>
        /\ ~ran => store' = store
        /\ <<p, "PreBind">> \notin Hooked => FW!PreBindReturned(p, s) /\ (~ran => s = "Success")
    BY PreBindRecords
<1> DEFINE d == Data(store)
           e == Data(store')
<1>1. Outcome(e) = <<d.selectedNode, d.reserve, d.permit, IF ran THEN Put(d.prebind, p, s) ELSE d.prebind, d.bind>>
    BY <1>0
<1>10. <<p, "PreBind">> \notin Hooked => FW!PreBindReturned(p, s) /\ (~ran => s = "Success")
    BY <1>0
<1> HIDE DEF d, e
<1>2. /\ e.selectedNode = d.selectedNode /\ e.prebind = (IF ran THEN Put(d.prebind, p, s) ELSE d.prebind)
      /\ e.reserve = d.reserve /\ e.permit = d.permit /\ e.bind = d.bind
    BY <1>1 DEF Outcome
<1>3. UNCHANGED <<extStore, whole, node>>
    BY DEF PreBind, Rest, FW!PreBindReturned
<1>4. point = "PreBind" /\ point' \in {"PreBind", "Unreserve"}
    BY LateActions, UndoIs DEF FW!Pop
<1>5. ASSUME ~Failed', NoneRefused
      PROVE  NoneRefused'
    <2>1. <<p, "PreBind">> \notin Hooked => s = "Success"
        <3>1. point' # "Unreserve"
            BY <1>5 DEF Failed
        <3>2. FW!PreBindReturned(p, s) /\ s # "Success" => point' = "Unreserve"
            BY UndoIs DEF FW!PreBindReturned, FW!PopOr
        <3> QED
            BY <1>10, <3>1, <3>2
    <2>2. \A q : Holds(e.prebind, q, "Unschedulable") =>
                    (q = p /\ s = "Unschedulable") \/ Holds(d.prebind, q, "Unschedulable")
        BY <1>2, HoldsPut
    <2> QED
        BY <1>2, <1>5, <2>1, <2>2, NoneRefusedIs DEF d, e
<1>6. ~Ended /\ ~Ended' /\ ~Failed /\ Settled
    BY <1>4 DEF Ended, Failed, Settled
<1>7. e.selectedNode = d.selectedNode /\ e.bind = d.bind /\ Plugins # {}
    BY <1>2
<1> QED
    BY <1>3, <1>5, <1>6, <1>7, PluginOutcome DEF d, e

\* The plugin that binds is the first that records it.
LEMMA BindOutcome ==
    ASSUME Shape, Stored(store), OutcomeKnown, NEW p \in Plugins, Bind(p)
    PROVE  OutcomeKnown'
<1>0. PICK s \in FW!Statuses, ran \in BOOLEAN :
        /\ Stored(store') /\ Rejections(Data(store')) = Rejections(Data(store))
        /\ Outcome(Data(store')) = <<Data(store).selectedNode, Data(store).reserve, Data(store).permit, Data(store).prebind,
                                             IF ran THEN Put(Data(store).bind, p, s) ELSE Data(store).bind>>
        /\ ~ran => store' = store
        /\ <<p, "Bind">> \notin Hooked => FW!BindReturned(p, s) /\ (~ran => s = "Skip")
    BY BindRecords
<1> DEFINE d == Data(store)
           e == Data(store')
<1>1. Outcome(e) = <<d.selectedNode, d.reserve, d.permit, d.prebind, IF ran THEN Put(d.bind, p, s) ELSE d.bind>>
    BY <1>0
<1>10. <<p, "Bind">> \notin Hooked => FW!BindReturned(p, s) /\ (~ran => s = "Skip")
    BY <1>0
<1> HIDE DEF d, e
<1>2. /\ e.selectedNode = d.selectedNode /\ e.bind = (IF ran THEN Put(d.bind, p, s) ELSE d.bind)
      /\ e.reserve = d.reserve /\ e.permit = d.permit /\ e.prebind = d.prebind
    BY <1>1 DEF Outcome
<1>3. UNCHANGED <<extStore, whole, node>>
    BY DEF Bind, Rest, FW!BindReturned
<1>4. point = "Bind" /\ point' \in {"Bind", "Unreserve", "PostBind"}
    BY LateActions, UndoIs DEF FW!Pop
<1>5. ~Ended /\ ~Failed /\ Settled
    BY <1>4 DEF Ended, Failed, Settled
<1>6. SUFFICES ASSUME whole'
               PROVE  /\ Settled' => Plugins = {} \/ e.selectedNode = node'
                      /\ Plugins = {} => store' = NoData
                      /\ Unhooked("Bind") => IF Ended' THEN BoundByPlugin' # BoundByExtender'
                                             ELSE ~BoundByPlugin' /\ ~BoundByExtender'
                      /\ ~Failed' => NoneRefused'
    BY OutcomeIsNext DEF e
<1>7. /\ Plugins = {} \/ d.selectedNode = node
      /\ Unhooked("Bind") => ~BoundByPlugin /\ ~BoundByExtender
      /\ NoneRefused
    BY <1>3, <1>5, <1>6, OutcomeIs DEF d
<1>8. NoneRefused'
    BY <1>2, <1>7, NoneRefusedIs DEF d, e
<1>9. ASSUME Unhooked("Bind")
      PROVE  IF Ended' THEN BoundByPlugin' # BoundByExtender' ELSE ~BoundByPlugin' /\ ~BoundByExtender'
    <2>1. FW!BindReturned(p, s) /\ (~ran => s = "Skip")
        BY <1>10, <1>9 DEF Unhooked
    <2>2. Ended' <=> s = "Success"
        <3>1. s = "Success" => point' = "PostBind"
            BY <2>1, UndoIs DEF FW!BindReturned
        <3>2. s = "Skip" => point' = point
            BY <2>1 DEF FW!BindReturned, FW!Pop
        <3>3. s \notin {"Success", "Skip"} => point' = "Unreserve"
            BY <2>1, UndoIs DEF FW!BindReturned
        <3> QED
            BY <1>4, <3>1, <3>2, <3>3 DEF Ended
    <2>3. ~BoundByExtender'
        BY <1>3, <1>7, <1>9 DEF BoundByExtender
    <2>4. \A q \in Plugins : ~Holds(d.bind, q, "Success")
        BY <1>7, <1>9, NoneRefusedIs DEF d
    <2>5. BoundByPlugin' <=> s = "Success"
        <3>1. BoundByPlugin' <=> \E q \in Plugins : Holds(e.bind, q, "Success")
            BY NoneRefusedIs DEF e
        <3>2. CASE ran
            BY <1>2, <2>4, <3>1, <3>2, HoldsPut
        <3>3. CASE ~ran
            BY <1>2, <2>1, <2>4, <3>1, <3>3
        <3> QED
            BY <3>2, <3>3
    <2>6. BoundByPlugin' \in BOOLEAN /\ BoundByExtender' \in BOOLEAN
        BY DEF BoundByPlugin, BoundByExtender
    <2> QED
        BY <2>2, <2>3, <2>5, <2>6
<1> QED
    BY <1>2, <1>3, <1>7, <1>8, <1>9

\* An extender that binds is the first that records it.
LEMMA ExtBindOutcome ==
    ASSUME Shape, Stored(store), ExtStored(extStore), OutcomeKnown, NEW i \in Ids, ExtBind(i)
    PROVE  OutcomeKnown'
<1>1. PICK ok \in BOOLEAN :
        /\ FW!ExtBindReturned(i, ok)
        /\ extStore' = IF ok THEN AddResult(extStore, "bind", i, "bound") ELSE extStore
    BY ExtenderRecords
<1>2. store' = store
    BY ExtendersRecord
<1>3. whole' = whole
    BY DEF ExtBind, Answered
<1>4. node' = node
    BY <1>1 DEF FW!ExtBindReturned
<1>5. point = "ExtBind" /\ point' = IF ok THEN "PostBind" ELSE "Unreserve"
    BY <1>1, LateActions, UndoIs DEF FW!ExtBindReturned
<1>6. Settled /\ ~Ended /\ ~Failed /\ (Ended' <=> ok)
    BY <1>5 DEF Settled, Ended, Failed
<1>7. SUFFICES ASSUME whole'
               PROVE  /\ Settled' => Plugins = {} \/ Data(store').selectedNode = node'
                      /\ Plugins = {} => store' = NoData
                      /\ Unhooked("Bind") => IF Ended' THEN BoundByPlugin' # BoundByExtender'
                                             ELSE ~BoundByPlugin' /\ ~BoundByExtender'
                      /\ ~Failed' => NoneRefused'
    BY OutcomeIsNext
<1>8. /\ Plugins = {} \/ Data(store).selectedNode = node
      /\ Plugins = {} => store = NoData
      /\ Unhooked("Bind") => ~BoundByPlugin /\ ~BoundByExtender
      /\ NoneRefused
    BY <1>3, <1>6, <1>7, OutcomeIs
<1>9. NoneRefused' /\ (BoundByPlugin' <=> BoundByPlugin)
    <2>1. Data(store') = Data(store)
        BY <1>2
    <2> QED
        BY <1>8, <2>1, NoneRefusedIs
<1>10. ASSUME Unhooked("Bind")
       PROVE  BoundByExtender' <=> ok
    <2>1. CASE ok
        <3>1. "bind" \in Verbs /\ "bound" \in Answers("bind")
            BY ExtenderRecords DEF Verbs
        <3>2. Extenders[i].url \in DOMAIN Results(extStore')["bind"]
            BY <1>1, <2>1, <3>1, ResultAdded
        <3> QED
            BY <2>1, <3>2 DEF BoundByExtender
    <2>2. CASE ~ok
        <3>1. Results(extStore') = Results(extStore)
            BY <1>1, <2>2
        <3> QED
            BY <1>8, <1>10, <2>2, <3>1 DEF BoundByExtender
    <2> QED
        BY <2>1, <2>2
<1>11. BoundByPlugin' \in BOOLEAN /\ BoundByExtender' \in BOOLEAN
    BY DEF BoundByPlugin, BoundByExtender
<1> QED
    BY <1>2, <1>4, <1>6, <1>8, <1>9, <1>10, <1>11

LEMMA VoidOutcome ==
    ASSUME Shape, Stored(store), ExtStored(extStore), OutcomeKnown, NEW p \in Plugins,
           PostBind(p) \/ Unreserve(p)
    PROVE  OutcomeKnown'
<1>1. OutcomeSame
    BY PluginsRecord
<1>2. UNCHANGED <<store, whole, node, point>> /\ point \in {"PostBind", "Unreserve"}
    BY LateActions DEF PostBind, Unreserve, Rest, FW!VoidReturned, FW!Pop
<1>3. (Settled' => Settled) /\ (Ended' <=> Ended) /\ (Failed => Failed')
    BY <1>2 DEF Settled, Ended, Failed
<1> QED
    BY <1>1, <1>2, <1>3, OutcomeKept

LEMMA OutcomeStep ==
    ASSUME Shape, Stored(store), ExtStored(extStore), OutcomeKnown, Next
    PROVE  OutcomeKnown'
<1>1. CASE Begin \/ Scheduler
    BY <1>1, BeginOutcome, SchedulerOutcome
<1>2. CASE Reflect
    BY <1>2 DEF Reflect, OutcomeKnown
<1>3. CASE \/ \E p \in Plugins :
                \/ PreFilter(p) \/ PostFilter(p) \/ PreScore(p) \/ NormalizeScore(p)
                \/ \E n \in Nodes : Filter(p, n) \/ Score(p, n) \/ DryRunFilter(p, n)
           \/ \E i \in Ids : ExtFilter(i) \/ ExtPrioritize(i) \/ ExtPreempt(i)
    BY <1>3, EarlyOutcome
<1>4. ASSUME NEW p \in Plugins,
             Reserve(p) \/ Permit(p) \/ PreBind(p) \/ Bind(p) \/ PostBind(p) \/ Unreserve(p)
      PROVE  OutcomeKnown'
    BY <1>4, ReserveOutcome, PermitOutcome, PreBindOutcome, BindOutcome, VoidOutcome
<1>5. ASSUME NEW i \in Ids, ExtBind(i)
      PROVE  OutcomeKnown'
    BY <1>5, ExtBindOutcome
<1> QED
    BY <1>1, <1>2, <1>3, <1>4, <1>5 DEF Next

-----------------------------------------------------------------------------
(***************************************************************************)
(* The results explain the choice of a node.                               *)
(***************************************************************************)

ScoresSame == finalScores' = finalScores /\ priorities' = priorities
Choice == ScoresHeld /\ EachScored /\ DecisionExplained

LEMMA ProfileFinite == IsFiniteSet(Plugins) /\ IsFiniteSet(Ids)
<1>1. Len(Profile) \in Nat /\ DOMAIN Profile = 1 .. Len(Profile) /\ Len(Extenders) \in Nat
    BY ProfileAssumption, ExtenderAssumption
<1>2. IsFiniteSet(1 .. Len(Profile)) /\ IsFiniteSet(1 .. Len(Extenders))
    BY <1>1, FS_Interval
<1>3. Profile \in Surjection(1 .. Len(Profile), Plugins)
    BY <1>1, ProfileAssumption DEF Surjection, Plugins
<1> QED
    BY <1>2, <1>3, FS_Surjection DEF Ids

\* The operations that do not record a score.
LEMMA AddsKeepScores ==
    ASSUME NEW r, Stored(r), NEW p, NEW n, NEW s, NEW b, NEW ns
    PROVE  LET final == Data(r).finalScore
           IN  /\ AddPreFilterResult(r, p, s, b, ns).finalScore = final
               /\ AddFilterResult(r, n, p, s).finalScore = final
               /\ AddPostFilterResult(r, n, p, ns).finalScore = final
               /\ AddPreScoreResult(r, p, s).finalScore = final
               /\ AddSelectedNode(r, n).finalScore = final
               /\ AddReserveResult(r, p, s).finalScore = final
               /\ AddPermitResult(r, p, s).finalScore = final
               /\ AddPreBindResult(r, p, s).finalScore = final
               /\ AddBindResult(r, p, s).finalScore = final
<1> DEFINE d == Data(r)
<1>1. d \in PodResults
    BY DataIs
<1>2. \A v : /\ [d EXCEPT !.filter = v].finalScore = d.finalScore
             /\ [d EXCEPT !.postFilter = v].finalScore = d.finalScore
             /\ [d EXCEPT !.preScore = v].finalScore = d.finalScore
             /\ [d EXCEPT !.selectedNode = v].finalScore = d.finalScore
             /\ [d EXCEPT !.reserve = v].finalScore = d.finalScore
             /\ [d EXCEPT !.permit = v].finalScore = d.finalScore
             /\ [d EXCEPT !.prebind = v].finalScore = d.finalScore
             /\ [d EXCEPT !.bind = v].finalScore = d.finalScore
    <2> HIDE DEF d
    <2> QED
        BY <1>1 DEF PodResults
<1>3. \A v, w : [d EXCEPT !.preFilterStatus = v, !.preFilterResult = w].finalScore = d.finalScore
    <2> HIDE DEF d
    <2> QED
        BY <1>1 DEF PodResults
<1> QED
    BY <1>2, <1>3
    DEF AddPreFilterResult, AddFilterResult, AddPostFilterResult, AddPreScoreResult, AddSelectedNode,
        AddReserveResult, AddPermitResult, AddPreBindResult, AddBindResult

LEMMA NewKeepsScores ==
    ASSUME NEW new \in PodResults, new.finalScore = finalScores, store' = store \/ store' = new
    PROVE  finalScores' = finalScores
<1>1. Data(new) = new
    BY RecordedIs, DataIs DEF Stored
<1> QED
    BY <1>1 DEF finalScores

\* And the actions.
LEMMA PluginsKeepScores ==
    ASSUME Shape, Stored(store), NEW p \in Plugins,
           \/ PreFilter(p) \/ PostFilter(p) \/ PreScore(p) \/ Reserve(p) \/ Permit(p) \/ PreBind(p)
           \/ Bind(p) \/ PostBind(p) \/ Unreserve(p) \/ \E n \in Nodes : Filter(p, n) \/ DryRunFilter(p, n)
    PROVE  ScoresSame
<1>1. extStore' = extStore
    BY DEF PreFilter, PostFilter, PreScore, Reserve, Permit, PreBind, Bind, PostBind, Unreserve,
           Filter, DryRunFilter, Rest
<1>2. priorities' = priorities
    BY <1>1 DEF priorities
<1>3. ASSUME PreFilter(p)
      PROVE  finalScores' = finalScores
    <2>1. PICK w \in Ways(p, "PreFilter", Promise!PreFilterSays, Unran("Success", Nodes)) :
            store' = IF w.ran THEN AddPreFilterResult(store, p, w.said.s, w.said.v # Nodes, w.said.v) ELSE store
        BY <1>3 DEF PreFilter, Recorded, Message
    <2> DEFINE named == w.said.v # Nodes
               new == AddPreFilterResult(store, p, w.said.s, named, w.said.v)
    <2>2. w.ran => w.said.s \in FW!Statuses /\ w.said.v \in SUBSET Nodes
        BY WayRan, StatusesSaid
    <2>3. w.ran => new \in PodResults
        <3>1. named \in BOOLEAN
            OBVIOUS
        <3> HIDE DEF named
        <3> QED
            BY <2>2, <3>1, PreFilterAdded
    <2>4. new.finalScore = finalScores
        BY AddsKeepScores DEF finalScores
    <2> HIDE DEF new
    <2> QED
        BY <2>1, <2>3, <2>4, NewKeepsScores DEF new, finalScores
<1>4. ASSUME NEW n \in Nodes, Filter(p, n) \/ DryRunFilter(p, n)
      PROVE  finalScores' = finalScores
    <2>1. PICK w \in FilterWays(p) :
            store' = IF w.ran THEN AddFilterResult(store, n, p, w.said.s) ELSE store
        BY <1>4 DEF Filter, DryRunFilter, Recorded, Message
    <2> DEFINE new == AddFilterResult(store, n, p, w.said.s)
    <2>2. w.ran => w.said.s \in FW!Statuses
        BY WayRan, StatusesSaid DEF FilterWays
    <2>3. w.ran => new \in PodResults
        BY <2>2, FilterAdded
    <2>4. new.finalScore = finalScores
        BY AddsKeepScores DEF finalScores
    <2> HIDE DEF new
    <2> QED
        BY <2>1, <2>3, <2>4, NewKeepsScores DEF new, finalScores
<1>5. ASSUME PostFilter(p)
      PROVE  finalScores' = finalScores
    <2>1. PICK w : store' = IF w.ran THEN AddPostFilterResult(store, w.said.v, p, Nodes) ELSE store
        BY <1>5 DEF PostFilter, Recorded
    <2> DEFINE new == AddPostFilterResult(store, w.said.v, p, Nodes)
    <2>2. new \in PodResults
        BY PostFilterAdded
    <2>3. new.finalScore = finalScores
        BY AddsKeepScores DEF finalScores
    <2> HIDE DEF new
    <2> QED
        BY <2>1, <2>2, <2>3, NewKeepsScores DEF new, finalScores
<1>6. ASSUME PreScore(p)
      PROVE  finalScores' = finalScores
    <2>1. PICK w \in Ways(p, "PreScore", Promise!PreScoreSays, Unran("Success", "none")) :
            store' = IF w.ran THEN AddPreScoreResult(store, p, w.said.s) ELSE store
        BY <1>6 DEF PreScore, Recorded, Message
    <2> DEFINE new == AddPreScoreResult(store, p, w.said.s)
    <2>2. w.ran => w.said.s \in FW!Statuses
        BY WayRan, StatusesSaid
    <2>3. w.ran => new \in PodResults
        BY <2>2, StatusAdded
    <2>4. new.finalScore = finalScores
        BY AddsKeepScores DEF finalScores
    <2> HIDE DEF new
    <2> QED
        BY <2>1, <2>3, <2>4, NewKeepsScores DEF new, finalScores
<1>7. ASSUME Reserve(p)
      PROVE  finalScores' = finalScores
    <2> DEFINE selected == AddSelectedNode(store, node)
    <2>1. PICK w \in Ways(p, "Reserve", Promise!ReserveSays, Unran("Success", "none")) :
            store' = IF w.ran THEN AddReserveResult(selected, p, w.said.s) ELSE selected
        BY <1>7 DEF Reserve, Message
    <2>2. selected \in PodResults /\ selected.finalScore = finalScores
        BY SelectedNodeAdded, AddsKeepScores, ShapeIs DEF finalScores
    <2> HIDE DEF selected
    <2>3. Stored(selected) /\ Data(selected) = selected
        BY <2>2, RecordedIs
    <2> DEFINE new == AddReserveResult(selected, p, w.said.s)
    <2>4. w.ran => w.said.s \in FW!Statuses
        BY WayRan, StatusesSaid
    <2>5. w.ran => new \in PodResults
        BY <2>3, <2>4, StatusAdded
    <2>6. new.finalScore = finalScores
        BY <2>2, <2>3, AddsKeepScores
    <2> HIDE DEF new
    <2>7. store' = selected \/ (w.ran /\ store' = new)
        BY <2>1 DEF new
    <2> QED
        BY <2>2, <2>5, <2>6, <2>7, NewKeepsScores
<1>8. ASSUME Permit(p)
      PROVE  finalScores' = finalScores
    <2>1. PICK w \in Ways(p, "Permit", Promise!PermitSays, Unran("Success", "none")) :
            store' = IF w.ran THEN AddPermitResult(store, p, w.said.s) ELSE store
        BY <1>8 DEF Permit, Recorded, Message
    <2> DEFINE new == AddPermitResult(store, p, w.said.s)
    <2>2. w.ran => w.said.s \in FW!Statuses
        BY WayRan, StatusesSaid
    <2>3. w.ran => new \in PodResults
        BY <2>2, StatusAdded
    <2>4. new.finalScore = finalScores
        BY AddsKeepScores DEF finalScores
    <2> HIDE DEF new
    <2> QED
        BY <2>1, <2>3, <2>4, NewKeepsScores DEF new, finalScores
<1>9. ASSUME PreBind(p)
      PROVE  finalScores' = finalScores
    <2>1. PICK w \in Ways(p, "PreBind", Promise!PreBindSays, Unran("Success", "none")) :
            store' = IF w.ran THEN AddPreBindResult(store, p, w.said.s) ELSE store
        BY <1>9 DEF PreBind, Recorded, Message
    <2> DEFINE new == AddPreBindResult(store, p, w.said.s)
    <2>2. w.ran => w.said.s \in FW!Statuses
        BY WayRan, StatusesSaid
    <2>3. w.ran => new \in PodResults
        BY <2>2, StatusAdded
    <2>4. new.finalScore = finalScores
        BY AddsKeepScores DEF finalScores
    <2> HIDE DEF new
    <2> QED
        BY <2>1, <2>3, <2>4, NewKeepsScores DEF new, finalScores
<1>10. ASSUME Bind(p)
       PROVE  finalScores' = finalScores
    <2>1. PICK w \in Ways(p, "Bind", Promise!BindSays, Unran("Skip", "none")) :
            store' = IF w.ran THEN AddBindResult(store, p, w.said.s) ELSE store
        BY <1>10 DEF Bind, Recorded, Message
    <2> DEFINE new == AddBindResult(store, p, w.said.s)
    <2>2. w.ran => w.said.s \in FW!Statuses
        BY WayRan, StatusesSaid
    <2>3. w.ran => new \in PodResults
        BY <2>2, StatusAdded
    <2>4. new.finalScore = finalScores
        BY AddsKeepScores DEF finalScores
    <2> HIDE DEF new
    <2> QED
        BY <2>1, <2>3, <2>4, NewKeepsScores DEF new, finalScores
<1>11. PostBind(p) \/ Unreserve(p) => finalScores' = finalScores
    BY DEF PostBind, Unreserve, finalScores
<1> QED
    BY <1>2, <1>3, <1>4, <1>5, <1>6, <1>7, <1>8, <1>9, <1>10, <1>11 DEF ScoresSame

LEMMA ExtendersKeepScores ==
    ASSUME ExtStored(extStore), NEW i \in Ids, ExtFilter(i) \/ ExtBind(i) \/ ExtPreempt(i)
    PROVE  ScoresSame
<1>1. store' = store
    BY ExtendersRecord
<1>2. \/ extStore' = extStore
      \/ \E v \in {"filter", "bind", "preempt"} : \E res \in Answers(v) : extStore' = AddResult(extStore, v, i, res)
    <2>1. ExtFilter(i) => extStore' = extStore \/ \E res \in Answers("filter") : extStore' = AddResult(extStore, "filter", i, res)
        BY ExtenderRecords
    <2>2. ExtBind(i) => extStore' = extStore \/ extStore' = AddResult(extStore, "bind", i, "bound")
        BY ExtenderRecords
    <2>3. ExtPreempt(i) => extStore' = AddResult(extStore, "preempt", i, "victims")
        BY ExtenderRecords
    <2> QED
        BY <2>1, <2>2, <2>3, ExtenderRecords
<1>3. "prioritize" \in Verbs /\ {"filter", "bind", "preempt"} \subseteq Verbs
    BY DEF Verbs
<1>4. priorities' = priorities
    <2>1. ASSUME NEW v \in {"filter", "bind", "preempt"}, NEW res \in Answers(v),
                 extStore' = AddResult(extStore, v, i, res)
          PROVE  priorities' = priorities
        <3> DEFINE new == AddResult(extStore, v, i, res)
        <3>1. Results(new) = new /\ \A u \in Verbs \ {v} : new[u] = Results(extStore)[u]
            BY <1>3, ResultAdded
        <3>2. "prioritize" \in Verbs \ {v}
            BY <1>3
        <3> HIDE DEF new
        <3>3. Results(extStore')["prioritize"] = Results(extStore)["prioritize"]
            BY <2>1, <3>1, <3>2 DEF new
        <3> QED
            BY <3>3 DEF priorities
    <2> QED
        BY <1>2, <2>1 DEF priorities
<1> QED
    BY <1>1, <1>4 DEF ScoresSame, finalScores

\* The scheduler's sums are sums.
LEMMA SumsAgree == \A f, S : FW!SumFunctionOnSet(f, S) = SumFunctionOnSet(f, S)
BY DEF FW!SumFunctionOnSet, SumFunctionOnSet, FW!FoldFunctionOnSet, FoldFunctionOnSet,
       FW!MapThenFoldSet, MapThenFoldSet

LEMMA ZeroSum ==
    ASSUME NEW S, IsFiniteSet(S), NEW f, \A x \in S : f[x] = 0
    PROVE  SumFunctionOnSet(f, S) = 0
<1>1. SumFunctionOnSet(f, {}) = SumFunctionOnSet(f, S)
    BY SumSame
<1>2. SumFunctionOnSet(f, {}) = 0
    BY SumSplits
<1> QED
    BY <1>1, <1>2

\* What the invariants read of the stores.
LEMMA ScoresAre ==
    ASSUME Stored(store), ExtStored(extStore)
    PROVE  /\ finalScores \in NodeMap(Weighted)
           /\ priorities \in MapOf(Urls, Ranked)
           /\ DOMAIN finalScores \subseteq Nodes
           /\ \A n \in Nodes : At(finalScores, n) \in MapOf(Plugins, Weighted)
<1>1. finalScores \in MapOf(Nodes, MapOf(Plugins, Weighted))
    BY DataIs, FieldsAre DEF finalScores, NodeMap
<1>2. priorities \in MapOf(Urls, Ranked)
    <2>1. "prioritize" \in Verbs /\ Answers("prioritize") = Ranked
        BY DEF Verbs, Answers
    <2> QED
        BY <2>1, ResultsIs, ExtResultsAre DEF priorities
<1> DEFINE M == MapOf(Plugins, Weighted)
<1>3. \A n : At(finalScores, n) \in M
    BY <1>1, AtIs
<1> HIDE DEF M
<1>4. DOMAIN finalScores \subseteq Nodes
    BY <1>1, MapIs DEF M
<1> QED
    BY <1>1, <1>2, <1>3, <1>4 DEF NodeMap, M

LEMMA CountedIs ==
    ASSUME Stored(store), ExtStored(extStore), NEW i \in Ids, NEW n \in Nodes
    PROVE  Counted(i, n) \in Nat
<1>1. PICK D \in SUBSET Urls : priorities \in [D -> Ranked]
    BY ScoresAre, MapIs
<1>2. ExtWeight[i] \in Nat /\ Scale \in Nat
    BY FrameworkHolds DEF FW!FrameworkAssumption
<1>3. \A x, y \in Nat : x * y \in Nat
    OBVIOUS
<1>4. \A r \in Ranked : r[n] \in Nat
    <2>1. SUFFICES ASSUME NEW j \in Ids, NEW v \in Priorities
                   PROVE  Ranks(j, v)[n] \in Nat
        BY DEF Ranked
    <2>2. v[n] \in Nat
        BY CycleAssumption
    <2> QED
        BY <2>2, FactorOut DEF Ranks
<1> DEFINE u == Extenders[i].url
<1>5. CASE u \in DOMAIN priorities
    <2>1. priorities[u][n] \in Nat
        BY <1>1, <1>4, <1>5
    <2>2. priorities[u][n] * ExtWeight[i] * Scale \in Nat
        BY <1>2, <1>3, <2>1
    <2> QED
        BY <1>5, <2>2 DEF Counted
<1>6. CASE u \notin DOMAIN priorities
    BY <1>6 DEF Counted
<1> QED
    BY <1>5, <1>6

\* The invariants, where there is something to explain.
Held ==
    /\ point \in BeforeScore => DOMAIN finalScores = {}
    /\ point \in Scoring => node = NoNode /\ DOMAIN finalScores \subseteq alive /\ RecordedScores
    /\ point \in Scoring \ {"ExtPrioritize"} => DOMAIN priorities = {}
Each ==
    /\ point = "Score" =>
        /\ \A n \in Nodes : lane[n] # <<>> => n \in alive
        /\ \A n \in Nodes, p \in skipped : ~ToScore(n, p)
        /\ \A n \in alive, p \in Plugins \ skipped :
            Original(p, "Score") => p \in DOMAIN At(finalScores, n) \/ ToScore(n, p)
        /\ DOMAIN finalScores # {} => \E p \in Plugins \ skipped : Original(p, "Score")
    /\ point \in {"Normalize", "ExtPrioritize"} => DOMAIN finalScores \in {{}, alive}
    /\ point = "ExtPrioritize" =>
        \A k \in DOMAIN todo : Extenders[todo[k]].url \notin DOMAIN priorities
Decided ==
    node # NoNode /\ DOMAIN finalScores # {} =>
        /\ node \in DOMAIN finalScores
        /\ \A n \in DOMAIN finalScores : Explained(n) <= Explained(node)

LEMMA ChoiceIs == Choice <=> (Explaining => Held /\ Each /\ Decided)
<1>1. ScoresHeld <=> (Explaining => Held)
    BY DEF ScoresHeld, Held
<1>2. EachScored <=> (Explaining => Each)
    BY DEF EachScored, Each
<1>3. DecisionExplained <=> (Explaining => Decided)
    BY DEF DecisionExplained, Decided
<1> QED
    BY <1>1, <1>2, <1>3 DEF Choice

\* What is assumed of the parameters stays.
Known == WeightsKnown /\ Unhooked("Score") /\ Unhooked("Normalize") /\ OneUrlEach

LEMMA ChoiceNext ==
    ASSUME Choice, whole' => whole,
           whole /\ Known /\ Held /\ Each /\ Decided => Held' /\ Each' /\ Decided'
    PROVE  Choice'
<1>1. Choice' <=> (Explaining' => Held' /\ Each' /\ Decided')
    BY ChoiceIs DEF Choice, ScoresHeld, EachScored, DecisionExplained, Held, Each, Decided
<1>2. Explaining' => Explaining
    BY DEF Explaining, WeightsKnown, Unhooked, OneUrlEach
<1>3. Explaining => whole /\ Known
    BY DEF Explaining, Known
<1> QED
    BY <1>1, <1>2, <1>3, ChoiceIs

\* What a step reads of the stores if it records no score.
LEMMA ScoresRead ==
    ASSUME ScoresSame
    PROVE  /\ finalScores' = finalScores /\ priorities' = priorities
           /\ \A n : At(finalScores, n)' = At(finalScores, n)
           /\ \A i, n : Counted(i, n)' = Counted(i, n)
           /\ \A n : Explained(n)' = Explained(n)
<1>1. finalScores' = finalScores /\ priorities' = priorities
    BY DEF ScoresSame
<1>2. \A n : At(finalScores, n)' = At(finalScores, n)
    BY <1>1 DEF At
<1>3. \A i, n : Counted(i, n)' = Counted(i, n)
    BY <1>1 DEF Counted
<1>4. \A n : [i \in Ids |-> Counted(i, n)'] = [i \in Ids |-> Counted(i, n)]
    BY <1>3
<1>5. \A n : Explained(n)' = Explained(n)
    BY <1>1, <1>4 DEF Explained
<1> QED
    BY <1>1, <1>2, <1>3, <1>5

LEMMA RecordedKept ==
    ASSUME RecordedScores, ScoresSame, UNCHANGED <<score, extScore>>, alive' \subseteq alive
    PROVE  RecordedScores'
<1>1. /\ finalScores' = finalScores
      /\ \A n : At(finalScores, n)' = At(finalScores, n)
      /\ \A n : [i \in Ids |-> Counted(i, n)'] = [i \in Ids |-> Counted(i, n)]
    BY ScoresRead
<1> QED
    BY <1>1 DEF RecordedScores

\* It keeps what is known of the scores if it does not go on with the scoring.
LEMMA ChoiceKept ==
    ASSUME Choice, ScoresSame, whole' => whole, UNCHANGED <<score, extScore, node>>, alive' \subseteq alive,
           \/ point' \notin Scoring
           \/ point' \in BeforeScore /\ point \in BeforeScore
           \/ UNCHANGED <<point, todo, lane, alive, skipped>>
    PROVE  Choice'
<1> SUFFICES ASSUME Held, Each, Decided
             PROVE  Held' /\ Each' /\ Decided'
    BY ChoiceNext
<1>1. BeforeScore \subseteq Scoring /\ {"Score", "Normalize", "ExtPrioritize"} \subseteq Scoring
      /\ {"Score", "Normalize", "ExtPrioritize"} \cap BeforeScore = {}
    BY DEF BeforeScore, Scoring
<1>2. Held'
    <2>1. point' \in Scoring => point \in Scoring /\ RecordedScores'
        BY <1>1, RecordedKept DEF Held
    <2>2. point' \in Scoring =>
            node' = NoNode /\ DOMAIN finalScores' \subseteq alive' /\ RecordedScores'
        BY <1>1, <2>1, ScoresRead DEF Held
    <2> QED
        BY <1>1, <2>2, ScoresRead DEF Held
<1>3. Each'
    <2>1. CASE point' \notin {"Score", "Normalize", "ExtPrioritize"}
        BY <2>1 DEF Each
    <2>2. CASE UNCHANGED <<point, todo, lane, alive, skipped>>
        <3>1. \A n, p : ToScore(n, p)' <=> ToScore(n, p)
            BY <2>2 DEF ToScore
        <3> QED
            BY <2>2, <3>1, ScoresRead DEF Each
    <2> QED
        BY <1>1, <2>1, <2>2
<1>4. Decided'
    BY ScoresRead DEF Decided
<1> QED
    BY <1>2, <1>3, <1>4

LEMMA BeginChoice ==
    ASSUME Begin
    PROVE  Choice'
<1>1. /\ whole' = (store = NoData /\ extStore = NoResults) /\ store' = store /\ extStore' = extStore
      /\ node' = NoNode /\ point' = "PreFilter" /\ alive' = Nodes
      /\ score' = FW!NoScore /\ extScore' = [n \in Nodes |-> 0]
    BY DEF Begin, FW!Begin, FW!Enter
<1> SUFFICES ASSUME whole'
             PROVE  (ScoresHeld /\ EachScored /\ DecisionExplained)'
    BY DEF Choice, ScoresHeld, EachScored, DecisionExplained, Explaining
<1>2. finalScores' = EmptyMap /\ DOMAIN EmptyMap = {}
    BY <1>1 DEF finalScores, Data, newData, EmptyMap
<1>3. DOMAIN priorities' = {}
    <2>1. Results(extStore') = emptyResults
        BY <1>1 DEF Results
    <2>2. DOMAIN emptyResults["prioritize"] = {}
        BY DEF emptyResults, Verbs
    <2> QED
        BY <2>1, <2>2 DEF priorities
<1>4. RecordedScores'
    <2>1. SUFFICES ASSUME NEW n \in Nodes
                   PROVE  /\ \A p \in Plugins : p \notin DOMAIN At(finalScores, n)' /\ score'[p][n] = 0
                          /\ extScore'[n] = SumFunctionOnSet([i \in Ids |-> Counted(i, n)'], Ids)
        BY <1>1 DEF RecordedScores
    <2>2. At(finalScores, n)' = EmptyMap
        BY <1>2 DEF At
    <2>3. \A i \in Ids : Counted(i, n)' = 0
        BY <1>3 DEF Counted
    <2>4. SumFunctionOnSet([i \in Ids |-> Counted(i, n)'], Ids) = 0
        BY <2>3, ZeroSum, ProfileFinite
    <2> QED
        BY <1>1, <1>2, <2>2, <2>4, NoScoreIs
<1> QED
    BY <1>1, <1>2, <1>3, <1>4 DEF ScoresHeld, EachScored, DecisionExplained, Scoring, BeforeScore

\* The nodes' recorded scores are what the scheduler compares.
LEMMA ExplainedTotal ==
    ASSUME Shape, Stored(store), ExtStored(extStore), RecordedScores, NEW n \in alive, n \in DOMAIN finalScores
    PROVE  Explained(n) = FW!Total(n)
<1> DEFINE f == finalScores[n]
           g == [p \in Plugins |-> Weight[p] * score[p][n]]
           E == SumFunctionOnSet([i \in Ids |-> Counted(i, n)], Ids)
           T == DOMAIN f
<1>1. n \in Nodes /\ At(finalScores, n) = f
    BY ShapeIs DEF At
<1>2. T \subseteq Plugins
    BY <1>1, ScoresAre, MapIs
<1>3. \A p \in Plugins : Weight[p] \in Nat /\ score[p][n] \in Nat /\ Weight[p] * 0 = 0
    BY <1>1, ShapeIs, ProfileAssumption
<1>4. \A p \in Plugins : g[p] \in Nat
    <2>1. \A x, y \in Nat : x * y \in Nat
        OBVIOUS
    <2> QED
        BY <1>3, <2>1
<1>5. \A p \in Plugins : IF p \in T THEN f[p] = g[p] ELSE g[p] = 0
    BY <1>1, <1>3 DEF RecordedScores
<1>6. extScore[n] = E
    BY DEF RecordedScores
<1> HIDE DEF g, f, E
<1>7. SumFunctionOnSet(f, T) = SumFunctionOnSet(g, Plugins)
    BY <1>2, <1>4, <1>5, SumSame, ProfileFinite
<1>8. SumFunctionOnSet(g, Plugins) \in Nat
    BY <1>4, SumSplits, ProfileFinite
<1>9. E \in Nat
    BY <1>1, <1>6, ShapeIs
<1>10. FW!Total(n) = extScore[n] + SumFunctionOnSet(g, Plugins)
    BY SumsAgree DEF FW!Total, g
<1>11. Explained(n) = SumFunctionOnSet(f, T) + E
    BY DEF Explained, f, E
<1> QED
    BY <1>6, <1>7, <1>8, <1>9, <1>10, <1>11

\* Who scores the nodes.
LEMMA ScoreLanes ==
    ASSUME Shape, FW!Enter("Score", alive, skipped), UNCHANGED <<alive, skipped>>
    PROVE  /\ \A n \in Nodes : lane'[n] # <<>> => n \in alive'
           /\ \A n \in Nodes, p \in skipped' : ~ToScore(n, p)'
           /\ \A n \in alive', p \in Plugins \ skipped' : ToScore(n, p)'
<1> DEFINE S == (Plugins \cup Ids) \ skipped
           called == Selected(Profile, S)
<1>1. FW!Called("Score", alive, skipped) = called
    <2>1. ListAt["Score"] = Profile
        BY Lists DEF PluginPoints
    <2>2. FW!Called("Score", alive, skipped) = FW!Selected(ListAt["Score"], (Plugins \cup Ids) \ skipped)
        BY DEF FW!Called, FW!NodePoints
    <2> QED
        BY <2>1, <2>2, SelectionsAgree
<1>2. lane' = [n \in Nodes |-> IF n \in alive THEN called ELSE <<>>]
    <2>1. lane' = [n \in Nodes |-> IF "Score" \in FW!NodePoints /\ n \in alive
                                   THEN FW!Called("Score", alive, skipped) ELSE <<>>]
        BY DEF FW!Enter
    <2>2. "Score" \in FW!NodePoints
        BY DEF FW!NodePoints
    <2> HIDE DEF called
    <2> QED
        BY <1>1, <2>1, <2>2
<1>3. Profile \in Seq(Plugins) /\ Plugins = {Profile[k] : k \in DOMAIN Profile}
    BY ProfileAssumption DEF Plugins
<1>4. {called[k] : k \in DOMAIN called} = Plugins \cap S
    <2> DEFINE L == Profile
               U == S
    <2>1. L \in Seq(Plugins) /\ {L[k] : k \in DOMAIN L} = Plugins
        BY <1>3
    <2> HIDE DEF L, U
    <2>2. ToSet(Selected(L, U)) = ToSet(L) \cap U
        BY <2>1, SelectedElements
    <2>3. \A s : ToSet(s) = {s[k] : k \in DOMAIN s}
        BY DEF ToSet
    <2> QED
        BY <2>1, <2>2, <2>3 DEF L, U
<1> HIDE DEF called
<1>5. \A p : (\E k \in DOMAIN called : called[k] = p) <=> p \in Plugins /\ p \notin skipped
    BY <1>4
<1>6. \A n \in Nodes : \A p : ToScore(n, p)' <=> n \in alive /\ p \in Plugins /\ p \notin skipped
    <2>1. SUFFICES ASSUME NEW n \in Nodes, NEW p
                   PROVE  (\E k \in DOMAIN lane'[n] : lane'[n][k] = p)
                            <=> n \in alive /\ p \in Plugins /\ p \notin skipped
        BY DEF ToScore
    <2>2. CASE n \in alive
        <3>1. lane'[n] = called
            BY <1>2, <2>2
        <3> QED
            BY <1>5, <2>2, <3>1
    <2>3. CASE n \notin alive
        <3>1. lane'[n] = <<>> /\ DOMAIN <<>> = {}
            BY <1>2, <2>3
        <3> QED
            BY <2>3, <3>1
    <2> QED
        BY <2>2, <2>3
<1> QED
    BY <1>2, <1>6, ShapeIs

\* The scheduler goes on from scoring to the next point.
LEMMA AdvanceChoice ==
    ASSUME Shape, Stored(store), ExtStored(extStore), Choice, FW!Advance,
           UNCHANGED <<store, extStore, whole>>
    PROVE  Choice'
<1>1. PICK bound \in {FALSE, ListAt["ExtBind"] # <<>>} :
        LET to == FW!After(point, bound)
        IN  /\ IF to \in FW!Points THEN FW!Enter(to, alive, skipped) ELSE FW!Done(to)
            /\ IF to = "Reserve"
               THEN node' \in FW!Best /\ score' = FW!NoScore /\ extScore' = [n \in Nodes |-> 0]
               ELSE UNCHANGED <<node, score, extScore>>
            /\ skipped' = IF to = "PreScore" THEN {} ELSE skipped
    BY DEF FW!Advance
<1> DEFINE to == FW!After(point, bound)
<1>2. point \in FW!Points /\ todo = <<>> /\ lane = [n \in Nodes |-> <<>>] /\ alive' = alive
    BY DEF FW!Advance, FW!Drained, FW!NoLane
<1>3. ScoresSame
    BY DEF ScoresSame, finalScores, priorities
<1>4. point' = to
    BY <1>1 DEF FW!Enter, FW!Done
<1>5. /\ to \in BeforeScore => point \in BeforeScore
      /\ to = "Score" => point = "PreScore"
      /\ to = "Normalize" => point = "Score"
      /\ to = "ExtPrioritize" => point = "Normalize"
      /\ to = "Reserve" => point \in {"ExtFilter", "ExtPrioritize"}
    BY <1>2 DEF FW!After, FW!Points, BeforeScore
<1>6. {"ExtFilter", "PreScore"} \subseteq BeforeScore /\ BeforeScore \subseteq Scoring
      /\ Scoring = BeforeScore \cup {"Score", "Normalize", "ExtPrioritize"}
      /\ {"Score", "Normalize", "ExtPrioritize"} \cap BeforeScore = {}
      /\ {"Score", "Normalize", "ExtPrioritize"} \subseteq FW!Points
      /\ "Reserve" \notin Scoring
    BY DEF BeforeScore, Scoring, FW!Points
<1>7. to \in FW!Points => FW!Enter(to, alive, skipped)
    BY <1>1
<1>8. to # "Reserve" => UNCHANGED <<node, score, extScore>>
    BY <1>1
<1>9. to # "PreScore" => skipped' = skipped
    BY <1>1
<1>10. to = "Reserve" => node' \in FW!Best
    BY <1>1
<1> HIDE DEF to
<1>11. CASE to \in BeforeScore \/ (to \notin Scoring /\ to # "Reserve")
    BY <1>2, <1>3, <1>4, <1>5, <1>6, <1>8, <1>11, ChoiceKept
<1>12. ASSUME to \in {"Score", "Normalize", "ExtPrioritize"}, Held, Each, Decided
       PROVE  Held' /\ Decided'
    <2>1. point \in Scoring /\ UNCHANGED <<node, score, extScore>> /\ to \notin BeforeScore
          /\ (to \in Scoring \ {"ExtPrioritize"} => point \in Scoring \ {"ExtPrioritize"})
        BY <1>5, <1>6, <1>8, <1>12
    <2>2. RecordedScores'
        BY <1>2, <1>3, <1>12, <2>1, RecordedKept DEF Held
    <2> QED
        BY <1>2, <1>3, <1>4, <1>12, <2>1, <2>2, ScoresRead DEF Held, Decided
<1>13. ASSUME to = "Score", Held
       PROVE  Each'
    <2>1. DOMAIN finalScores = {}
        BY <1>5, <1>6, <1>13 DEF Held
    <2>2. skipped' = skipped /\ FW!Enter("Score", alive, skipped)
        BY <1>6, <1>7, <1>9, <1>13
    <2> QED
        BY <1>2, <1>3, <1>4, <1>13, <2>1, <2>2, ScoreLanes, ScoresRead DEF Each
<1>14. ASSUME to = "Normalize", Held, Each
       PROVE  Each'
    <2>1. \A n \in Nodes : \A p : ~ToScore(n, p)
        BY <1>2 DEF ToScore
    <2>2. \A n \in alive, p \in Plugins \ skipped : Original(p, "Score") => p \in DOMAIN At(finalScores, n)
        BY <1>5, <1>14, <2>1, ShapeIs DEF Each
    <2>3. \A n : n \notin DOMAIN finalScores => DOMAIN At(finalScores, n) = {}
        BY DEF At, EmptyMap
    <2>4. DOMAIN finalScores # {} => alive \subseteq DOMAIN finalScores
        BY <1>5, <1>14, <2>2, <2>3 DEF Each
    <2>5. DOMAIN finalScores \subseteq alive
        BY <1>5, <1>6, <1>14 DEF Held
    <2>6. DOMAIN finalScores \in {{}, alive}
        BY <2>4, <2>5
    <2> QED
        BY <1>2, <1>3, <1>4, <1>14, <2>6, ScoresRead DEF Each
<1>15. ASSUME to = "ExtPrioritize", Held, Each
       PROVE  Each'
    <2>1. DOMAIN finalScores \in {{}, alive} /\ DOMAIN priorities = {}
        BY <1>5, <1>6, <1>15 DEF Held, Each
    <2> QED
        BY <1>2, <1>3, <1>4, <1>15, <2>1, ScoresRead DEF Each
<1>16. ASSUME to = "Reserve", Held, Each
       PROVE  Held' /\ Each' /\ Decided'
    <2>1. Held' /\ Each'
        BY <1>4, <1>6, <1>16 DEF Held, Each
    <2>2. CASE DOMAIN finalScores = {}
        BY <1>3, <2>1, <2>2, ScoresRead DEF Decided
    <2>3. CASE DOMAIN finalScores # {}
        <3>1. point = "ExtPrioritize"
            BY <1>5, <1>6, <1>16, <2>3 DEF Held
        <3>2. DOMAIN finalScores = alive /\ RecordedScores
            BY <1>6, <1>16, <2>3, <3>1 DEF Held, Each
        <3>3. \A n \in alive : Explained(n) = FW!Total(n)
            BY <3>2, ExplainedTotal
        <3>4. node' \in alive /\ \A n \in alive : FW!Total(n) <= FW!Total(node')
            BY <1>10, <1>16 DEF FW!Best
        <3>5. \A n \in alive : Explained(n) <= Explained(node')
            BY <3>3, <3>4
        <3>6. finalScores' = finalScores /\ \A n : Explained(n)' = Explained(n)
            BY <1>3, ScoresRead
        <3> DEFINE best == node'
                   E(n) == Explained(n)
        <3>7. Decided'
            BY <3>2, <3>4, <3>5, <3>6 DEF Decided
        <3> QED
            BY <2>1, <3>7
    <2> QED
        BY <2>2, <2>3
<1>17. CASE to \in {"Score", "Normalize", "ExtPrioritize", "Reserve"}
    <2> SUFFICES ASSUME Held, Each, Decided
                 PROVE  Held' /\ Each' /\ Decided'
        BY ChoiceNext
    <2> QED
        BY <1>12, <1>13, <1>14, <1>15, <1>16, <1>17
<1> QED
    BY <1>6, <1>11, <1>17

\* Recording scores.
LEMMA FinalScoresAdded ==
    ASSUME NEW r, Stored(r), NEW ns, NEW p, NEW v
    PROVE  LET old == Data(r).finalScore
               new == AddNormalizedScoreResult(r, ns, p, v).finalScore
           IN  /\ DOMAIN new = DOMAIN old \cup ns
               /\ \A n : At(new, n) = IF n \in ns THEN Put(At(old, n), p, applyWeightOnScore(p, v[n]))
                                                  ELSE At(old, n)
<1> DEFINE d == Data(r)
           old == d.finalScore
           new == [n \in DOMAIN old \cup ns |->
                      IF n \in ns THEN Put(At(old, n), p, applyWeightOnScore(p, v[n])) ELSE old[n]]
<1>1. d \in PodResults
    BY DataIs
<1>2. AddNormalizedScoreResult(r, ns, p, v) = [d EXCEPT !.finalScore = new]
    BY <1>1 DEF AddNormalizedScoreResult, PodResults
<1>3. [d EXCEPT !.finalScore = new].finalScore = new
    <2> HIDE DEF d, new
    <2> QED
        BY <1>1 DEF PodResults
<1>4. \A n : At(new, n) = IF n \in ns THEN Put(At(old, n), p, applyWeightOnScore(p, v[n])) ELSE At(old, n)
    BY DEF At
<1> HIDE DEF d, old, new
<1>5. DOMAIN new = DOMAIN old \cup ns
    BY DEF new
<1> QED
    BY <1>2, <1>3, <1>4, <1>5 DEF d, old

LEMMA ScoreRecorded ==
    ASSUME NEW r, Stored(r), NEW n \in Nodes, NEW p \in Plugins, NEW v \in 0 .. MaxScore
    PROVE  LET old == Data(r).finalScore
               new == AddScoreResult(r, n, p, v).finalScore
           IN  /\ DOMAIN new = DOMAIN old \cup {n}
               /\ \A m : At(new, m) = IF m = n THEN Put(At(old, n), p, applyWeightOnScore(p, v)) ELSE At(old, m)
<1> DEFINE d == Data(r)
           score1 == Put2(d.score, n, p, v)
           scored == [d EXCEPT !.score = score1]
<1>1. d \in PodResults
    BY DataIs
<1>2. AddScoreResult(r, n, p, v) = AddNormalizedScoreResult(scored, {n}, p, [m \in {n} |-> v])
    BY <1>1 DEF AddScoreResult, PodResults
<1> HIDE DEF d
<1>3. score1 \in NodeMap(0 .. MaxScore)
    BY <1>1, FieldsAre, Put2Is DEF NodeMap
<1>4. scored \in PodResults /\ scored.finalScore = d.finalScore
    <2> HIDE DEF score1
    <2> QED
        BY <1>1, <1>3 DEF PodResults
<1> HIDE DEF scored
<1>5. Stored(scored) /\ Data(scored) = scored
    BY <1>4, DataIs DEF Stored
<1>6. LET new == AddNormalizedScoreResult(scored, {n}, p, [m \in {n} |-> v]).finalScore
      IN  /\ DOMAIN new = DOMAIN scored.finalScore \cup {n}
          /\ \A m : At(new, m) = IF m \in {n} THEN Put(At(scored.finalScore, m), p, applyWeightOnScore(p, [x \in {n} |-> v][m]))
                                            ELSE At(scored.finalScore, m)
    BY <1>5, FinalScoresAdded
<1> QED
    BY <1>2, <1>4, <1>6 DEF d

\* A plugin's scores of some nodes change, in the scheduler and in the results.
Grows(ns, p, v) ==
    /\ \A n \in ns \cap alive : v[n] \in Nat
    /\ \A n \in alive : \A q \in Plugins : score'[q][n] = IF q = p /\ n \in ns THEN v[n] ELSE score[q][n]
    /\ \A n \in alive : At(finalScores', n) =
            IF n \in ns THEN Put(At(finalScores, n), p, applyWeightOnScore(p, v[n])) ELSE At(finalScores, n)

LEMMA RecordedGrows ==
    ASSUME Shape, RecordedScores, Known, UNCHANGED <<alive, extStore, extScore>>,
           NEW ns, NEW p \in Plugins, NEW v, Grows(ns, p, v)
    PROVE  RecordedScores'
<1>1. SUFFICES ASSUME NEW n \in alive
               PROVE  /\ \A q \in Plugins : IF q \in DOMAIN At(finalScores', n)
                                            THEN finalScores'[n][q] = Weight[q] * score'[q][n]
                                            ELSE score'[q][n] = 0
                      /\ extScore'[n] = SumFunctionOnSet([i \in Ids |-> Counted(i, n)'], Ids)
    BY DEF RecordedScores, At
<1>2. extScore'[n] = SumFunctionOnSet([i \in Ids |-> Counted(i, n)'], Ids)
    <2>1. priorities' = priorities
        BY DEF priorities
    <2>2. [i \in Ids |-> Counted(i, n)'] = [i \in Ids |-> Counted(i, n)]
        BY <2>1 DEF Counted
    <2> QED
        BY <2>2 DEF RecordedScores
<1> DEFINE a == At(finalScores, n)
           b == At(finalScores', n)
<1>3. /\ \A q \in DOMAIN a : finalScores[n][q] = a[q]
      /\ \A q \in DOMAIN b : finalScores'[n][q] = b[q]
    BY DEF At, EmptyMap
<1>4. \A q \in Plugins : IF q \in DOMAIN a THEN a[q] = Weight[q] * score[q][n] ELSE score[q][n] = 0
    BY <1>3 DEF RecordedScores
<1> DEFINE c == applyWeightOnScore(p, v[n])
<1>5. n \in ns => c = Weight[p] * v[n]
    <2>1. Weight[p] \in Nat /\ p \in DOMAIN StoreWeight /\ StoreWeight[p] = Weight[p]
        BY ProfileAssumption DEF Known, WeightsKnown
    <2> QED
        BY <2>1 DEF applyWeightOnScore, Grows
<1>6. /\ n \in ns => /\ DOMAIN b = DOMAIN a \cup {p} /\ b[p] = Weight[p] * v[n]
                     /\ \A q \in DOMAIN a : q # p => b[q] = a[q]
      /\ n \notin ns => b = a
    <2>1. b = IF n \in ns THEN Put(a, p, c) ELSE a
        BY DEF Grows
    <2> HIDE DEF a, b, c
    <2>2. /\ DOMAIN Put(a, p, c) = DOMAIN a \cup {p} /\ Put(a, p, c)[p] = c
          /\ \A q \in DOMAIN a : q # p => Put(a, p, c)[q] = a[q]
        BY DEF Put
    <2> QED
        BY <1>5, <2>1, <2>2
<1> HIDE DEF a, b
<1>7. \A q \in Plugins : IF q \in DOMAIN b THEN b[q] = Weight[q] * score'[q][n] ELSE score'[q][n] = 0
    <2>1. SUFFICES ASSUME NEW q \in Plugins
                   PROVE  IF q \in DOMAIN b THEN b[q] = Weight[q] * score'[q][n] ELSE score'[q][n] = 0
        OBVIOUS
    <2>2. score'[q][n] = IF q = p /\ n \in ns THEN v[n] ELSE score[q][n]
        BY DEF Grows
    <2>3. CASE q = p /\ n \in ns
        BY <1>6, <2>2, <2>3
    <2>4. CASE ~(q = p /\ n \in ns)
        <3>1. (q \in DOMAIN b <=> q \in DOMAIN a) /\ (q \in DOMAIN b => b[q] = a[q])
            BY <1>6, <2>4
        <3> QED
            BY <1>4, <2>2, <2>4, <3>1
    <2> QED
        BY <2>3, <2>4
<1> QED
    BY <1>2, <1>3, <1>7 DEF b

\* The scores are recorded as the scheduler gets them.
LEMMA ScoreChoice ==
    ASSUME Shape, Stored(store), ExtStored(extStore), Choice, NEW p \in Plugins, NEW n \in Nodes, Score(p, n)
    PROVE  Choice'
<1> SUFFICES ASSUME Known, Held, Each, Decided
             PROVE  Held' /\ Each' /\ Decided'
    <2>1. whole' = whole
        BY DEF Score, Rest
    <2> QED
        BY <2>1, ChoiceNext
<1>1. PICK w \in Ways(p, "Score", Promise!ScoreSays(p, n), Unran("Success", 0)) :
        /\ FW!ScoreReturned(p, n, w.s, w.v)
        /\ store' = IF w.ran THEN IF w.said.s = "Success" THEN AddScoreResult(store, n, p, w.said.v) ELSE store
                    ELSE store
        /\ extStore' = extStore
    BY DEF Score, Recorded, Rest
<1>2. /\ point = "Score" /\ lane[n] # <<>> /\ p = Head(lane[n])
      /\ score' = [score EXCEPT ![p][n] = w.v]
      /\ IF w.s = "Success" THEN lane' = [lane EXCEPT ![n] = Tail(@)] /\ UNCHANGED <<point, todo>>
                            ELSE FW!Done("Idle")
      /\ UNCHANGED <<alive, skipped, waiting, extScore, node, cycles>>
    BY <1>1 DEF FW!ScoreReturned
<1>3. w.v \in 0 .. MaxScore /\ (w.ran => w.said.v \in 0 .. MaxScore)
    BY ScoreGiven
<1>4. /\ Original(p, "Score") <=> w.ran
      /\ w.ran => w.s = w.said.s /\ w.v = w.said.v
      /\ ~w.ran => w.s = "Success" /\ w.v = 0
    <2>1. <<p, "Score">> \notin Hooked
        BY DEF Known, Unhooked
    <2> DEFINE says == Promise!ScoreSays(p, n)
               neutral == Unran("Success", 0)
    <2>2. ~neutral.ran /\ w \in Ways(p, "Score", says, neutral)
        BY DEF Unran
    <2>3. Original(p, "Score") <=> w.ran
        <3> HIDE DEF says, neutral
        <3>1. (~Original(p, "Score") /\ w = neutral) \/ (Original(p, "Score") /\ w.ran)
            BY <2>1, <2>2, WaysSay, Zenon
        <3> QED
            BY <2>2, <3>1
    <2>4. IF w.ran THEN w.s = w.said.s /\ w.v = w.said.v ELSE w.s = "Success" /\ w.v = 0
        BY <2>1, WayRan
    <2> QED
        BY <2>3, <2>4
<1>5. {"Score"} \cap BeforeScore = {} /\ "Score" \in Scoring \ {"ExtPrioritize"} /\ "Idle" \notin Scoring
      /\ BeforeScore \subseteq Scoring
    BY DEF BeforeScore, Scoring
<1>6. node = NoNode /\ DOMAIN finalScores \subseteq alive /\ RecordedScores /\ DOMAIN priorities = {}
    BY <1>2, <1>5 DEF Held
<1>7. Decided'
    BY <1>2, <1>6 DEF Decided
<1>8. CASE w.s # "Success"
    <2>1. point' = "Idle"
        BY <1>2, <1>8 DEF FW!Done
    <2> QED
        BY <1>5, <1>7, <2>1 DEF Held, Each
<1>9. CASE w.s = "Success"
    <2> DEFINE a(m) == At(finalScores, m)
               b(m) == At(finalScores', m)
               V == w.v
               N == {n}
    <2>1. lane[n] \in Seq(Plugins) /\ lane' = [lane EXCEPT ![n] = Tail(@)] /\ point' = "Score" /\ todo' = todo
        BY <1>2, <1>9, ShapeIs
    <2>2. n \in alive /\ ToScore(n, p) /\ p \notin skipped
        <3>1. ToScore(n, p)
            BY <1>2, <2>1 DEF ToScore
        <3> QED
            BY <1>2, <3>1 DEF Each
    <2>3. IF w.ran THEN /\ DOMAIN finalScores' = DOMAIN finalScores \cup {n}
                        /\ \A m : b(m) = IF m = n THEN Put(a(n), p, applyWeightOnScore(p, w.v)) ELSE a(m)
          ELSE finalScores' = finalScores
        <3>1. CASE w.ran
            <4>1. store' = AddScoreResult(store, n, p, w.said.v)
                BY <1>1, <1>4, <1>9, <3>1
            <4>2. AddScoreResult(store, n, p, w.said.v) \in PodResults
                BY <1>3, <3>1, ScoreAdded
            <4>3. Data(store') = AddScoreResult(store, n, p, w.said.v)
                BY <4>1, <4>2, DataIs DEF Stored
            <4> QED
                BY <1>3, <1>4, <3>1, <4>3, ScoreRecorded DEF finalScores
        <3>2. CASE ~w.ran
            BY <1>1, <3>2 DEF finalScores
        <3> QED
            BY <3>1, <3>2
    <2>4. RecordedScores'
        <3> DEFINE ns == IF w.ran THEN {n} ELSE {}
                   v == [m \in {n} |-> w.v]
        <3>1. \A m : b(m) = IF m \in ns THEN Put(a(m), p, applyWeightOnScore(p, v[m])) ELSE a(m)
            BY <2>3
        <3>2. ~w.ran => score[p][n] = 0
            BY <1>4, ShapeIs DEF Scored
        <3>3. \A m \in alive : \A q \in Plugins : score'[q][m] = IF q = p /\ m \in ns THEN v[m] ELSE score[q][m]
            BY <1>2, <1>4, <3>2, ShapeIs
        <3>4. \A m \in ns \cap alive : v[m] \in Nat
            BY <1>3
        <3> HIDE DEF ns, v
        <3>5. Grows(ns, p, v)
            BY <3>1, <3>3, <3>4 DEF Grows
        <3> QED
            BY <1>1, <1>2, <1>6, <3>5, RecordedGrows
    <2>5. Held'
        <3>1. DOMAIN finalScores' \subseteq alive' /\ priorities' = priorities /\ node' = node
            BY <1>1, <1>2, <1>6, <2>2, <2>3 DEF priorities
        <3> QED
            BY <1>5, <1>6, <2>1, <2>4, <3>1 DEF Held
    <2>6. \A m \in Nodes : \A q :
              /\ ToScore(m, q)' => ToScore(m, q)
              /\ ToScore(m, q) => ToScore(m, q)' \/ (m = n /\ q = p)
        <3>1. SUFFICES ASSUME NEW m \in Nodes, NEW q
                       PROVE  /\ ToScore(m, q)' => ToScore(m, q)
                              /\ ToScore(m, q) => ToScore(m, q)' \/ (m = n /\ q = p)
            OBVIOUS
        <3>2. CASE m # n
            <4>1. lane'[m] = lane[m]
                BY <2>1, <3>2, ShapeIs
            <4> QED
                BY <4>1 DEF ToScore
        <3>3. CASE m = n
            <4> DEFINE s == lane[n]
            <4>1. lane'[m] = Tail(s) /\ s \in Seq(Plugins) /\ s # <<>> /\ p = s[1]
                BY <1>2, <2>1, <3>3, ShapeIs
            <4> HIDE DEF s
            <4>2. /\ \A k \in DOMAIN Tail(s) : k + 1 \in DOMAIN s /\ Tail(s)[k] = s[k + 1]
                  /\ \A k \in DOMAIN s : k = 1 \/ (k - 1 \in DOMAIN Tail(s) /\ Tail(s)[k - 1] = s[k])
                BY <4>1
            <4>3. (\E k \in DOMAIN Tail(s) : Tail(s)[k] = q) => \E k \in DOMAIN s : s[k] = q
                BY <4>2
            <4>4. (\E k \in DOMAIN s : s[k] = q) => (\E k \in DOMAIN Tail(s) : Tail(s)[k] = q) \/ q = p
                BY <4>1, <4>2
            <4> QED
                BY <3>3, <4>1, <4>3, <4>4 DEF ToScore, s
        <3> QED
            BY <3>2, <3>3
    <2>7. Each'
        <3>1. \A m \in Nodes : lane'[m] # <<>> => m \in alive'
            <4>1. \A m \in Nodes : m # n => lane'[m] = lane[m]
                BY <2>1, ShapeIs
            <4> QED
                BY <1>2, <2>2, <4>1 DEF Each
        <3>2. \A m \in Nodes, q \in skipped' : ~ToScore(m, q)'
            BY <1>2, <2>6 DEF Each
        <3>3. \A m : DOMAIN a(m) \subseteq DOMAIN b(m) /\ (w.ran => p \in DOMAIN b(n))
            <4>1. \A m : ~w.ran => b(m) = a(m)
                BY <2>3
            <4> HIDE DEF a, b
            <4>2. \A m : w.ran => b(m) = IF m = n THEN Put(a(n), p, applyWeightOnScore(p, w.v)) ELSE a(m)
                BY <2>3
            <4> DEFINE x == applyWeightOnScore(p, w.v)
            <4> HIDE DEF x
            <4>3. DOMAIN Put(a(n), p, x) = DOMAIN a(n) \cup {p}
                BY PutHas, Zenon
            <4> QED
                BY <4>1, <4>2, <4>3 DEF x
        <3>4. \A m \in alive', q \in Plugins \ skipped' :
                Original(q, "Score") => q \in DOMAIN At(finalScores, m)' \/ ToScore(m, q)'
            <4>1. SUFFICES ASSUME NEW m \in alive, NEW q \in Plugins \ skipped, Original(q, "Score")
                           PROVE  q \in DOMAIN b(m) \/ ToScore(m, q)'
                BY <1>2 DEF At
            <4>2. q \in DOMAIN a(m) \/ ToScore(m, q)
                BY <1>2, <4>1 DEF Each
            <4> HIDE DEF a, b
            <4> QED
                BY <1>4, <2>6, <3>3, <4>1, <4>2, ShapeIs
        <3>5. DOMAIN finalScores' # {} => \E q \in Plugins \ skipped' : Original(q, "Score")
            BY <1>2, <1>4, <2>2, <2>3 DEF Each
        <3> QED
            BY <2>1, <3>1, <3>2, <3>4, <3>5 DEF Each
    <2> QED
        BY <1>7, <2>5, <2>7
<1> QED
    BY <1>8, <1>9

LEMMA NormalizeChoice ==
    ASSUME Shape, Stored(store), ExtStored(extStore), Choice, NEW p \in Plugins, NormalizeScore(p)
    PROVE  Choice'
<1> SUFFICES ASSUME Known, Held, Each, Decided
             PROVE  Held' /\ Each' /\ Decided'
    <2>1. whole' = whole
        BY DEF NormalizeScore, Rest
    <2> QED
        BY <2>1, ChoiceNext
<1>1. PICK w \in Ways(p, "Normalize", Promise!NormalizeSays, Unran("Success", "none")) :
        LET v == IF w.ran THEN Promise!Normalized(p) ELSE score[p]
        IN  /\ FW!NormalizeReturned(p, w.s, v)
            /\ store' = IF w.ran
                        THEN IF w.said.s = "Success" THEN AddNormalizedScoreResult(store, alive, p, v) ELSE store
                        ELSE store
            /\ extStore' = extStore
    BY DEF NormalizeScore, Recorded, Rest
<1> DEFINE v == Promise!Normalized(p)
<1>2. point = "Normalize" /\ todo # <<>> /\ p = Head(todo)
    BY <1>1 DEF FW!NormalizeReturned, FW!Next_
<1>3. w.ran /\ w.s = w.said.s
    <2>1. <<p, "Normalize">> \notin Hooked
        BY DEF Known, Unhooked
    <2>2. Original(p, "Normalize")
        <3>1. todo \in Seq({q \in Plugins : ScoreExtensions(q)})
            BY <1>2, ShapeIs DEF CallsLeft, Callable
        <3>2. Head(todo) \in {q \in Plugins : ScoreExtensions(q)}
            BY <1>2, <3>1
        <3> QED
            BY <1>2, <3>2 DEF ScoreExtensions
    <2> DEFINE says == Promise!NormalizeSays
               neutral == Unran("Success", "none")
    <2> HIDE DEF says, neutral
    <2>3. w.ran
        BY <1>1, <2>1, <2>2, WaysSay, Zenon DEF says, neutral
    <2> QED
        BY <1>1, <2>1, <2>3, WayRan
<1>4. /\ score' = [score EXCEPT ![p] = v]
      /\ IF w.s = "Success" THEN FW!Pop ELSE FW!Done("Idle")
      /\ UNCHANGED <<alive, skipped, waiting, extScore, node, cycles>>
    BY <1>1, <1>3 DEF FW!NormalizeReturned, FW!PopOr
<1>5. v \in [Nodes -> 0 .. MaxScore]
    BY NormalizedIs
<1>6. "Normalize" \notin BeforeScore /\ "Normalize" \in Scoring \ {"ExtPrioritize"} /\ "Idle" \notin Scoring
      /\ BeforeScore \subseteq Scoring
    BY DEF BeforeScore, Scoring
<1>7. node = NoNode /\ DOMAIN finalScores \subseteq alive /\ RecordedScores /\ DOMAIN priorities = {}
    BY <1>2, <1>6 DEF Held
<1>8. Decided'
    BY <1>4, <1>7 DEF Decided
<1>9. CASE w.s # "Success"
    <2>1. point' = "Idle"
        BY <1>4, <1>9 DEF FW!Done
    <2> QED
        BY <1>6, <1>8, <2>1 DEF Held, Each
<1>10. CASE w.s = "Success"
    <2> DEFINE new == AddNormalizedScoreResult(store, alive, p, v)
               ns == alive
    <2>1. store' = new /\ point' = "Normalize"
        BY <1>1, <1>2, <1>3, <1>4, <1>10 DEF FW!Pop
    <2>2. new \in PodResults
        <3>1. alive \subseteq Nodes /\ \A n \in alive : v[n] \in 0 .. MaxScore
            BY <1>5, ShapeIs
        <3> HIDE DEF v
        <3> QED
            BY <3>1, FinalScoreAdded
    <2>3. finalScores' = new.finalScore
        BY <2>1, <2>2, DataIs DEF finalScores, Stored
    <2> HIDE DEF v
    <2>4. /\ DOMAIN finalScores' = DOMAIN finalScores \cup alive
          /\ \A n : At(finalScores', n) = IF n \in alive THEN Put(At(finalScores, n), p, applyWeightOnScore(p, v[n]))
                                                         ELSE At(finalScores, n)
        BY <2>3, FinalScoresAdded DEF finalScores
    <2> HIDE DEF new
    <2>5. DOMAIN finalScores' = alive
        BY <1>7, <2>4
    <2>6. RecordedScores'
        <3>1. \A n \in ns \cap alive : v[n] \in Nat
            BY <1>5, ShapeIs
        <3>2. \A n \in alive : \A q \in Plugins : score'[q][n] = IF q = p /\ n \in ns THEN v[n] ELSE score[q][n]
            BY <1>4, ShapeIs
        <3>3. \A n \in alive : At(finalScores', n) =
                IF n \in ns THEN Put(At(finalScores, n), p, applyWeightOnScore(p, v[n])) ELSE At(finalScores, n)
            BY <2>4
        <3> HIDE DEF ns
        <3>4. Grows(ns, p, v)
            BY <3>1, <3>2, <3>3 DEF Grows
        <3> QED
            BY <1>1, <1>4, <1>7, <3>4, RecordedGrows
    <2>7. priorities' = priorities
        BY <1>1 DEF priorities
    <2> QED
        BY <1>4, <1>6, <1>7, <1>8, <2>1, <2>5, <2>6, <2>7 DEF Held, Each
<1> QED
    BY <1>9, <1>10

\* An extender's priorities count once.
LEMMA ExtPrioritizeChoice ==
    ASSUME Shape, Stored(store), ExtStored(extStore), Choice, NEW i \in Ids, ExtPrioritize(i)
    PROVE  Choice'
<1> SUFFICES ASSUME Known, Held, Each, Decided
             PROVE  Held' /\ Each' /\ Decided'
    <2>1. whole' = whole
        BY DEF ExtPrioritize, Answered
    <2> QED
        BY <2>1, ChoiceNext
<1>1. PICK a \in Promise!ExtPrioritizeSays :
        /\ FW!ExtPrioritizeReturned(i, a.s, Ranks(i, a.v))
        /\ extStore' = IF a.s THEN AddResult(extStore, "prioritize", i, Ranks(i, a.v)) ELSE extStore
        /\ store' = store
    BY DEF ExtPrioritize, Answered
<1> DEFINE r == Ranks(i, a.v)
           url == Extenders[i].url
<1>2. /\ point = "ExtPrioritize" /\ todo # <<>> /\ i = Head(todo) /\ FW!Pop
      /\ extScore' = [n \in Nodes |-> IF a.s /\ n \in alive
                                      THEN extScore[n] + r[n] * ExtWeight[i] * Scale
                                      ELSE extScore[n]]
      /\ UNCHANGED <<alive, skipped, waiting, score, node, cycles>>
    BY <1>1 DEF FW!ExtPrioritizeReturned, FW!Next_
<1>3. "ExtPrioritize" \in Scoring /\ "ExtPrioritize" \notin BeforeScore /\ BeforeScore \subseteq Scoring
    BY DEF BeforeScore, Scoring
<1>4. node = NoNode /\ DOMAIN finalScores \subseteq alive /\ RecordedScores /\ DOMAIN finalScores \in {{}, alive}
    BY <1>2, <1>3 DEF Held, Each
<1>5. finalScores' = finalScores /\ \A n : At(finalScores, n)' = At(finalScores, n)
    BY <1>1 DEF finalScores, At
<1>6. Decided'
    BY <1>2, <1>4 DEF Decided
<1>7. /\ point' = "ExtPrioritize" /\ NoneTwice(todo) /\ todo' \in Seq(Callable("ExtPrioritize"))
      /\ \A k \in DOMAIN todo' : k + 1 \in DOMAIN todo /\ todo'[k] = todo[k + 1] /\ todo'[k] # i
    <2>1. CallsLeft /\ NoneTwice(todo)
        BY <1>2, ShapeIs DEF CallsLeft
    <2> QED
        BY <1>2, <2>1, PopIs
<1>8. \A k \in DOMAIN todo' : todo'[k] \in Ids
    <2>1. Callable("ExtPrioritize") = {j \in Ids : Calls(j, "prioritize")}
        BY DEF Callable, PluginPoints
    <2> QED
        BY <1>7, <2>1
<1>9. url \notin DOMAIN priorities
    <2>1. 1 \in DOMAIN todo /\ todo[1] = i
        BY <1>2, ShapeIs
    <2> QED
        BY <1>2, <2>1 DEF Each
<1>10. \A j \in Ids : j # i => Extenders[j].url # url
    BY DEF Known, OneUrlEach
<1>11. ExtStored(extStore')
    BY ExtendersRecord
<1>12. CASE ~a.s
    <2>1. extStore' = extStore /\ extScore' = extScore
        BY <1>1, <1>2, <1>12, ShapeIs
    <2>2. ScoresSame
        BY <1>5, <2>1 DEF ScoresSame, priorities
    <2>3. RecordedScores'
        BY <1>2, <1>4, <2>1, <2>2, RecordedKept
    <2> QED
        BY <1>2, <1>3, <1>4, <1>5, <1>6, <1>7, <2>2, <2>3 DEF Held, Each, ScoresSame
<1>13. CASE a.s
    <2>1. /\ DOMAIN priorities' = DOMAIN priorities \cup {url}
          /\ \A u \in DOMAIN priorities' : priorities'[u] = IF u = url THEN r ELSE priorities[u]
        <3>1. "prioritize" \in Verbs /\ Answers("prioritize") = Ranked
            BY DEF Verbs, Answers
        <3>2. a.v \in Priorities
            BY <1>13 DEF Promise!ExtPrioritizeSays, Promise!Said
        <3>3. r \in Ranked
            BY <3>2 DEF Ranked
        <3> HIDE DEF r
        <3>4. extStore' = AddResult(extStore, "prioritize", i, r)
            BY <1>1, <1>13 DEF r
        <3> DEFINE new == AddResult(extStore, "prioritize", i, r)
        <3>5. /\ Results(new) = new
              /\ DOMAIN new["prioritize"] = DOMAIN Results(extStore)["prioritize"] \cup {url}
              /\ \A u \in DOMAIN new["prioritize"] :
                    new["prioritize"][u] = IF u = url THEN r ELSE Results(extStore)["prioritize"][u]
            BY <3>1, <3>3, ResultAdded
        <3> HIDE DEF new
        <3>6. priorities' = new["prioritize"]
            BY <3>4, <3>5 DEF priorities, new
        <3> QED
            BY <3>5, <3>6 DEF priorities
    <2>2. RecordedScores'
        <3>1. SUFFICES ASSUME NEW n \in alive
                       PROVE  extScore'[n] = SumFunctionOnSet([j \in Ids |-> Counted(j, n)'], Ids)
            BY <1>2, <1>4, <1>5 DEF RecordedScores
        <3> DEFINE f == [j \in Ids |-> Counted(j, n)]
                   g == [j \in Ids |-> Counted(j, n)']
                   c == r[n] * ExtWeight[i] * Scale
        <3>2. n \in Nodes
            BY ShapeIs
        <3>3. /\ Counted(i, n) = 0 /\ Counted(i, n)' = c
              /\ \A j \in Ids : j # i => Counted(j, n)' = Counted(j, n)
            <4>1. Counted(i, n) = 0
                BY <1>9 DEF Counted
            <4> HIDE DEF r
            <4>2. Counted(i, n)' = c
                BY <2>1 DEF Counted
            <4>3. \A j \in Ids : j # i => Counted(j, n)' = Counted(j, n)
                BY <1>10, <2>1 DEF Counted
            <4> QED
                BY <4>1, <4>2, <4>3
        <3>4. \A j \in Ids : Counted(j, n) \in Nat
            BY <3>2, CountedIs
        <3>5. c \in Nat
            <4>1. ExtWeight[i] \in Nat /\ Scale \in Nat
                BY FrameworkHolds DEF FW!FrameworkAssumption
            <4>2. \A x, y \in Nat : x * y \in Nat
                OBVIOUS
            <4>3. r[n] \in Nat
                <5>1. a.v[n] \in Nat
                    <6>1. a.v \in Priorities \/ a.v = [m \in Nodes |-> 0]
                        BY DEF Promise!ExtPrioritizeSays, Promise!Said
                    <6> QED
                        BY <3>2, <6>1, CycleAssumption
                <5> QED
                    BY <3>2, <5>1, FactorOut DEF Ranks
            <4> HIDE DEF r
            <4> QED
                BY <4>1, <4>2, <4>3
        <3> HIDE DEF c
        <3>6. /\ \A j \in Ids : f[j] \in Nat /\ g[j] \in Nat /\ (j # i => g[j] = f[j])
              /\ f[i] = 0 /\ g[i] = c
            BY <3>3, <3>4, <3>5
        <3>7. extScore[n] = SumFunctionOnSet(f, Ids)
            BY <1>4 DEF RecordedScores
        <3> HIDE DEF f, g
        <3>8. SumFunctionOnSet(g, Ids) + f[i] = SumFunctionOnSet(f, Ids) + g[i]
            BY <3>6, SumChanged, ProfileFinite
        <3>9. SumFunctionOnSet(g, Ids) \in Nat
            BY <3>6, SumSplits, ProfileFinite
        <3>10. SumFunctionOnSet(f, Ids) \in Nat
            BY <3>2, <3>7, ShapeIs
        <3>11. extScore'[n] = extScore[n] + c
            BY <1>2, <1>13, <3>2 DEF c
        <3>12. extScore'[n] = SumFunctionOnSet(g, Ids)
            BY <3>5, <3>6, <3>7, <3>8, <3>9, <3>10, <3>11
        <3> QED
            BY <3>12 DEF g
    <2>3. \A k \in DOMAIN todo' : Extenders[todo'[k]].url \notin DOMAIN priorities'
        <3>1. SUFFICES ASSUME NEW k \in DOMAIN todo'
                       PROVE  Extenders[todo'[k]].url \notin DOMAIN priorities'
            OBVIOUS
        <3>2. Extenders[todo'[k]].url # url
            BY <1>7, <1>8, <1>10
        <3>3. Extenders[todo[k + 1]].url \notin DOMAIN priorities
            BY <1>2, <1>7 DEF Each
        <3> QED
            BY <1>7, <2>1, <3>2, <3>3
    <2> QED
        BY <1>2, <1>3, <1>4, <1>5, <1>6, <1>7, <2>2, <2>3 DEF Held, Each
<1> QED
    BY <1>12, <1>13

\* The other actions record no score and give none.
LEMMA OthersKeepScores ==
    ASSUME Shape, Stored(store), ExtStored(extStore), Choice,
           \/ \E p \in Plugins :
                \/ PreFilter(p) \/ PostFilter(p) \/ PreScore(p) \/ Reserve(p) \/ Permit(p) \/ PreBind(p)
                \/ Bind(p) \/ PostBind(p) \/ Unreserve(p) \/ \E n \in Nodes : Filter(p, n) \/ DryRunFilter(p, n)
           \/ \E i \in Ids : ExtFilter(i) \/ ExtBind(i) \/ ExtPreempt(i)
    PROVE  Choice'
<1> DEFINE Early == {"PreFilter", "Filter", "ExtFilter", "PreScore"}
           Others == {"Idle", "PostFilter", "Reserve", "Permit", "PreBind", "Bind", "PostBind", "Unreserve"}
           Kept == /\ UNCHANGED <<whole, score, extScore, node>> /\ alive' \subseteq alive
                   /\ point' \in Others \/ (point' \in Early /\ point \in Early)
<1>1. ASSUME NEW p \in Plugins, PreFilter(p)
      PROVE  Kept
    <2>1. PICK s, ns : FW!PreFilterReturned(p, s, ns)
        BY <1>1 DEF PreFilter
    <2>2. whole' = whole
        BY <1>1 DEF PreFilter, Rest
    <2> QED
        BY <2>1, <2>2 DEF FW!PreFilterReturned, FW!Next_, FW!Unschedulable, FW!Enter, FW!Pop
<1>2. ASSUME NEW p \in Plugins, NEW n \in Nodes, Filter(p, n)
      PROVE  Kept
    <2>1. PICK s : FW!FilterReturned(p, n, s)
        BY <1>2 DEF Filter
    <2>2. whole' = whole
        BY <1>2 DEF Filter, Rest
    <2> QED
        BY <2>1, <2>2 DEF FW!FilterReturned
<1>3. ASSUME NEW p \in Plugins, PreScore(p)
      PROVE  Kept
    <2>1. PICK s : FW!PreScoreReturned(p, s)
        BY <1>3 DEF PreScore
    <2>2. whole' = whole
        BY <1>3 DEF PreScore, Rest
    <2> QED
        BY <2>1, <2>2 DEF FW!PreScoreReturned, FW!Next_, FW!Pop, FW!Done
<1>4. ASSUME NEW p \in Plugins, PostFilter(p) \/ \E n \in Nodes : DryRunFilter(p, n)
      PROVE  Kept
    <2>1. ASSUME PostFilter(p)
          PROVE  Kept
        <3>1. PICK s : FW!PostFilterReturned(p, s)
            BY <2>1 DEF PostFilter
        <3>2. whole' = whole
            BY <2>1 DEF PostFilter, Rest
        <3> QED
            BY <3>1, <3>2 DEF FW!PostFilterReturned, FW!Next_, FW!Pop, FW!Done
    <2>2. ASSUME NEW n \in Nodes, DryRunFilter(p, n)
          PROVE  Kept
        BY <2>2 DEF DryRunFilter, Preempting, fw
    <2> QED
        BY <1>4, <2>1, <2>2
<1>5. ASSUME NEW p \in Plugins,
             Reserve(p) \/ Permit(p) \/ PreBind(p) \/ Bind(p) \/ PostBind(p) \/ Unreserve(p)
      PROVE  Kept
    <2>1. UNCHANGED <<whole, score, extScore, node, alive>>
        BY <1>5 DEF Reserve, Permit, PreBind, Bind, PostBind, Unreserve, Rest, FW!ReserveReturned,
                    FW!PermitReturned, FW!PreBindReturned, FW!BindReturned, FW!VoidReturned
    <2>2. /\ point \in {"Reserve", "Permit", "PreBind", "Bind", "PostBind", "Unreserve"}
          /\ point' \in {point, "PostBind", "Unreserve"}
        BY <1>5, LateActions, UndoIs DEF FW!Pop
    <2> QED
        BY <2>1, <2>2
<1>6. ASSUME NEW i \in Ids, ExtFilter(i) \/ ExtBind(i) \/ ExtPreempt(i)
      PROVE  Kept
    <2>1. ASSUME ExtFilter(i)
          PROVE  Kept
        <3>1. PICK ok, ns : FW!ExtFilterReturned(i, ok, ns)
            BY <2>1 DEF ExtFilter
        <3>2. whole' = whole
            BY <2>1 DEF ExtFilter, Answered
        <3> QED
            BY <3>1, <3>2 DEF FW!ExtFilterReturned, FW!Next_, FW!Unschedulable, FW!Enter, FW!Pop, FW!Done
    <2>2. ASSUME ExtBind(i)
          PROVE  Kept
        <3>1. UNCHANGED <<whole, score, extScore, node, alive>>
            BY <2>2 DEF ExtBind, Answered, FW!ExtBindReturned
        <3>2. point' \in {"PostBind", "Unreserve"}
            BY <2>2, LateActions, UndoIs
        <3> QED
            BY <3>1, <3>2
    <2>3. ASSUME ExtPreempt(i)
          PROVE  Kept
        BY <2>3 DEF ExtPreempt, Preempting, fw
    <2> QED
        BY <1>6, <2>1, <2>2, <2>3
<1>7. Kept
    BY <1>1, <1>2, <1>3, <1>4, <1>5, <1>6
<1>8. ScoresSame
    BY PluginsKeepScores, ExtendersKeepScores
<1>9. Early = BeforeScore /\ Others \cap Scoring = {}
    BY DEF BeforeScore, Scoring
<1> QED
    BY <1>7, <1>8, <1>9, ChoiceKept

LEMMA ChoiceStep ==
    ASSUME Shape, Stored(store), ExtStored(extStore), Choice, Next
    PROVE  Choice'
<1>1. CASE Begin
    BY <1>1, BeginChoice
<1>2. CASE Scheduler
    <2>1. UNCHANGED <<store, extStore, whole>>
        BY <1>2 DEF Scheduler
    <2>2. CASE FW!Advance
        BY <2>1, <2>2, AdvanceChoice
    <2>3. CASE FW!WaitOnPermit
        <3>1. point' \in {"PreBind", "Unreserve"} /\ UNCHANGED <<alive, score, extScore, node>>
            BY <2>3, UndoIs DEF FW!WaitOnPermit
        <3>2. ScoresSame /\ point' \notin Scoring
            BY <2>1, <3>1 DEF ScoresSame, finalScores, priorities, BeforeScore, Scoring
        <3> QED
            BY <2>1, <3>1, <3>2, ChoiceKept
    <2> QED
        BY <1>2, <2>2, <2>3 DEF Scheduler
<1>3. CASE Reflect
    <2>1. whole' = FALSE
        BY <1>3 DEF Reflect
    <2> QED
        BY <2>1 DEF Choice, ScoresHeld, EachScored, DecisionExplained, Explaining
<1>4. ASSUME NEW p \in Plugins, NEW n \in Nodes, Score(p, n)
      PROVE  Choice'
    BY <1>4, ScoreChoice
<1>5. ASSUME NEW p \in Plugins, NormalizeScore(p)
      PROVE  Choice'
    BY <1>5, NormalizeChoice
<1>6. ASSUME NEW i \in Ids, ExtPrioritize(i)
      PROVE  Choice'
    BY <1>6, ExtPrioritizeChoice
<1>7. CASE \/ \E p \in Plugins :
                \/ PreFilter(p) \/ PostFilter(p) \/ PreScore(p) \/ Reserve(p) \/ Permit(p) \/ PreBind(p)
                \/ Bind(p) \/ PostBind(p) \/ Unreserve(p) \/ \E n \in Nodes : Filter(p, n) \/ DryRunFilter(p, n)
           \/ \E i \in Ids : ExtFilter(i) \/ ExtBind(i) \/ ExtPreempt(i)
    BY <1>7, OthersKeepScores
<1> QED
    BY <1>1, <1>2, <1>3, <1>4, <1>5, <1>6, <1>7 DEF Next

-----------------------------------------------------------------------------
(***************************************************************************)
(* The theorems.                                                           *)
(***************************************************************************)

LEMMA InvariantInit == Init => IInv
<1> SUFFICES ASSUME Init
             PROVE  IInv
    OBVIOUS
<1>1. Shape
    BY ShapeInit
<1>2. /\ point = "Idle" /\ held = {} /\ reflects = 0 /\ whole = FALSE /\ dryRun = FALSE
      /\ store \in PodResults \cup {NoData} /\ extStore = NoResults
    BY StoreAssumption DEF Init, FW!FrameworkInit
<1>3. reflects \in 0 .. MaxReflects
    BY <1>2, CycleAssumption
<1>4. TypeOK
    BY <1>1, <1>2, <1>3 DEF TypeOK, Shape
<1>5. Reserved
    BY <1>2 DEF Reserved
<1>6. RejectionsExplained /\ NotYetFiltered /\ OutcomeKnown
    BY <1>2 DEF RejectionsExplained, NotYetFiltered, OutcomeKnown
<1>7. ScoresHeld /\ EachScored /\ DecisionExplained
    BY <1>2 DEF ScoresHeld, EachScored, DecisionExplained, Explaining
<1> QED
    BY <1>1, <1>4, <1>5, <1>6, <1>7 DEF IInv, Shape

LEMMA InvariantStep == IInv /\ [Next]_vars => IInv'
<1> SUFFICES ASSUME IInv, [Next]_vars
             PROVE  IInv'
    OBVIOUS
<1>1. CASE Next
    <2>1. /\ Shape /\ Stored(store) /\ ExtStored(extStore)
          /\ held \subseteq Plugins
          /\ reflects \in 0 .. MaxReflects /\ whole \in BOOLEAN /\ dryRun \in BOOLEAN
        BY DEF IInv, TypeOK, Shape, Stored, ExtStored
    <2>2. Shape'
        BY <1>1, <2>1, ShapeStep
    <2>3. held' \subseteq Plugins
        BY <1>1, <2>1, HeldIs
    <2>4. /\ store' \in PodResults \cup {NoData} /\ extStore' \in ExtResults \cup {NoResults}
          /\ reflects' \in 0 .. MaxReflects /\ whole' \in BOOLEAN /\ dryRun' \in BOOLEAN
        BY <1>1, <2>1, StoresStep, HistoryStep DEF Stored, ExtStored
    <2>5. TypeOK'
        <3>1. FW!FrameworkTypeOK'
            BY <2>2 DEF Shape
        <3> QED
            BY <2>3, <2>4, <3>1 DEF TypeOK, Plugins, PodResults, ExtResults, NodeMap, StatusMap, MapOf,
                                    Weighted, Ranked, Ranks, Urls, Ids, FW!Statuses
    <2>6. Reserved'
        BY <1>1, <2>1, ReservedStep DEF IInv
    <2>7. RejectionsExplained' /\ NotYetFiltered'
        BY <1>1, <2>1, ExplainsStep DEF IInv
    <2>8. OutcomeKnown'
        BY <1>1, <2>1, OutcomeStep DEF IInv
    <2>9. ScoresHeld' /\ EachScored' /\ DecisionExplained'
        <3>1. Choice
            BY DEF IInv, Choice
        <3>2. Choice'
            BY <1>1, <2>1, <3>1, ChoiceStep
        <3> QED
            BY <3>2 DEF Choice
    <2> QED
        BY <2>2, <2>5, <2>6, <2>7, <2>8, <2>9 DEF IInv, Shape
<1>2. CASE UNCHANGED vars
    <2>1. UNCHANGED <<point, todo, lane, alive, skipped, waiting, score, extScore, node, cycles,
                      held, store, extStore, reflects, whole, dryRun>>
        BY <1>2 DEF vars, fw
    <2>2. Shape'
        BY <2>1, ShapeUnseen DEF IInv, TypeOK, Shape, fw
    <2>3. TypeOK'
        BY <2>1, <2>2 DEF IInv, TypeOK, Shape
    <2>4. Reserved'
        BY <2>1 DEF IInv, Reserved
    <2>5. RejectionsSame /\ OutcomeSame
        BY <2>1 DEF RejectionsSame, OutcomeSame
    <2>6. RejectionsExplained' /\ NotYetFiltered'
        BY <2>1, <2>5, RejectionsKept, NotYetKept DEF IInv
    <2>7. OutcomeKnown'
        BY <2>1, <2>5, OutcomeKept DEF IInv, Settled, Ended, Failed
    <2>8. ScoresHeld' /\ EachScored' /\ DecisionExplained'
        <3>1. Choice /\ ScoresSame
            BY <2>1 DEF IInv, Choice, ScoresSame, finalScores, priorities
        <3>2. Choice'
            BY <2>1, <3>1, ChoiceKept
        <3> QED
            BY <3>2 DEF Choice
    <2> QED
        BY <2>2, <2>3, <2>4, <2>6, <2>7, <2>8 DEF IInv, Shape
<1> QED
    BY <1>1, <1>2

\* The inductive invariant holds in every state: whoever may call the stores,
\* whatever the reflector deletes between two calls.
THEOREM Invariant == Spec => []IInv
<1> QED
    BY InvariantInit, InvariantStep, PTL DEF Spec

\* A failed attempt leaves no reservation: every original plugin that has
\* reserved is told to undo it, but for those whose hook keeps Unreserve away
\* (wrappedPlugin.Reserve and wrappedPlugin.Unreserve).
THEOREM FailedAttemptHoldsNothing == Spec => []FailedHoldsNothing
<1>1. IInv => FailedHoldsNothing
    BY DEF IInv, Reserved, FailedHoldsNothing, BeforeReserve
<1> QED
    BY <1>1, Invariant, PTL

\* The recorded filter results give each rejection of a node its reason, and
\* give none for a node that was not rejected (the stores' AddPreFilterResult,
\* AddFilterResult and the extender store's AddFilterResult).
THEOREM EveryRejectionExplained == Spec => []RejectionsExplained
<1>1. IInv => RejectionsExplained
    BY DEF IInv
<1> QED
    BY <1>1, Invariant, PTL

\* The recorded final scores and priorities explain the choice of a node: no node
\* that was scored counts for more than the selected one, with the weights that
\* the scheduler counts with (the result store's AddScoreResult and
\* AddNormalizedScoreResult, the extender store's AddPrioritizeResult).
THEOREM EveryDecisionExplained == Spec => []DecisionExplained
<1>1. IInv => DecisionExplained
    BY DEF IInv
<1> QED
    BY <1>1, Invariant, PTL

\* What is recorded of a bound pod says on which node it is and who bound it,
\* and keeps no refusal that was not overruled.
THEOREM EveryOutcomeExplained == Spec => []OutcomeExplained
<1>1. ASSUME IInv, whole, point = "Bound"
      PROVE  /\ store # NoData => store.selectedNode = node
             /\ Unhooked("Bind") => BoundByPlugin # BoundByExtender
             /\ NoneRefused
    <2>1. Settled /\ Ended /\ ~Failed
        BY <1>1 DEF Settled, Ended, Failed
    <2>2. /\ Plugins = {} \/ Data(store).selectedNode = node
          /\ Plugins = {} => store = NoData
          /\ Unhooked("Bind") => BoundByPlugin # BoundByExtender
          /\ NoneRefused
        BY <1>1, <2>1, OutcomeIs DEF IInv
    <2>3. store # NoData => Data(store) = store
        BY DEF Data
    <2> QED
        BY <2>2, <2>3
<1>2. IInv => OutcomeExplained
    BY <1>1 DEF OutcomeExplained
<1> QED
    BY <1>2, Invariant, PTL

\* The wrapped plugins and the proxied extenders make the scheduler behave as
\* with the originals: every behaviour is, through the mapping, a behaviour of
\* the scheduler that has the original plugins and calls the real extenders.
THEOREM Refinement == Spec => BehavesAsOriginal
<1>1. Init => Promise!Init
    BY InitRefines
<1>2. IInv /\ [Next]_vars => [Promise!Next]_(Promise!cvars)
    <2>1. IInv /\ Next => Promise!Next \/ UNCHANGED Promise!cvars
        BY StepRefines DEF IInv
    <2>2. UNCHANGED vars => UNCHANGED Promise!cvars
        BY UnseenRefines DEF vars, fw
    <2> QED
        BY <2>1, <2>2
<1> QED
    BY <1>1, <1>2, Invariant, PTL DEF Spec, BehavesAsOriginal, Promise!Spec

=============================================================================
