----------------------------- MODULE ResultData -----------------------------
(***************************************************************************)
(* The data that the debuggable scheduler keeps about the scheduling of a  *)
(* pod and that the store reflector copies to the pod's annotations.       *)
(*                                                                         *)
(* A result store holds, per pod NAME (key "namespace/name"), a struct     *)
(* with one map per annotation key: filter, score, bind, ... for the       *)
(* plugin result store, filter, prioritize, preempt, bind for the extender *)
(* result store.  Here an annotation key is a cell, and the map under it   *)
(* is abstracted to the recording that was put into it last.  A recording  *)
(* is a token: a serial number, and the pod incarnation it is about.       *)
(***************************************************************************)
EXTENDS Naturals

CONSTANTS
    Names,        \* pod keys, "namespace/name"
    Stores,       \* the ResultStores registered at the reflector
    Cells,        \* annotation keys under which results are recorded
    StoreOf,      \* the store that each cell belongs to
    CustomCells,  \* cells written by AddCustomResult
    Empty,        \* the annotation value "{}": no recording in the cell
    Absent,       \* the annotation key is not there at all
    NoData        \* the store has no entry for the key

\* A recording: id is its serial number, uid the pod it was made for.
Token == [uid : Nat, id : Nat]

ASSUME DataAssumption ==
    /\ StoreOf \in [Cells -> Stores]
    /\ CustomCells \subseteq Cells
    /\ Empty \notin Token
    /\ Absent \notin Token
    /\ Empty # Absent
    /\ NoData \notin [Cells -> Token \cup {Empty}]

\* The struct result of one key.
Data == [Cells -> Token \cup {Empty}]

\* A map from annotation keys to values, as GetStoredResult returns it.
ResultSet == [Cells -> Token \cup {Empty, Absent}]

NoResults == [c \in Cells |-> Absent]

NewData == [c \in Cells |-> Empty]

\* Any AddXResult: create the struct on the first result, then set the cell.
AddResult(d, c, t) ==
    IF d = NoData THEN [NewData EXCEPT ![c] = t] ELSE [d EXCEPT ![c] = t]

\* GetStoredResult: nothing without an entry; with one, EVERY built-in key of
\* the store is in the map, with "{}" where nothing was recorded, and a custom
\* key is there only if it was recorded.
GetStoredResult(s, d) ==
    [c \in Cells |->
        IF d = NoData \/ StoreOf[c] # s THEN Absent
        ELSE IF c \in CustomCells /\ d[c] = Empty THEN Absent
        ELSE d[c]]

\* Copying the keys of one map into another.
Merge(f, g) == [c \in Cells |-> IF g[c] = Absent THEN f[c] ELSE g[c]]

TokensIn(f) == {f[c] : c \in Cells} \cap Token

=============================================================================
