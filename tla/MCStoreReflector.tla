-------------------------- MODULE MCStoreReflector --------------------------
(***************************************************************************)
(* Instances of StoreReflector for TLC: one pod name, which is all that    *)
(* the stores' keys and the handler's events can be confused about, and    *)
(* the two stores the debuggable scheduler registers.                      *)
(***************************************************************************)
EXTENDS StoreReflector

\* A cell of each store, one of them recorded after the Bind call.
TwoStoreOf == [bind |-> "plugin", xfilter |-> "extender"]

\* A custom cell, and two built-in ones of the same store.
OneStoreOf == [filter |-> "plugin", bind |-> "plugin", custom |-> "plugin"]

=============================================================================
