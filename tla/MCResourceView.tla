--------------------------- MODULE MCResourceView ---------------------------
(***************************************************************************)
(* Pods and nodes, or pods alone with more changes and requests.           *)
(***************************************************************************)
EXTENDS ResourceView

CONSTANTS pods, nodes
MCKindOrder == <<pods, nodes>>
MCPodsOnly == <<pods>>

=============================================================================
