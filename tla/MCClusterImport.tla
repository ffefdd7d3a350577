-------------------------- MODULE MCClusterImport --------------------------
(* Instances of ClusterImport for TLC. *)
EXTENDS ClusterImport

\* A pod of a priority class, and a volume with its claim.
MCObjects == {"class", "claim", "volume", "pod"}

MCScopes == {{"class", "pod"}, {"claim", "volume"}}

MCOrder ==
    <<"priorityclasses", "persistentvolumeclaims", "persistentvolumes", "pods">>

MCKinds == {MCOrder[i] : i \in DOMAIN MCOrder}

MCKindOf ==
    [o \in MCObjects |-> CASE o = "class"  -> MCOrder[1]
                           [] o = "claim"  -> MCOrder[2]
                           [] o = "volume" -> MCOrder[3]
                           [] o = "pod"    -> MCOrder[4]]

MCRefersTo ==
    [o \in MCObjects |-> CASE o = "volume" -> {"claim"}
                           [] o = "pod"    -> {"class"}
                           [] OTHER        -> {}]
=============================================================================
