-------------------------- MODULE MCClusterRestore --------------------------
(***************************************************************************)
(* One object of each kind that a phase or a reference tells apart: a      *)
(* namespace, and in it a claim and a pod; the pod's class; the claim's    *)
(* volume; and a system namespace, which is in no file.                    *)
(***************************************************************************)
EXTENDS ClusterRestore, TLC

CONSTANTS r1, r2, kube, ns, pc, pvc, pod, pv

MCObjects == <<kube, ns, pc, pvc, pod, pv>>
MCKindOf == (kube :> "Namespace") @@ (ns :> "Namespace") @@ (pc :> "PriorityClass")
            @@ (pvc :> "PersistentVolumeClaim") @@ (pod :> "Pod") @@ (pv :> "PersistentVolume")
MCNeeds == [o \in {kube, ns, pc, pvc, pod, pv} |->
             CASE o = pvc -> {ns} [] o = pod -> {ns, pc} [] OTHER -> {}]
MCClaimOf == (pv :> pvc)

\* The server starts with an empty cluster, or one that is there in part.
Cluster(present) == [o \in Objs |-> IF o \in present
                                   THEN [uid |-> IF o = pvc THEN 1 ELSE 0, claim |-> 0,
                                         bound |-> FALSE, placed |-> FALSE]
                                   ELSE Gone]
MCInitialClusters == {Cluster({kube}), Cluster({kube, ns, pod, pv})}

Perms == Permutations(Reqs)

\* A file in which the volume is Bound, with the uid and the version it had at
\* another time or in another cluster, and nothing else has a version.
MCFiles == {[o \in Objs |-> IF o = kube THEN Gone
                            ELSE [claim |-> IF o = pv THEN 1 ELSE 0, bound |-> o = pv, placed |-> o = pod,
                                  ver |-> IF o = pv THEN "old" ELSE "none"]]}

=============================================================================
