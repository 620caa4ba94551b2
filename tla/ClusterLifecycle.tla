--------------------------- MODULE ClusterLifecycle ---------------------------
(* What the operator promises whoever declares a cluster: an AKS cluster      *)
(* exists only under a declaration that is guarded by the operator's          *)
(* finalizer, and a declaration is given up only once its cluster is gone.    *)

VARIABLES declaration,  \* of the one KubernetesCluster name followed
          provider      \* the AKS cluster in Azure

Declarations ==
  {"none",       \* nothing the operator has to clean up after
   "declared",   \* asked for, and still free to vanish
   "guarded",    \* held by the operator's finalizer
   "leaving"}    \* asked to go, held until the cluster is gone

TypeOK == declaration \in Declarations /\ provider \in {"absent", "present"}

Init == declaration = "declared" /\ provider = "absent"

Declare  == declaration = "none"     /\ declaration' = "declared" /\ UNCHANGED provider
Withdraw == declaration = "declared" /\ declaration' = "none"     /\ UNCHANGED provider
Guard    == declaration = "declared" /\ declaration' = "guarded"  /\ UNCHANGED provider
Leave    == declaration = "guarded"  /\ declaration' = "leaving"  /\ UNCHANGED provider

(* A cluster may still be requested while the declaration is leaving, by the  *)
(* reconciliation that was under way when the user deleted it.                *)
Provision == /\ declaration \in {"guarded", "leaving"} /\ provider = "absent"
             /\ provider' = "present" /\ UNCHANGED declaration
Destroy   == provider = "present" /\ provider' = "absent" /\ UNCHANGED declaration

Release == /\ declaration = "leaving" /\ provider = "absent"
           /\ declaration' = "none" /\ UNCHANGED provider

Next == Declare \/ Withdraw \/ Guard \/ Leave \/ Provision \/ Destroy \/ Release

Spec == Init /\ [][Next]_<<declaration, provider>>
=============================================================================
