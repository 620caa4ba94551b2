------------------------------ MODULE MCController ------------------------------
(* Small instances of KubernetesClusterController for TLC.                    *)
EXTENDS KubernetesClusterController

MCSpecs == {[version |-> 1, replicas |-> 1], [version |-> 2, replicas |-> 3]}
OneSpec == {[version |-> 1, replicas |-> 1]}
===============================================================================
