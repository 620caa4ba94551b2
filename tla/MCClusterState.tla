---------------------------- MODULE MCClusterState ----------------------------
(* Two operators that overlap, one of them with two workers in the same       *)
(* secret.                                                                    *)
EXTENDS ClusterState, TLC

CONSTANTS w1, w2, w3, old, new

MCCallers == {w1, w2, w3}
MCHome == (w1 :> old) @@ (w2 :> old) @@ (w3 :> new)
===============================================================================
