----------------------------- MODULE MCCluster -----------------------------
(* Small instances of Cluster for TLC.                                      *)
EXTENDS Cluster, TLC

Symmetry == Permutations(Servers \ {First})
=============================================================================
