---------------------------- MODULE MCClientCache ----------------------------
(* Small instances of ClientCache for TLC. *)
EXTENDS ClientCache

CONSTANTS k1, k2, s1, s2

MCClusters == {k1, k2}
MCOneCluster == {k1}
MCServices == {s1, s2}

(* Every CrossService on k1. *)
MCShared == [c \in Services |-> k1]

(* One CrossService on each cluster. *)
MCApart == [c \in Services |-> IF c = s1 THEN k1 ELSE k2]
=============================================================================
