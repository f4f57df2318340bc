------------------ MODULE MCClusterInstallationSupervisor ------------------
(***************************************************************************)
(* Model-checking instance of ClusterInstallationSupervisor: two          *)
(* provisioner instances racing on the cluster installations.              *)
(***************************************************************************)
EXTENDS ClusterInstallationSupervisor, TLC

CONSTANTS w1, w2, c1, c2

MCWorkers == {w1, w2}
MCCIs == {c1}
MCCIsTwo == {c1, c2}

\* Both workers are interchangeable instances of the same binary.
MCSymmetry == Permutations(MCWorkers)
====
