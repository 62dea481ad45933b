------------------------ MODULE MCNetworkTransaction ------------------------
(* Instances of NetworkTransaction for TLC. *)
EXTENDS NetworkTransaction, TLC

(* Static configurations, and leases, are only compared for equality. *)
Symmetry == Permutations(StaticConfigs) \cup Permutations(Leases)
=============================================================================
