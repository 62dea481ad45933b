----------------------------- MODULE MCWebAdmin -----------------------------
(* Instances of WebAdmin for TLC. *)
EXTENDS WebAdmin, TLC

(* Tokens and addresses are only compared with each other. *)
Symmetry == Permutations(Tokens) \cup Permutations(Addresses)
=============================================================================
