----------------------------- MODULE MCIecModel -----------------------------
(* Instances of IecModel for TLC. *)
EXTENDS IecModel, TLC

CONSTANTS f1, f2, n1, n2

(* Two files that differ in the name they give the device *)
TwoNames == f1 :> n1 @@ f2 :> n2
=============================================================================
