----------------------------- MODULE MCStorage -----------------------------
(* Instances of Storage for TLC.  The space is counted in files: of 20 units
   the shipped 10 and 15 percent are two and three. *)
EXTENDS Storage

(* Room for the newest frame above the recovery level, and not even that *)
Usages == {15, 18}

(* The percentage decides the low level, or the configured minimum does *)
Frees == {1, 3}
=============================================================================
