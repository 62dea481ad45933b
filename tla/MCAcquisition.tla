--------------------------- MODULE MCAcquisition ---------------------------
(* Instances of Acquisition for TLC. *)
EXTENDS Acquisition

TwoOptions == {[timeout |-> 1, retries |-> 1], [timeout |-> 2, retries |-> 0]}

AllReplies == Kinds \cup {"none"}
=============================================================================
