-------------------------- MODULE MCEventDetector --------------------------
(* Instances of EventDetector for TLC.  Peaks are those of the board shifted by
   50 dBm; the times keep the order of the shipped 30 and 60 seconds. *)
EXTENDS EventDetector

(* Below the rearm level, between the two levels, and at the trigger level; the
   lowest and the highest are the delta apart *)
LevelPeaks == {-6, 0, 5}

Shipped == [trigger |-> 5, rearm |-> 0, delta |-> 10, merge |-> 2]

(* Other levels, and no merging at all *)
Unmerged == [trigger |-> 0, rearm |-> -1, delta |-> 5, merge |-> 0]

ReloadOptions == {Shipped, Unmerged}
=============================================================================
