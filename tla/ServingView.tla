---------------------------- MODULE ServingView ----------------------------
(* What the servers of the gateway read: the newest snapshot and the
   availability of the acquisition, always taken together under the mutex of
   the snapshot store.  Module Acquisition models how they come about. *)
EXTENDS Naturals

CONSTANTS MaxGeneration, \* bound on snapshots
          MaxFaults,     \* bound on failing system calls
          Ports,         \* values of a configured port
          MaxVersions    \* bound on changes of a configured endpoint

ASSUME ViewBounds ==
    MaxGeneration \in Nat /\ MaxFaults \in Nat /\ Ports # {} /\ MaxVersions \in Nat

VARIABLES generation,    \* of latest_; 0 when there is none
          availability,  \* status_.availability
          faults         \* failing system calls so far

view == <<generation, availability>>
Availabilities == {"fresh", "stale", "invalid"}

(* The endpoint configured at the start: any, and all are alike. *)
FirstPort == CHOOSE port \in Ports : TRUE

ViewInit == generation = 0 /\ availability = "invalid" /\ faults = 0

Fault == faults < MaxFaults /\ faults' = faults + 1
NoFault == UNCHANGED faults

Publish ==
    /\ generation < MaxGeneration
    /\ generation' = generation + 1
    /\ availability' = "fresh"

(* A failed cycle, with a snapshot there or not *)
RecordFailure ==
    /\ availability # "invalid"
    /\ availability' \in {"stale", "invalid"} \ {availability}
    /\ UNCHANGED generation
=============================================================================
