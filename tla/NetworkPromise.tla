--------------------------- MODULE NetworkPromise ---------------------------
(***************************************************************************)
(* What the network transaction promises an operator who changes the       *)
(* addresses of a remote device: a proposed configuration takes the place  *)
(* of the committed one only after it has been accepted, it takes its      *)
(* place as a whole, and until then it can only be withdrawn, which leaves *)
(* the committed configuration as it was.  Nothing here knows of journals, *)
(* files, kernels, crashes or deadlines: the NetworkTransaction module     *)
(* implements this one.                                                    *)
(***************************************************************************)
CONSTANTS Configs,    \* the configurations an operator may propose
          NoConfig    \* no proposal is open

VARIABLES committed,  \* the configuration in force
          proposal,   \* the configuration on trial, or NoConfig
          accepted    \* the proposal has been accepted

vars == <<committed, proposal, accepted>>

Init ==
    /\ committed \in Configs
    /\ proposal = NoConfig
    /\ accepted = FALSE

Propose(c) ==
    /\ proposal = NoConfig
    /\ proposal' = c
    /\ accepted' = FALSE
    /\ UNCHANGED committed

Accept ==
    /\ proposal # NoConfig
    /\ ~accepted
    /\ accepted' = TRUE
    /\ UNCHANGED <<committed, proposal>>

Commit ==
    /\ accepted
    /\ committed' = proposal
    /\ proposal' = NoConfig
    /\ accepted' = FALSE

Withdraw ==
    /\ proposal # NoConfig
    /\ proposal' = NoConfig
    /\ accepted' = FALSE
    /\ UNCHANGED committed

Next ==
    \/ \E c \in Configs : Propose(c)
    \/ Accept
    \/ Commit
    \/ Withdraw

Spec == Init /\ [][Next]_vars
=============================================================================
