---------------------- MODULE NetworkTransactionProofs ----------------------
(***************************************************************************)
(* SettledConfig and the refinement of NetworkPromise, for every set of    *)
(* configurations and leases, every window and any number of failures,     *)
(* crashes and reboots.                                                    *)
(*                                                                         *)
(* SettledConfig is not inductive: that an operation may clear or rewrite  *)
(* the journal rests on what its earlier steps have left in the files.     *)
(* Progress records that, step by step, for the transaction under way.     *)
(*                                                                         *)
(* The addresses of the interface and the leases are right as long as      *)
(* nothing fails: Orderly says what they are at every step.                *)
(***************************************************************************)
EXTENDS NetworkTransaction, TLAPS

StageSteps == {"stage_forget", "stage_leases", "stage_acquire", "stage_save", "stage_add"}
ConfirmSteps == {"confirm_kernel", "confirm_conf", "confirm_vendor", "confirm_leases",
                 "confirm_clear", "confirm_done"}
RollbackSteps == {"rb_check", "rb_conf", "rb_vendor", "rb_leases", "rb_kernel",
                  "rb_clear", "rb_forget", "journal_rolled_back"}

(* A transaction in the journal names two configurations. *)
Named(t) == t.state # "none" => t.previous \in Configs /\ t.candidate \in Configs

(* The operation under way works on the transaction in the journal. *)
Working ==
    /\ op = "none" <=> pc = "idle"
    /\ pc \in StageSteps \cup ConfirmSteps \cup RollbackSteps => tx = journal
    /\ pc \in StageSteps => journal.state = "staged"
    /\ pc \in ConfirmSteps => journal.state = "confirming"
    /\ pc \in RollbackSteps => Pending(journal)

(* What the steps already taken have left in network.json and the vendor files *)
Progress ==
    /\ pc \in {"confirm_vendor", "rb_vendor"} => saved \in Configs
    /\ pc = "confirm_vendor" => conf = tx.candidate
    /\ pc \in {"confirm_leases", "confirm_clear", "confirm_done"}
          => conf = tx.candidate /\ vendor = tx.candidate
    /\ pc = "rb_vendor"
          => conf = tx.previous /\ (journal.state = "staged" => saved = tx.previous)
    /\ pc \in {"rb_leases", "rb_kernel", "rb_clear", "rb_forget", "journal_rolled_back"}
          => conf = tx.previous /\ vendor = tx.previous
    /\ pc = "journal_clear" /\ journal.state = "confirming"
          => conf = journal.previous /\ vendor = journal.previous

(* No step that may add an address is without the lease it needs. *)
Leased ==
    /\ pc \in {"stage_save", "stage_add"} => ~LeaseMissing(tx.candidate, cl)
    /\ pc \in {"confirm_conf", "confirm_vendor", "confirm_leases", "confirm_clear"}
          => ~LeaseMissing(tx.previous, pl)

IInv == TypeOK /\ SettledConfig /\ Named(journal) /\ Working /\ Progress /\ Leased

-----------------------------------------------------------------------------
(* The initial states satisfy the invariant. *)
LEMMA InitInv == Init => IInv
<1> SUFFICES ASSUME Init PROVE IInv
  OBVIOUS
<1> USE ConfigAssumption, BoundAssumption
<1>1. TypeOK
  BY DEF Init, TypeOK, NoTx, Transaction, TransactionState, Configs, LeaseContent,
         LeaseFile, Address, ServiceState, Ops, ServiceOps, Steps, Results, Effective
<1>2. SettledConfig /\ Named(journal) /\ Working /\ Progress /\ Leased
  BY DEF Init, NoTx, SettledConfig, Named, Working, Progress, Leased,
         StageSteps, ConfirmSteps, RollbackSteps
<1> QED
  BY <1>1, <1>2 DEF IInv

-----------------------------------------------------------------------------
(* Every step preserves the invariant. *)
LEMMA NextInv == IInv /\ [Next]_vars => IInv'
<1> SUFFICES ASSUME IInv, [Next]_vars PROVE IInv'
  OBVIOUS
<1> USE ConfigAssumption, BoundAssumption DEF IInv, TypeOK, SettledConfig, Named,
    Working, Progress, Leased, StageSteps, ConfirmSteps, RollbackSteps, Pending,
    Transaction, TransactionState, LeaseContent, LeaseFile, Address, Configs,
    ServiceState, Ops, ServiceOps, Steps, Results, LeaseMissing, Effective,
    Succeed, Fail, files, kernel, locals, bounds
<1>1. CASE StageForget
  BY <1>1 DEF StageForget, Goto
<1>2. CASE StageLeases
  BY <1>2 DEF StageLeases, Goto
<1>3. CASE StageAcquire
  BY <1>3 DEF StageAcquire, Goto
<1>4. CASE StageSave
  BY <1>4 DEF StageSave, Goto, Added, Only
<1>5. CASE StageAdd
  BY <1>5 DEF StageAdd, Goto, Added, Only, Return, SvcAfter, AfterRecovery
<1>6. CASE ConfirmKernel
  <2>0. client' \in BOOLEAN
    BY <1>6 DEF ConfirmKernel, Goto, ConfirmFailed, Only
  <2>1. TypeOK'
    BY <2>0, <1>6 DEF ConfirmKernel, Goto, ConfirmFailed, Only
  <2>2. SettledConfig' /\ Named(journal)'
    BY <1>6 DEF ConfirmKernel, Goto, ConfirmFailed, Only
  <2>3. Working'
    BY <1>6 DEF ConfirmKernel, Goto, ConfirmFailed, Only
  <2>4. Progress'
    BY <1>6 DEF ConfirmKernel, Goto, ConfirmFailed, Only
  <2>5. Leased'
    BY <1>6 DEF ConfirmKernel, Goto, ConfirmFailed, Only
  <2> QED
    BY <2>1, <2>2, <2>3, <2>4, <2>5
<1>7. CASE ConfirmConf
  <2>0. client' \in BOOLEAN
    BY <1>7 DEF ConfirmConf, Goto, ConfirmFailed, Restore, Only
  <2>1. TypeOK'
    BY <2>0, <1>7 DEF ConfirmConf, Goto, ConfirmFailed, Restore, Only
  <2>2. SettledConfig' /\ Named(journal)'
    BY <1>7 DEF ConfirmConf, Goto, ConfirmFailed, Restore, Only
  <2>3. Working'
    BY <1>7 DEF ConfirmConf, Goto, ConfirmFailed, Restore, Only
  <2>4. Progress'
    BY <1>7 DEF ConfirmConf, Goto, ConfirmFailed, Restore, Only
  <2>5. Leased'
    BY <1>7 DEF ConfirmConf, Goto, ConfirmFailed, Restore, Only
  <2> QED
    BY <2>1, <2>2, <2>3, <2>4, <2>5
<1>8. CASE ConfirmVendor
  <2>0. client' \in BOOLEAN
    BY <1>8 DEF ConfirmVendor, Goto, ConfirmFailed, Restore, Only
  <2>1. TypeOK'
    BY <2>0, <1>8 DEF ConfirmVendor, Goto, ConfirmFailed, Restore, Only
  <2>2. SettledConfig' /\ Named(journal)'
    BY <1>8 DEF ConfirmVendor, Goto, ConfirmFailed, Restore, Only
  <2>3. Working'
    BY <1>8 DEF ConfirmVendor, Goto, ConfirmFailed, Restore, Only
  <2>4. Progress'
    BY <1>8 DEF ConfirmVendor, Goto, ConfirmFailed, Restore, Only
  <2>5. Leased'
    BY <1>8 DEF ConfirmVendor, Goto, ConfirmFailed, Restore, Only
  <2> QED
    BY <2>1, <2>2, <2>3, <2>4, <2>5
<1>9. CASE ConfirmLeases
  <2>0. client' \in BOOLEAN
    BY <1>9 DEF ConfirmLeases, Goto, ConfirmFailed, ConfirmUndone, Restore, Only
  <2>1. TypeOK'
    BY <2>0, <1>9 DEF ConfirmLeases, Goto, ConfirmFailed, ConfirmUndone, Restore, Only
  <2>2. SettledConfig' /\ Named(journal)'
    BY <1>9 DEF ConfirmLeases, Goto, ConfirmFailed, ConfirmUndone, Restore, Only
  <2>3. Working'
    BY <1>9 DEF ConfirmLeases, Goto, ConfirmFailed, ConfirmUndone, Restore, Only
  <2>4. Progress'
    BY <1>9 DEF ConfirmLeases, Goto, ConfirmFailed, ConfirmUndone, Restore, Only
  <2>5. Leased'
    BY <1>9 DEF ConfirmLeases, Goto, ConfirmFailed, ConfirmUndone, Restore, Only
  <2> QED
    BY <2>1, <2>2, <2>3, <2>4, <2>5
<1>10. CASE ConfirmClear
  <2>0. client' \in BOOLEAN
    BY <1>10 DEF ConfirmClear, Goto, ConfirmFailed, ConfirmUndone, Restore, Only, ClearStaged
  <2>1. TypeOK'
    BY <2>0, <1>10 DEF ConfirmClear, Goto, ConfirmFailed, ConfirmUndone, Restore, Only, ClearStaged
  <2>2. SettledConfig' /\ Named(journal)'
    BY <1>10 DEF ConfirmClear, Goto, ConfirmFailed, ConfirmUndone, Restore, Only, ClearStaged
  <2>3. Working'
    BY <1>10 DEF ConfirmClear, Goto, ConfirmFailed, ConfirmUndone, Restore, Only, ClearStaged
  <2>4. Progress'
    BY <1>10 DEF ConfirmClear, Goto, ConfirmFailed, ConfirmUndone, Restore, Only, ClearStaged
  <2>5. Leased'
    BY <1>10 DEF ConfirmClear, Goto, ConfirmFailed, ConfirmUndone, Restore, Only, ClearStaged
  <2> QED
    BY <2>1, <2>2, <2>3, <2>4, <2>5
<1>11. CASE ConfirmDone
  BY <1>11 DEF ConfirmDone, Goto, Return, SvcAfter, AfterRecovery
<1>12. CASE RollbackCheck
  BY <1>12 DEF RollbackCheck, Goto, Return, SvcAfter, AfterRecovery
<1>13. CASE RollbackConf
  BY <1>13 DEF RollbackConf, Goto, Return, SvcAfter, AfterRecovery
<1>14. CASE RollbackVendor
  <2>1. TypeOK'
    BY <1>14 DEF RollbackVendor, Goto, Return, SvcAfter, AfterRecovery
  <2>2. SettledConfig' /\ Named(journal)'
    BY <1>14 DEF RollbackVendor, Goto, Return, SvcAfter, AfterRecovery
  <2>3. Working'
    BY <1>14 DEF RollbackVendor, Goto, Return, SvcAfter, AfterRecovery
  <2>4. Progress'
    BY <1>14 DEF RollbackVendor, Goto, Return, SvcAfter, AfterRecovery
  <2>5. Leased'
    BY <1>14 DEF RollbackVendor, Goto, Return, SvcAfter, AfterRecovery
  <2> QED
    BY <2>1, <2>2, <2>3, <2>4, <2>5
<1>15. CASE RollbackLeases
  BY <1>15 DEF RollbackLeases, Goto, Return, SvcAfter, AfterRecovery
<1>16. CASE RollbackKernel
  BY <1>16 DEF RollbackKernel, Goto, Return, SvcAfter, AfterRecovery, Added, Only
<1>17. CASE RollbackClear
  BY <1>17 DEF RollbackClear, Goto, Return, SvcAfter, AfterRecovery
<1>18. CASE RollbackForget
  BY <1>18 DEF RollbackForget, Goto, Return, SvcAfter, AfterRecovery, ClearStaged
<1>19. CASE JournalRolledBack
  BY <1>19 DEF JournalRolledBack, Goto, Return, SvcAfter, AfterRecovery
<1>20. CASE JournalClear
  <2>1. TypeOK'
    BY <1>20 DEF JournalClear, NoTx, Goto, Return, SvcAfter, AfterRecovery
  <2>2. SettledConfig' /\ Named(journal)'
    BY <1>20 DEF JournalClear, NoTx, Goto, Return, SvcAfter, AfterRecovery
  <2>3. Working'
    BY <1>20 DEF JournalClear, NoTx, Goto, Return, SvcAfter, AfterRecovery
  <2>4. Progress'
    BY <1>20 DEF JournalClear, NoTx, Goto, Return, SvcAfter, AfterRecovery
  <2>5. Leased'
    BY <1>20 DEF JournalClear, NoTx, Goto, Return, SvcAfter, AfterRecovery
  <2> QED
    BY <2>1, <2>2, <2>3, <2>4, <2>5
<1>21. CASE \E c \in Configs : Stage(c)
  BY <1>21 DEF Stage
<1>22. CASE Confirm
  BY <1>22 DEF Confirm, Due, ExpiryReason, RollbackLoaded
<1>23. CASE RollbackNow
  BY <1>23 DEF RollbackNow, RollbackLoaded
<1>24. CASE Monitor
  BY <1>24 DEF Monitor, RollbackIfNeeded, RollbackLoaded, Due, ExpiryReason
<1>25. CASE StartService
  BY <1>25 DEF StartService
<1>26. CASE StartRecovering
  BY <1>26 DEF StartRecovering, RollbackIfNeeded, RollbackLoaded, Due, ExpiryReason
<1>27. CASE StartRuntime
  <2>0. client' \in BOOLEAN
    BY <1>27 DEF StartRuntime, AfterRuntime
  <2>1. TypeOK'
    BY <2>0, <1>27 DEF StartRuntime, AfterRuntime
  <2>2. SettledConfig' /\ Named(journal)'
    BY <1>27 DEF StartRuntime, AfterRuntime
  <2>3. Working'
    BY <1>27 DEF StartRuntime, AfterRuntime
  <2>4. Progress'
    BY <1>27 DEF StartRuntime, AfterRuntime
  <2>5. Leased'
    BY <1>27 DEF StartRuntime, AfterRuntime
  <2> QED
    BY <2>1, <2>2, <2>3, <2>4, <2>5
<1>28. CASE RefreshRuntime
  BY <1>28 DEF RefreshRuntime
<1>29. CASE BootScripts
  BY <1>29 DEF BootScripts
<1>30. CASE Recover
  BY <1>30 DEF Recover, RollbackIfNeeded, RollbackLoaded, Due, ExpiryReason
<1>31. CASE RecoverNothing
  BY <1>31 DEF RecoverNothing
<1>32. CASE Tick
  BY <1>32 DEF Tick
<1>33. CASE ServiceCrash
  <2>0. client' \in BOOLEAN
    BY <1>33 DEF ServiceCrash, Crash, Drop
  <2>1. TypeOK'
    BY <2>0, <1>33 DEF ServiceCrash, Crash, Drop
  <2>2. SettledConfig' /\ Named(journal)'
    BY <1>33 DEF ServiceCrash, Crash, Drop
  <2>3. Working'
    BY <1>33 DEF ServiceCrash, Crash, Drop
  <2>4. Progress'
    BY <1>33 DEF ServiceCrash, Crash, Drop
  <2>5. Leased'
    BY <1>33 DEF ServiceCrash, Crash, Drop
  <2> QED
    BY <2>1, <2>2, <2>3, <2>4, <2>5
<1>34. CASE RecoveryCrash
  BY <1>34 DEF RecoveryCrash, Crash, Drop, AfterRecovery
<1>35. CASE Reboot
  <2>0. client' \in BOOLEAN
    BY <1>35 DEF Reboot, Drop
  <2>1. TypeOK'
    BY <2>0, <1>35 DEF Reboot, Drop
  <2>2. SettledConfig' /\ Named(journal)'
    BY <1>35 DEF Reboot, Drop
  <2>3. Working'
    BY <1>35 DEF Reboot, Drop
  <2>4. Progress'
    BY <1>35 DEF Reboot, Drop
  <2>5. Leased'
    BY <1>35 DEF Reboot, Drop
  <2> QED
    BY <2>1, <2>2, <2>3, <2>4, <2>5
<1>36. CASE UNCHANGED vars
  BY <1>36 DEF vars
<1> QED
  BY <1>1, <1>2, <1>3, <1>4, <1>5, <1>6, <1>7, <1>8, <1>9, <1>10, <1>11, <1>12, <1>13, <1>14, <1>15, <1>16, <1>17, <1>18, <1>19, <1>20, <1>21, <1>22, <1>23, <1>24, <1>25, <1>26, <1>27, <1>28, <1>29, <1>30, <1>31, <1>32, <1>33, <1>34, <1>35, <1>36
     DEF Next, Operation, Operator, Service, Recovery, Environment

-----------------------------------------------------------------------------
(* No reachable state breaks the types of the model; in particular the steps
   of the backend never configure an interface with a lease they do not have. *)
THEOREM TypeCorrect == Spec => []TypeOK
<1>1. IInv => TypeOK
  BY DEF IInv
<1> QED
  BY <1>1, InitInv, NextInv, PTL DEF Spec

(* Whatever TransactionManager and the backend were doing when a step failed,
   a process died or the power went, the configuration files agree with each
   other and with the journal unless a confirmation is on record as unfinished. *)
THEOREM ConfigurationSettled == Spec => []SettledConfig
<1>1. IInv => SettledConfig
  BY DEF IInv
<1> QED
  BY <1>1, InitInv, NextInv, PTL DEF Spec

-----------------------------------------------------------------------------
(* The initial states are initial states of the promise. *)
LEMMA PromiseInit == Init => Promise!Init
  BY ConfigAssumption DEF Init, NoTx, Pending, Promise!Init

(* A step that leaves the journal and network.json alone is invisible. *)
LEMMA Invisible ==
    ASSUME UNCHANGED <<journal, conf>>
    PROVE  UNCHANGED Promise!vars
  BY DEF Promise!vars, Pending

(* While a confirmation is on record as unfinished, network.json is not what the
   operator sees. *)
LEMMA Unfinished ==
    ASSUME UNCHANGED journal, journal.state = "confirming"
    PROVE  UNCHANGED Promise!vars
  BY DEF Promise!vars, Pending

(* Every step is a step of the promise, or changes nothing it speaks of. *)
LEMMA PromiseNext == IInv /\ [Next]_vars => [Promise!Next]_(Promise!vars)
<1> SUFFICES ASSUME IInv, [Next]_vars PROVE [Promise!Next]_(Promise!vars)
  OBVIOUS
<1> USE DEF files, kernel, locals, bounds
<1>1. ASSUME NEW c \in Configs, Stage(c) PROVE [Promise!Next]_(Promise!vars)
  <2>1. CASE UNCHANGED journal
    BY <2>1, <1>1, Invisible DEF Stage
  <2>2. CASE journal' # journal
    <3>1. /\ ~Pending(journal)
          /\ journal'.state = "staged" /\ journal'.candidate = c
          /\ UNCHANGED conf
      BY <2>2, <1>1 DEF Stage
    <3>2. Promise!Propose(c)
      BY <3>1 DEF Promise!Propose, Pending
    <3> QED
      BY <3>2 DEF Promise!Next
  <2> QED
    BY <2>1, <2>2
<1>2. CASE Confirm
  <2>1. CASE UNCHANGED journal
    BY <2>1, <1>2, Invisible DEF Confirm
  <2>2. CASE journal' # journal
    <3>1. /\ journal.state = "staged" /\ journal'.state = "confirming"
          /\ journal'.previous = journal.previous
          /\ journal'.candidate = journal.candidate
          /\ UNCHANGED conf
      BY <2>2, <1>2 DEF Confirm, IInv, TypeOK, Transaction
    <3>2. journal.candidate # NoConfig /\ conf = journal.previous
      BY <3>1, ConfigAssumption DEF IInv, Named, SettledConfig
    <3>3. Promise!Accept
      BY <3>1, <3>2 DEF Promise!Accept, Pending
    <3> QED
      BY <3>3 DEF Promise!Next
  <2> QED
    BY <2>1, <2>2
<1>3. CASE ConfirmDone
  <2>1. CASE UNCHANGED journal
    BY <2>1, <1>3, Invisible DEF ConfirmDone
  <2>2. CASE journal' # journal
    <3>1. /\ journal.state = "confirming" /\ tx = journal
          /\ conf = journal.candidate
      BY <1>3 DEF ConfirmDone, IInv, Working, ConfirmSteps, Progress
    <3>2. /\ journal'.state = "confirmed"
          /\ UNCHANGED conf
      BY <2>2, <1>3, <3>1 DEF ConfirmDone, IInv, TypeOK, Transaction
    <3>3. Promise!Commit
      BY <3>1, <3>2 DEF Promise!Commit, Pending
    <3> QED
      BY <3>3 DEF Promise!Next
  <2> QED
    BY <2>1, <2>2
<1>4. CASE JournalRolledBack
  <2>1. CASE UNCHANGED journal
    BY <2>1, <1>4, Invisible DEF JournalRolledBack
  <2>2. CASE journal' # journal
    <3>1. /\ Pending(journal) /\ tx = journal
          /\ conf = journal.previous
          /\ journal.candidate # NoConfig
      BY <1>4, ConfigAssumption
         DEF JournalRolledBack, IInv, Working, RollbackSteps, Progress, Named, Pending
    <3>2. /\ journal'.state = "rolled_back"
          /\ UNCHANGED conf
      BY <2>2, <1>4, <3>1 DEF JournalRolledBack, IInv, TypeOK, Transaction
    <3>3. Promise!Withdraw
      BY <3>1, <3>2 DEF Promise!Withdraw, Pending
    <3> QED
      BY <3>3 DEF Promise!Next
  <2> QED
    BY <2>1, <2>2
<1>5. CASE JournalClear
  <2>1. CASE UNCHANGED journal
    BY <2>1, <1>5, Invisible DEF JournalClear
  <2>2. CASE journal' # journal
    <3>1. journal' = NoTx /\ UNCHANGED conf
      BY <2>2, <1>5 DEF JournalClear
    <3>2. CASE Pending(journal)
      <4>1. conf = journal.previous /\ journal.candidate # NoConfig
        BY <1>5, <3>2, ConfigAssumption
           DEF JournalClear, IInv, Progress, SettledConfig, Named, Pending
      <4>2. Promise!Withdraw
        BY <3>1, <3>2, <4>1 DEF Promise!Withdraw, Pending, NoTx
      <4> QED
        BY <4>2 DEF Promise!Next
    <3>3. CASE ~Pending(journal)
      BY <3>1, <3>3 DEF Promise!vars, Pending, NoTx
    <3> QED
      BY <3>2, <3>3
  <2> QED
    BY <2>1, <2>2
<1>6. CASE ConfirmConf \/ ConfirmVendor \/ ConfirmLeases \/ ConfirmClear
  <2>1. journal.state = "confirming" /\ UNCHANGED journal
    BY <1>6 DEF ConfirmConf, ConfirmVendor, ConfirmLeases, ConfirmClear,
                IInv, Working, ConfirmSteps
  <2> QED
    BY <2>1, Unfinished
<1>7. CASE RollbackConf \/ RollbackVendor
  <2>1. UNCHANGED journal /\ tx = journal /\ Pending(journal)
    BY <1>7 DEF RollbackConf, RollbackVendor, IInv, Working, RollbackSteps
  <2>2. CASE journal.state = "confirming"
    BY <2>1, <2>2, Unfinished
  <2>3. CASE journal.state = "staged"
    <3>1. UNCHANGED conf
      BY <1>7, <2>1, <2>3
         DEF RollbackConf, RollbackVendor, IInv, SettledConfig, Progress
    <3> QED
      BY <2>1, <3>1, Invisible
  <2> QED
    BY <2>1, <2>2, <2>3 DEF Pending
<1>8. CASE \/ StageForget \/ StageLeases \/ StageAcquire \/ StageSave \/ StageAdd
           \/ ConfirmKernel \/ RollbackCheck \/ RollbackLeases \/ RollbackKernel
           \/ RollbackClear \/ RollbackForget
  <2>1. UNCHANGED <<journal, conf>>
    BY <1>8 DEF StageForget, StageLeases, StageAcquire, StageSave, StageAdd,
                ConfirmKernel, RollbackCheck, RollbackLeases, RollbackKernel,
                RollbackClear, RollbackForget
  <2> QED
    BY <2>1, Invisible
<1>9. CASE RollbackNow \/ Service \/ Recovery \/ Environment \/ UNCHANGED vars
  <2>1. UNCHANGED <<journal, conf>>
    BY <1>9 DEF RollbackNow, Service, BootScripts, Monitor, StartService,
                StartRecovering, StartRuntime, RefreshRuntime, Recovery, Recover,
                RecoverNothing, RollbackIfNeeded, Environment, Tick, ServiceCrash,
                RecoveryCrash, Reboot, vars
  <2> QED
    BY <2>1, Invisible
<1> QED
  BY <1>1, <1>2, <1>3, <1>4, <1>5, <1>6, <1>7, <1>8, <1>9
     DEF Next, Operation, Operator

(* The journal, network.json and the operations on them implement the promise
   made to the operator, for every number of failures, crashes and reboots. *)
THEOREM Refinement == Spec => ImplementsPromise
<1> QED
  BY InitInv, NextInv, PromiseInit, PromiseNext, PTL
     DEF Spec, ImplementsPromise, Promise!Spec

-----------------------------------------------------------------------------
(* What is on the interface and in the lease files as long as nothing fails.

   The two processes do not share staged_: when uhf-network-recovery ends a
   transaction, uhf-privilegedd still remembers it and refuses the next stage, and
   its rollback of the refused one is refused too.  The invariant therefore tells
   a transaction whose candidate is on the interface (OnTrial) from one that was
   refused (Refused), and says which of them confirm will not touch. *)

Previous == Effective(journal.previous, leases)

(* network.json, its leases and the interface belong together; a lease file of an
   earlier transaction is left only where the next stage will remove it. *)
Settled ==
    /\ ~LeaseMissing(conf, leases)
    /\ addr = {Effective(conf, leases)}
    /\ stagedLeases = NoFile
    /\ previousLeases = NoFile \/ backendStaged = NoStage

OnTrial ==
    /\ stagedLeases \in LeaseContent
    /\ ~LeaseMissing(journal.candidate, stagedLeases)
    /\ addr = {Previous, Effective(journal.candidate, stagedLeases)}
    /\ previousLeases = leases
    /\ backendStaged = <<journal.previous, journal.candidate>>

NotApplied ==
    /\ addr = {Previous}
    /\ stagedLeases = NoFile
    /\ previousLeases \in {NoFile, leases}

Refused ==
    /\ NotApplied
    /\ \/ journal.candidate \in DhcpConfigs
       \/ backendStaged \notin {NoStage, <<journal.previous, journal.candidate>>}

(* Which process is where *)
Roles ==
    /\ svc \in {"idle", "busy", "runtime", "runtime_monitor", "refresh"}
    /\ op # "start"
    /\ svc = "busy" <=> op \in ServiceOps
    /\ svc \in {"runtime", "runtime_monitor", "refresh"} => journal.state = "none"
    /\ pc \in StageSteps => op = "stage"
    /\ pc \in ConfirmSteps => op = "confirm"
    /\ journal.state \in {"confirmed", "rolled_back"} => pc = "journal_clear"

Resting ==
    /\ pc = "idle" /\ ~Pending(journal) => Settled
    /\ pc = "idle" /\ Pending(journal) => OnTrial \/ Refused
    /\ pc = "journal_clear" => Settled
    /\ Pending(journal) /\ pc \notin {"confirm_clear", "confirm_done", "journal_clear"}
          => ~LeaseMissing(journal.previous, leases)

Staging ==
    /\ pc \in StageSteps => addr = {Previous}
    /\ pc \in StageSteps \ {"stage_add"} => stagedLeases = NoFile
    /\ pc = "stage_forget" => previousLeases = NoFile \/ backendStaged = NoStage
    /\ pc \in StageSteps \ {"stage_forget"} => pl = leases /\ backendStaged = NoStage
    /\ pc \in {"stage_acquire", "stage_save", "stage_add"} => previousLeases = leases
    /\ pc = "stage_add" => stagedLeases = cl

Confirming ==
    /\ pc = "confirm_kernel" => OnTrial \/ Refused
    /\ pc \in ConfirmSteps \ {"confirm_kernel"}
          => addr = {Effective(journal.candidate, cl)} /\ ~LeaseMissing(journal.candidate, cl)
    /\ pc \in {"confirm_clear", "confirm_done"} => leases = cl
    /\ pc = "confirm_done" => stagedLeases = NoFile /\ backendStaged = NoStage

RollingBack ==
    /\ pc = "rb_check" => OnTrial \/ NotApplied
    /\ pc \in {"rb_conf", "rb_vendor", "rb_leases", "rb_kernel"}
          => /\ pl = leases
             /\ Previous \in addr
             /\ addr \subseteq {Previous, Effective(journal.candidate, cl)}
    /\ pc \in {"rb_clear", "rb_forget", "journal_rolled_back"} => addr = {Previous}
    /\ pc \in {"rb_forget", "journal_rolled_back"} => stagedLeases = NoFile
    /\ pc = "journal_rolled_back" => previousLeases = NoFile

Orderly == Roles /\ Resting /\ Staging /\ Confirming /\ RollingBack

OrderlyInv == Undisturbed => Orderly

LEMMA InitOrderly == Init => OrderlyInv
  BY ConfigAssumption DEF Init, OrderlyInv, Orderly, Roles, Resting, Staging, Confirming,
     RollingBack, Settled, NoTx, Pending, LeaseMissing, Effective, Configs, ServiceOps,
     StageSteps, ConfirmSteps

(* A step that leaves the behaviour undisturbed found it so and did not fail. *)
LEMMA UndisturbedStep ==
    ASSUME TypeOK, [Next]_vars, Undisturbed'
    PROVE  Undisturbed /\ ~Fail /\ ~Crash /\ ~Reboot
<1>1. /\ faults \in Nat /\ crashes \in Nat /\ boot \in Nat /\ boot >= 1
      /\ faults' = 0 /\ crashes' = 0 /\ boot' = 1
  BY BoundAssumption DEF TypeOK, Undisturbed
<1>2. ~Fail /\ ~Crash /\ ~Reboot
  BY <1>1 DEF Fail, Crash, Reboot
<1>3. boot' = boot /\ faults' = faults /\ crashes' = crashes
  BY <1>2 DEF Next, Operation, Operator, Service, Recovery, Environment, vars, kernel, bounds,
     Succeed, Goto, Return, ConfirmFailed, ConfirmUndone,
     StageForget, StageLeases, StageAcquire, StageSave, StageAdd, ConfirmKernel, ConfirmConf,
     ConfirmVendor, ConfirmLeases, ConfirmClear, ConfirmDone, RollbackCheck, RollbackConf,
     RollbackVendor, RollbackLeases, RollbackKernel, RollbackClear, RollbackForget,
     JournalRolledBack, JournalClear, Stage, Confirm, RollbackNow, BootScripts, Monitor,
     StartService, StartRecovering, StartRuntime, RefreshRuntime, Tick, ServiceCrash,
     RecoveryCrash, Recover, RecoverNothing, RollbackIfNeeded
<1> QED BY <1>1, <1>2, <1>3 DEF Undisturbed

LEMMA NextOrderly == IInv /\ OrderlyInv /\ [Next]_vars => OrderlyInv'
<1> SUFFICES ASSUME IInv, OrderlyInv, [Next]_vars, Undisturbed' PROVE Orderly'
  BY DEF OrderlyInv
<1>0. Orderly /\ ~Fail /\ ~Crash /\ ~Reboot
  BY UndisturbedStep DEF IInv, OrderlyInv
<1> USE <1>0, ConfigAssumption DEF Orderly, Roles, Resting, Staging, Confirming, RollingBack,
    Settled, OnTrial, NotApplied, Refused, Previous,
    IInv, TypeOK, SettledConfig, Named,
    Working, Progress, Leased, StageSteps, ConfirmSteps, RollbackSteps, Pending,
    Transaction, TransactionState, LeaseContent, LeaseFile, Configs,
    Ops, ServiceOps, Steps, LeaseMissing, Effective,
    files, kernel, locals, bounds
<1>1. CASE StageForget
  BY <1>1 DEF StageForget, Goto
<1>2. CASE StageLeases
  BY <1>2 DEF StageLeases, Goto
<1>3. CASE StageAcquire
  BY <1>3 DEF StageAcquire, Goto
<1>4. CASE StageSave
  BY <1>4 DEF StageSave, Goto
<1>5. CASE StageAdd
  BY <1>5 DEF StageAdd, Goto, Added, Only, Return, SvcAfter, RuntimeDue, ExitDue
<1>6. CASE ConfirmKernel
  BY <1>6 DEF ConfirmKernel, Goto, ConfirmFailed, Only, StagedMismatch, Staged
<1>7. CASE ConfirmConf
  BY <1>7 DEF ConfirmConf, Goto
<1>8. CASE ConfirmVendor
  BY <1>8 DEF ConfirmVendor, Goto
<1>9. CASE ConfirmLeases
  BY <1>9 DEF ConfirmLeases, Goto
<1>10. CASE ConfirmClear
  BY <1>10 DEF ConfirmClear, Goto, ClearStaged
<1>11. CASE ConfirmDone
  BY <1>11 DEF ConfirmDone, Goto
<1>12. CASE RollbackCheck
  BY <1>12 DEF RollbackCheck, Goto, StagedMismatch, Staged, Return, SvcAfter, RuntimeDue, ExitDue, AfterRecovery
<1>13. CASE RollbackConf
  BY <1>13 DEF RollbackConf, Goto
<1>14. CASE RollbackVendor
  BY <1>14 DEF RollbackVendor, Goto
<1>15. CASE RollbackLeases
  BY <1>15 DEF RollbackLeases, Goto
<1>16. CASE RollbackKernel
  BY <1>16 DEF RollbackKernel, Goto, Added, Only
<1>17. CASE RollbackClear
  BY <1>17 DEF RollbackClear, Goto
<1>18. CASE RollbackForget
  BY <1>18 DEF RollbackForget, Goto, ClearStaged
<1>19. CASE JournalRolledBack
  BY <1>19 DEF JournalRolledBack, Goto
<1>20. CASE JournalClear
  BY <1>20 DEF JournalClear, NoTx, Return, SvcAfter, AfterRecovery, ExitDue
<1>21. CASE \E c \in Configs : Stage(c)
  BY <1>21 DEF Stage
<1>22. CASE Confirm
  BY <1>22 DEF Confirm, RollbackLoaded
<1>23. CASE RollbackNow
  BY <1>23 DEF RollbackNow, RollbackLoaded
<1>24. CASE Monitor
  BY <1>24 DEF Monitor, RollbackIfNeeded, RollbackLoaded
<1>25. CASE Recover
  BY <1>25 DEF Recover, RollbackIfNeeded, RollbackLoaded
<1>26. CASE StartRuntime
  BY <1>26 DEF StartRuntime, AfterRuntime
<1>27. CASE RefreshRuntime
  BY <1>27 DEF RefreshRuntime
<1>28. CASE StartService \/ StartRecovering \/ BootScripts \/ RecoverNothing
  BY <1>28 DEF StartService, StartRecovering, BootScripts, RecoverNothing
<1>29. CASE Tick
  BY <1>29 DEF Tick
<1>30. CASE UNCHANGED vars
  BY <1>30 DEF vars
<1> QED
  BY <1>1, <1>2, <1>3, <1>4, <1>5, <1>6, <1>7, <1>8, <1>9, <1>10, <1>11, <1>12, <1>13, <1>14, <1>15, <1>16, <1>17, <1>18, <1>19, <1>20, <1>21, <1>22, <1>23, <1>24, <1>25, <1>26, <1>27, <1>28, <1>29, <1>30
     DEF Next, Operation, Operator, Service, Recovery, Environment, ServiceCrash, RecoveryCrash

LEMMA OrderlyAlways == Spec => [](IInv /\ OrderlyInv)
<1>1. Init => IInv /\ OrderlyInv
  BY InitInv, InitOrderly
<1>2. IInv /\ OrderlyInv /\ [Next]_vars => (IInv /\ OrderlyInv)'
  BY NextInv, NextOrderly
<1> QED
  BY <1>1, <1>2, PTL DEF Spec

(* As long as nothing fails, a configuration that needs a lease keeps one in
   network.json.leases, whichever process ended the transaction: confirm stores
   the candidate's, rollback writes the previous ones back. *)
THEOREM LeasesKept == Spec => []LeaseKept
<1>1. IInv /\ OrderlyInv => LeaseKept
  BY DEF IInv, Working, OrderlyInv, Orderly, Resting, Settled, LeaseKept
<1> QED
  BY <1>1, OrderlyAlways, PTL

(* As long as nothing fails, the interface answers on the configured address and
   on no other once stage, confirm, rollback and the runtime are through. *)
THEOREM AddressesMatch == Spec => []AddressMatches
<1>1. IInv /\ OrderlyInv => AddressMatches
  BY DEF IInv, Working, OrderlyInv, Orderly, Resting, Settled, AddressMatches
<1> QED
  BY <1>1, OrderlyAlways, PTL

(* As long as nothing fails, no step of apply_stage, confirm, rollback or the
   runtime leaves the interface without an address. *)
THEOREM MadeBeforeBroken == Spec => []MakeBeforeBreak
<1>1. IInv /\ OrderlyInv => MakeBeforeBreak
  <2> SUFFICES ASSUME IInv, Orderly PROVE addr # {}
    BY DEF OrderlyInv, MakeBeforeBreak
  <2>1. pc = "idle" => addr # {}
    BY DEF Orderly, Resting, Settled, OnTrial, Refused, NotApplied
  <2>2. pc \in StageSteps => addr # {}
    BY DEF Orderly, Staging
  <2>3. pc \in ConfirmSteps => addr # {}
    BY DEF Orderly, Confirming, ConfirmSteps, OnTrial, Refused, NotApplied
  <2>4. pc \in RollbackSteps => addr # {}
    BY DEF Orderly, RollingBack, RollbackSteps, OnTrial, NotApplied
  <2>5. pc = "journal_clear" => addr # {}
    BY DEF Orderly, Resting, Settled
  <2> QED
    BY <2>1, <2>2, <2>3, <2>4, <2>5
       DEF IInv, TypeOK, Steps, StageSteps, ConfirmSteps, RollbackSteps
<1> QED
  BY <1>1, OrderlyAlways, PTL

=============================================================================
