------------------------- MODULE NetworkTransaction -------------------------
(***************************************************************************)
(* The network transaction of the gateway: TransactionManager with its     *)
(* journal, LinuxNetworkBackend with its configuration and lease files,    *)
(* NetworkService (uhf-privilegedd) that drives both for the web server,   *)
(* and uhf-network-recovery, the separate process that systemd runs at     *)
(* boot and every five seconds.                                            *)
(*                                                                         *)
(* An operation is one sequence of steps under the flock of the journal.   *)
(* A step ends where the state that survives a crash changes, so a process *)
(* may die, or the board lose power, between any two of them.  A step that *)
(* touches a file or the kernel may fail; write_atomic may also report a   *)
(* failure after its rename has taken effect.                              *)
(*                                                                         *)
(* One managed interface stands for eth0 and eth1, and one kernel entry    *)
(* stands for an address together with its default route.                  *)
(***************************************************************************)
EXTENDS Naturals

CONSTANTS StaticConfigs, \* configurations with a fixed address
          DhcpConfigs,   \* configurations whose address comes from a lease
          Leases,        \* what a DHCP server may hand out
          NoConfig, NoLease, NoFile, NoStage, \* absent values
          Window,        \* rollback_window_ns, in ticks
          MaxNow,        \* bound on the boot clock
          MaxBoot,       \* bound on the number of boots
          MaxFaults,     \* bound on the steps that fail
          MaxCrashes     \* bound on the processes that die

Configs == StaticConfigs \cup DhcpConfigs

ASSUME ConfigAssumption ==
    /\ StaticConfigs \cap DhcpConfigs = {}
    /\ NoConfig \notin Configs
    /\ NoLease \notin Leases \cup StaticConfigs
    /\ NoFile \notin Leases \cup {NoLease}
    /\ NoStage \notin Configs \X Configs
    /\ Leases \cap StaticConfigs = {}

ASSUME BoundAssumption ==
    /\ Window \in Nat \ {0}
    /\ MaxNow \in Nat \ {0}
    /\ MaxBoot \in Nat \ {0}
    /\ MaxFaults \in Nat
    /\ MaxCrashes \in Nat

VARIABLES
    (* files, which survive a crash and a reboot *)
    journal,         \* the transaction file
    conf,            \* network.json
    vendor,          \* net.conf and net2.conf, read by the board's boot scripts
    leases,          \* network.json.leases
    stagedLeases,    \* network.json.staged-leases
    previousLeases,  \* network.json.previous-leases
    (* kernel *)
    addr,            \* the addresses the interface answers on
    client,          \* the long-running dhclient is up
    boot, now,       \* boot ID and CLOCK_BOOTTIME
    (* processes *)
    svc,             \* uhf-privilegedd and its mutex_
    backendStaged,   \* staged_, staged_previous_, staged_candidate_ of uhf-privilegedd
    op,              \* the operation that holds the journal's flock
    pc, tx,          \* its next step and the transaction it works on
    pl, cl,          \* its previous_leases and candidate_leases
    saved,           \* the network.json that save() found, to restore it
    result,          \* what it returns if the remaining steps succeed
    (* bounds *)
    faults, crashes

files == <<journal, conf, vendor, leases, stagedLeases, previousLeases>>
kernel == <<addr, client, boot, now>>
locals == <<tx, pl, cl, saved, result>>
bounds == <<faults, crashes>>
vars == <<files, kernel, svc, backendStaged, op, pc, locals, bounds>>

-----------------------------------------------------------------------------
(* Values *)

NoTx == [state |-> "none", boot |-> 0, deadline |-> 0,
         previous |-> NoConfig, candidate |-> NoConfig]

TransactionState == {"none", "staged", "confirming", "confirmed", "rolled_back"}

Transaction ==
    [state : TransactionState, boot : Nat, deadline : Nat,
     previous : Configs \cup {NoConfig}, candidate : Configs \cup {NoConfig}]

Pending(t) == t.state \in {"staged", "confirming"}

LeaseContent == Leases \cup {NoLease}
LeaseFile == LeaseContent \cup {NoFile}
Address == StaticConfigs \cup Leases

ServiceOps == {"stage", "confirm", "rollback", "monitor", "start"}
Ops == ServiceOps \cup {"none", "recover"}

Steps == {"idle",
          "stage_forget", "stage_leases", "stage_acquire", "stage_save", "stage_add",
          "confirm_kernel", "confirm_conf", "confirm_vendor", "confirm_leases",
          "confirm_clear", "confirm_done",
          "rb_check", "rb_conf", "rb_vendor", "rb_leases", "rb_kernel",
          "rb_clear", "rb_forget",
          "journal_rolled_back", "journal_clear"}

(* boot: systemd runs the early recovery to its end before the network comes up;
   network: the board's own boot scripts are next, then the service is started;
   runtime, runtime_start and runtime_monitor: start_runtime is next, called by a
   request, by the start of the process or by the monitor thread, which calls
   refresh_runtime after it *)
ServiceState == {"boot", "network", "down", "idle", "busy", "runtime", "runtime_start",
                 "runtime_monitor", "refresh"}

Results == {"ok", "expired", "boot_changed", "backend_error",
            "storage_error", "no_transaction"}

(* effective_address and effective_gateway of a configuration with a lease *)
Effective(c, l) == IF c \in DhcpConfigs THEN l ELSE c

(* A DHCP configuration without a lease is refused everywhere. *)
LeaseMissing(c, l) == c \in DhcpConfigs /\ l = NoLease

(* Mutant: the address both configurations share is not left alone. *)
OnlyShared(c, l, other, ol) == {Effective(c, l)}

(* The kernel entries one of the two configurations owns alone *)
Only(c, l, other, ol) == {Effective(c, l)} \ {Effective(other, ol)}

-----------------------------------------------------------------------------
(* Steps that succeed and steps that fail *)

Succeed == UNCHANGED faults

Fail ==
    /\ faults < MaxFaults
    /\ faults' = faults + 1

Goto(step) ==
    /\ pc' = step
    /\ UNCHANGED <<svc, op, crashes, boot, now>>

(* NetworkService starts the runtime after these outcomes of an operation. *)
RuntimeDue(o, r) ==
    \/ o = "rollback" /\ r = "ok"
    \/ o \in {"confirm", "monitor"} /\ r \in {"ok", "expired", "boot_changed"}
    \/ o = "start" /\ r \in {"no_transaction", "ok", "expired", "boot_changed"}

(* uhf-privilegedd exits when its recovery at start fails. *)
ExitDue(o, r) == o = "start" /\ r \in {"backend_error", "storage_error"}

(* The early recovery of a boot is over, whatever came of it. *)
AfterRecovery == IF svc = "boot" THEN "network" ELSE svc

SvcAfter(o, r) ==
    IF o = "recover" THEN AfterRecovery
    ELSE IF ExitDue(o, r) THEN "down"
    ELSE IF ~RuntimeDue(o, r) THEN "idle"
    ELSE IF o = "start" THEN "runtime_start"
    ELSE IF o = "monitor" THEN "runtime_monitor"
    ELSE "runtime"

Return(r) ==
    /\ pc' = "idle"
    /\ op' = "none"
    /\ svc' = SvcAfter(op, r)
    /\ UNCHANGED <<crashes, boot, now>>

(* The staged_ flag is memory of uhf-privilegedd; a recovery process starts with it clear. *)
Staged == IF op = "recover" THEN NoStage ELSE backendStaged
StagedMismatch == Staged # NoStage /\ Staged # <<tx.previous, tx.candidate>>
ClearStaged == backendStaged' = IF op = "recover" THEN backendStaged ELSE NoStage

-----------------------------------------------------------------------------
Init ==
    /\ journal = NoTx
    /\ conf \in Configs
    /\ vendor = conf
    /\ \E l \in Leases :
          /\ leases = IF conf \in DhcpConfigs THEN l ELSE NoLease
          /\ addr = {Effective(conf, l)}
    /\ stagedLeases = NoFile
    /\ previousLeases = NoFile
    /\ client = (conf \in DhcpConfigs)
    /\ boot = 1
    /\ now = 1
    /\ svc = "idle"
    /\ backendStaged = NoStage
    /\ op = "none"
    /\ pc = "idle"
    /\ tx = NoTx
    /\ pl = NoLease
    /\ cl = NoLease
    /\ saved = NoConfig
    /\ result = "ok"
    /\ faults = 0
    /\ crashes = 0

-----------------------------------------------------------------------------
(* TransactionManager::stage and LinuxNetworkBackend::apply_stage *)

(* Mutant: a transaction under way does not make network.stage busy. *)
StageBusy(c) ==
    LET t == [state |-> "staged", boot |-> boot, deadline |-> now + Window,
              previous |-> conf, candidate |-> c]
    IN  /\ svc = "idle"
        /\ op = "none"
        /\ now + Window <= MaxNow
        /\ Succeed
        /\ journal' = t
        /\ tx' = t
        /\ svc' = "busy"
        /\ op' = "stage"
        /\ pc' = "stage_forget"
        /\ result' = "backend_error"
        /\ UNCHANGED <<conf, vendor, leases, stagedLeases, previousLeases, kernel,
                       backendStaged, crashes, pl, cl, saved>>

(* network.stage: read_current, then the journal is written as staged *)
Stage(c) ==
    LET t == [state |-> "staged", boot |-> boot, deadline |-> now + Window,
              previous |-> conf, candidate |-> c]
    IN  /\ svc = "idle"
        /\ op = "none"
        /\ ~Pending(journal)
        /\ ~LeaseMissing(conf, leases)
        /\ now + Window <= MaxNow
        /\ \/ /\ Succeed
              /\ journal' = t
              /\ tx' = t
              /\ svc' = "busy"
              /\ op' = "stage"
              /\ pc' = "stage_forget"
              /\ result' = "backend_error"
              /\ UNCHANGED <<pl, cl, saved>>
           \/ /\ Fail
              /\ journal' \in {journal, t}
              /\ UNCHANGED <<svc, op, pc, locals>>
        /\ UNCHANGED <<conf, vendor, leases, stagedLeases, previousLeases,
                       kernel, backendStaged, crashes>>

(* apply_stage: its refusals, then previous_lease_store_.clear *)
StageForget ==
    LET refused == backendStaged # NoStage \/ LeaseMissing(tx.previous, leases)
    IN  /\ pc = "stage_forget"
        /\ \/ /\ ~refused
              /\ Succeed
              /\ previousLeases' = NoFile
              /\ pl' = leases
              /\ Goto("stage_leases")
           \/ /\ refused
              /\ Succeed
              /\ UNCHANGED <<previousLeases, pl>>
              /\ Goto("rb_check")
           \/ /\ ~refused
              /\ Fail
              /\ previousLeases' \in {previousLeases, NoFile}
              /\ UNCHANGED pl
              /\ Goto("rb_check")
        /\ UNCHANGED <<journal, conf, vendor, leases, stagedLeases, addr, client,
                       backendStaged, tx, cl, saved, result>>

(* previous_lease_store_.save of the leases in force *)
StageLeases ==
    /\ pc = "stage_leases"
    /\ \/ /\ Succeed
          /\ previousLeases' = pl
          /\ Goto("stage_acquire")
       \/ /\ Fail
          /\ previousLeases' \in {previousLeases, pl}
          /\ Goto("rb_check")
    /\ UNCHANGED <<journal, conf, vendor, leases, stagedLeases, addr, client,
                   backendStaged, locals>>

(* DhcpClient::acquire of a candidate that needs a lease: a server may not answer *)
StageAcquire ==
    /\ pc = "stage_acquire"
    /\ Succeed
    /\ \/ /\ tx.candidate \in StaticConfigs
          /\ cl' = NoLease
          /\ Goto("stage_save")
       \/ /\ tx.candidate \in DhcpConfigs
          /\ cl' \in Leases
          /\ Goto("stage_save")
       \/ /\ tx.candidate \in DhcpConfigs
          /\ cl' = NoLease
          /\ Goto("rb_check")
    /\ UNCHANGED <<files, addr, client, backendStaged, tx, pl, saved, result>>

(* What a stage adds to the kernel *)
Added == Only(tx.candidate, cl, tx.previous, pl)

(* staged_lease_store_.save; a failure takes the candidate out again *)
StageSave ==
    /\ pc = "stage_save"
    /\ \/ /\ Succeed
          /\ stagedLeases' = cl
          /\ UNCHANGED addr
          /\ Goto("stage_add")
       \/ /\ Fail
          /\ stagedLeases' \in {stagedLeases, NoFile, cl}
          /\ addr' \in {addr, addr \ Added}
          /\ Goto("rb_check")
    /\ UNCHANGED <<journal, conf, vendor, leases, previousLeases, client,
                   backendStaged, locals>>

(* apply_address_additions: an address that is already there cannot be added;
   a failure takes the candidate out again *)
StageAdd ==
    /\ pc = "stage_add"
    /\ \/ /\ Added \cap addr = {}
          /\ Succeed
          /\ addr' = addr \cup Added
          /\ backendStaged' = <<tx.previous, tx.candidate>>
          /\ UNCHANGED stagedLeases
          /\ Return("ok")
       \/ /\ IF Added \cap addr = {} THEN Fail ELSE Succeed
          /\ addr' \in {addr \cup Added, addr \ Added}
          /\ stagedLeases' \in {stagedLeases, NoFile}
          /\ UNCHANGED backendStaged
          /\ Goto("rb_check")
    /\ UNCHANGED <<journal, conf, vendor, leases, previousLeases, client, locals>>

-----------------------------------------------------------------------------
(* TransactionManager::confirm and LinuxNetworkBackend::confirm *)

(* rollback_loaded of the transaction in the journal *)
RollbackLoaded(o, r) ==
    /\ op' = o
    /\ pc' = "rb_check"
    /\ tx' = journal
    /\ result' = r
    /\ UNCHANGED <<pl, cl, saved>>

ExpiryReason == IF boot # journal.boot THEN "boot_changed" ELSE "expired"
Due == boot # journal.boot \/ now >= journal.deadline

(* network.confirm of a staged transaction *)
Confirm ==
    LET t == [journal EXCEPT !.state = "confirming"]
    IN  /\ svc = "idle"
        /\ op = "none"
        /\ journal.state = "staged"
        /\ \/ /\ Due
              /\ Succeed
              /\ RollbackLoaded("confirm", ExpiryReason)
              /\ svc' = "busy"
              /\ UNCHANGED journal
           \/ /\ ~Due
              /\ Succeed
              /\ journal' = t
              /\ tx' = t
              /\ svc' = "busy"
              /\ op' = "confirm"
              /\ pc' = "confirm_kernel"
              /\ result' = "ok"
              /\ UNCHANGED <<pl, cl, saved>>
           \/ /\ ~Due
              /\ Fail
              /\ journal' \in {journal, t}
              /\ UNCHANGED <<svc, op, pc, locals>>
        /\ UNCHANGED <<conf, vendor, leases, stagedLeases, previousLeases,
                       kernel, backendStaged, crashes>>

(* A failed backend confirm is followed by a rollback and a cleared journal. *)
ConfirmFailed ==
    /\ result' = "backend_error"
    /\ Goto("rb_check")

(* Lease checks, stop of the previous dhclient, remove_previous_state *)
ConfirmKernel ==
    LET staged == IF stagedLeases = NoFile THEN NoLease ELSE stagedLeases
        old == Only(tx.previous, leases, tx.candidate, staged)
        refused == \/ StagedMismatch
                   \/ LeaseMissing(tx.candidate, staged)
                   \/ LeaseMissing(tx.previous, leases)
    IN  /\ pc = "confirm_kernel"
        /\ \/ /\ ~refused
              /\ Succeed
              /\ pl' = leases
              /\ cl' = staged
              /\ addr' = addr \ old
              /\ client' = (client /\ tx.previous \in StaticConfigs)
              /\ UNCHANGED result
              /\ Goto("confirm_conf")
           \/ /\ refused
              /\ Succeed
              /\ UNCHANGED <<pl, cl, addr, client>>
              /\ ConfirmFailed
           \/ /\ ~refused
              /\ Fail
              /\ addr' \in {addr, addr \ old}
              /\ client' \in {client, client /\ tx.previous \in StaticConfigs}
              /\ UNCHANGED <<pl, cl>>
              /\ ConfirmFailed
        /\ UNCHANGED <<files, backendStaged, tx, saved>>

(* restore_previous_state and restore_previous_clients, whose failures are ignored *)
Restore ==
    /\ addr' \in {addr, addr \cup Only(tx.previous, pl, tx.candidate, cl)}
    /\ client' \in {client, client \/ tx.previous \in DhcpConfigs}

(* save of the candidate: network.json first *)
ConfirmConf ==
    /\ pc = "confirm_conf"
    /\ conf' \in {conf, tx.candidate}
    /\ saved' = conf
    /\ \/ /\ Succeed
          /\ conf' = tx.candidate
          /\ UNCHANGED <<addr, client, result>>
          /\ Goto("confirm_vendor")
       \/ /\ Fail
          /\ Restore
          /\ ConfirmFailed
    /\ UNCHANGED <<journal, vendor, leases, stagedLeases, previousLeases,
                   backendStaged, tx, pl, cl>>

(* then the vendor files; a failure restores network.json *)
ConfirmVendor ==
    /\ pc = "confirm_vendor"
    /\ vendor' \in {vendor, tx.candidate}
    /\ \/ /\ Succeed
          /\ vendor' = tx.candidate
          /\ UNCHANGED <<conf, addr, client, result>>
          /\ Goto("confirm_leases")
       \/ /\ Fail
          /\ conf' \in {conf, saved}
          /\ Restore
          /\ ConfirmFailed
    /\ UNCHANGED <<journal, leases, stagedLeases, previousLeases,
                   backendStaged, tx, pl, cl, saved>>

(* Once the leases cannot be stored, save(previous) is tried and its failure ignored. *)
ConfirmUndone ==
    /\ conf' \in {conf, tx.previous}
    /\ vendor' \in {vendor, tx.previous}
    /\ Restore
    /\ ConfirmFailed

(* Mutant: the candidate's leases are not stored. *)
ConfirmLeasesDropped ==
    /\ pc = "confirm_leases"
    /\ Succeed
    /\ Goto("confirm_clear")
    /\ UNCHANGED <<files, addr, client, backendStaged, locals>>

(* The candidate's leases take the place of the previous ones. *)
ConfirmLeases ==
    /\ pc = "confirm_leases"
    /\ leases' \in {leases, cl}
    /\ \/ /\ Succeed
          /\ leases' = cl
          /\ UNCHANGED <<conf, vendor, addr, client, result>>
          /\ Goto("confirm_clear")
       \/ /\ Fail
          /\ ConfirmUndone
    /\ UNCHANGED <<journal, stagedLeases, previousLeases, backendStaged,
                   tx, pl, cl, saved>>

(* staged_lease_store_.clear, the last step of LinuxNetworkBackend::confirm *)
ConfirmClear ==
    /\ pc = "confirm_clear"
    /\ stagedLeases' \in {stagedLeases, NoFile}
    /\ \/ /\ Succeed
          /\ stagedLeases' = NoFile
          /\ ClearStaged
          /\ UNCHANGED <<conf, vendor, addr, client, result>>
          /\ Goto("confirm_done")
       \/ /\ Fail
          /\ UNCHANGED backendStaged
          /\ ConfirmUndone
    /\ UNCHANGED <<journal, leases, previousLeases, tx, pl, cl, saved>>

(* The journal is written as confirmed. *)
ConfirmDone ==
    /\ pc = "confirm_done"
    /\ \/ /\ Succeed
          /\ journal' = [tx EXCEPT !.state = "confirmed"]
          /\ Goto("journal_clear")
       \/ /\ Fail
          /\ journal' \in {journal, [tx EXCEPT !.state = "confirmed"]}
          /\ Return("storage_error")
    /\ UNCHANGED <<conf, vendor, leases, stagedLeases, previousLeases, addr, client,
                   backendStaged, locals>>

-----------------------------------------------------------------------------
(* rollback_now, rollback_if_needed and LinuxNetworkBackend::rollback *)

(* network.rollback *)
RollbackNow ==
    /\ svc = "idle"
    /\ op = "none"
    /\ Pending(journal)
    /\ Succeed
    /\ RollbackLoaded("rollback", "ok")
    /\ svc' = "busy"
    /\ UNCHANGED <<files, kernel, backendStaged, crashes>>

(* Mutant: an interrupted confirmation is nobody's to finish. *)
RollbackIfDue(o) ==
    /\ op = "none"
    /\ Succeed
    /\ journal.state = "staged" /\ Due
    /\ RollbackLoaded(o, ExpiryReason)
    /\ UNCHANGED <<files, kernel, backendStaged, crashes>>

(* rollback_if_needed, where it has anything to do *)
RollbackIfNeeded(o) ==
    /\ op = "none"
    /\ Succeed
    /\ \/ /\ journal.state = "confirming"
          /\ RollbackLoaded(o, "ok")
       \/ /\ journal.state = "staged" /\ Due
          /\ RollbackLoaded(o, ExpiryReason)
       \/ /\ journal.state \in {"confirmed", "rolled_back"}
          /\ op' = o
          /\ pc' = "journal_clear"
          /\ tx' = journal
          /\ result' = "ok"
          /\ UNCHANGED <<pl, cl, saved>>
    /\ UNCHANGED <<files, kernel, backendStaged, crashes>>

(* rollback_loop of uhf-privilegedd, every 250 ms *)
Monitor ==
    /\ svc = "idle"
    /\ svc' = "busy"
    /\ RollbackIfNeeded("monitor")

(* uhf-network-recovery, at boot and from the rollback timer *)
Recover ==
    /\ UNCHANGED svc
    /\ RollbackIfNeeded("recover")

(* uhf-network-recovery at a boot that left it nothing to do *)
RecoverNothing ==
    /\ svc = "boot"
    /\ op = "none"
    /\ journal.state = "none" \/ (journal.state = "staged" /\ ~Due)
    /\ svc' = "network"
    /\ UNCHANGED <<files, kernel, backendStaged, op, pc, locals, bounds>>

(* Which leases the rollback works with, and the refusals *)
RollbackCheck ==
    LET candidate == IF stagedLeases = NoFile THEN leases ELSE stagedLeases
        refused == StagedMismatch \/ LeaseMissing(tx.candidate, candidate)
    IN  /\ pc = "rb_check"
        /\ \/ /\ ~refused
              /\ Succeed
              /\ pl' = IF previousLeases = NoFile THEN leases ELSE previousLeases
              /\ cl' = candidate
              /\ Goto("rb_conf")
           \/ /\ refused
              /\ Succeed
              /\ UNCHANGED <<pl, cl>>
              /\ Return("backend_error")
        /\ UNCHANGED <<files, addr, client, backendStaged, tx, saved, result>>

(* save of the previous configuration: network.json *)
RollbackConf ==
    /\ pc = "rb_conf"
    /\ saved' = conf
    /\ \/ /\ Succeed
          /\ conf' = tx.previous
          /\ Goto("rb_vendor")
       \/ /\ Fail
          /\ conf' \in {conf, tx.previous}
          /\ Return("backend_error")
    /\ UNCHANGED <<journal, vendor, leases, stagedLeases, previousLeases, addr, client,
                   backendStaged, tx, pl, cl, result>>

(* Mutant: the vendor files keep the candidate. *)
RollbackVendorSkipped ==
    /\ pc = "rb_vendor"
    /\ Succeed
    /\ Goto("rb_leases")
    /\ UNCHANGED <<files, addr, client, backendStaged, locals>>

(* and the vendor files *)
RollbackVendor ==
    /\ pc = "rb_vendor"
    /\ \/ /\ Succeed
          /\ vendor' = tx.previous
          /\ UNCHANGED conf
          /\ Goto("rb_leases")
       \/ /\ Fail
          /\ vendor' \in {vendor, tx.previous}
          /\ conf' \in {conf, saved}
          /\ Return("backend_error")
    /\ UNCHANGED <<journal, leases, stagedLeases, previousLeases, addr, client,
                   backendStaged, locals>>

RollbackLeases ==
    /\ pc = "rb_leases"
    /\ \/ /\ Succeed
          /\ leases' = pl
          /\ Goto("rb_kernel")
       \/ /\ Fail
          /\ leases' \in {leases, pl}
          /\ Return("backend_error")
    /\ UNCHANGED <<journal, conf, vendor, stagedLeases, previousLeases, addr, client,
                   backendStaged, locals>>

(* Mutant: the candidate's address outlives the rollback. *)
RollbackKernelSkipped ==
    /\ pc = "rb_kernel"
    /\ Succeed
    /\ Goto("rb_clear")
    /\ UNCHANGED <<files, addr, client, backendStaged, locals>>

(* Mutant: the previous address is removed in place of the candidate's. *)
RollbackKernelSwapped ==
    /\ pc = "rb_kernel"
    /\ Succeed
    /\ addr' = addr \ Only(tx.previous, pl, tx.candidate, cl)
    /\ Goto("rb_clear")
    /\ UNCHANGED <<files, client, backendStaged, locals>>

(* remove_candidate_state; an entry that is not there counts as removed *)
RollbackKernel ==
    /\ pc = "rb_kernel"
    /\ \/ /\ Succeed
          /\ addr' = addr \ Added
          /\ Goto("rb_clear")
       \/ /\ Fail
          /\ addr' \in {addr, addr \ Added}
          /\ Return("backend_error")
    /\ UNCHANGED <<files, client, backendStaged, locals>>

(* staged_lease_store_.clear *)
RollbackClear ==
    /\ pc = "rb_clear"
    /\ \/ /\ Succeed
          /\ stagedLeases' = NoFile
          /\ Goto("rb_forget")
       \/ /\ Fail
          /\ stagedLeases' \in {stagedLeases, NoFile}
          /\ Return("backend_error")
    /\ UNCHANGED <<journal, conf, vendor, leases, previousLeases, addr, client,
                   backendStaged, locals>>

(* previous_lease_store_.clear; the caller then settles the journal *)
RollbackForget ==
    /\ pc = "rb_forget"
    /\ \/ /\ Succeed
          /\ previousLeases' = NoFile
          /\ ClearStaged
          /\ Goto(IF result = "backend_error" THEN "journal_clear"
                                              ELSE "journal_rolled_back")
       \/ /\ Fail
          /\ previousLeases' \in {previousLeases, NoFile}
          /\ UNCHANGED backendStaged
          /\ Return("backend_error")
    /\ UNCHANGED <<journal, conf, vendor, leases, stagedLeases, addr, client, locals>>

JournalRolledBack ==
    /\ pc = "journal_rolled_back"
    /\ \/ /\ Succeed
          /\ journal' = [tx EXCEPT !.state = "rolled_back"]
          /\ Goto("journal_clear")
       \/ /\ Fail
          /\ journal' \in {journal, [tx EXCEPT !.state = "rolled_back"]}
          /\ Return("storage_error")
    /\ UNCHANGED <<conf, vendor, leases, stagedLeases, previousLeases, addr, client,
                   backendStaged, locals>>

(* TransactionStore::clear, the last step of every operation that gets this far *)
JournalClear ==
    /\ pc = "journal_clear"
    /\ \/ /\ Succeed
          /\ journal' = NoTx
          /\ Return(result)
       \/ /\ Fail
          /\ journal' \in {journal, NoTx}
          /\ Return("storage_error")
    /\ UNCHANGED <<conf, vendor, leases, stagedLeases, previousLeases, addr, client,
                   backendStaged, locals>>

-----------------------------------------------------------------------------
(* NetworkService: start of uhf-privilegedd, and the runtime after an operation *)

(* recover_pending(true), where it has nothing to roll back or finds the lock taken *)
StartService ==
    /\ svc = "down"
    /\ Succeed
    /\ svc' = IF op = "none" /\ journal.state = "none" THEN "runtime_start" ELSE "idle"
    /\ op # "none" \/ journal.state = "none" \/ (journal.state = "staged" /\ ~Due)
    /\ UNCHANGED <<files, kernel, backendStaged, op, pc, locals, crashes>>

(* recover_pending(true), where it rolls back or clears *)
StartRecovering ==
    /\ svc = "down"
    /\ svc' = "busy"
    /\ RollbackIfNeeded("start")

(* What follows start_runtime; the monitor thread ignores its failure. *)
AfterRuntime(ok) ==
    CASE svc = "runtime_monitor" -> "refresh"
      [] svc = "runtime_start" /\ ~ok -> "down"
      [] OTHER -> "idle"

(* start_runtime: a static address is (re)applied, a DHCP client is started *)
StartRuntime ==
    /\ svc \in {"runtime", "runtime_start", "runtime_monitor"}
    /\ \/ /\ ~LeaseMissing(conf, leases)
          /\ Succeed
          /\ addr' = IF conf \in StaticConfigs THEN addr \cup {conf} ELSE addr
          /\ client' = (client \/ conf \in DhcpConfigs)
          /\ svc' = AfterRuntime(TRUE)
       \/ /\ LeaseMissing(conf, leases)
          /\ Succeed
          /\ svc' = AfterRuntime(FALSE)
          /\ UNCHANGED <<addr, client>>
       \/ /\ ~LeaseMissing(conf, leases)
          /\ Fail
          /\ svc' = AfterRuntime(FALSE)
          /\ UNCHANGED <<addr, client>>
    /\ UNCHANGED <<files, boot, now, backendStaged, op, pc, locals, crashes>>

(* refresh_runtime: the running dhclient may have left another lease in its result file *)
RefreshRuntime ==
    /\ svc = "refresh"
    /\ svc' = "idle"
    /\ \/ /\ Succeed
          /\ UNCHANGED <<addr, leases>>
       \/ /\ conf \in DhcpConfigs /\ leases # NoLease /\ client
          /\ \E l \in Leases \ {leases} :
                \/ /\ Succeed
                   /\ addr' = (addr \cup {l}) \ {leases}
                   /\ leases' = l
                \/ /\ Fail
                   /\ addr' \in {addr, addr \cup {l}, addr \ {leases}}
                   /\ leases' \in {leases, l}
    /\ UNCHANGED <<journal, conf, vendor, stagedLeases, previousLeases, client, boot, now,
                   backendStaged, op, pc, locals, crashes>>

-----------------------------------------------------------------------------
(* The environment: time, death of a process, loss of power *)

Tick ==
    /\ now < MaxNow
    /\ now' = now + 1
    /\ UNCHANGED <<files, addr, client, boot, svc, backendStaged, op, pc, locals, bounds>>

Crash == crashes < MaxCrashes /\ crashes' = crashes + 1

Drop == pc' = "idle" /\ op' = "none"

(* The process of uhf-privilegedd exists. *)
Up == svc \notin {"boot", "network", "down"}

(* systemd kills what is left of the control group, the dhclient included. *)
ServiceCrash ==
    /\ Up
    /\ Crash
    /\ svc' = "down"
    /\ backendStaged' = NoStage
    /\ client' = FALSE
    /\ IF op \in ServiceOps THEN Drop ELSE UNCHANGED <<pc, op>>
    /\ UNCHANGED <<files, addr, boot, now, locals, faults>>

RecoveryCrash ==
    /\ op = "recover"
    /\ Crash
    /\ Drop
    /\ svc' = AfterRecovery
    /\ UNCHANGED <<files, kernel, backendStaged, locals, faults>>

Reboot ==
    /\ boot < MaxBoot
    /\ boot' = boot + 1
    /\ now' = 1
    /\ addr' = {}
    /\ client' = FALSE
    /\ svc' = "boot"
    /\ backendStaged' = NoStage
    /\ Drop
    /\ UNCHANGED <<files, locals, bounds>>

(* The board's ifconfig-eth0 and ifconfig-eth1 install what the vendor files say. *)
BootScripts ==
    /\ svc = "network"
    /\ svc' = "down"
    /\ \E l \in Leases : addr' = {Effective(vendor, l)}
    /\ UNCHANGED <<files, client, boot, now, backendStaged, op, pc, locals, bounds>>

Operation ==
    \/ StageForget \/ StageLeases \/ StageAcquire \/ StageSave \/ StageAdd
    \/ ConfirmKernel \/ ConfirmConf \/ ConfirmVendor \/ ConfirmLeases
    \/ ConfirmClear \/ ConfirmDone
    \/ RollbackCheck \/ RollbackConf \/ RollbackVendor \/ RollbackLeases
    \/ RollbackKernel \/ RollbackClear \/ RollbackForget
    \/ JournalRolledBack \/ JournalClear

Operator ==
    \/ \E c \in Configs : Stage(c)
    \/ Confirm
    \/ RollbackNow

Service == BootScripts \/ Monitor \/ StartService \/ StartRecovering \/ StartRuntime \/ RefreshRuntime

Environment == Tick \/ ServiceCrash \/ RecoveryCrash \/ Reboot

Recovery == Recover \/ RecoverNothing

Next == Operation \/ Operator \/ Service \/ Recovery \/ Environment

Spec == Init /\ [][Next]_vars

(***************************************************************************)
(* The processes keep running between faults: an operation under way takes *)
(* its next step, systemd restarts a dead service and fires the rollback   *)
(* timer, the monitor thread keeps polling, time passes.  The operator is  *)
(* under no obligation.                                                    *)
(***************************************************************************)
FairSpec ==
    /\ Spec
    /\ WF_vars(Operation)
    /\ WF_vars(Service)
    /\ SF_vars(Recovery)
    /\ WF_vars(Tick)

-----------------------------------------------------------------------------
(* Properties *)

(* Every variable keeps its type; in particular no step hands the kernel a
   missing lease as an address, and no result or step is unknown. *)
TypeOK ==
    /\ journal \in Transaction /\ tx \in Transaction
    /\ conf \in Configs /\ vendor \in Configs
    /\ saved \in Configs \cup {NoConfig}
    /\ leases \in LeaseContent /\ pl \in LeaseContent /\ cl \in LeaseContent
    /\ stagedLeases \in LeaseFile /\ previousLeases \in LeaseFile
    /\ addr \subseteq Address
    /\ client \in BOOLEAN
    /\ boot \in 1 .. MaxBoot /\ now \in 1 .. MaxNow
    /\ svc \in ServiceState /\ op \in Ops /\ pc \in Steps
    /\ backendStaged \in (Configs \X Configs) \cup {NoStage}
    /\ result \in Results
    /\ faults \in 0 .. MaxFaults /\ crashes \in 0 .. MaxCrashes

(* Whatever fails or dies in stage, confirm and rollback, network.json and the
   vendor files hold one and the same configuration unless a confirmation is on
   record as unfinished: the previous one while a candidate is on trial or has
   been rolled back, the candidate once it is confirmed. *)
SettledConfig ==
    /\ journal.state # "confirming" => vendor = conf
    /\ journal.state \in {"staged", "rolled_back"} => conf = journal.previous
    /\ journal.state = "confirmed" => conf = journal.candidate

(* The journal together with network.json as an operator sees them *)
Promise == INSTANCE NetworkPromise WITH
    committed <- IF journal.state = "confirming" THEN journal.previous ELSE conf,
    proposal <- IF Pending(journal) THEN journal.candidate ELSE NoConfig,
    accepted <- (journal.state = "confirming")

(* The journal and network.json implement what an operator is promised: the
   candidate of network.stage replaces the configuration in force only through
   a network.confirm on record, and as a whole. *)
ImplementsPromise == Promise!Spec

(* No step has failed, no process has died and the power has not been lost. *)
Undisturbed == faults = 0 /\ crashes = 0 /\ boot = 1

(* As long as nothing fails, a settled configuration that needs a lease has one in
   network.json.leases; otherwise read_current refuses it and no further change
   can be staged. *)
LeaseKept ==
    Undisturbed /\ op = "none" /\ ~Pending(journal) => ~LeaseMissing(conf, leases)

(* As long as nothing fails, and although two processes may end the transaction:
   when apply_stage, confirm, rollback, start_runtime and refresh_runtime are
   through, the interface answers on the configured address and on no other. *)
AddressMatches ==
    Undisturbed /\ svc = "idle" /\ op = "none" /\ ~Pending(journal)
        => addr = {Effective(conf, leases)}

(* Make before break: apply_stage adds before confirm or rollback removes, so as
   long as nothing fails the interface is never without an address. *)
MakeBeforeBreak == Undisturbed => addr # {}


(* A transaction on trial or half confirmed does not stay open: the monitor
   thread, the restarted service or the timer resolves it. *)
PendingResolved == Pending(journal) ~> ~Pending(journal)

(* uhf-privilegedd, whose recovery at start may make it exit, comes back. *)
ServiceReturns == svc = "down" ~> svc = "idle"


(* It does so whenever the power is lost, in the middle of any operation: the
   recovery at boot, the boot scripts and the start of uhf-privilegedd bring the
   address back, provided that no step fails and no process dies on its own. *)
AddressAfterPowerLoss ==
    []<>(faults = 0 /\ crashes = 0 => Effective(conf, leases) \in addr)
=============================================================================
