------------------------------ MODULE TlsStore ------------------------------
(***************************************************************************)
(* The TLS certificate store: two files, their backups and the context     *)
(* that new connections take.  A replacement writes four files one after   *)
(* the other and goes back to the backups when a write fails; a start      *)
(* refuses files that do not belong together.  A connection reads the      *)
(* context without the mutex that a replacement holds.                     *)
(*                                                                         *)
(* A certificate and a private key are named by the pair they come from:   *)
(* they belong together exactly when the pairs are equal.  A write_atomic  *)
(* that fails leaves the old or the new contents, the latter when the      *)
(* rename was done and the flush of the directory was not.                 *)
(***************************************************************************)
EXTENDS Naturals

CONSTANTS Pairs,       \* certificates an administrator may upload with their keys
          Generated,   \* the self-signed pair of a first start
          NoFile,
          MaxFaults,   \* bound on failing system calls
          MaxCrashes   \* bound on losses of the process

ASSUME PairAssumption ==
    Generated \notin Pairs /\ NoFile \notin Pairs \cup {Generated}
ASSUME TlsBounds == MaxFaults \in Nat /\ MaxCrashes \in Nat

VARIABLES
    certificate,  \* files_.certificate
    privateKey,   \* files_.private_key
    previous,     \* the two .previous files
    context,      \* context_
    setup,        \* a connection between native() and SSL_new: with the current context, a freed one, or none
    candidate,    \* the pair being installed
    step,         \* where the process is
    faults,       \* failing system calls so far
    crashes       \* losses of the process so far

tlsFiles == <<certificate, privateKey, previous>>
tlsVars == <<tlsFiles, context, setup, candidate, step, faults, crashes>>

Up == step \notin {"down", "load", "generateCertificate"}

TlsInit ==
    /\ \E pair \in {NoFile, Generated} : certificate = pair /\ privateKey = pair
    /\ previous = [certificate |-> NoFile, privateKey |-> NoFile]
    /\ context = NoFile /\ setup = "none" /\ candidate = NoFile
    /\ step = "down"
    /\ faults = 0 /\ crashes = 0

Fault == faults < MaxFaults /\ faults' = faults + 1
NoFault == UNCHANGED faults
Goto(s) == step' = s

----------------------------------------------------------------------------
(* TlsContext::TlsContext *)

(* ensure_certificate without files: generate_certificate writes the key. *)
GenerateKey ==
    /\ step = "load" /\ certificate = NoFile /\ privateKey = NoFile
    /\ \/ NoFault /\ privateKey' = Generated /\ Goto("generateCertificate")
       \/ Fault /\ privateKey' \in {privateKey, Generated} /\ Goto("down")
    /\ UNCHANGED <<certificate, previous, context, setup, candidate, crashes>>

(* It writes the certificate; without it the key is removed again. *)
GenerateCertificate ==
    /\ step = "generateCertificate"
    /\ \/ /\ NoFault
          /\ certificate' = Generated /\ UNCHANGED privateKey
          /\ Goto("load")
       \/ /\ Fault
          /\ certificate' \in {certificate, Generated} /\ privateKey' = NoFile
          /\ Goto("down")
    /\ UNCHANGED <<previous, context, setup, candidate, crashes>>

(* context_from_files *)
LoadFiles ==
    /\ step = "load" /\ certificate # NoFile /\ certificate = privateKey
    /\ context' = certificate
    /\ Goto("idle")
    /\ UNCHANGED <<tlsFiles, setup, candidate, faults, crashes>>

(* One file without the other, or of two pairs: the process gives up. *)
StartFails ==
    /\ step = "load" /\ certificate # privateKey
    /\ Goto("down")
    /\ UNCHANGED <<tlsFiles, context, setup, candidate, faults, crashes>>

----------------------------------------------------------------------------
(* TlsContext::replace *)

BeginReplace(pair) ==
    /\ step = "idle"
    /\ candidate' = pair
    /\ Goto("backupCertificate")
    /\ UNCHANGED <<tlsFiles, context, setup, faults, crashes>>

BackupCertificate ==
    /\ step = "backupCertificate"
    /\ \/ NoFault /\ previous' = [previous EXCEPT !.certificate = certificate] /\ Goto("backupKey")
       \/ /\ Fault /\ Goto("restore")
          /\ previous' \in {previous, [previous EXCEPT !.certificate = certificate]}
    /\ UNCHANGED <<certificate, privateKey, context, setup, candidate, crashes>>

(* Mutant: only the certificate is backed up. *)
BackupKeySkipped ==
    /\ step = "backupKey"
    /\ Goto("writeKey")
    /\ UNCHANGED <<tlsFiles, context, setup, candidate, faults, crashes>>

BackupKey ==
    /\ step = "backupKey"
    /\ \/ NoFault /\ previous' = [previous EXCEPT !.privateKey = privateKey] /\ Goto("writeKey")
       \/ /\ Fault /\ Goto("restore")
          /\ previous' \in {previous, [previous EXCEPT !.privateKey = privateKey]}
    /\ UNCHANGED <<certificate, privateKey, context, setup, candidate, crashes>>

(* Mutant: a failure does not go back to the backups. *)
WriteKeyUnrestored ==
    /\ step = "writeKey"
    /\ \/ NoFault /\ privateKey' = candidate /\ Goto("writeCertificate")
       \/ Fault /\ privateKey' \in {privateKey, candidate} /\ Goto("failed")
    /\ UNCHANGED <<certificate, previous, context, setup, candidate, crashes>>

WriteKey ==
    /\ step = "writeKey"
    /\ \/ NoFault /\ privateKey' = candidate /\ Goto("writeCertificate")
       \/ Fault /\ privateKey' \in {privateKey, candidate} /\ Goto("restore")
    /\ UNCHANGED <<certificate, previous, context, setup, candidate, crashes>>

WriteCertificate ==
    /\ step = "writeCertificate"
    /\ \/ NoFault /\ certificate' = candidate /\ Goto("swap")
       \/ Fault /\ certificate' \in {certificate, candidate} /\ Goto("restore")
    /\ UNCHANGED <<privateKey, previous, context, setup, candidate, crashes>>

(* The new context is installed and the old one freed. *)
Swap ==
    /\ step = "swap"
    /\ context' = candidate
    /\ setup' = IF setup = "current" THEN "freed" ELSE setup
    /\ Goto("removeCertificate")
    /\ UNCHANGED <<tlsFiles, candidate, faults, crashes>>

(* remove_file: failures are ignored. *)
RemoveCertificateBackup ==
    /\ step = "removeCertificate"
    /\ \/ NoFault /\ previous' = [previous EXCEPT !.certificate = NoFile]
       \/ Fault /\ UNCHANGED previous
    /\ Goto("removeKey")
    /\ UNCHANGED <<certificate, privateKey, context, setup, candidate, crashes>>

RemoveKeyBackup ==
    /\ step = "removeKey"
    /\ \/ NoFault /\ previous' = [previous EXCEPT !.privateKey = NoFile]
       \/ Fault /\ UNCHANGED previous
    /\ Goto("replaced")
    /\ UNCHANGED <<certificate, privateKey, context, setup, candidate, crashes>>

(* restore_backup reads both backups first; any failure ends it silently. *)
RestoreCertificate ==
    /\ step = "restore"
    /\ IF NoFile \in {previous.certificate, previous.privateKey}
       THEN NoFault /\ Goto("failed") /\ UNCHANGED certificate
       ELSE \/ NoFault /\ certificate' = previous.certificate /\ Goto("restoreKey")
            \/ Fault /\ certificate' \in {certificate, previous.certificate} /\ Goto("failed")
    /\ UNCHANGED <<privateKey, previous, context, setup, candidate, crashes>>

RestoreKey ==
    /\ step = "restoreKey"
    /\ \/ NoFault /\ privateKey' = previous.privateKey
       \/ Fault /\ privateKey' \in {privateKey, previous.privateKey}
    /\ Goto("failed")
    /\ UNCHANGED <<certificate, previous, context, setup, candidate, crashes>>

Replace ==
    \/ BackupCertificate \/ BackupKey \/ WriteKey \/ WriteCertificate \/ Swap
    \/ RemoveCertificateBackup \/ RemoveKeyBackup \/ RestoreCertificate \/ RestoreKey

----------------------------------------------------------------------------
(* serve_client: SSL_new(tls_context_->native()) *)

TakeContext ==
    /\ Up /\ setup = "none"
    /\ setup' = "current"
    /\ UNCHANGED <<tlsFiles, context, candidate, step, faults, crashes>>

NewConnection ==
    /\ Up /\ setup # "none"
    /\ setup' = "none"
    /\ UNCHANGED <<tlsFiles, context, candidate, step, faults, crashes>>

(* Everything in memory is gone. *)
TlsLost ==
    /\ context' = NoFile /\ setup' = "none" /\ candidate' = NoFile
    /\ Goto("down")
    /\ UNCHANGED <<tlsFiles, faults>>

Dies ==
    /\ crashes < MaxCrashes /\ crashes' = crashes + 1
    /\ TlsLost

(* A freed context is used: the connection fails or works, as above, or the
   process dies. *)
FreedContextKills == Up /\ setup = "freed" /\ Dies

Killed == step # "down" /\ Dies

----------------------------------------------------------------------------
Steps == {"down", "load", "generateCertificate", "idle", "backupCertificate",
          "backupKey", "writeKey", "writeCertificate", "swap", "removeCertificate",
          "removeKey", "restore", "restoreKey", "replaced", "failed"}

TlsTypeOK ==
    LET Stored == Pairs \cup {Generated, NoFile}
    IN /\ certificate \in Stored /\ privateKey \in Stored
       /\ previous \in [certificate : Stored, privateKey : Stored]
       /\ context \in Stored /\ setup \in {"none", "current", "freed"}
       /\ candidate \in Pairs \cup {NoFile} /\ step \in Steps
       /\ faults \in 0..MaxFaults /\ crashes \in 0..MaxCrashes

(* Between requests the files hold the pair that is served, whether the last
   replacement succeeded or was undone after its failing step. *)
StoredIsServed ==
    step = "idle" /\ faults <= 1 /\ crashes = 0 => certificate = context /\ privateKey = context

(* Once there is a certificate, a whole pair is on the disk at every instant,
   in the files or in their backups, through any number of losses of the
   process or, while it runs, through one failing step. *)
PairOnDisk ==
    certificate # NoFile /\ (faults = 0 \/ (Up /\ faults + crashes <= 1))
       => \/ certificate = privateKey
          \/ previous.certificate = previous.privateKey /\ previous.certificate # NoFile
=============================================================================
