-------------------------------- MODULE Ftp --------------------------------
(***************************************************************************)
(* The FTP server: its listener, one thread for every control connection,  *)
(* uploads under the storage mutex, stop() and the loss of the process.    *)
(*                                                                         *)
(* A connection is the record of its thread's local variables.  Commands   *)
(* that only answer are left out, and so are the bytes of files: a file is *)
(* its size.  unlink is taken to succeed.  A reply waits until the peer    *)
(* makes room for it, without a deadline: the replies of transfers, some   *)
(* of which are sent under the storage mutex, are places of the thread;    *)
(* that of another command is part of the wait for the next one.           *)
(***************************************************************************)
EXTENDS Integers, FiniteSets, Functions

CONSTANTS Clients,        \* possible control connections
          Names,          \* file names
          MaxConnections, \* max_connections
          MaxFiles,       \* max_files
          MaxFileBytes,   \* max_file_bytes
          MaxTotalBytes,  \* max_total_bytes
          PassLimit,      \* wrong passwords until the connection ends, 3 in the code
          MaxFaults,      \* bound on failing system calls
          MaxCrashes,     \* bound on losses of the process
          Nobody

(* What Server::Server requires of its options *)
ASSUME OptionsAssumption ==
    /\ MaxConnections \in Nat \ {0} /\ MaxFiles \in Nat \ {0}
    /\ MaxFileBytes \in Nat \ {0} /\ MaxTotalBytes \in Nat /\ MaxTotalBytes >= MaxFileBytes
    /\ PassLimit \in Nat \ {0}
ASSUME FtpBounds ==
    /\ MaxFaults \in Nat /\ MaxCrashes \in Nat
    /\ IsFiniteSet(Clients) /\ IsFiniteSet(Names) /\ Nobody \notin Clients \cup Names

VARIABLES
    conn,       \* the connections' threads
    workers,    \* workers_: threads not joined yet
    lock,       \* the holder of storage_mutex_
    files,      \* the visible files: their sizes
    temps,      \* connections whose .upload- file exists
    stopping,   \* stop_requested_
    stage,      \* where the server as a whole is
    faults, crashes

vars == <<conn, workers, lock, files, temps, stopping, stage,
          faults, crashes>>
storage == <<lock, files, temps>>
server == <<workers, stopping, stage, faults, crashes>>

Absent == -1

Closed == [at |-> "closed", authenticated |-> FALSE, failed |-> 0, passive |-> FALSE,
           op |-> "none", name |-> Nobody, total |-> 0, limit |-> 0, ok |-> FALSE]

Init ==
    /\ conn = [c \in Clients |-> Closed]
    /\ workers = {}
    /\ lock = Nobody /\ files = [n \in Names |-> Absent] /\ temps = {}
    /\ stopping = FALSE /\ stage = "running"
    /\ faults = 0 /\ crashes = 0

Alive == stage # "down"
At(c, place) == Alive /\ c \in workers /\ conn[c].at = place

(* Mutant: commands are read after stop. *)
ReadingOn(c) == At(c, "command")

(* read_line has a line: it returns none after stop. *)
Reading(c) == At(c, "command") /\ ~stopping

Fault == faults < MaxFaults /\ faults' = faults + 1

(* The thread's record when only the last reply of a transfer is to be sent *)
Answering(r) == [r EXCEPT !.at = "answer", !.name = Nobody, !.total = 0, !.limit = 0,
                          !.ok = FALSE]

----------------------------------------------------------------------------
(* The listener: run *)

(* A connection beyond max_connections, counting threads not joined yet, is
   closed at once and leaves no trace. *)
Accept(c) ==
    /\ stage \in {"running", "joining"}
    /\ conn[c].at = "closed" /\ c \notin workers
    /\ Cardinality(workers) < MaxConnections
    /\ conn' = [conn EXCEPT ![c] = [Closed EXCEPT !.at = "command"]]
    /\ workers' = workers \cup {c}
    /\ UNCHANGED <<storage, stopping, stage, faults, crashes>>

(* reap_workers(false) *)
Reap(c) ==
    /\ stage \in {"running", "joining"} /\ At(c, "done")
    /\ workers' = workers \ {c}
    /\ conn' = [conn EXCEPT ![c] = Closed]
    /\ UNCHANGED <<storage, stopping, stage, faults, crashes>>

----------------------------------------------------------------------------
(* serve_client *)

(* read_line fails: QUIT, the peer is gone, a minute has passed, or stop; or
   the reply before it fails, with the same result *)
Hangup(c) ==
    /\ At(c, "command")
    /\ conn' = [conn EXCEPT ![c].at = "leaving", ![c].passive = FALSE]
    /\ UNCHANGED <<server, storage>>

(* The thread of run: untrack_client, close, done *)
Leave(c) ==
    /\ At(c, "leaving")
    /\ conn' = [conn EXCEPT ![c] = [Closed EXCEPT !.at = "done"]]
    /\ UNCHANGED <<server, storage>>

User(c) ==
    /\ Reading(c) /\ conn[c].authenticated
    /\ conn' = [conn EXCEPT ![c].authenticated = FALSE]
    /\ UNCHANGED <<server, storage>>

PassAccepted(c) ==
    /\ Reading(c)
    /\ conn' = [conn EXCEPT ![c].authenticated = TRUE, ![c].failed = 0]
    /\ UNCHANGED <<server, storage>>

PassRefused(c) ==
    /\ Reading(c)
    /\ conn' = [conn EXCEPT ![c].authenticated = FALSE, ![c].failed = @ + 1,
                            ![c].at = IF conn[c].failed + 1 >= PassLimit THEN "leaving" ELSE @,
                            ![c].passive = IF conn[c].failed + 1 >= PassLimit THEN FALSE ELSE @]
    /\ UNCHANGED <<server, storage>>

(* PASV and EPSV close the listener of an earlier one. *)
Passive(c) ==
    /\ Reading(c) /\ conn[c].authenticated
    /\ conn' = [conn EXCEPT ![c].passive = TRUE]
    /\ UNCHANGED <<server, storage>>

(* LIST, NLST, and RETR of a file that can be opened *)
Send(c) ==
    /\ Reading(c) /\ conn[c].authenticated /\ conn[c].passive
    /\ conn' = [conn EXCEPT ![c].op = "send", ![c].at = "opening"]
    /\ UNCHANGED <<server, storage>>

Stor(c, n) ==
    /\ Reading(c) /\ conn[c].authenticated /\ conn[c].passive
    /\ conn' = [conn EXCEPT ![c].op = "STOR", ![c].name = n, ![c].at = "lock"]
    /\ UNCHANGED <<server, storage>>

Stored(S) == {n \in S : files[n] # Absent}
Sizes(S) == FoldFunctionOnSet(+, 0, files, Stored(S))

(* Mutant: the mutex is not taken. *)
ReserveUnlocked(c) ==
    /\ At(c, "lock")
    /\ LET others == Names \ {conn[c].name}
       IN IF Cardinality(Stored(others)) >= MaxFiles \/ Sizes(others) >= MaxTotalBytes
          THEN conn' = [conn EXCEPT ![c] = Answering(@)] /\ UNCHANGED temps
          ELSE /\ temps' = temps \cup {c}
               /\ conn' = [conn EXCEPT ![c].at = "opening", ![c].total = 0,
                             ![c].limit = IF MaxFileBytes < MaxTotalBytes - Sizes(others)
                                          THEN MaxFileBytes ELSE MaxTotalBytes - Sizes(others)]
    /\ UNCHANGED <<server, lock, files>>

(* The quota is computed from the other visible files and the temporary is
   created, under the mutex, which the upload keeps until its last reply has
   been sent, a refusal too. *)
Reserve(c) ==
    /\ At(c, "lock") /\ lock = Nobody /\ lock' = c
    /\ LET others == Names \ {conn[c].name}
           room == MaxTotalBytes - Sizes(others)
       IN \/ /\ Cardinality(Stored(others)) >= MaxFiles \/ room <= 0
             /\ conn' = [conn EXCEPT ![c] = Answering(@)]
             /\ UNCHANGED <<temps, faults>>
          \/ /\ Cardinality(Stored(others)) < MaxFiles /\ room > 0
             /\ \/ /\ Fault                            \* open fails
                   /\ conn' = [conn EXCEPT ![c] = Answering(@)]
                   /\ UNCHANGED temps
                \/ /\ temps' = temps \cup {c}
                   /\ conn' = [conn EXCEPT ![c].at = "opening", ![c].total = 0,
                                 ![c].limit = IF MaxFileBytes < room THEN MaxFileBytes ELSE room]
                   /\ UNCHANGED faults
    /\ UNCHANGED <<workers, files, stopping, stage, crashes>>

----------------------------------------------------------------------------
(* accept_data and the transfer.  After a failed accept LIST and RETR are
   over, and STOR goes on to remove its temporary. *)

(* The 150 has been taken by the peer, or its connection is gone: send_all's
   result is not looked at. *)
Opened(c) ==
    /\ At(c, "opening")
    /\ conn' = [conn EXCEPT ![c].at = "accept"]
    /\ UNCHANGED <<server, storage>>

(* The loop of an upload: it ends at stop_requested_, with what has arrived as
   received, and otherwise waits for the next bytes. *)
Looking == IF stopping THEN "persist" ELSE "transfer"

DataAccepted(c) ==
    /\ At(c, "accept")
    /\ conn' = [conn EXCEPT ![c].passive = FALSE, ![c].ok = TRUE,
                            ![c].at = IF conn[c].op = "STOR" THEN Looking ELSE "transfer"]
    /\ UNCHANGED <<server, storage>>

(* Mutant: the wait for the data connection has no deadline. *)
DataRefusedNever(c) ==
    /\ At(c, "accept") /\ stopping
    /\ conn' = [conn EXCEPT ![c].passive = FALSE,
                            ![c].at = IF conn[c].op = "STOR" THEN "persist" ELSE "answer"]
    /\ UNCHANGED <<server, storage>>

(* Ten seconds pass, the peer is another one, or stop *)
DataRefused(c) ==
    /\ At(c, "accept")
    /\ conn' = [conn EXCEPT ![c].passive = FALSE,
                            ![c].at = IF conn[c].op = "STOR" THEN "persist" ELSE "answer"]
    /\ UNCHANGED <<server, storage>>

(* send_all has sent everything or has failed. *)
Sent(c) ==
    /\ At(c, "transfer") /\ conn[c].op # "STOR"
    /\ conn' = [conn EXCEPT ![c] = Answering(@)]
    /\ UNCHANGED <<server, storage>>

(* The next bytes, also when stop has come since wait_readable looked for it;
   more than the limit, or a failing write, is the end. *)
Receive(c) ==
    /\ At(c, "transfer") /\ conn[c].op = "STOR"
    /\ \/ /\ conn[c].total < conn[c].limit
          /\ conn' = [conn EXCEPT ![c].total = @ + 1, ![c].at = Looking]
          /\ UNCHANGED faults
       \/ /\ conn[c].total = conn[c].limit
          /\ conn' = [conn EXCEPT ![c].at = "persist", ![c].ok = FALSE]
          /\ UNCHANGED faults
       \/ /\ Fault
          /\ conn' = [conn EXCEPT ![c].at = "persist", ![c].ok = FALSE]
    /\ UNCHANGED <<workers, storage, stopping, stage, crashes>>

(* The peer closes the data connection. *)
PeerEnds(c) ==
    /\ At(c, "transfer") /\ conn[c].op = "STOR"
    /\ conn' = [conn EXCEPT ![c].at = "persist"]
    /\ UNCHANGED <<server, storage>>

(* Nothing for thirty seconds, a reset, or wait_readable sees stop *)
TransferFails(c) ==
    /\ At(c, "transfer") /\ conn[c].op = "STOR"
    /\ conn' = [conn EXCEPT ![c].at = "persist", ![c].ok = FALSE]
    /\ UNCHANGED <<server, storage>>

(* recv returns 0 from a descriptor that stop has shut down: what has arrived
   counts as received. *)
TransferStopped(c) ==
    /\ At(c, "transfer") /\ conn[c].op = "STOR"
    /\ stage = "reaping"
    /\ conn' = [conn EXCEPT ![c].at = "persist"]
    /\ UNCHANGED <<server, storage>>

(* fsync and rename, or the temporary is removed. *)
Persist(c) ==
    /\ At(c, "persist")
    /\ LET n == conn[c].name
       IN \/ /\ conn[c].ok
             /\ files' = [files EXCEPT ![n] = conn[c].total]
             /\ UNCHANGED faults
          \/ /\ IF conn[c].ok THEN Fault ELSE UNCHANGED faults
             /\ UNCHANGED files
    /\ temps' = temps \ {c}
    /\ conn' = [conn EXCEPT ![c] = Answering(@)]
    /\ UNCHANGED <<workers, lock, stopping, stage, crashes>>

(* The last reply of a transfer has been taken by the peer, or its connection
   is gone; only now an upload releases the mutex. *)
Answered(c) ==
    /\ At(c, "answer")
    /\ lock' = IF lock = c THEN Nobody ELSE lock
    /\ conn' = [conn EXCEPT ![c].at = "command", ![c].op = "none"]
    /\ UNCHANGED <<server, files, temps>>

----------------------------------------------------------------------------
(* stop(), the loss of the process, and the next one *)

RequestStop ==
    /\ stage = "running"
    /\ stopping' = TRUE /\ stage' = "joining"
    /\ UNCHANGED <<conn, workers, storage, faults, crashes>>

(* The listener has ended: every descriptor still tracked is shut down. *)
ShutDown ==
    /\ stage = "joining"
    /\ stage' = "reaping"
    /\ UNCHANGED <<conn, workers, storage, stopping, faults, crashes>>

(* Mutant: the threads are not joined. *)
ReapAllUnjoined ==
    /\ stage = "reaping"
    /\ workers' = {}
    /\ stage' = "stopped"
    /\ UNCHANGED <<conn, storage, stopping, faults, crashes>>

(* reap_workers(true): every thread is joined. *)
ReapAll ==
    /\ stage = "reaping" /\ \A c \in workers : conn[c].at = "done"
    /\ workers' = {} /\ conn' = [c \in Clients |-> Closed]
    /\ stage' = "stopped"
    /\ UNCHANGED <<storage, stopping, faults, crashes>>

Die ==
    /\ conn' = [c \in Clients |-> Closed]
    /\ workers' = {} /\ lock' = Nobody
    /\ stopping' = FALSE /\ stage' = "down"
    /\ UNCHANGED <<files, temps, faults>>

Exit == stage = "stopped" /\ Die /\ UNCHANGED crashes
Crash == Alive /\ crashes < MaxCrashes /\ crashes' = crashes + 1 /\ Die

(* Server::Server removes leftover uploads; then start. *)
Start ==
    /\ stage = "down"
    /\ temps' = {} /\ stage' = "running"
    /\ UNCHANGED <<conn, workers, lock, files, stopping, faults, crashes>>

----------------------------------------------------------------------------
Command(c) ==
    \/ User(c) \/ PassAccepted(c) \/ PassRefused(c) \/ Passive(c)
    \/ Send(c)
    \/ \E n \in Names : Stor(c, n)

(* Steps that come without the peer, at the latest by a timeout *)
Proceed(c) ==
    \/ Hangup(c) \/ Leave(c) \/ Reserve(c) \/ DataRefused(c) \/ Sent(c)
    \/ TransferFails(c) \/ TransferStopped(c) \/ Persist(c)

Peer(c) ==
    \/ Accept(c) \/ DataAccepted(c) \/ Receive(c) \/ PeerEnds(c)
    \/ Opened(c) \/ Answered(c)

Next ==
    \/ \E c \in Clients : Command(c) \/ Proceed(c) \/ Peer(c) \/ Reap(c)
    \/ RequestStop \/ ShutDown \/ ReapAll \/ Exit \/ Crash \/ Start

Spec == Init /\ [][Next]_vars

(* Every wait for a data connection has a deadline, and the mutex is handed to
   each waiting thread in the end.  A reply has none (SO_SNDTIMEO is set on data
   connections only): it is over for certain once stop has shut the control
   connection down.  stop() runs. *)
FairSpec ==
    /\ Spec
    /\ \A c \in Clients :
          /\ WF_vars(Leave(c)) /\ WF_vars(Persist(c)) /\ WF_vars(Sent(c))
          /\ WF_vars(DataRefused(c)) /\ WF_vars(TransferFails(c))
          /\ SF_vars(Reserve(c))
          /\ WF_vars(stage = "reaping" /\ (Hangup(c) \/ Opened(c) \/ Answered(c)))
    /\ WF_vars(ShutDown) /\ WF_vars(ReapAll)

----------------------------------------------------------------------------
(* Properties *)

Places == {"closed", "command", "lock", "opening", "accept", "transfer", "persist", "answer",
           "leaving", "done"}

(* The record of a thread; its limit comes from a sum over the files. *)
Thread(r) ==
    r \in [at : Places, authenticated : BOOLEAN, failed : Nat, passive : BOOLEAN,
           op : {"none", "send", "STOR"}, name : Names \cup {Nobody}, total : Nat,
           limit : {r.limit}, ok : BOOLEAN]

TypeOK ==
    /\ conn \in [Clients -> {conn[c] : c \in Clients}]
    /\ \A c \in Clients : Thread(conn[c])
    /\ workers \subseteq Clients /\ temps \subseteq Clients
    /\ stopping \in BOOLEAN
    /\ stage \in {"running", "joining", "reaping", "stopped", "down"}

(* The visible files never exceed the quota, in number or in size, whatever
   uploads overlap. *)
WithinQuota ==
    /\ Cardinality(Stored(Names)) <= MaxFiles
    /\ Sizes(Names) <= MaxTotalBytes

(* While the process runs, a temporary belongs to an upload in progress: a
   failed one, a stopped one or an earlier process leaves none behind.  When
   stop() returns, no thread and no mutex is left either: the objects the
   threads use may be destroyed. *)
NothingLeft ==
    /\ Alive => \A c \in temps : /\ conn[c].op = "STOR"
                               /\ conn[c].at \in {"opening", "accept", "transfer", "persist"}
    /\ stage = "stopped" => lock = Nobody /\ \A c \in Clients : conn[c].at = "closed"

(* An upload that waits for the mutex gets it, however the data connection of the
   one that holds it fails or stalls.  Only a client that never takes its replies
   keeps the others waiting, and then for as long as it likes. *)
Unread == \E d \in Clients : lock = d /\ conn[d].at \in {"opening", "answer"}
UploadsServed == \A c \in Clients : []<>(conn[c].at # "lock") \/ <>[]Unread

(* stop() returns, whatever the threads hold or wait for: it is never for ever in
   the middle of joining the listener or the connections' threads. *)
StopReturns == []<>(stage \notin {"joining", "reaping"})
=============================================================================
