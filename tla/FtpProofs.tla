----------------------------- MODULE FtpProofs -----------------------------
(***************************************************************************)
(* Theorems about Ftp, for every set of clients and names, every quota and *)
(* every number of failures and losses of the process.                     *)
(***************************************************************************)
EXTENDS Ftp, FiniteSetTheorems, WellFoundedInduction, TLAPS

Uploading == {"opening", "accept", "transfer", "persist", "answer"}

(* Exactly the upload that holds the storage mutex is past its reservation,
   only it may have a temporary, which is gone when it sends its last reply, and
   its thread is not joined. *)
Holder ==
    Alive => /\ \A c \in temps : lock = c /\ conn[c].at # "answer"
             /\ \A c \in Clients : (conn[c].op = "STOR" /\ conn[c].at \in Uploading) <=> lock = c
             /\ \A c \in Clients : lock = c => c \in workers
             /\ lock \in Clients \cup {Nobody}

(* Only an upload waits for the storage mutex or renames a file. *)
Uploads == \A c \in Clients : conn[c].at \in {"lock", "persist"} => conn[c].op = "STOR"

(* No thread is left once stop() has returned or the process is gone. *)
Quiet ==
    stage \in {"stopped", "down"} =>
       /\ workers = {} /\ lock = Nobody /\ \A c \in Clients : conn[c] = Closed
       /\ stage = "stopped" => temps = {}

IInv == TypeOK /\ Holder /\ Uploads /\ Quiet

LEMMA ClosedThread == Thread(Closed)
BY DEF Thread, Closed, Places

LEMMA FtpInit == Init => IInv
<1> SUFFICES ASSUME Init PROVE IInv
    OBVIOUS
<1>1. \A c \in Clients : conn[c] = Closed
    BY DEF Init
<1>2. TypeOK
    BY <1>1, ClosedThread DEF Init, TypeOK
<1>3. Holder /\ Uploads /\ Quiet
    BY <1>1, FtpBounds DEF Init, Holder, Uploads, Quiet, Closed, Uploading
<1> QED
    BY <1>2, <1>3 DEF IInv

(* Steps of one thread that change neither storage nor the server: its new
   record decides. *)
LEMMA OwnStep ==
    ASSUME IInv, NEW c \in Clients, NEW r, Thread(r), At(c, conn[c].at),
           conn' = [conn EXCEPT ![c] = r],
           UNCHANGED <<workers, lock, temps, stopping, stage>>,
           (r.op = "STOR" /\ r.at \in Uploading) <=> (conn[c].op = "STOR" /\ conn[c].at \in Uploading),
           r.at \in {"lock", "persist"} => r.op = "STOR",
           r.at = "answer" => r.op # "STOR"
    PROVE  IInv'
<1>1. conn' \in [Clients -> {conn'[d] : d \in Clients}] /\ conn'[c] = r
      /\ \A d \in Clients \ {c} : conn'[d] = conn[d]
    BY DEF IInv, TypeOK
<1>2. TypeOK'
    BY <1>1 DEF IInv, TypeOK
<1>3. Holder'
    BY <1>1 DEF IInv, Holder, Alive
<1>4. Uploads'
    BY <1>1 DEF IInv, Uploads
<1>5. Quiet'
    BY DEF IInv, Quiet, At, Alive
<1> QED
    BY <1>2, <1>3, <1>4, <1>5 DEF IInv

LEMMA CommandKept ==
    ASSUME IInv, NEW c \in Clients, Command(c)
    PROVE  IInv'
<1> USE DEF server, storage
<1>1. Thread(conn[c]) /\ At(c, "command") /\ conn[c].at = "command"
    BY DEF Command, User, PassAccepted, PassRefused, Passive, Send, Stor, Reading, At, IInv, TypeOK
<1>2. UNCHANGED <<workers, lock, temps, stopping, stage>>
    BY DEF Command, User, PassAccepted, PassRefused, Passive, Send, Stor
<1>3. PICK r : /\ conn' = [conn EXCEPT ![c] = r] /\ Thread(r)
               /\ r.at \in {"command", "leaving", "lock", "opening"}
               /\ (r.at = "opening" => r.op = "send") /\ (r.at = "lock" => r.op = "STOR")
    <2>1. CASE User(c)
        <3> WITNESS [conn[c] EXCEPT !.authenticated = FALSE]
        <3> QED BY <2>1, <1>1 DEF User, Thread
    <2>2. CASE PassAccepted(c)
        <3> WITNESS [conn[c] EXCEPT !.authenticated = TRUE, !.failed = 0]
        <3> QED BY <2>2, <1>1 DEF PassAccepted, Thread
    <2>3. CASE PassRefused(c)
        <3> DEFINE a == IF conn[c].failed + 1 >= PassLimit THEN "leaving" ELSE conn[c].at
                   p == IF conn[c].failed + 1 >= PassLimit THEN FALSE ELSE conn[c].passive
                   f == conn[c].failed + 1
        <3>1. conn' = [conn EXCEPT ![c] = [conn[c] EXCEPT !.authenticated = FALSE, !.failed = f,
                                                          !.at = a, !.passive = p]]
            BY <2>3, <1>1 DEF PassRefused, IInv, TypeOK
        <3>2. conn[c].passive \in BOOLEAN /\ conn[c].failed \in Nat
            BY <1>1 DEF Thread
        <3>3. a \in {"leaving", "command"} /\ f \in Nat
            BY <1>1, <3>2
        <3>4. p \in BOOLEAN
            BY <3>2, Zenon
        <3> HIDE DEF a, p, f
        <3> DEFINE r == [conn[c] EXCEPT !.authenticated = FALSE, !.failed = f, !.at = a, !.passive = p]
        <3>5. Thread(r) /\ r.at = a
            BY <1>1, <3>3, <3>4 DEF Thread, Places
        <3>6. conn' = [conn EXCEPT ![c] = r]
            BY <3>1
        <3> HIDE DEF r
        <3> QED BY <3>3, <3>5, <3>6
    <2>4. CASE Passive(c)
        <3> WITNESS [conn[c] EXCEPT !.passive = TRUE]
        <3> QED BY <2>4, <1>1 DEF Passive, Thread
    <2>5. CASE Send(c)
        <3> WITNESS [conn[c] EXCEPT !.op = "send", !.at = "opening"]
        <3> QED BY <2>5, <1>1 DEF Send, Thread, Places
    <2>6. ASSUME NEW n \in Names, Stor(c, n)
          PROVE  \E r : /\ conn' = [conn EXCEPT ![c] = r] /\ Thread(r)
                        /\ r.at \in {"command", "leaving", "lock", "opening"}
                        /\ (r.at = "opening" => r.op = "send") /\ (r.at = "lock" => r.op = "STOR")
        <3> WITNESS [conn[c] EXCEPT !.op = "STOR", !.name = n, !.at = "lock"]
        <3> QED BY <2>6, <1>1 DEF Stor, Thread, Places
    <2> QED
        BY <2>1, <2>2, <2>3, <2>4, <2>5, <2>6 DEF Command
<1> QED
    BY <1>1, <1>2, <1>3, OwnStep DEF Uploading

LEMMA AnsweringThread ==
    ASSUME NEW q, Thread(q)
    PROVE  Thread(Answering(q)) /\ Answering(q).at = "answer" /\ Answering(q).op = q.op
BY DEF Thread, Answering, Places

(* The thread leaves its loop, or its data transfer goes on or ends. *)
LEMMA ThreadKept ==
    ASSUME IInv, NEW c \in Clients,
           \/ Hangup(c) \/ Leave(c) \/ DataRefused(c) \/ Sent(c) \/ TransferFails(c)
           \/ TransferStopped(c) \/ Opened(c) \/ DataAccepted(c) \/ Receive(c) \/ PeerEnds(c)
    PROVE  IInv'
<1> USE DEF server, storage
<1>1. Thread(conn[c]) /\ At(c, conn[c].at)
    BY DEF IInv, TypeOK, Hangup, Leave, DataRefused, Sent, TransferFails, TransferStopped,
        Opened, DataAccepted, Receive, PeerEnds, At
<1>2. UNCHANGED <<workers, lock, temps, stopping, stage>>
    BY DEF Hangup, Leave, DataRefused, Sent, TransferFails, TransferStopped, Opened, DataAccepted,
        Receive, PeerEnds
<1> DEFINE Fits(r) ==
      /\ conn' = [conn EXCEPT ![c] = r] /\ Thread(r)
      /\ (r.op = "STOR" /\ r.at \in Uploading) <=> (conn[c].op = "STOR" /\ conn[c].at \in Uploading)
      /\ r.at \in {"lock", "persist"} => r.op = "STOR"
      /\ r.at = "answer" => r.op # "STOR"
<1> USE <1>1 DEF Uploading, At
<1>3. CASE Hangup(c)
    <2>1. Fits([conn[c] EXCEPT !.at = "leaving", !.passive = FALSE])
        BY <1>3 DEF Hangup, Thread, Places
    <2> QED BY <1>2, <2>1, OwnStep
<1>4. CASE Leave(c)
    <2>1. Fits([Closed EXCEPT !.at = "done"])
        BY <1>4 DEF Leave, Thread, Places, Closed
    <2> QED BY <1>2, <2>1, OwnStep
<1>5. CASE DataAccepted(c)
    <2> DEFINE a == IF conn[c].op = "STOR" THEN Looking ELSE "transfer"
    <2>1. a \in {"transfer", "persist"} /\ (a = "persist" => conn[c].op = "STOR")
        BY DEF Looking
    <2>2. conn' = [conn EXCEPT ![c] = [conn[c] EXCEPT !.passive = FALSE, !.at = a, !.ok = TRUE]]
        BY <1>5 DEF DataAccepted, IInv, TypeOK
    <2> HIDE DEF a
    <2>3. Fits([conn[c] EXCEPT !.passive = FALSE, !.at = a, !.ok = TRUE])
        BY <1>5, <2>1, <2>2 DEF DataAccepted, Thread, Places
    <2> QED BY <1>2, <2>3, OwnStep
<1>12. CASE Opened(c)
    <2>1. Fits([conn[c] EXCEPT !.at = "accept"])
        BY <1>12 DEF Opened, Thread, Places
    <2> QED BY <1>2, <2>1, OwnStep
<1>6. CASE DataRefused(c)
    <2>0. conn[c].at = "accept"
        BY <1>6 DEF DataRefused
    <2>1. CASE conn[c].op = "STOR"
        <3>1. Fits([conn[c] EXCEPT !.passive = FALSE, !.at = "persist"])
            BY <1>6, <2>0, <2>1 DEF DataRefused, Thread, Places, IInv, TypeOK
        <3> QED BY <1>2, <3>1, OwnStep
    <2>2. CASE conn[c].op # "STOR"
        <3>1. Fits([conn[c] EXCEPT !.passive = FALSE, !.at = "answer"])
            BY <1>6, <2>0, <2>2 DEF DataRefused, Thread, Places, IInv, TypeOK
        <3> QED BY <1>2, <3>1, OwnStep
    <2> QED BY <2>1, <2>2
<1>7. CASE Sent(c)
    <2>1. Fits(Answering(conn[c]))
        BY <1>7, AnsweringThread DEF Sent, IInv, TypeOK
    <2> QED BY <1>2, <2>1, OwnStep
<1>8. CASE TransferFails(c)
    <2>1. Fits([conn[c] EXCEPT !.at = "persist", !.ok = FALSE])
        BY <1>8 DEF TransferFails, Thread, Places
    <2> QED BY <1>2, <2>1, OwnStep
<1>9. CASE TransferStopped(c)
    <2>1. Fits([conn[c] EXCEPT !.at = "persist"])
        BY <1>9 DEF TransferStopped, Thread, Places
    <2> QED BY <1>2, <2>1, OwnStep
<1>10. CASE PeerEnds(c)
    <2>1. Fits([conn[c] EXCEPT !.at = "persist"])
        BY <1>10 DEF PeerEnds, Thread, Places
    <2> QED BY <1>2, <2>1, OwnStep
<1>11. CASE Receive(c)
    <2>1. CASE conn' = [conn EXCEPT ![c].total = @ + 1, ![c].at = Looking]
        <3> DEFINE a == Looking
                   t == conn[c].total + 1
                   r == [conn[c] EXCEPT !.total = t, !.at = a]
        <3>1. a \in {"transfer", "persist"}
            BY DEF Looking
        <3>2. t \in Nat
            BY DEF Thread
        <3>3. conn' = [conn EXCEPT ![c] = r]
            BY <2>1 DEF IInv, TypeOK
        <3>4. conn[c].at = "transfer" /\ conn[c].op = "STOR"
            BY <1>11 DEF Receive
        <3> HIDE DEF a, t
        <3>5. Thread(r) /\ r.at = a /\ r.op = "STOR"
            BY <3>1, <3>2, <3>4 DEF Thread, Places
        <3> HIDE DEF r
        <3>6. Fits(r)
            BY <3>1, <3>3, <3>4, <3>5
        <3> QED BY <1>2, <3>6, OwnStep
    <2>2. CASE conn' = [conn EXCEPT ![c].at = "persist", ![c].ok = FALSE]
        <3>1. Fits([conn[c] EXCEPT !.at = "persist", !.ok = FALSE])
            BY <1>11, <2>2 DEF Receive, Thread, Places
        <3> QED BY <1>2, <3>1, OwnStep
    <2> QED BY <1>11, <2>1, <2>2 DEF Receive
<1> QED
    BY <1>3, <1>4, <1>5, <1>6, <1>7, <1>8, <1>9, <1>10, <1>11, <1>12

(* Steps of one thread with the storage mutex free for it: where it goes decides
   whether it holds the mutex then. *)
LEMMA LockStep ==
    ASSUME IInv, NEW c \in Clients, NEW r, Thread(r), Alive, c \in workers,
           lock \in {Nobody, c}, conn' = [conn EXCEPT ![c] = r],
           UNCHANGED <<workers, stopping, stage>>,
           \/ (lock' = c /\ r.op = "STOR" /\ r.at \in Uploading)
           \/ (lock' = Nobody /\ ~(r.op = "STOR" /\ r.at \in Uploading)),
           temps' \subseteq {c}, c \in temps' => lock' = c /\ r.at # "answer",
           r.at \in {"lock", "persist"} => r.op = "STOR"
    PROVE  IInv'
<1>1. conn' \in [Clients -> {conn'[d] : d \in Clients}] /\ conn'[c] = r
      /\ \A d \in Clients \ {c} : conn'[d] = conn[d]
    BY DEF IInv, TypeOK
<1>2. TypeOK'
    BY <1>1 DEF IInv, TypeOK
<1>3. \A d \in Clients \ {c} : lock # d /\ lock' # d
    BY FtpBounds
<1>4. \A d \in Clients \ {c} : ~(conn'[d].op = "STOR" /\ conn'[d].at \in Uploading)
    BY <1>1, <1>3 DEF IInv, Holder
<1>5. \A d \in temps' : lock' = d /\ conn'[d].at # "answer"
    BY <1>1
<1>6. lock' = c <=> (conn'[c].op = "STOR" /\ conn'[c].at \in Uploading)
    BY <1>1, FtpBounds
<1>7. Holder'
    <2>1. \A d \in Clients : (conn'[d].op = "STOR" /\ conn'[d].at \in Uploading) <=> lock' = d
        BY <1>3, <1>4, <1>6
    <2>2. \A d \in Clients : lock' = d => d \in workers'
        BY <1>3
    <2>3. lock' \in Clients \cup {Nobody}
        OBVIOUS
    <2> QED
        BY <1>5, <2>1, <2>2, <2>3 DEF Holder
<1>8. Uploads'
    BY <1>1 DEF IInv, Uploads
<1>9. Quiet'
    BY DEF IInv, Quiet, Alive
<1> QED
    BY <1>2, <1>7, <1>8, <1>9 DEF IInv

LEMMA ReserveKept ==
    ASSUME IInv, NEW c \in Clients, Reserve(c)
    PROVE  IInv'
<1>1. /\ Thread(conn[c]) /\ conn[c].op = "STOR" /\ c \in workers /\ Alive
      /\ lock = Nobody /\ lock' = c
    BY DEF IInv, TypeOK, Uploads, Reserve, At
<1>2. UNCHANGED <<workers, stopping, stage>>
    BY DEF Reserve
<1>3. temps = {}
    BY <1>1, FtpBounds DEF IInv, TypeOK, Holder
<1>4. CASE conn' = [conn EXCEPT ![c] = Answering(@)] /\ UNCHANGED temps
    <2>1. conn' = [conn EXCEPT ![c] = Answering(conn[c])]
        BY <1>4 DEF IInv, TypeOK
    <2> QED
        BY <1>1, <1>2, <1>3, <1>4, <2>1, AnsweringThread, LockStep DEF Uploading
<1>5. ASSUME NEW l, temps' = temps \cup {c},
             conn' = [conn EXCEPT ![c].at = "opening", ![c].total = 0, ![c].limit = l]
      PROVE  IInv'
    <2> DEFINE r == [conn[c] EXCEPT !.at = "opening", !.total = 0, !.limit = l]
    <2>1. Thread(r) /\ r.at = "opening" /\ r.op = conn[c].op
        BY <1>1 DEF Thread, Places
    <2>2. conn' = [conn EXCEPT ![c] = r]
        BY <1>5 DEF IInv, TypeOK
    <2> HIDE DEF r
    <2>3. temps' = {c}
        BY <1>3, <1>5
    <2> QED
        BY <1>1, <1>2, <2>1, <2>2, <2>3, LockStep DEF Uploading
<1> QED
    BY <1>4, <1>5 DEF Reserve

LEMMA PersistKept ==
    ASSUME IInv, NEW c \in Clients, Persist(c)
    PROVE  IInv'
<1>1. /\ Thread(conn[c]) /\ conn[c].op = "STOR" /\ Alive /\ lock = c /\ c \in workers
    BY DEF IInv, TypeOK, Uploads, Holder, Uploading, Persist, At
<1>2. UNCHANGED <<workers, stopping, stage>> /\ temps' = temps \ {c} /\ lock' = c
    BY <1>1 DEF Persist
<1>3. conn' = [conn EXCEPT ![c] = Answering(conn[c])]
    BY DEF Persist, IInv, TypeOK
<1>4. temps' = {}
    BY <1>1, <1>2 DEF IInv, TypeOK, Holder
<1> QED
    BY <1>1, <1>2, <1>3, <1>4, AnsweringThread, LockStep DEF Uploading

LEMMA AnsweredKept ==
    ASSUME IInv, NEW c \in Clients, Answered(c)
    PROVE  IInv'
<1> DEFINE r == [conn[c] EXCEPT !.at = "command", !.op = "none"]
<1>1. Thread(conn[c]) /\ At(c, conn[c].at) /\ conn[c].at = "answer"
    BY DEF IInv, TypeOK, Answered, At
<1>2. Thread(r) /\ r.at = "command" /\ r.op = "none"
    BY <1>1 DEF Thread, Places
<1>3. conn' = [conn EXCEPT ![c] = r]
    BY DEF Answered, IInv, TypeOK
<1>4. UNCHANGED <<workers, temps, stopping, stage>>
    BY DEF Answered, server
<1> HIDE DEF r
<1>5. CASE lock = c
    <2>1. temps = {} /\ lock' = Nobody
        BY <1>1, <1>5 DEF IInv, TypeOK, Holder, At, Answered
    <2> QED
        BY <1>1, <1>2, <1>3, <1>4, <1>5, <2>1, LockStep DEF At, Uploading
<1>6. CASE lock # c
    <2>1. lock' = lock /\ ~(conn[c].op = "STOR" /\ conn[c].at \in Uploading)
        BY <1>1, <1>6 DEF Answered, IInv, Holder, At
    <2> QED
        BY <1>1, <1>2, <1>3, <1>4, <2>1, OwnStep DEF Uploading
<1> QED
    BY <1>5, <1>6

LEMMA ListenerKept ==
    ASSUME IInv, NEW c \in Clients, Accept(c) \/ Reap(c)
    PROVE  IInv'
<1>1. PICK r : /\ conn' = [conn EXCEPT ![c] = r] /\ Thread(r)
               /\ r.at \in {"command", "closed"} /\ r.ok = FALSE
    <2>1. CASE Accept(c)
        <3> DEFINE q == [Closed EXCEPT !.at = "command"]
        <3>1. Thread(q) /\ q.at = "command" /\ q.ok = FALSE
            BY DEF Thread, Closed, Places
        <3> QED BY <2>1, <3>1 DEF Accept
    <2>2. CASE Reap(c)
        <3>1. Closed.at = "closed" /\ Closed.ok = FALSE
            BY DEF Closed
        <3> QED BY <2>2, <3>1, ClosedThread DEF Reap
    <2> QED BY <2>1, <2>2
<1>0. /\ conn[c].at \in {"closed", "done"} /\ stage \in {"running", "joining"}
      /\ \A d \in Clients \ {c} : d \in workers' <=> d \in workers
    BY DEF Accept, Reap, At
<1>10. /\ conn' \in [Clients -> {conn'[d] : d \in Clients}]
       /\ conn'[c] = r /\ \A d \in Clients \ {c} : conn'[d] = conn[d]
    BY <1>1 DEF IInv, TypeOK
<1>2. UNCHANGED <<lock, temps, stopping, stage>> /\ workers' \subseteq Clients
    BY DEF Accept, Reap, storage, IInv, TypeOK
<1>3. lock # c
    BY <1>0 DEF IInv, Holder, Alive, Uploading
<1>4. TypeOK'
    BY <1>1, <1>2, <1>10 DEF IInv, TypeOK
<1>5. Holder'
    BY <1>0, <1>1, <1>2, <1>3, <1>10 DEF IInv, TypeOK, Holder, Alive, Uploading
<1>6. Uploads'
    BY <1>1, <1>2, <1>10 DEF IInv, Uploads
<1>7. Quiet'
    <2>1. stage' \notin {"stopped", "down"}
        BY <1>0, <1>2
    <2> QED BY <2>1 DEF Quiet
<1> QED
    BY <1>4, <1>5, <1>6, <1>7 DEF IInv

LEMMA ServerKept ==
    ASSUME IInv, RequestStop \/ ShutDown \/ ReapAll \/ Exit \/ Crash \/ Start
    PROVE  IInv'
<1> USE DEF storage
<1>1. CASE RequestStop \/ ShutDown
    <2>1. /\ UNCHANGED <<conn, workers, lock, temps>> /\ stage' \in {"joining", "reaping"}
          /\ stage # "down" /\ stopping' \in BOOLEAN /\ (stopping => stopping')
        BY <1>1 DEF RequestStop, ShutDown, IInv, TypeOK
    <2>2. TypeOK' /\ Quiet'
        BY <2>1 DEF IInv, TypeOK, Quiet
    <2>3. Holder'
        BY <2>1 DEF IInv, Holder, Alive
    <2>4. Uploads'
        BY <2>1 DEF IInv, Uploads
    <2> QED
        BY <2>2, <2>3, <2>4 DEF IInv
<1>2. ASSUME conn' = [c \in Clients |-> Closed], workers' = {}, lock' = Nobody, temps' = temps,
             stopping' \in BOOLEAN, stage' = "down" \/ (stage' = "stopped" /\ temps = {})
      PROVE  IInv'
    <2>1. \A c \in Clients : conn'[c] = Closed
        BY <1>2
    <2>2. TypeOK'
        BY <1>2, <2>1, ClosedThread DEF IInv, TypeOK
    <2>3. Holder' /\ Uploads' /\ Quiet'
        BY <1>2, <2>1, FtpBounds DEF Holder, Uploads, Quiet, Alive, Closed, Uploading
    <2> QED
        BY <2>2, <2>3 DEF IInv
<1>3. CASE ReapAll
    <2>1. \A c \in Clients : lock # c
        BY <1>3 DEF ReapAll, IInv, Holder, Alive, Uploading
    <2>2. temps = {} /\ lock = Nobody
        BY <1>3, <2>1 DEF ReapAll, IInv, TypeOK, Holder, Alive
    <2> QED
        BY <1>2, <1>3, <2>2 DEF ReapAll, IInv, TypeOK
<1>4. CASE Exit \/ Crash
    BY <1>2, <1>4 DEF Exit, Crash, Die
<1>5. CASE Start
    <2>1. /\ UNCHANGED <<conn, workers, lock, stopping>> /\ temps' = {} /\ stage' = "running"
          /\ workers = {} /\ lock = Nobody /\ \A c \in Clients : conn[c] = Closed
        BY <1>5 DEF Start, IInv, Quiet
    <2>2. TypeOK' /\ Quiet'
        BY <2>1 DEF IInv, TypeOK, Quiet
    <2>3. Holder' /\ Uploads'
        BY <2>1, FtpBounds DEF Holder, Uploads, Closed, Uploading
    <2> QED
        BY <2>2, <2>3 DEF IInv
<1> QED
    BY <1>1, <1>3, <1>4, <1>5

LEMMA NextKept == IInv /\ [Next]_vars => IInv'
<1> SUFFICES ASSUME IInv, [Next]_vars PROVE IInv'
    OBVIOUS
<1>1. CASE UNCHANGED vars
    BY <1>1 DEF vars, IInv, TypeOK, Holder, Uploads, Quiet, Alive
<1>2. ASSUME NEW c \in Clients, Command(c) \/ Proceed(c) \/ Peer(c) \/ Reap(c) PROVE IInv'
    BY <1>2, CommandKept, ThreadKept, ReserveKept, PersistKept, AnsweredKept,
        ListenerKept DEF Proceed, Peer
<1> QED
    BY <1>1, <1>2, ServerKept DEF Next

LEMMA Always == Spec => []IInv
BY FtpInit, NextKept, PTL DEF Spec

(* Every variable of ftp::Server and of its threads has its type. *)
THEOREM FtpTypeCorrect == Spec => []TypeOK
BY Always, PTL DEF IInv

(* An upload leaves no temporary behind, and stop() returns only when no
   thread uses the server or holds the storage mutex. *)
THEOREM NothingIsLeft == Spec => []NothingLeft
<1>1. IInv => NothingLeft
    BY DEF IInv, TypeOK, Holder, Quiet, NothingLeft, Uploading, Closed
<1> QED
    BY <1>1, Always, PTL

-----------------------------------------------------------------------------
(* Sums over finite sets *)

(* Induction over the subsets of a finite set.  What is shown is given as the set
   of the subsets that have it, so that the provers can instantiate the lemma. *)
LEMMA SubsetInduction ==
    ASSUME NEW S, IsFiniteSet(S), NEW Good,
           \A s \in SUBSET S : (\A x \in s : s \ {x} \in Good) => s \in Good
    PROVE  SUBSET S \subseteq Good
<1> DEFINE Bad == (SUBSET S) \ Good
<1> SUFFICES ASSUME Bad # {} PROVE FALSE
    OBVIOUS
<1>1. IsWellFoundedOn(StrictSubsetOrdering(S), SUBSET S)
    <2>1. IsWellFoundedOn(StrictSubsetOrdering(S), FiniteSubsetsOf(S))
        BY FS_StrictSubsetOrderingWellFounded
    <2>2. FiniteSubsetsOf(S) = SUBSET S
        BY FS_FiniteSubsetsOfFinite
    <2> QED
        BY <2>1, <2>2
<1>2. \E s \in Bad : \A t \in Bad : ~(<<t, s>> \in StrictSubsetOrdering(S))
    <2>1. Bad \subseteq SUBSET S /\ Bad # {}
        OBVIOUS
    <2> HIDE DEF Bad
    <2> QED
        BY <1>1, <2>1, WFMin
<1>3. PICK s \in Bad : \A t \in Bad : ~(<<t, s>> \in StrictSubsetOrdering(S))
    BY <1>2
<1>4. \A x \in s : <<s \ {x}, s>> \in StrictSubsetOrdering(S)
    BY <1>3 DEF StrictSubsetOrdering
<1>5. \A x \in s : s \ {x} \in Good
    BY <1>3, <1>4
<1> QED
    BY <1>3, <1>5

(* The sum of the values of f over a set, as FoldFunctionOnSet defines it: an element
   is taken out, its value is added to the sum over the rest. *)
Sum(f, S) == FoldFunctionOnSet(+, 0, f, S)
Pick(s) == CHOOSE x \in s : TRUE
Step(f, g, s) == IF s = {} THEN 0 ELSE f[Pick(s)] + g[s \ {Pick(s)}]
Iter(f, S) == CHOOSE g : g = [s \in SUBSET S |-> Step(f, g, s)]

LEMMA SumIter == ASSUME NEW f, NEW S PROVE Sum(f, S) = Iter(f, S)[S]
BY DEF Sum, FoldFunctionOnSet, MapThenFoldSet, Iter, Step, Pick

LEMMA PickIn == ASSUME NEW s, s # {} PROVE Pick(s) \in s
BY DEF Pick

(* g solves the recursion on the subsets of S. *)
Solves(f, g, S) == g = [s \in SUBSET S |-> Step(f, g, s)]

LEMMA SolvesAt ==
    ASSUME NEW f, NEW g, NEW S, Solves(f, g, S), NEW s \in SUBSET S
    PROVE  g[s] = Step(f, g, s)
<1> DEFINE h == [t \in SUBSET S |-> Step(f, g, t)]
<1>1. h[s] = Step(f, g, s)
    OBVIOUS
<1>2. g = h
    BY DEF Solves
<1> HIDE DEF h
<1> QED
    BY <1>1, <1>2

(* Two solutions agree on every set both are about. *)
LEMMA SolutionsAgree ==
    ASSUME NEW f, NEW A, NEW B, NEW g, NEW h, Solves(f, g, A), Solves(f, h, B),
           NEW T, T \subseteq A, T \subseteq B, IsFiniteSet(T)
    PROVE  g[T] = h[T]
<1> DEFINE Good == {s \in SUBSET T : g[s] = h[s]}
<1>1. ASSUME NEW s \in SUBSET T, \A x \in s : s \ {x} \in Good PROVE s \in Good
    <2>1. g[s] = Step(f, g, s) /\ h[s] = Step(f, h, s)
        BY SolvesAt
    <2>2. CASE s = {}
        BY <2>1, <2>2 DEF Step
    <2>3. CASE s # {}
        <3>1. g[s \ {Pick(s)}] = h[s \ {Pick(s)}]
            BY <1>1, <2>3, PickIn
        <3> QED
            BY <2>1, <2>3, <3>1 DEF Step
    <2> QED
        BY <2>2, <2>3
<1>2. SUBSET T \subseteq Good
    <2> HIDE DEF Good
    <2> QED
        BY <1>1, SubsetInduction
<1> QED
    BY <1>2

(* On a finite set there is one: it is put together from those on the sets that lack one
   element. *)
LEMMA SolutionExists ==
    ASSUME NEW f, NEW S, IsFiniteSet(S)
    PROVE  \E g : Solves(f, g, S)
<1> DEFINE Good == {T \in SUBSET S : \E g : Solves(f, g, T)}
<1>1. ASSUME NEW T \in SUBSET S, \A x \in T : T \ {x} \in Good PROVE T \in Good
    <2>1. CASE T = {}
        <3> DEFINE g == [s \in SUBSET T |-> 0]
        <3>1. \A s \in SUBSET T : Step(f, g, s) = 0
            BY <2>1 DEF Step
        <3>2. g = [s \in SUBSET T |-> Step(f, g, s)]
            BY <3>1
        <3> QED
            BY <3>2 DEF Solves
    <2>2. CASE T # {}
        <3> DEFINE part(x) == CHOOSE g : Solves(f, g, T \ {x})
                   out(s) == CHOOSE x \in T : x \notin s
                   p == Pick(T)
                   last == f[p] + part(p)[T \ {p}]
                   g == [s \in SUBSET T |-> IF s = T THEN last ELSE part(out(s))[s]]
        <3>1. \A x \in T : Solves(f, part(x), T \ {x})
            BY <1>1
        <3>2. \A s \in SUBSET T : s # T => out(s) \in T /\ out(s) \notin s
            OBVIOUS
        <3>3. p \in T
            BY <2>2, PickIn
        <3>4. \A s \in SUBSET T : s # T => g[s] = part(out(s))[s]
            OBVIOUS
        <3>5. g[T] = f[p] + part(p)[T \ {p}]
            OBVIOUS
        <3> HIDE DEF part, out, last
        (* Two parts agree where both are defined. *)
        <3>6. ASSUME NEW x \in T, NEW s \in SUBSET T, x \notin s
              PROVE  g[s] = part(x)[s]
            <4> DEFINE y == out(s)
            <4>1. s # T /\ y \in T /\ y \notin s /\ g[s] = part(y)[s]
                BY <3>2, <3>4, <3>6
            <4>2. Solves(f, part(x), T \ {x}) /\ Solves(f, part(y), T \ {y})
                BY <3>1, <3>6, <4>1
            <4>3. IsFiniteSet(s) /\ s \subseteq T \ {x} /\ s \subseteq T \ {y}
                BY <3>6, <4>1, FS_Subset
            <4> HIDE DEF y, g
            <4> DEFINE px == part(x)
                       py == part(y)
            <4>4. Solves(f, px, T \ {x}) /\ Solves(f, py, T \ {y})
                BY <4>2
            <4>5. px[s] = py[s]
                <5> HIDE DEF px, py
                <5> QED
                    BY <4>3, <4>4, SolutionsAgree
            <4> QED
                BY <4>1, <4>5
        <3>7. ASSUME NEW s \in SUBSET T PROVE g[s] = Step(f, g, s)
            <4>1. CASE s = T
                <5>1. T \ {p} \in SUBSET T /\ p \notin T \ {p}
                    OBVIOUS
                <5>2. g[T \ {p}] = part(p)[T \ {p}]
                    BY <3>3, <3>6, <5>1
                <5> HIDE DEF g
                <5> QED
                    BY <2>2, <3>5, <4>1, <5>2 DEF Step
            <4>2. CASE s # T
                <5> DEFINE y == out(s)
                           py == part(y)
                <5>1. y \in T /\ y \notin s
                    BY <3>2, <4>2
                <5>2. \A t \in SUBSET T : y \notin t => g[t] = py[t]
                    BY <3>6, <5>1
                <5>3. Solves(f, py, T \ {y})
                    BY <3>1, <5>1
                <5> HIDE DEF g, y, py
                <5>4. py[s] = Step(f, py, s)
                    BY <5>1, <5>3, SolvesAt
                <5>5. g[s] = py[s] /\ g[s \ {Pick(s)}] = py[s \ {Pick(s)}]
                    BY <5>1, <5>2
                <5> QED
                    BY <5>4, <5>5 DEF Step
            <4> QED
                BY <4>1, <4>2
        <3>8. g = [s \in SUBSET T |-> Step(f, g, s)]
            BY <3>7
        <3> HIDE DEF g
        <3> QED
            BY <3>8 DEF Solves
    <2> QED
        BY <2>1, <2>2
<1>2. SUBSET S \subseteq Good
    <2> HIDE DEF Good
    <2> QED
        BY <1>1, SubsetInduction
<1> QED
    BY <1>2

LEMMA IterSolves ==
    ASSUME NEW f, NEW S, IsFiniteSet(S)
    PROVE  Solves(f, Iter(f, S), S)
<1>1. Iter(f, S) = CHOOSE g : Solves(f, g, S)
    BY DEF Iter, Solves
<1> QED
    BY <1>1, SolutionExists

LEMMA SumStep ==
    ASSUME NEW f, NEW S, IsFiniteSet(S), S # {}
    PROVE  Sum(f, S) = f[Pick(S)] + Sum(f, S \ {Pick(S)})
<1> DEFINE T == S \ {Pick(S)}
           g == Iter(f, S)
           h == Iter(f, T)
<1>1. IsFiniteSet(T) /\ T \subseteq S
    BY FS_Subset
<1>2. Solves(f, g, S) /\ Solves(f, h, T)
    BY <1>1, IterSolves
<1>3. Sum(f, S) = g[S] /\ Sum(f, T) = h[T]
    BY SumIter
<1> HIDE DEF g, h
<1>4. g[S] = Step(f, g, S)
    BY <1>2, SolvesAt
<1>5. g[T] = h[T]
    <2> HIDE DEF T
    <2> QED
        BY <1>1, <1>2, SolutionsAgree
<1> QED
    BY <1>3, <1>4, <1>5 DEF Step

LEMMA SumEmpty == ASSUME NEW f PROVE Sum(f, {}) = 0
<1>1. IsFiniteSet({})
    BY FS_EmptySet
<1> DEFINE g == Iter(f, {})
<1>2. Solves(f, g, {}) /\ Sum(f, {}) = g[{}]
    BY <1>1, IterSolves, SumIter
<1> HIDE DEF g
<1> QED
    BY <1>2, SolvesAt DEF Step

LEMMA SumType ==
    ASSUME NEW f, NEW S, IsFiniteSet(S), \A x \in S : f[x] \in Int
    PROVE  Sum(f, S) \in Int
<1> DEFINE Good == {s \in SUBSET S : Sum(f, s) \in Int}
<1>1. ASSUME NEW s \in SUBSET S, \A x \in s : s \ {x} \in Good PROVE s \in Good
    <2>1. CASE s = {}
        BY <2>1, SumEmpty
    <2>2. CASE s # {}
        <3>1. IsFiniteSet(s) /\ Pick(s) \in s
            BY <2>2, PickIn, FS_Subset
        <3>2. Sum(f, s) = f[Pick(s)] + Sum(f, s \ {Pick(s)})
            BY <2>2, <3>1, SumStep
        <3>3. f[Pick(s)] \in Int /\ Sum(f, s \ {Pick(s)}) \in Int
            BY <1>1, <3>1
        <3> QED
            BY <3>2, <3>3
    <2> QED
        BY <2>1, <2>2
<1>2. SUBSET S \subseteq Good
    <2> HIDE DEF Good
    <2> QED
        BY <1>1, SubsetInduction
<1> QED
    BY <1>2

(* The order in which the elements are taken does not matter. *)
LEMMA SumRemove ==
    ASSUME NEW f, NEW S, IsFiniteSet(S), \A x \in S : f[x] \in Int
    PROVE  \A x \in S : Sum(f, S) = f[x] + Sum(f, S \ {x})
<1> DEFINE Holds(s) == \A x \in s : Sum(f, s) = f[x] + Sum(f, s \ {x})
           Good == {s \in SUBSET S : Holds(s)}
<1>1. ASSUME NEW s \in SUBSET S, \A x \in s : s \ {x} \in Good PROVE s \in Good
    <2>1. CASE s = {}
        BY <2>1
    <2>2. CASE s # {}
        <3> DEFINE p == Pick(s)
        <3>1. IsFiniteSet(s) /\ p \in s
            BY <2>2, PickIn, FS_Subset
        <3>2. Sum(f, s) = f[p] + Sum(f, s \ {p})
            BY <2>2, <3>1, SumStep
        <3>3. \A x \in s : Holds(s \ {x})
            BY <1>1
        <3> HIDE DEF p
        <3>4. ASSUME NEW x \in s PROVE Sum(f, s) = f[x] + Sum(f, s \ {x})
            <4>1. CASE x = p
                BY <3>2, <4>1
            <4>2. CASE x # p
                <5>1. x \in s \ {p} /\ p \in s \ {x} /\ (s \ {p}) \ {x} = (s \ {x}) \ {p}
                    BY <3>1, <4>2
                <5> DEFINE left == (s \ {x}) \ {p}
                           rest == Sum(f, left)
                <5>2. Sum(f, s \ {p}) = f[x] + rest
                    BY <3>1, <3>3, <5>1
                <5>3. Sum(f, s \ {x}) = f[p] + rest
                    BY <3>3, <5>1
                <5>4. rest \in Int
                    <6>1. left \subseteq S /\ IsFiniteSet(left) /\ \A y \in left : f[y] \in Int
                        BY <3>1, FS_Subset
                    <6> HIDE DEF left
                    <6> QED
                        BY <6>1, SumType
                <5>5. f[x] \in Int /\ f[p] \in Int
                    BY <3>1
                <5> HIDE DEF rest
                <5> QED
                    BY <3>2, <5>2, <5>3, <5>4, <5>5
            <4> QED
                BY <4>1, <4>2
        <3> QED
            BY <3>4
    <2> QED
        BY <2>1, <2>2
<1>2. SUBSET S \subseteq Good
    <2> HIDE DEF Good
    <2> QED
        BY <1>1, SubsetInduction
<1> QED
    BY <1>2

LEMMA SumSame ==
    ASSUME NEW f, NEW g, NEW S, IsFiniteSet(S), \A x \in S : f[x] = g[x]
    PROVE  Sum(f, S) = Sum(g, S)
<1> DEFINE Good == {s \in SUBSET S : Sum(f, s) = Sum(g, s)}
<1>1. ASSUME NEW s \in SUBSET S, \A x \in s : s \ {x} \in Good PROVE s \in Good
    <2>1. CASE s = {}
        BY <2>1, SumEmpty
    <2>2. CASE s # {}
        <3>1. IsFiniteSet(s) /\ Pick(s) \in s
            BY <2>2, PickIn, FS_Subset
        <3>2. /\ Sum(f, s) = f[Pick(s)] + Sum(f, s \ {Pick(s)})
              /\ Sum(g, s) = g[Pick(s)] + Sum(g, s \ {Pick(s)})
            BY <2>2, <3>1, SumStep
        <3>3. f[Pick(s)] = g[Pick(s)] /\ Sum(f, s \ {Pick(s)}) = Sum(g, s \ {Pick(s)})
            BY <1>1, <3>1
        <3> QED
            BY <3>2, <3>3
    <2> QED
        BY <2>1, <2>2
<1>2. SUBSET S \subseteq Good
    <2> HIDE DEF Good
    <2> QED
        BY <1>1, SubsetInduction
<1> QED
    BY <1>2

LEMMA SumReplaced ==
    ASSUME NEW f, NEW g, NEW S, IsFiniteSet(S), \A x \in S : g[x] \in Int,
           NEW y \in S, \A x \in S \ {y} : g[x] = f[x]
    PROVE  Sum(g, S) = g[y] + Sum(f, S \ {y})
<1> DEFINE R == S \ {y}
<1>1. Sum(g, S) = g[y] + Sum(g, R)
    BY SumRemove
<1>2. IsFiniteSet(R) /\ \A x \in R : g[x] = f[x]
    BY FS_Subset
<1> HIDE DEF R
<1>3. Sum(g, R) = Sum(f, R)
    BY <1>2, SumSame
<1> QED
    BY <1>1, <1>3 DEF R

-----------------------------------------------------------------------------
(* The quota *)

(* The visible files among those in S, when files is fs *)
Visible(fs, S) == {n \in S : fs[n] # Absent}
Bytes(fs, S) == Sum(fs, Visible(fs, S))

(* The upload r may still end with its file in place: from the reservation until the
   rename, its limit and its place in the directory take the other visible files into
   account. *)
Within(r, fs) ==
    r.at # "answer" =>
    /\ r.name \in Names /\ r.total \in Nat /\ r.limit \in Int
    /\ r.total <= r.limit /\ r.limit <= MaxTotalBytes - Bytes(fs, Names \ {r.name})
    /\ Cardinality(Visible(fs, Names \ {r.name})) < MaxFiles

Quota ==
    /\ files \in [Names -> Nat \cup {Absent}]
    /\ \A c \in Clients : conn[c].at = "lock" => conn[c].name \in Names
    /\ \A c \in Clients : lock = c => Within(conn[c], files)
    /\ Cardinality(Visible(files, Names)) <= MaxFiles
    /\ Bytes(files, Names) <= MaxTotalBytes


LEMMA VisibleFinite ==
    ASSUME NEW fs \in [Names -> Nat \cup {Absent}], NEW S \in SUBSET Names
    PROVE  /\ IsFiniteSet(Visible(fs, S)) /\ Cardinality(Visible(fs, S)) \in Nat
           /\ \A n \in Visible(fs, S) : fs[n] \in Int
           /\ Bytes(fs, S) \in Int
<1> DEFINE V == Visible(fs, S)
<1>1. V \subseteq Names /\ \A n \in V : fs[n] \in Int
    BY DEF Visible
<1>2. IsFiniteSet(V) /\ Cardinality(V) \in Nat
    BY <1>1, FtpBounds, FS_Subset, FS_CardinalityType
<1> HIDE DEF V
<1>3. Sum(fs, V) \in Int
    BY <1>1, <1>2, SumType
<1> QED
    BY <1>1, <1>2, <1>3 DEF V, Bytes

(* The storage with a file of v bytes under the name n *)
Renamed(fs, n, v) == [fs EXCEPT ![n] = v]

(* A file of v bytes takes the place of the one of that name, if there is one. *)
LEMMA Renaming ==
    ASSUME NEW fs \in [Names -> Nat \cup {Absent}], NEW n \in Names, NEW v \in Nat,
           NEW gs, gs = Renamed(fs, n, v)
    PROVE  /\ gs \in [Names -> Nat \cup {Absent}]
           /\ Bytes(gs, Names) = v + Bytes(fs, Names \ {n})
           /\ Cardinality(Visible(gs, Names)) = Cardinality(Visible(fs, Names \ {n})) + 1
<1> DEFINE V == Visible(gs, Names)
           O == Visible(fs, Names \ {n})
<1>1. gs \in [Names -> Nat \cup {Absent}] /\ gs[n] = v /\ \A m \in Names \ {n} : gs[m] = fs[m]
    BY DEF Renamed
<1>2. v # Absent
    BY DEF Absent
<1>3. n \in V /\ V \ {n} = O /\ n \notin O /\ V = O \cup {n}
    BY <1>1, <1>2 DEF Visible
<1>4. IsFiniteSet(V) /\ \A m \in V : gs[m] \in Int
    BY <1>1, VisibleFinite
<1>5. IsFiniteSet(O)
    BY <1>3, <1>4, FS_Subset
<1>6. \A m \in O : gs[m] = fs[m]
    BY <1>1 DEF Visible
<1>7. Bytes(gs, Names) = Sum(gs, V) /\ Bytes(fs, Names \ {n}) = Sum(fs, O)
    BY DEF Bytes
<1> HIDE DEF V, O
<1>8. Sum(gs, V) = gs[n] + Sum(fs, V \ {n})
    <2> DEFINE f == fs
               g == gs
    <2>1. \A m \in V : g[m] \in Int
        BY <1>4
    <2>2. \A m \in V \ {n} : g[m] = f[m]
        BY <1>3, <1>6
    <2>3. IsFiniteSet(V) /\ n \in V
        BY <1>3, <1>4
    <2> HIDE DEF f, g
    <2>4. Sum(g, V) = g[n] + Sum(f, V \ {n})
        BY <2>1, <2>2, <2>3, SumReplaced
    <2> QED
        BY <2>4 DEF f, g
<1>9. Cardinality(V) = Cardinality(O) + 1
    BY <1>3, <1>5, FS_AddElement
<1> QED
    BY <1>1, <1>3, <1>7, <1>8, <1>9 DEF V, O

LEMMA QuotaInit == Init => Quota
<1> SUFFICES ASSUME Init PROVE Quota
    OBVIOUS
<1>1. files \in [Names -> Nat \cup {Absent}] /\ Visible(files, Names) = {}
    BY DEF Init, Visible
<1>2. Bytes(files, Names) = 0 /\ Cardinality(Visible(files, Names)) = 0
    BY <1>1, SumEmpty, FS_EmptySet DEF Bytes
<1>3. \A c \in Clients : lock # c /\ conn[c].at = "closed"
    BY FtpBounds DEF Init, Closed
<1> QED
    BY <1>1, <1>2, <1>3, OptionsAssumption DEF Quota

(* A step of one thread that leaves the files alone: what it holds is still within the
   quota. *)
LEMMA QuotaOwnStep ==
    ASSUME IInv, Quota, NEW c \in Clients, NEW r, conn' = [conn EXCEPT ![c] = r],
           UNCHANGED <<files, lock>>,
           r.at = "lock" => r.name \in Names,
           lock = c => \/ r.at = "answer"
                       \/ /\ r.name = conn[c].name /\ r.limit = conn[c].limit
                          /\ r.total \in Nat /\ r.total <= r.limit /\ conn[c].at # "answer"
    PROVE  Quota'
<1>1. conn'[c] = r /\ \A d \in Clients \ {c} : conn'[d] = conn[d]
    BY DEF IInv, TypeOK
<1>2. \A d \in Clients : conn'[d].at = "lock" => conn'[d].name \in Names
    BY <1>1 DEF Quota
<1>3. ASSUME NEW d \in Clients, lock = d PROVE Within(conn'[d], files)
    <2>1. Within(conn[d], files)
        BY <1>3 DEF Quota
    <2>2. CASE d = c
        BY <1>1, <1>3, <2>1, <2>2 DEF Within
    <2>3. CASE d # c
        BY <1>1, <2>1, <2>3
    <2> QED
        BY <2>2, <2>3
<1> QED
    BY <1>2, <1>3 DEF Quota

LEMMA QuotaThread ==
    ASSUME IInv, Quota, NEW c \in Clients,
           \/ Command(c) \/ Hangup(c) \/ Leave(c) \/ Accept(c) \/ Reap(c) \/ DataRefused(c)
           \/ Sent(c) \/ TransferFails(c) \/ TransferStopped(c) \/ Opened(c) \/ DataAccepted(c)
           \/ Receive(c) \/ PeerEnds(c)
    PROVE  Quota'
<1>1. UNCHANGED <<files, lock>>
    BY DEF Command, User, PassAccepted, PassRefused, Passive, Send, Stor, Hangup, Leave, Accept, Reap,
        DataRefused, Sent, TransferFails, TransferStopped, Opened, DataAccepted, Receive, PeerEnds,
        server, storage
<1>2. Thread(conn[c]) /\ conn \in [Clients -> {conn[d] : d \in Clients}]
    BY DEF IInv, TypeOK
<1>3. lock = c => /\ conn[c].op = "STOR" /\ conn[c].at \in Uploading
                  /\ Within(conn[c], files) /\ Alive
    BY FtpBounds DEF IInv, Holder, Quiet, Quota, Alive
<1> DEFINE Same(r) == r.name = conn[c].name /\ r.limit = conn[c].limit /\ r.total = conn[c].total
<1>4. ASSUME NEW r, conn' = [conn EXCEPT ![c] = r], r.at # "lock",
             lock = c => Same(r) /\ conn[c].at # "answer"
      PROVE  Quota'
    <2>1. lock = c => r.total \in Nat /\ r.total <= r.limit
        BY <1>3, <1>4 DEF Within
    <2> QED
        BY <1>1, <1>4, <2>1, QuotaOwnStep
<1>5. CASE Command(c)
    <2>1. lock # c
        BY <1>3, <1>5 DEF Command, User, PassAccepted, PassRefused, Passive, Send, Stor, Reading, At,
            Uploading
    <2>2. PICK r : /\ conn' = [conn EXCEPT ![c] = r]
                   /\ r.at = "lock" => r.name \in Names
        <3>1. CASE User(c)
            <4> WITNESS [conn[c] EXCEPT !.authenticated = FALSE]
            <4> QED BY <1>2, <3>1 DEF User, Reading, At, Thread
        <3>2. CASE PassAccepted(c)
            <4> WITNESS [conn[c] EXCEPT !.authenticated = TRUE, !.failed = 0]
            <4> QED BY <1>2, <3>2 DEF PassAccepted, Reading, At, Thread
        <3>3. CASE PassRefused(c)
            <4> DEFINE a == IF conn[c].failed + 1 >= PassLimit THEN "leaving" ELSE conn[c].at
                       p == IF conn[c].failed + 1 >= PassLimit THEN FALSE ELSE conn[c].passive
                       f == conn[c].failed + 1
            <4>1. conn' = [conn EXCEPT ![c] = [conn[c] EXCEPT !.authenticated = FALSE, !.failed = f,
                                                              !.at = a, !.passive = p]]
                BY <1>2, <3>3 DEF PassRefused
            <4>2. a # "lock"
                BY <3>3 DEF PassRefused, Reading, At
            <4> HIDE DEF a, p, f
            <4> DEFINE r == [conn[c] EXCEPT !.authenticated = FALSE, !.failed = f, !.at = a, !.passive = p]
            <4>3. r.at = a
                BY <1>2 DEF Thread
            <4>4. conn' = [conn EXCEPT ![c] = r]
                BY <4>1
            <4> HIDE DEF r
            <4> QED BY <4>2, <4>3, <4>4
        <3>4. CASE Passive(c)
            <4> WITNESS [conn[c] EXCEPT !.passive = TRUE]
            <4> QED BY <1>2, <3>4 DEF Passive, Reading, At, Thread
        <3>5. CASE Send(c)
            <4> WITNESS [conn[c] EXCEPT !.op = "send", !.at = "opening"]
            <4> QED BY <1>2, <3>5 DEF Send, Thread
        <3>6. ASSUME NEW n \in Names, Stor(c, n)
              PROVE  \E r : /\ conn' = [conn EXCEPT ![c] = r]
                            /\ r.at = "lock" => r.name \in Names
            <4> WITNESS [conn[c] EXCEPT !.op = "STOR", !.name = n, !.at = "lock"]
            <4> QED BY <1>2, <3>6 DEF Stor, Thread
        <3> QED
            BY <1>5, <3>1, <3>2, <3>3, <3>4, <3>5, <3>6 DEF Command
    <2> QED
        BY <1>1, <2>1, <2>2, QuotaOwnStep
<1>6. CASE Hangup(c) \/ Leave(c) \/ Sent(c) \/ Accept(c) \/ Reap(c)
    <2>1. lock # c
        BY <1>3, <1>6 DEF Hangup, Leave, Sent, Accept, Reap, At, Uploading
    <2>2. CASE Hangup(c)
        <3> DEFINE r == [conn[c] EXCEPT !.at = "leaving", !.passive = FALSE]
        <3>1. conn' = [conn EXCEPT ![c] = r] /\ r.at # "lock"
            BY <1>2, <2>2 DEF Hangup, Thread
        <3> QED BY <1>4, <2>1, <3>1
    <2>3. CASE Leave(c)
        <3> DEFINE r == [Closed EXCEPT !.at = "done"]
        <3>1. conn' = [conn EXCEPT ![c] = r] /\ r.at # "lock"
            BY <2>3 DEF Leave, Closed
        <3> HIDE DEF r
        <3> QED BY <1>4, <2>1, <3>1
    <2>4. CASE Sent(c)
        <3>1. conn' = [conn EXCEPT ![c] = Answering(conn[c])] /\ Answering(conn[c]).at # "lock"
            BY <1>2, <2>4, AnsweringThread DEF Sent
        <3> QED BY <1>4, <2>1, <3>1
    <2>5. CASE Accept(c)
        <3> DEFINE r == [Closed EXCEPT !.at = "command"]
        <3>1. conn' = [conn EXCEPT ![c] = r] /\ r.at # "lock"
            BY <2>5 DEF Accept, Closed
        <3> HIDE DEF r
        <3> QED BY <1>4, <2>1, <3>1
    <2>6. CASE Reap(c)
        <3> DEFINE r == Closed
        <3>1. conn' = [conn EXCEPT ![c] = r] /\ r.at # "lock"
            BY <2>6 DEF Reap, Closed
        <3> HIDE DEF r
        <3> QED BY <1>4, <2>1, <3>1
    <2> QED
        BY <1>6, <2>2, <2>3, <2>4, <2>5, <2>6
<1>7. CASE DataRefused(c)
    <2>1. CASE conn[c].op = "STOR"
        <3> DEFINE r == [conn[c] EXCEPT !.passive = FALSE, !.at = "persist"]
        <3>1. conn' = [conn EXCEPT ![c] = r] /\ r.at # "lock" /\ Same(r) /\ conn[c].at # "answer"
            BY <1>2, <1>7, <2>1 DEF DataRefused, At, Thread
        <3> QED BY <1>4, <3>1
    <2>2. CASE conn[c].op # "STOR"
        <3> DEFINE r == [conn[c] EXCEPT !.passive = FALSE, !.at = "answer"]
        <3>1. conn' = [conn EXCEPT ![c] = r] /\ r.at # "lock" /\ lock # c
            BY <1>2, <1>3, <1>7, <2>2 DEF DataRefused, Thread
        <3> QED BY <1>4, <3>1
    <2> QED
        BY <2>1, <2>2
<1>8. CASE DataAccepted(c)
    <2> DEFINE a == IF conn[c].op = "STOR" THEN Looking ELSE "transfer"
               r == [conn[c] EXCEPT !.passive = FALSE, !.at = a, !.ok = TRUE]
    <2>1. a # "lock" /\ conn[c].at # "answer"
        BY <1>8 DEF Looking, DataAccepted, At
    <2>2. conn' = [conn EXCEPT ![c] = [conn[c] EXCEPT !.passive = FALSE, !.at = a, !.ok = TRUE]]
        BY <1>2, <1>8 DEF DataAccepted
    <2> HIDE DEF a
    <2>3. conn' = [conn EXCEPT ![c] = r] /\ r.at # "lock" /\ Same(r)
        BY <1>2, <2>1, <2>2 DEF Thread
    <2> QED BY <1>4, <2>1, <2>3
<1>14. CASE Opened(c)
    <2> DEFINE r == [conn[c] EXCEPT !.at = "accept"]
    <2>1. conn' = [conn EXCEPT ![c] = r] /\ r.at # "lock" /\ Same(r) /\ conn[c].at # "answer"
        BY <1>2, <1>14 DEF Opened, At, Thread
    <2> QED BY <1>4, <2>1
<1>9. ASSUME conn[c].at = "transfer", conn' = [conn EXCEPT ![c].at = "persist", ![c].ok = FALSE]
      PROVE  Quota'
    <2> DEFINE r == [conn[c] EXCEPT !.at = "persist", !.ok = FALSE]
    <2>1. conn' = [conn EXCEPT ![c] = r] /\ r.at # "lock" /\ Same(r)
        BY <1>2, <1>9 DEF Thread
    <2> QED BY <1>4, <1>9, <2>1
<1>10. CASE TransferFails(c)
    BY <1>9, <1>10 DEF TransferFails, At
<1>11. CASE TransferStopped(c)
    <2> DEFINE r == [conn[c] EXCEPT !.at = "persist"]
    <2>1. conn' = [conn EXCEPT ![c] = r] /\ r.at # "lock" /\ Same(r) /\ conn[c].at # "answer"
        BY <1>2, <1>11 DEF TransferStopped, At, Thread
    <2> QED BY <1>4, <2>1
<1>12. CASE PeerEnds(c)
    <2> DEFINE r == [conn[c] EXCEPT !.at = "persist"]
    <2>1. conn' = [conn EXCEPT ![c] = r] /\ r.at # "lock" /\ Same(r) /\ conn[c].at # "answer"
        BY <1>2, <1>12 DEF PeerEnds, At, Thread
    <2> QED BY <1>4, <2>1
<1>13. CASE Receive(c)
    <2>0. conn[c].at = "transfer"
        BY <1>13 DEF Receive, At
    <2>1. CASE conn[c].total < conn[c].limit /\ conn' = [conn EXCEPT ![c].total = @ + 1, ![c].at = Looking]
        <3> DEFINE r == [conn[c] EXCEPT !.total = conn[c].total + 1, !.at = Looking]
        <3>1. /\ conn' = [conn EXCEPT ![c] = r] /\ r.at = Looking
              /\ r.name = conn[c].name /\ r.limit = conn[c].limit /\ r.total = conn[c].total + 1
            BY <1>2, <2>1 DEF Thread
        <3> HIDE DEF r
        <3>2. lock = c => conn[c].total \in Nat /\ conn[c].limit \in Int
            BY <1>3, <2>0 DEF Within
        <3>3. lock = c => r.total \in Nat /\ r.total <= r.limit
            BY <2>1, <3>1, <3>2
        <3>4. Looking # "lock"
            BY DEF Looking
        <3> QED
            BY <1>1, <2>0, <3>1, <3>3, <3>4, QuotaOwnStep
    <2> QED
        BY <1>9, <1>13, <2>0, <2>1 DEF Receive
<1> QED
    BY <1>5, <1>6, <1>7, <1>8, <1>10, <1>11, <1>12, <1>13, <1>14

(* The reservation: the limit is what the other visible files leave. *)
LEMMA QuotaReserve ==
    ASSUME IInv, Quota, NEW c \in Clients, Reserve(c)
    PROVE  Quota'
<1> DEFINE others == Names \ {conn[c].name}
           room == MaxTotalBytes - Sizes(others)
           l == IF MaxFileBytes < room THEN MaxFileBytes ELSE room
<1>1. conn[c].at = "lock" /\ lock = Nobody /\ lock' = c /\ files' = files
    BY DEF Reserve, At
<1>2. conn[c].name \in Names /\ Thread(conn[c]) /\ conn \in [Clients -> {conn[d] : d \in Clients}]
    BY <1>1 DEF Quota, IInv, TypeOK
<1>3. CASE conn' = [conn EXCEPT ![c] = Answering(@)]
    <2>1. /\ conn'[c] = Answering(conn[c]) /\ conn'[c].at = "answer"
          /\ \A d \in Clients \ {c} : conn'[d] = conn[d]
        BY <1>2, <1>3, AnsweringThread
    <2>2. Within(conn'[c], files)
        BY <2>1 DEF Within
    <2>3. \A d \in Clients : conn'[d].at = "lock" => conn'[d].name \in Names
        BY <2>1 DEF Quota
    <2> QED
        BY <1>1, <2>2, <2>3 DEF Quota
<1>4. CASE /\ Cardinality(Stored(others)) < MaxFiles /\ room > 0
           /\ conn' = [conn EXCEPT ![c].at = "opening", ![c].total = 0, ![c].limit = l]
    <2>1. Sizes(others) = Bytes(files, others) /\ Stored(others) = Visible(files, others)
        BY DEF Sizes, Stored, Bytes, Visible, Sum
    <2>2. Bytes(files, others) \in Int /\ files \in [Names -> Nat \cup {Absent}]
        BY VisibleFinite DEF Quota
    <2>3. /\ room = MaxTotalBytes - Bytes(files, others)
          /\ Cardinality(Visible(files, others)) < MaxFiles
        BY <1>4, <2>1
    <2> DEFINE b == Bytes(files, others)
    <2> HIDE DEF b
    <2>4. l \in Int /\ 0 <= l /\ l <= MaxTotalBytes - b
        <3>1. b \in Int /\ room = MaxTotalBytes - b /\ room > 0
            BY <1>4, <2>2, <2>3 DEF b
        <3> HIDE DEF room
        <3> QED
            BY <3>1, OptionsAssumption
    <2> HIDE DEF l
    <2> DEFINE r == [conn[c] EXCEPT !.at = "opening", !.total = 0, !.limit = l]
    <2>5. /\ r.at = "opening" /\ r.total = 0 /\ r.limit = l /\ r.name = conn[c].name
          /\ conn' = [conn EXCEPT ![c] = r]
        BY <1>2, <1>4 DEF Thread
    <2> HIDE DEF r
    <2>6. conn'[c] = r /\ \A d \in Clients \ {c} : conn'[d] = conn[d]
        BY <1>2, <2>5
    <2>7. Within(r, files)
        BY <1>2, <2>3, <2>4, <2>5 DEF Within, b
    <2>8. \A d \in Clients : conn'[d].at = "lock" => conn'[d].name \in Names
        BY <2>5, <2>6 DEF Quota
    <2> QED
        BY <1>1, <1>4, <2>6, <2>7, <2>8 DEF Quota
<1> QED
    BY <1>3, <1>4 DEF Reserve

(* The rename: the file fits, whatever it replaces. *)
LEMMA QuotaPersist ==
    ASSUME IInv, Quota, NEW c \in Clients, Persist(c)
    PROVE  Quota'
<1>1. /\ Thread(conn[c]) /\ lock = c /\ lock' = c /\ conn[c].at = "persist"
      /\ conn \in [Clients -> {conn[d] : d \in Clients}]
    BY DEF IInv, TypeOK, Uploads, Holder, Uploading, Persist, At
<1>2. Within(conn[c], files) /\ files \in [Names -> Nat \cup {Absent}]
    BY <1>1 DEF Quota
<1> DEFINE r == Answering(conn[c])
<1>3. r.at = "answer" /\ conn' = [conn EXCEPT ![c] = r]
    BY <1>1, AnsweringThread DEF Persist
<1> HIDE DEF r
<1>4. \A d \in Clients : conn'[d].at = "lock" => conn'[d].name \in Names
    BY <1>1, <1>3 DEF Quota
<1>5. \A d \in Clients : lock' = d => Within(conn'[d], files')
    BY <1>1, <1>3 DEF Within
<1>6. CASE UNCHANGED files
    BY <1>4, <1>5, <1>6 DEF Quota
<1>7. CASE files' = [files EXCEPT ![conn[c].name] = conn[c].total]
    <2> DEFINE n == conn[c].name
               v == conn[c].total
               gs == files'
    <2>1. n \in Names /\ v \in Nat /\ gs = [files EXCEPT ![n] = v]
        BY <1>1, <1>2, <1>7 DEF Within
    <2>2. /\ v <= MaxTotalBytes - Bytes(files, Names \ {n})
          /\ Cardinality(Visible(files, Names \ {n})) < MaxFiles
          /\ Bytes(files, Names \ {n}) \in Int
          /\ Cardinality(Visible(files, Names \ {n})) \in Nat
        <3>1. /\ Bytes(files, Names \ {n}) \in Int
              /\ Cardinality(Visible(files, Names \ {n})) \in Nat
            BY <1>2, VisibleFinite
        <3> QED
            BY <1>1, <1>2, <3>1, OptionsAssumption DEF Within
    <2> HIDE DEF n, v, gs
    <2>3. /\ gs \in [Names -> Nat \cup {Absent}]
          /\ Bytes(gs, Names) = v + Bytes(files, Names \ {n})
          /\ Cardinality(Visible(gs, Names)) = Cardinality(Visible(files, Names \ {n})) + 1
        <3> DEFINE fs == files
        <3>1. fs \in [Names -> Nat \cup {Absent}] /\ n \in Names /\ v \in Nat
            BY <1>2, <2>1
        <3>2. gs = Renamed(fs, n, v)
            BY <2>1 DEF Renamed
        <3> HIDE DEF fs
        <3>3. /\ gs \in [Names -> Nat \cup {Absent}]
              /\ Bytes(gs, Names) = v + Bytes(fs, Names \ {n})
              /\ Cardinality(Visible(gs, Names)) = Cardinality(Visible(fs, Names \ {n})) + 1
            BY <3>1, <3>2, Renaming
        <3> QED
            BY <3>3 DEF fs
    <2>4. Bytes(gs, Names) <= MaxTotalBytes /\ Cardinality(Visible(gs, Names)) <= MaxFiles
        BY <2>1, <2>2, <2>3, OptionsAssumption
    <2> QED
        BY <1>4, <1>5, <2>3, <2>4 DEF Quota, gs
<1> QED
    BY <1>6, <1>7 DEF Persist

LEMMA QuotaAnswered ==
    ASSUME IInv, Quota, NEW c \in Clients, Answered(c)
    PROVE  Quota'
<1> DEFINE r == [conn[c] EXCEPT !.at = "command", !.op = "none"]
<1>1. Thread(conn[c]) /\ conn \in [Clients -> {conn[d] : d \in Clients}]
    BY DEF IInv, TypeOK
<1>2. conn' = [conn EXCEPT ![c] = r] /\ r.at = "command"
    BY <1>1 DEF Answered, Thread
<1> HIDE DEF r
<1>3. conn'[c].at = "command" /\ \A d \in Clients \ {c} : conn'[d] = conn[d]
    BY <1>1, <1>2
<1>4. files' = files /\ \A d \in Clients : lock' = d => lock = d /\ d # c
    BY FtpBounds DEF Answered
<1>5. \A d \in Clients : conn'[d].at = "lock" => conn'[d].name \in Names
    BY <1>3 DEF Quota
<1>6. \A d \in Clients : lock' = d => Within(conn'[d], files)
    BY <1>3, <1>4 DEF Quota
<1> QED
    BY <1>4, <1>5, <1>6 DEF Quota

LEMMA QuotaServer ==
    ASSUME IInv, Quota, RequestStop \/ ShutDown \/ ReapAll \/ Exit \/ Crash \/ Start
    PROVE  Quota'
<1>1. files' = files /\ lock' \in {lock, Nobody}
    BY DEF RequestStop, ShutDown, ReapAll, Exit, Crash, Die, Start, storage
<1>2. CASE UNCHANGED conn
    <2>1. \A c \in Clients : lock' = c => lock = c
        BY <1>1, FtpBounds
    <2> QED
        BY <1>1, <1>2, <2>1 DEF Quota
<1>3. CASE conn' = [c \in Clients |-> Closed] /\ (ReapAll \/ lock' = Nobody)
    <2>1. \A c \in Clients : lock' # c
        <3>1. CASE ReapAll
            <4>1. \A c \in Clients : lock # c
                BY <3>1 DEF ReapAll, IInv, Holder, Alive, Uploading
            <4> QED
                BY <3>1, <4>1 DEF ReapAll, storage
        <3> QED
            BY <1>3, <3>1, FtpBounds
    <2>2. \A c \in Clients : conn'[c].at = "closed"
        BY <1>3 DEF Closed
    <2> QED
        BY <1>1, <2>1, <2>2 DEF Quota
<1> QED
    BY <1>2, <1>3 DEF RequestStop, ShutDown, ReapAll, Exit, Crash, Die, Start

LEMMA QuotaKept == IInv /\ Quota /\ [Next]_vars => Quota'
<1> SUFFICES ASSUME IInv, Quota, [Next]_vars PROVE Quota'
    OBVIOUS
<1>1. CASE UNCHANGED vars
    BY <1>1 DEF vars, Quota
<1>2. ASSUME NEW c \in Clients, Command(c) \/ Proceed(c) \/ Peer(c) \/ Reap(c) PROVE Quota'
    BY <1>2, QuotaThread, QuotaReserve, QuotaPersist, QuotaAnswered DEF Proceed, Peer
<1> QED
    BY <1>1, <1>2, QuotaServer DEF Next

(* Neither the number nor the total size of the visible files exceeds the quota, however
   uploads, failures, stop() and losses of the process overlap: the room that STOR computes
   before the transfer is still there when it renames the file. *)
THEOREM QuotaRespected == Spec => []WithinQuota
<1>1. Quota => WithinQuota
    BY DEF Quota, WithinQuota, Sizes, Stored, Bytes, Visible, Sum
<1> QED
    BY <1>1, Always, QuotaInit, QuotaKept, PTL DEF Spec
=============================================================================
