--------------------------- MODULE WebAdminProofs ---------------------------
(***************************************************************************)
(* Theorems about WebAdmin and the TLS store in it, for every set of       *)
(* addresses, tokens, passwords and pairs, every limit of the tables and   *)
(* every number of requests, failures and losses of the process.           *)
(***************************************************************************)
EXTENDS WebAdmin, FiniteSetTheorems, TLAPS

-----------------------------------------------------------------------------
(* The TLS store *)

(* The steps at which the answer to PUT tls is formed, and LoadRecord, as the
   TLS store sees them; and a step of another part that fails or not. *)
Answered == step \in {"replaced", "failed"} /\ candidate' = NoFile /\ Goto("idle")
            /\ UNCHANGED <<tlsFiles, context, setup, faults, crashes>>
Loading == step = "down" /\ Goto("load")
           /\ UNCHANGED <<tlsFiles, context, setup, candidate, faults, crashes>>
Elsewhere == (NoFault \/ Fault)
             /\ UNCHANGED <<certificate, privateKey, previous, context, setup, candidate, step, crashes>>

(* What a step of the web server is for the TLS store *)
TlsNext ==
    \/ GenerateKey \/ GenerateCertificate \/ LoadFiles \/ StartFails \/ Replace
    \/ TakeContext \/ NewConnection \/ Killed \/ FreedContextKills
    \/ (\E pair \in Pairs : BeginReplace(pair))
    \/ Answered \/ Loading \/ Elsewhere

LEMMA StepOfTls == [Next]_vars => TlsNext
<1> SUFFICES ASSUME [Next]_vars PROVE TlsNext
    OBVIOUS
<1>1. CASE Start
    BY <1>1 DEF Start, StoreBootstrap, StoreFirstRecord, LoadRecord, TlsNext, Loading, Elsewhere
<1>2. CASE Tls
    BY <1>2 DEF Tls, TlsAnswered, TlsNext, Answered
<1>3. CASE WebRequest
    <2> USE DEF TlsNext, Elsewhere, NoFault, tlsVars, tlsFiles
    <2>1. CASE Refused
        BY <2>1 DEF Refused
    <2>2. ASSUME NEW a \in Addresses, LoginFails(a) \/ Login(a) PROVE TlsNext
        BY <2>2 DEF LoginFails, Login
    <2>3. ASSUME NEW t \in Tokens,
                 ReadIec(t) \/ AskNetwork(t) \/ Maintain(t) \/ AskTime(t)
                 \/ ReadStored(t) \/ ReadSession(t) \/ ReadPage(t)
          PROVE  TlsNext
        BY <2>3 DEF ReadIec, AskNetwork, Maintain, AskTime, ReadStored, ReadSession, ReadPage, Renew
    <2>4. ASSUME NEW t \in Tokens, Logout(t) \/ RevokeOthers(t) \/ ReadConfig(t) PROVE TlsNext
        BY <2>4 DEF Logout, RevokeOthers, ReadConfig
    <2>5. ASSUME NEW t \in Tokens, PutConfig(t) \/ SetIedName(t) PROVE TlsNext
        BY <2>5 DEF PutConfig, SetIedName, Store
    <2>6. ASSUME NEW t \in Tokens, NEW new \in Passwords, PutPassword(t, new) PROVE TlsNext
        BY <2>6 DEF PutPassword
    <2>7. ASSUME NEW t \in Tokens, NEW pair \in Pairs, PutTls(t, pair) PROVE TlsNext
        BY <2>7 DEF PutTls
    <2> QED
        BY <1>3, <2>1, <2>2, <2>3, <2>4, <2>5, <2>6, <2>7 DEF WebRequest
<1>4. CASE WriteRecord \/ PasswordChanged
    BY <1>4 DEF WriteRecord, PasswordChanged, TlsNext, Elsewhere
<1>5. CASE Tick \/ UNCHANGED vars
    BY <1>5 DEF Tick, vars, TlsNext, Elsewhere, NoFault, tlsVars, tlsFiles
<1>6. CASE Lost
    BY <1>6 DEF Lost, TlsNext
<1> QED
    BY <1>1, <1>2, <1>3, <1>4, <1>5, <1>6 DEF Next

LEMMA TlsInitType == Init => TlsTypeOK
BY PairAssumption, TlsBounds DEF Init, TlsInit, TlsTypeOK, Steps

LEMMA TlsNextType == TlsTypeOK /\ TlsNext => TlsTypeOK'
<1> SUFFICES ASSUME TlsTypeOK, TlsNext PROVE TlsTypeOK'
    OBVIOUS
<1> USE TlsBounds, PairAssumption
    DEF TlsTypeOK, Steps, tlsFiles, Goto, Fault, NoFault
<1>1. CASE GenerateKey \/ GenerateCertificate
    BY <1>1 DEF GenerateKey, GenerateCertificate
<1>2. CASE LoadFiles \/ StartFails \/ Answered \/ Loading \/ Elsewhere
    BY <1>2 DEF LoadFiles, StartFails, Answered, Loading, Elsewhere
<1>3. CASE BackupCertificate \/ BackupKey
    BY <1>3 DEF BackupCertificate, BackupKey
<1>4. CASE WriteKey \/ WriteCertificate \/ Swap
    BY <1>4 DEF WriteKey, WriteCertificate, Swap
<1>5. CASE RemoveCertificateBackup \/ RemoveKeyBackup
    BY <1>5 DEF RemoveCertificateBackup, RemoveKeyBackup
<1>6. CASE RestoreCertificate \/ RestoreKey
    BY <1>6 DEF RestoreCertificate, RestoreKey
<1>7. CASE TakeContext \/ NewConnection \/ Killed \/ FreedContextKills
    BY <1>7 DEF TakeContext, NewConnection, Killed, FreedContextKills, Dies, TlsLost
<1>8. ASSUME NEW pair \in Pairs, BeginReplace(pair) PROVE TlsTypeOK'
    BY <1>8 DEF BeginReplace
<1> QED
    BY <1>1, <1>2, <1>3, <1>4, <1>5, <1>6, <1>7, <1>8 DEF TlsNext, Replace

Whole == certificate = privateKey
Backed == previous.certificate = previous.privateKey /\ previous.certificate # NoFile
Served == certificate = context /\ privateKey = context /\ context # NoFile
BothBacked == previous.certificate = context /\ previous.privateKey = context
Starting == {"down", "load", "generateCertificate"}

(* How far a replacement has come, as long as the process was not lost and at
   most one call has failed: the way back is taken only after that failure,
   so none of its own steps fails, and it either finds both backups or has
   nothing to restore. *)
Replacement ==
    crashes = 0 /\ faults <= 1 =>
      /\ step \in Starting \cup {"idle", "backupCertificate", "replaced"} /\ faults = 0
            => previous.certificate = NoFile /\ previous.privateKey = NoFile
      /\ step \in {"idle", "backupCertificate", "backupKey", "writeKey", "removeCertificate",
                   "removeKey", "replaced", "failed"} => Served
      /\ step = "backupKey" => /\ previous.certificate = context
                               /\ faults = 0 => previous.privateKey = NoFile
      /\ step \in {"writeKey", "writeCertificate", "restoreKey"} => BothBacked
      /\ step \in {"writeCertificate", "restoreKey"} => certificate = context /\ context # NoFile
      /\ step = "writeCertificate" => privateKey = candidate
      /\ step = "swap" => certificate = candidate /\ privateKey = candidate
      /\ step = "removeKey" /\ faults = 0 => previous.certificate = NoFile
      /\ step \in {"restore", "restoreKey", "failed"} => faults = 1
      /\ step = "restore" =>
            /\ context # NoFile
            /\ BothBacked \/ (Served /\ NoFile \in {previous.certificate, previous.privateKey})

(* The same without failures, through any losses of the process: files that
   do not match have both their backups. *)
Faultless ==
    faults = 0 =>
      /\ step \notin {"restore", "restoreKey", "failed"}
      /\ step \in {"down", "load"} => certificate = NoFile \/ Whole \/ Backed
      /\ step = "generateCertificate" => certificate = NoFile /\ privateKey = Generated
      /\ step \in {"idle", "backupCertificate", "backupKey", "writeKey", "swap",
                   "removeCertificate", "removeKey", "replaced"} => Whole /\ certificate # NoFile
      /\ step = "backupKey" => previous.certificate = certificate
      /\ step = "writeKey" => previous.certificate = certificate /\ Backed
      /\ step = "writeCertificate" => Backed /\ privateKey = candidate

(* A pair is being installed until its context is. *)
Installing ==
    step \in {"backupCertificate", "backupKey", "writeKey", "writeCertificate", "swap"}
       => candidate \in Pairs

TlsInv == TlsTypeOK /\ Installing /\ Replacement /\ Faultless

LEMMA TlsInvInit == Init => TlsInv
BY TlsInitType, PairAssumption
   DEF Init, TlsInit, TlsInv, Installing, Replacement, Faultless, Starting, Whole

LEMMA InstallingKept == TlsInv /\ TlsNext => Installing'
<1> SUFFICES ASSUME TlsInv, TlsNext PROVE Installing'
    OBVIOUS
<1> USE DEF TlsInv, Installing, Goto
<1>1. CASE GenerateKey \/ GenerateCertificate \/ LoadFiles \/ StartFails \/ Answered \/ Loading
    BY <1>1 DEF GenerateKey, GenerateCertificate, LoadFiles, StartFails, Answered, Loading
<1>2. CASE Replace
    BY <1>2 DEF Replace, BackupCertificate, BackupKey, WriteKey, WriteCertificate, Swap,
                RemoveCertificateBackup, RemoveKeyBackup, RestoreCertificate, RestoreKey
<1>3. CASE TakeContext \/ NewConnection \/ Elsewhere \/ Killed \/ FreedContextKills
    BY <1>3 DEF TakeContext, NewConnection, Elsewhere, Killed, FreedContextKills, Dies, TlsLost
<1>4. ASSUME NEW pair \in Pairs, BeginReplace(pair) PROVE Installing'
    BY <1>4 DEF BeginReplace
<1> QED
    BY <1>1, <1>2, <1>3, <1>4 DEF TlsNext

LEMMA ReplacementKept == TlsInv /\ TlsNext => Replacement'
<1> SUFFICES ASSUME TlsInv, TlsNext PROVE Replacement'
    OBVIOUS
<1> USE TlsBounds, PairAssumption
    DEF TlsInv, TlsTypeOK, Installing, Replacement, Starting, Served, BothBacked, tlsFiles, Goto,
        Fault, NoFault
<1>1. CASE GenerateKey \/ GenerateCertificate
    BY <1>1 DEF GenerateKey, GenerateCertificate
<1>2. CASE LoadFiles \/ StartFails \/ Answered \/ Loading
    BY <1>2 DEF LoadFiles, StartFails, Answered, Loading
<1>3. CASE BackupCertificate
    BY <1>3 DEF BackupCertificate
<1>4. CASE BackupKey
    BY <1>4 DEF BackupKey
<1>5. CASE WriteKey
    BY <1>5 DEF WriteKey
<1>6. CASE WriteCertificate
    BY <1>6 DEF WriteCertificate
<1>7. CASE Swap
    BY <1>7 DEF Swap
<1>8. CASE RemoveCertificateBackup \/ RemoveKeyBackup
    BY <1>8 DEF RemoveCertificateBackup, RemoveKeyBackup
<1>9. CASE RestoreCertificate
    BY <1>9 DEF RestoreCertificate
<1>10. CASE RestoreKey
    BY <1>10 DEF RestoreKey
<1>11. CASE TakeContext \/ NewConnection \/ Elsewhere
    BY <1>11 DEF TakeContext, NewConnection, Elsewhere
<1>12. CASE Killed \/ FreedContextKills
    BY <1>12 DEF Killed, FreedContextKills, Dies
<1>13. ASSUME NEW pair \in Pairs, BeginReplace(pair) PROVE Replacement'
    BY <1>13 DEF BeginReplace
<1> QED
    BY <1>1, <1>2, <1>3, <1>4, <1>5, <1>6, <1>7, <1>8, <1>9, <1>10, <1>11, <1>12, <1>13
    DEF TlsNext, Replace

LEMMA FaultlessKept == TlsInv /\ TlsNext => Faultless'
<1> SUFFICES ASSUME TlsInv, TlsNext PROVE Faultless'
    OBVIOUS
<1> USE TlsBounds, PairAssumption
    DEF TlsInv, TlsTypeOK, Installing, Faultless, Whole, Backed, tlsFiles, Goto, Fault, NoFault
<1>1. CASE GenerateKey \/ GenerateCertificate
    BY <1>1 DEF GenerateKey, GenerateCertificate
<1>2. CASE LoadFiles \/ StartFails \/ Answered \/ Loading
    BY <1>2 DEF LoadFiles, StartFails, Answered, Loading
<1>3. CASE BackupCertificate \/ BackupKey
    BY <1>3 DEF BackupCertificate, BackupKey
<1>4. CASE WriteKey \/ WriteCertificate \/ Swap
    BY <1>4 DEF WriteKey, WriteCertificate, Swap
<1>5. CASE RemoveCertificateBackup \/ RemoveKeyBackup
    BY <1>5 DEF RemoveCertificateBackup, RemoveKeyBackup
<1>6. CASE RestoreCertificate \/ RestoreKey
    BY <1>6 DEF RestoreCertificate, RestoreKey
<1>7. CASE TakeContext \/ NewConnection \/ Elsewhere
    BY <1>7 DEF TakeContext, NewConnection, Elsewhere
<1>8. CASE Killed \/ FreedContextKills
    BY <1>8 DEF Killed, FreedContextKills, Dies, TlsLost, Steps
<1>9. ASSUME NEW pair \in Pairs, BeginReplace(pair) PROVE Faultless'
    BY <1>9 DEF BeginReplace
<1> QED
    BY <1>1, <1>2, <1>3, <1>4, <1>5, <1>6, <1>7, <1>8, <1>9 DEF TlsNext, Replace

LEMMA TlsInvAlways == Spec => []TlsInv
<1>1. TlsInv /\ [Next]_vars => TlsInv'
    BY StepOfTls, TlsNextType, InstallingKept, ReplacementKept, FaultlessKept DEF TlsInv
<1> QED
    BY <1>1, TlsInvInit, PTL DEF Spec

(* As long as at most one call has failed and the process has not died, the
   files hold between requests the pair that TlsContext serves: replace either
   wrote both or went back to both. *)
THEOREM FilesAreServed == Spec => []StoredIsServed
<1>1. TlsInv => StoredIsServed
    BY TlsBounds DEF TlsInv, TlsTypeOK, Replacement, Served, StoredIsServed
<1> QED
    BY <1>1, TlsInvAlways, PTL

(* replace never leaves the disk without a whole pair, in the files or in their
   backups, whatever the moments at which the process dies or, while it runs,
   the one call that fails. *)
THEOREM WholePairOnDisk == Spec => []PairOnDisk
<1>1. TlsInv => PairOnDisk
    <2> SUFFICES ASSUME TlsInv, certificate # NoFile,
                        faults = 0 \/ (Up /\ faults + crashes <= 1)
                 PROVE  Whole \/ Backed
        BY DEF PairOnDisk, Whole, Backed
    <2>1. CASE faults = 0
        BY <2>1 DEF TlsInv, TlsTypeOK, Faultless, Steps, Whole, Backed
    <2>2. CASE faults # 0
        <3>1. Up /\ crashes = 0 /\ faults <= 1
            BY <2>2, TlsBounds DEF TlsInv, TlsTypeOK
        <3> QED
            BY <3>1 DEF TlsInv, TlsTypeOK, Replacement, Steps, Up, Served, BothBacked, Whole, Backed
    <2> QED
        BY <2>1, <2>2
<1> QED
    BY <1>1, TlsInvAlways, PTL

-----------------------------------------------------------------------------
(* Sessions and the password *)

Session == [expires : Nat, password : Passwords \cup {Nobody}]

SessionTable ==
    /\ sessions \in [DOMAIN sessions -> Session]
    /\ step \in Starting => DOMAIN sessions = {}

AccountType ==
    /\ now \in Nat
    /\ record \in Passwords \cup {Nobody} /\ change \in Passwords \cup {Nobody}
    /\ authFile \in Passwords \cup {NoFile} /\ bootstrap \in {Default, NoFile}
    /\ step # "down" => record # Nobody

(* The new password of a change under way is one of those not confirmed, and
   before the first record is stored no change has been. *)
Change ==
    /\ change # Nobody => change \in doubtful
    /\ authFile = NoFile => acknowledged = Default

AccountInv ==
    SessionTable /\ AccountType /\ Change /\ SessionsKnowPassword /\ PasswordAcknowledged

LEMMA AccountInit == Init => AccountInv
BY AccessAssumption DEF Init, TlsInit, AccountInv, SessionTable, AccountType, Change, Session,
    SessionsKnowPassword, PasswordAcknowledged, NoSessions, Starting

(* What a request leaves of the sessions: some of them, perhaps one renewed. *)
LEMMA Kept ==
    ASSUME AccountInv, NEW S \in SUBSET DOMAIN sessions, sessions' = Restrict(sessions, S),
           UNCHANGED <<record, step>>
    PROVE  SessionTable' /\ SessionsKnowPassword'
BY DEF AccountInv, SessionTable, SessionsKnowPassword, Restrict

LEMMA RenewedKept ==
    ASSUME AccountInv, NEW t \in Live, sessions' = Renewed(t), step = "idle", UNCHANGED record,
           step' \notin Starting
    PROVE  SessionTable' /\ SessionsKnowPassword'
<1> DEFINE fresh == [sessions[t] EXCEPT !.expires = now + Lifetime]
<1>1. sessions[t] \in Session /\ now + Lifetime \in Nat /\ t \in DOMAIN sessions
    BY AccessAssumption DEF AccountInv, SessionTable, AccountType, Live
<1>2. fresh \in Session /\ fresh.password = sessions[t].password
    BY <1>1 DEF Session
<1>3. sessions' = [u \in Live |-> IF u = t THEN fresh ELSE sessions[u]]
    BY DEF Renewed, Cleaned, Restrict
<1> HIDE DEF fresh
<1>4. DOMAIN sessions' = Live /\ Live \subseteq DOMAIN sessions
    BY <1>3 DEF Live
<1>5. \A u \in Live : sessions'[u] \in Session /\ sessions'[u].password = sessions[u].password
    BY <1>2, <1>3, <1>4 DEF AccountInv, SessionTable
<1>6. sessions' \in [DOMAIN sessions' -> Session]
    BY <1>3, <1>4, <1>5
<1>7. SessionsKnowPassword'
    BY <1>4, <1>5 DEF AccountInv, SessionsKnowPassword
<1> QED
    BY <1>6, <1>7 DEF SessionTable

LEMMA Opened ==
    ASSUME AccountInv, NEW a \in Addresses, Login(a)
    PROVE  SessionTable' /\ SessionsKnowPassword'
<1>1. PICK t \in Tokens \ Live, kept \in SUBSET Live :
        sessions' = [u \in kept \cup {t} |->
                       IF u = t THEN [expires |-> now + Lifetime, password |-> record]
                                ELSE sessions[u]]
    BY DEF Login
<1> DEFINE new == [expires |-> now + Lifetime, password |-> record]
<1>2. new \in Session /\ new.password = record
    BY AccessAssumption DEF AccountInv, AccountType, Session
<1> HIDE DEF new
<1>3. sessions' = [u \in kept \cup {t} |-> IF u = t THEN new ELSE sessions[u]]
    BY <1>1 DEF new
<1>4. \A u \in kept : u \in DOMAIN sessions /\ sessions[u] \in Session /\ sessions[u].password = record
    BY DEF Live, AccountInv, SessionTable, SessionsKnowPassword
<1>5. \A u \in kept \cup {t} : sessions'[u] \in Session /\ sessions'[u].password = record
    BY <1>2, <1>3, <1>4
<1>6. DOMAIN sessions' = kept \cup {t} /\ sessions' \in [kept \cup {t} -> Session]
    BY <1>3, <1>5
<1>7. step' = "idle" /\ record' = record
    BY DEF Login, Request, account, tlsVars
<1> QED
    BY <1>5, <1>6, <1>7 DEF SessionTable, SessionsKnowPassword, Starting

(* Steps that leave the account alone keep what is said of it. *)
LEMMA AccountAlone ==
    ASSUME AccountInv, UNCHANGED account, now' \in Nat, step' = "down" \/ step # "down"
    PROVE  AccountType' /\ Change' /\ PasswordAcknowledged'
BY DEF AccountInv, AccountType, Change, PasswordAcknowledged, account

LEMMA RequestKeepsAccount == AccountInv /\ WebRequest => AccountInv'
<1> SUFFICES ASSUME AccountInv, WebRequest PROVE AccountInv'
    OBVIOUS
<1> USE DEF tlsVars, account
<1>1. now \in Nat /\ \A S : S \subseteq Live => S \in SUBSET DOMAIN sessions
    BY DEF AccountInv, AccountType, Live
<1>2. CASE Refused
    <2>1. step = "idle" /\ UNCHANGED <<account, now, step>> /\ sessions' = Restrict(sessions, Live)
        BY <1>2 DEF Refused, Request, Cleaned
    <2> QED
        BY <1>1, <2>1, AccountAlone, Kept DEF AccountInv
<1>3. ASSUME NEW a \in Addresses, LoginFails(a) PROVE AccountInv'
    <2>1. step = "idle" /\ UNCHANGED <<account, now, step>> /\ sessions' = Restrict(sessions, Live)
        BY <1>3 DEF LoginFails, Request, Cleaned
    <2> QED
        BY <1>1, <2>1, AccountAlone, Kept DEF AccountInv
<1>4. ASSUME NEW a \in Addresses, Login(a) PROVE AccountInv'
    <2>1. step = "idle" /\ UNCHANGED <<account, now>>
        BY <1>4 DEF Login, Request
    <2> QED
        BY <1>1, <1>4, <2>1, AccountAlone, Opened DEF AccountInv
<1>5. ASSUME NEW t \in Live, step = "idle", sessions' = Renewed(t), UNCHANGED <<account, now>>,
             step' \notin Starting
      PROVE  AccountInv'
    BY <1>1, <1>5, AccountAlone, RenewedKept DEF AccountInv
<1>6. ASSUME NEW t \in Tokens, Renew(t) \/ ReadConfig(t) \/ PutConfig(t) \/ SetIedName(t)
      PROVE  AccountInv'
    <2>1. step = "idle" /\ t \in Live /\ sessions' = Renewed(t) /\ UNCHANGED <<account, now, step>>
        BY <1>6 DEF Renew, ReadConfig, PutConfig, SetIedName, WithSession, Request
    <2> QED
        BY <2>1, <1>5 DEF Starting
<1>7. ASSUME NEW t \in Tokens, NEW pair \in Pairs, PutTls(t, pair) PROVE AccountInv'
    <2>1. /\ step = "idle" /\ t \in Live /\ sessions' = Renewed(t) /\ UNCHANGED <<account, now>>
          /\ step' = "backupCertificate"
        BY <1>7 DEF PutTls, BeginReplace, Goto, WithSession, Request
    <2> QED
        BY <2>1, <1>5 DEF Starting
<1>8. ASSUME NEW t \in Tokens, Logout(t) \/ RevokeOthers(t) PROVE AccountInv'
    <2>1. PICK S \in SUBSET Live : sessions' = Restrict(sessions, S)
        BY <1>8 DEF Logout, RevokeOthers, WithSession
    <2>2. step = "idle" /\ UNCHANGED <<account, now, step>>
        BY <1>8 DEF Logout, RevokeOthers, WithSession, Request
    <2> QED
        BY <1>1, <2>1, <2>2, AccountAlone, Kept DEF AccountInv
<1>9. ASSUME NEW t \in Tokens, NEW new \in Passwords, PutPassword(t, new) PROVE AccountInv'
    <2>1. /\ step = "idle" /\ sessions' = Restrict(sessions, Live)
          /\ UNCHANGED <<now, step, record, authFile, bootstrap, acknowledged>>
          /\ change' = new /\ doubtful' = doubtful \cup {new}
        BY <1>9 DEF PutPassword, WithSession, Request, Cleaned
    <2>2. SessionTable' /\ SessionsKnowPassword'
        BY <1>1, <2>1, Kept
    <2> QED
        BY <2>1, <2>2 DEF AccountInv, AccountType, Change, PasswordAcknowledged
<1> QED
    BY <1>2, <1>3, <1>4, <1>6, <1>7, <1>8, <1>9
    DEF WebRequest, ReadIec, AskNetwork, Maintain, AskTime, ReadStored, ReadSession, ReadPage

LEMMA AccountKept == AccountInv /\ [Next]_vars => AccountInv'
<1> SUFFICES ASSUME AccountInv, [Next]_vars PROVE AccountInv'
    OBVIOUS
<1> USE DEF tlsVars, account, access, Goto
<1>1. ASSUME UNCHANGED <<sessions, account, now>>,
             (step \in Starting <=> step' \in Starting) \/ step \in Starting,
             step' = "down" \/ step # "down"
      PROVE  AccountInv'
    <2>1. SessionTable' /\ SessionsKnowPassword'
        BY <1>1 DEF AccountInv, SessionTable, SessionsKnowPassword
    <2> QED
        BY <1>1, <2>1, AccountAlone DEF AccountInv, AccountType
<1>2. CASE StoreBootstrap \/ StoreFirstRecord
    BY <1>2, AccessAssumption
    DEF StoreBootstrap, StoreFirstRecord, AccountInv, SessionTable, AccountType, Change,
        SessionsKnowPassword, PasswordAcknowledged
<1>3. CASE LoadRecord
    BY <1>3, AccessAssumption
    DEF LoadRecord, AccountInv, SessionTable, AccountType, Change, SessionsKnowPassword,
        PasswordAcknowledged, Starting
<1>4. CASE (GenerateKey \/ GenerateCertificate \/ LoadFiles \/ StartFails) /\ UNCHANGED webVars
    <2>1. UNCHANGED <<sessions, account, now>> /\ step \in Starting /\ step # "down"
        BY <1>4 DEF GenerateKey, GenerateCertificate, LoadFiles, StartFails, webVars, Starting
    <2> QED
        BY <2>1, <1>1
<1>5. CASE (Replace \/ TakeContext \/ NewConnection) /\ UNCHANGED webVars
    <2>1. UNCHANGED <<sessions, account, now>>
        BY <1>5 DEF webVars
    <2>2. step \notin Starting /\ step' \notin Starting
        BY <1>5 DEF Replace, BackupCertificate, BackupKey, WriteKey, WriteCertificate, Swap,
            RemoveCertificateBackup, RemoveKeyBackup, RestoreCertificate, RestoreKey,
            TakeContext, NewConnection, Up, Starting
    <2> QED
        BY <2>1, <2>2, <1>1 DEF Starting
<1>6. CASE TlsAnswered
    <2>1. UNCHANGED <<account, now>> /\ step' = "idle" /\ step # "down"
        BY <1>6 DEF TlsAnswered
    <2>2. sessions' \in {sessions, NoSessions}
        BY <1>6 DEF TlsAnswered
    <2>3. SessionTable' /\ SessionsKnowPassword'
        BY <2>1, <2>2 DEF AccountInv, SessionTable, SessionsKnowPassword, NoSessions, Starting
    <2> QED
        BY <2>1, <2>3, AccountAlone DEF AccountInv, AccountType
<1>7. CASE WebRequest
    BY <1>7, RequestKeepsAccount
<1>8. CASE WriteRecord
    BY <1>8, AccessAssumption
    DEF WriteRecord, AccountInv, SessionTable, AccountType, Change, SessionsKnowPassword,
        PasswordAcknowledged
<1>9. CASE PasswordChanged
    BY <1>9, AccessAssumption
    DEF PasswordChanged, AccountInv, SessionTable, AccountType, Change, SessionsKnowPassword,
        PasswordAcknowledged, NoSessions
<1>10. CASE Tick
    <2>1. UNCHANGED <<sessions, account, step>> /\ now' \in Nat
        BY <1>10 DEF Tick, AccountInv, AccountType
    <2>2. SessionTable' /\ SessionsKnowPassword'
        BY <2>1 DEF AccountInv, SessionTable, SessionsKnowPassword
    <2>3. AccountType' /\ Change' /\ PasswordAcknowledged'
        BY <2>1 DEF AccountInv, AccountType, Change, PasswordAcknowledged
    <2> QED
        BY <2>2, <2>3 DEF AccountInv
<1>11. CASE Lost
    <2>1. /\ step' = "down" /\ sessions' = NoSessions /\ record' = Nobody /\ change' = Nobody
          /\ UNCHANGED <<now, authFile, bootstrap, acknowledged, doubtful>>
        BY <1>11 DEF Lost, Killed, FreedContextKills, Dies, TlsLost
    <2> QED
        BY <2>1, AccessAssumption
        DEF AccountInv, SessionTable, AccountType, Change, SessionsKnowPassword,
            PasswordAcknowledged, NoSessions
<1>12. CASE UNCHANGED vars
    BY <1>12 DEF vars, webVars, AccountInv, SessionTable, AccountType, Change,
        SessionsKnowPassword, PasswordAcknowledged
<1> QED
    BY <1>2, <1>3, <1>4, <1>5, <1>6, <1>7, <1>8, <1>9, <1>10, <1>11, <1>12 DEF Next, Start, Tls

LEMMA AccountAlways == Spec => []AccountInv
BY AccountInit, AccountKept, PTL DEF Spec

(* A change of the password ends every session opened with the old one, and
   none outlives a restart (handle_client and change_password). *)
THEOREM NoSessionOutlivesPassword == Spec => []SessionsKnowPassword
BY AccountAlways, PTL DEF AccountInv

(* The record in memory and in auth.json is the last one confirmed, or one
   whose change was answered with an error since. *)
THEOREM ConfirmedPasswordCounts == Spec => []PasswordAcknowledged
BY AccountAlways, PTL DEF AccountInv

-----------------------------------------------------------------------------
(* The configuration *)

Snapshots == [version : Nat, content : Nat, base : Nat]

(* The file is the configuration in memory or, after a write that was reported
   as failed, its successor; the version says which configuration it is to
   everyone who has read one. *)
ConfigInv ==
    /\ requests \in Nat
    /\ config \in Snapshots /\ configFile \in Snapshots /\ seen \in [Tokens -> Snapshots]
    /\ configFile = config \/ configFile.version = config.version + 1
    /\ \A t \in Tokens : seen[t] = config \/ seen[t].version < config.version

LEMMA ConfigInit == Init => ConfigInv
BY DEF Init, ConfigInv, Snapshots, Config

(* update and set_ied_name *)
LEMMA ConfigStored ==
    ASSUME ConfigInv, NEW base \in Nat, requests' \in Nat, Store(base), UNCHANGED seen
    PROVE  ConfigInv' /\ (config' # config => config'.base = base)
<1> DEFINE new == Config(config.version + 1, requests', base)
<1>1. new \in Snapshots /\ new.version = config.version + 1 /\ new.base = base
    BY DEF ConfigInv, Snapshots, Config
<1>2. \/ config' = new /\ configFile' = new
      \/ config' = config /\ configFile' \in {configFile, new}
    BY DEF Store
<1> HIDE DEF new
<1>3. CASE config' = new /\ configFile' = new
    BY <1>1, <1>3 DEF ConfigInv, Snapshots
<1>4. CASE config' = config /\ configFile' \in {configFile, new}
    BY <1>1, <1>4 DEF ConfigInv
<1> QED
    BY <1>2, <1>3, <1>4

(* A request other than these leaves the configuration alone. *)
LEMMA ConfigAlone ==
    ASSUME ConfigInv, UNCHANGED configuration, requests' \in Nat
    PROVE  ConfigInv' /\ config' = config
BY DEF ConfigInv, configuration

LEMMA ConfigStep ==
    ASSUME ConfigInv, [Next]_vars
    PROVE  ConfigInv' /\ (Up /\ Up' /\ config' # config => config'.base = config.content)
<1>1. CASE LoadRecord
    <2>1. config' = configFile /\ UNCHANGED <<configFile, seen, requests>> /\ ~Up
        BY <1>1 DEF LoadRecord, Up
    <2> QED
        BY <2>1 DEF ConfigInv, Snapshots
<1>2. ASSUME NEW t \in Tokens, PutConfig(t) PROVE ConfigInv' /\ (config' # config => config'.base = config.content)
    <2>1. seen[t].version = config.version /\ Store(seen[t].content) /\ UNCHANGED seen
        BY <1>2 DEF PutConfig
    <2>2. requests' \in Nat
        BY <1>2 DEF PutConfig, WithSession, Request, ConfigInv
    <2>3. seen[t].content \in Nat /\ seen[t].content = config.content
        BY <2>1 DEF ConfigInv, Snapshots
    <2> QED
        BY <2>1, <2>2, <2>3, ConfigStored
<1>3. ASSUME NEW t \in Tokens, SetIedName(t) PROVE ConfigInv' /\ (config' # config => config'.base = config.content)
    <2>1. Store(config.content) /\ UNCHANGED seen
        BY <1>3 DEF SetIedName
    <2>2. requests' \in Nat
        BY <1>3 DEF SetIedName, WithSession, Request, ConfigInv
    <2>3. config.content \in Nat
        BY DEF ConfigInv, Snapshots
    <2> QED
        BY <2>1, <2>2, <2>3, ConfigStored
<1>4. ASSUME NEW t \in Tokens, ReadConfig(t) PROVE ConfigInv' /\ config' = config
    <2>1. seen' = [seen EXCEPT ![t] = config] /\ UNCHANGED <<config, configFile>> /\ requests' \in Nat
        BY <1>4 DEF ReadConfig, WithSession, Request, ConfigInv
    <2> QED
        BY <2>1 DEF ConfigInv
<1>5. ASSUME UNCHANGED configuration, UNCHANGED requests \/ Request PROVE ConfigInv' /\ config' = config
    <2>1. requests' \in Nat
        BY <1>5 DEF ConfigInv, Request
    <2> QED
        BY <2>1, <1>5, ConfigAlone
<1>6. CASE StoreBootstrap \/ StoreFirstRecord \/ WriteRecord \/ PasswordChanged \/ TlsAnswered \/ Tick \/ Lost
    <2>1. UNCHANGED configuration /\ UNCHANGED requests
        BY <1>6 DEF StoreBootstrap, StoreFirstRecord, WriteRecord, PasswordChanged, TlsAnswered, Tick, Lost
    <2> QED
        BY <2>1, <1>5
<1>7. CASE UNCHANGED webVars
    <2>1. UNCHANGED configuration /\ UNCHANGED requests
        BY <1>7 DEF webVars
    <2> QED
        BY <2>1, <1>5
<1>8. CASE Refused \/ \E a \in Addresses : LoginFails(a) \/ Login(a)
    <2>1. UNCHANGED configuration /\ Request
        BY <1>8 DEF Refused, LoginFails, Login
    <2> QED
        BY <2>1, <1>5
<1>9. ASSUME NEW t \in Tokens, \/ Renew(t) \/ Logout(t) \/ RevokeOthers(t)
                               \/ \E new \in Passwords : PutPassword(t, new)
                               \/ \E pair \in Pairs : PutTls(t, pair)
      PROVE  ConfigInv' /\ config' = config
    <2>1. UNCHANGED configuration /\ Request
        BY <1>9 DEF Renew, Logout, RevokeOthers, PutPassword, PutTls, WithSession
    <2> QED
        BY <2>1, <1>5
<1>10. CASE WebRequest
    BY <1>2, <1>3, <1>4, <1>8, <1>9, <1>10
    DEF WebRequest, ReadIec, AskNetwork, Maintain, AskTime, ReadStored, ReadSession, ReadPage
<1> QED
    BY <1>1, <1>6, <1>7, <1>10 DEF Next, Start, Tls, vars

(* No PUT of the configuration and no upload of an ICD undoes a change its
   author has not read: the version he sends identifies what he read, also
   across restarts and writes that fail (ConfigStore::update). *)
THEOREM UpdatesBuildOnEachOther == Spec => NoLostUpdate
<1>1. ConfigInv /\ [Next]_vars => ConfigInv'
    BY ConfigStep
<1>2. ConfigInv /\ [Next]_vars => [Up /\ Up' /\ config' # config => config'.base = config.content]_vars
    BY ConfigStep
<1> QED
    BY <1>1, <1>2, ConfigInit, PTL DEF Spec, NoLostUpdate

-----------------------------------------------------------------------------
(* Types and the limits of the two tables *)

Counters == now \in 1..MaxTime /\ requests \in 0..MaxRequests

(* A table that holds at most limit entries *)
Bounded(keys, all, limit) ==
    keys \subseteq all /\ IsFiniteSet(keys) /\ Cardinality(keys) <= limit

Tables ==
    /\ Bounded(DOMAIN sessions, Tokens, MaxSessions)
    /\ Bounded(DOMAIN failures, Addresses, MaxRecords)

LEMMA BoundedSubset ==
    ASSUME NEW keys, NEW all, NEW limit \in Nat, NEW S \in SUBSET keys, Bounded(keys, all, limit)
    PROVE  Bounded(S, all, limit)
<1>1. IsFiniteSet(S) /\ Cardinality(S) <= Cardinality(keys)
    BY FS_Subset DEF Bounded
<1>2. Cardinality(S) \in Nat /\ Cardinality(keys) \in Nat
    BY <1>1, FS_CardinalityType DEF Bounded
<1> QED
    BY <1>1, <1>2 DEF Bounded

(* A new entry fits when the table is not full or has lost one. *)
LEMMA BoundedInsert ==
    ASSUME NEW keys, NEW all, NEW limit \in Nat \ {0}, NEW x \in all, Bounded(keys, all, limit),
           NEW S, (S = keys /\ Cardinality(keys) < limit) \/ \E y \in keys : S = keys \ {y}
    PROVE  Bounded(S \cup {x}, all, limit)
<1>1. S \subseteq keys /\ IsFiniteSet(S) /\ Cardinality(S) < limit
    <2>1. Cardinality(keys) \in Nat
        BY FS_CardinalityType DEF Bounded
    <2>2. CASE S = keys /\ Cardinality(keys) < limit
        BY <2>2 DEF Bounded
    <2>3. ASSUME NEW y \in keys, S = keys \ {y}
          PROVE  IsFiniteSet(S) /\ Cardinality(S) = Cardinality(keys) - 1
        BY <2>3, FS_RemoveElement DEF Bounded
    <2> QED
        BY <2>1, <2>2, <2>3 DEF Bounded
<1>2. IsFiniteSet(S \cup {x}) /\ Cardinality(S \cup {x}) \in {Cardinality(S), Cardinality(S) + 1}
    BY <1>1, FS_AddElement
<1>3. Cardinality(S) \in Nat
    BY <1>1, FS_CardinalityType
<1> QED
    BY <1>1, <1>2, <1>3 DEF Bounded

LEMMA TablesInit == Init => Tables /\ Counters
<1> SUFFICES ASSUME Init PROVE Tables /\ Counters
    OBVIOUS
<1>1. DOMAIN sessions = {} /\ DOMAIN failures = {}
    BY DEF Init, NoSessions, NoFailures
<1>2. IsFiniteSet({}) /\ Cardinality({}) = 0
    BY FS_EmptySet
<1>3. Bounded({}, Tokens, MaxSessions) /\ Bounded({}, Addresses, MaxRecords)
    BY <1>2, AccessAssumption DEF Bounded
<1> QED
    BY <1>1, <1>3, AccessBounds DEF Init, Tables, Counters

LEMMA LiveBounded == Tables => Bounded(Live, Tokens, MaxSessions)
<1> SUFFICES ASSUME Tables PROVE Bounded(Live, Tokens, MaxSessions)
    OBVIOUS
<1>1. Live \in SUBSET DOMAIN sessions /\ MaxSessions \in Nat
    BY AccessAssumption DEF Live
<1> QED
    BY <1>1, BoundedSubset DEF Tables

(* A request that opens no session leaves some of those that are live, and
   one that counts no failure at most those on record. *)
LEMMA TablesShrink ==
    ASSUME Tables, DOMAIN sessions' \subseteq DOMAIN sessions, DOMAIN failures' \subseteq DOMAIN failures
    PROVE  Tables'
<1>1. MaxSessions \in Nat /\ MaxRecords \in Nat
    BY AccessAssumption
<1>2. Bounded(DOMAIN sessions', Tokens, MaxSessions)
    BY <1>1, BoundedSubset DEF Tables
<1>3. Bounded(DOMAIN failures', Addresses, MaxRecords)
    BY <1>1, BoundedSubset DEF Tables
<1> QED
    BY <1>2, <1>3 DEF Tables

LEMMA FailureCounted ==
    ASSUME Tables, NEW a \in Addresses, LoginFails(a)
    PROVE  Tables'
<1>1. PICK victim \in Evicted(a) : DOMAIN failures' = (DOMAIN failures \ {victim}) \cup {a}
    BY DEF LoginFails
<1>2. DOMAIN sessions' \subseteq DOMAIN sessions
    BY DEF LoginFails, Cleaned, Restrict, Live
<1>3. Bounded(DOMAIN sessions', Tokens, MaxSessions)
    BY <1>2, BoundedSubset, AccessAssumption DEF Tables
<1>4. Bounded(DOMAIN failures', Addresses, MaxRecords)
    <2> DEFINE keys == DOMAIN failures
    <2>1. Bounded(keys, Addresses, MaxRecords) /\ MaxRecords \in Nat \ {0} /\ Nobody \notin keys
        BY AccessAssumption DEF Tables, Bounded
    <2>2. CASE a \in keys
        <3>1. victim = Nobody
            BY <2>2 DEF Evicted
        <3>2. DOMAIN failures' = keys
            BY <1>1, <2>1, <2>2, <3>1
        <3> QED
            BY <2>1, <3>2
    <2>3. CASE a \notin keys
        <3>1. (keys \ {victim} = keys /\ Cardinality(keys) < MaxRecords) \/ victim \in keys
            BY <2>1, <2>3 DEF Evicted
        <3>2. \/ keys \ {victim} = keys /\ Cardinality(keys) < MaxRecords
              \/ \E y \in keys : keys \ {victim} = keys \ {y}
            BY <3>1
        <3>3. Bounded((keys \ {victim}) \cup {a}, Addresses, MaxRecords)
            BY <2>1, <3>2, BoundedInsert
        <3> QED
            BY <1>1, <3>3
    <2> QED
        BY <2>2, <2>3
<1> QED
    BY <1>3, <1>4 DEF Tables

LEMMA SessionOpened ==
    ASSUME Tables, NEW a \in Addresses, Login(a)
    PROVE  Tables'
<1>1. PICK t \in Tokens \ Live,
           kept \in IF Cardinality(Live) < MaxSessions THEN {Live} ELSE {Live \ {u} : u \in Live} :
        DOMAIN sessions' = kept \cup {t}
    BY DEF Login
<1>2. (kept = Live /\ Cardinality(Live) < MaxSessions) \/ \E y \in Live : kept = Live \ {y}
    BY <1>1
<1>3. Bounded(DOMAIN sessions', Tokens, MaxSessions)
    <2>1. Bounded(kept \cup {t}, Tokens, MaxSessions)
        BY <1>2, LiveBounded, BoundedInsert, AccessAssumption
    <2> QED
        BY <1>1, <2>1
<1>4. DOMAIN failures' \subseteq DOMAIN failures
    BY DEF Login, Restrict
<1>5. Bounded(DOMAIN failures', Addresses, MaxRecords)
    BY <1>4, BoundedSubset, AccessAssumption DEF Tables
<1> QED
    BY <1>3, <1>5 DEF Tables

LEMMA TablesKept == Tables /\ Counters /\ [Next]_vars => Tables' /\ Counters'
<1> SUFFICES ASSUME Tables, Counters, [Next]_vars PROVE Tables' /\ Counters'
    OBVIOUS
<1> USE DEF access, account
<1>1. Counters'
    <2>1. ASSUME UNCHANGED now, UNCHANGED requests \/ Request PROVE Counters'
        BY <2>1, AccessBounds DEF Counters, Request
    <2>2. CASE Start \/ Tls \/ WriteRecord \/ PasswordChanged \/ Lost \/ UNCHANGED vars
        BY <2>1, <2>2 DEF Start, StoreBootstrap, StoreFirstRecord, LoadRecord, Tls, TlsAnswered,
            WriteRecord, PasswordChanged, Lost, vars, webVars
    <2>3. CASE Refused \/ \E a \in Addresses : LoginFails(a) \/ Login(a)
        BY <2>1, <2>3 DEF Refused, LoginFails, Login
    <2>4. ASSUME NEW t \in Tokens,
                 \/ Renew(t) \/ Logout(t) \/ RevokeOthers(t) \/ ReadConfig(t)
                 \/ PutConfig(t) \/ SetIedName(t)
                 \/ \E new \in Passwords : PutPassword(t, new)
                 \/ \E pair \in Pairs : PutTls(t, pair)
          PROVE  Counters'
        BY <2>1, <2>4 DEF Renew, Logout, RevokeOthers, ReadConfig, PutConfig, SetIedName, PutPassword,
            PutTls, WithSession
    <2>5. CASE Tick
        BY <2>5, AccessBounds DEF Tick, Counters
    <2> QED
        BY <2>2, <2>3, <2>4, <2>5
        DEF Next, WebRequest, ReadIec, AskNetwork, Maintain, AskTime, ReadStored, ReadSession, ReadPage
<1>2. Tables'
    <2>1. ASSUME sessions' \in {sessions, NoSessions}, failures' \in {failures, NoFailures} PROVE Tables'
        <3>1. DOMAIN sessions' \subseteq DOMAIN sessions /\ DOMAIN failures' \subseteq DOMAIN failures
            BY <2>1 DEF NoSessions, NoFailures
        <3> QED
            BY <3>1, TablesShrink
    <2>2. CASE Start \/ Tls \/ WriteRecord \/ PasswordChanged \/ Tick \/ Lost \/ UNCHANGED vars
        BY <2>1, <2>2 DEF Start, StoreBootstrap, StoreFirstRecord, LoadRecord, Tls, TlsAnswered,
            WriteRecord, PasswordChanged, Tick, Lost, vars, webVars
    <2>3. ASSUME NEW t \in Tokens, t \in Live, UNCHANGED failures,
                 sessions' \in {Cleaned, Renewed(t), Restrict(sessions, Live \ {t}), Restrict(sessions, {t})}
          PROVE  Tables'
        <3>1. DOMAIN sessions' \subseteq DOMAIN sessions
            BY <2>3 DEF Cleaned, Renewed, Restrict, Live
        <3> QED
            BY <2>3, <3>1, TablesShrink
    <2>4. ASSUME NEW t \in Tokens,
                 \/ Renew(t) \/ Logout(t) \/ RevokeOthers(t) \/ ReadConfig(t)
                 \/ PutConfig(t) \/ SetIedName(t)
                 \/ \E new \in Passwords : PutPassword(t, new)
                 \/ \E pair \in Pairs : PutTls(t, pair)
          PROVE  Tables'
        BY <2>3, <2>4 DEF Renew, Logout, RevokeOthers, ReadConfig, PutConfig, SetIedName, PutPassword,
            PutTls, WithSession
    <2>5. CASE Refused
        <3>1. DOMAIN sessions' \subseteq DOMAIN sessions /\ UNCHANGED failures
            BY <2>5 DEF Refused, Cleaned, Restrict, Live
        <3> QED
            BY <3>1, TablesShrink
    <2> QED
        BY <2>2, <2>4, <2>5, FailureCounted, SessionOpened
        DEF Next, WebRequest, ReadIec, AskNetwork, Maintain, AskTime, ReadStored, ReadSession, ReadPage
<1> QED
    BY <1>1, <1>2

(* Every variable has its type, and neither the sessions nor the records of
   failed logins exceed the limits of HttpServer. *)
THEOREM WebTypeCorrect == Spec => []TypeOK
<1>1. TlsInv /\ AccountInv /\ Tables /\ Counters => TypeOK
    BY DEF TlsInv, AccountInv, AccountType, Tables, Bounded, Counters, TypeOK, Up
<1>2. Spec => [](Tables /\ Counters)
    BY TablesInit, TablesKept, PTL DEF Spec
<1> QED
    BY <1>1, <1>2, TlsInvAlways, AccountAlways, PTL
-----------------------------------------------------------------------------
(* The login limit *)

(* The times T of the wrong passwords of one address, up to the time t *)
Past(T, t) ==
    /\ T \in Seq(Nat)
    /\ \A i \in 1..Len(T) : T[i] <= t

Spaced(T) ==
    \A k \in 1..Len(T) : \A n \in k..Len(T) : n - k >= 2 * Limit - 1 => T[n] - T[k] >= Block

(* The last r.count of them are the ones counted so far: the current run, which begins at
   first.  A run that is complete has blocked the address.  One that is not has begun after
   a block or with its window, so whatever came before it lies before its window or a block's
   time back; and at most Limit - 1, those of a run that its window cut short, lie less
   than a block's time back. *)
Tracked(T, r) ==
    LET first == (Len(T) + 1) - r.count
    IN  /\ r \in [count : 0..(Limit - 1), window : Nat, blocked : Nat]
        /\ r.count <= Len(T)
        /\ r.count = 0 => \A i \in 1..Len(T) : T[i] + Block <= r.blocked
        /\ r.count > 0 =>
              /\ \A i \in 1..(first - 1) : T[i] <= r.window \/ T[i] + Block <= T[first]
              /\ \A i \in 1..(first - Limit) : T[i] + Block <= T[first]

Limits ==
    /\ tries \in [Addresses -> Seq(Nat)]
    /\ \A a \in Addresses :
         /\ Past(tries[a], now) /\ Spaced(tries[a])
         /\ IF a \in DOMAIN failures THEN Tracked(tries[a], failures[a]) ELSE tries[a] = <<>>


(* One wrong password more, at time t, in the record q that Counted chooses *)
NextRecord(q, t) ==
    IF q.count + 1 >= Limit THEN [q EXCEPT !.count = 0, !.blocked = t + Block]
    ELSE [q EXCEPT !.count = @ + 1]

(* Where a run of c, the last of n wrong passwords, begins *)
LEMMA RunBegins ==
    ASSUME NEW n \in Nat, NEW c \in Nat, NEW l \in Nat, c <= l - 1, c <= n, c > 0,
           NEW f, f = (n + 1) - c, NEW i \in 1..n
    PROVE  /\ f \in 1..n
           /\ i \in 1..(n + 1 - l) => i \in 1..(f - 1)
           /\ n + 1 - i >= 2 * l - 1 => i \in 1..(f - l)
OBVIOUS

LEMMA Appended ==
    ASSUME NEW t \in Nat, NEW T, Past(T, t)
    PROVE  /\ Append(T, t) \in Seq(Nat) /\ Len(Append(T, t)) = Len(T) + 1 /\ Len(T) \in Nat
           /\ \A i \in 1..Len(T) : Append(T, t)[i] = T[i] /\ T[i] \in Nat /\ T[i] <= t
           /\ Append(T, t)[Len(T) + 1] = t
           /\ Past(Append(T, t), t)
<1>1. /\ Append(T, t) \in Seq(Nat) /\ Len(Append(T, t)) = Len(T) + 1 /\ Len(T) \in Nat
      /\ \A i \in 1..Len(T) : Append(T, t)[i] = T[i] /\ T[i] \in Nat /\ T[i] <= t
      /\ Append(T, t)[Len(T) + 1] = t
    BY DEF Past
<1> QED
    BY <1>1 DEF Past

(* The first of a record that replaces none *)
LEMMA FirstTry ==
    ASSUME NEW t \in Nat, NEW q, q = [count |-> 0, window |-> t, blocked |-> 0]
    PROVE  /\ Past(Append(<<>>, t), t) /\ Spaced(Append(<<>>, t))
           /\ Tracked(Append(<<>>, t), NextRecord(q, t))
<1> DEFINE A == Append(<<>>, t)
<1>1. Past(<<>>, t)
    BY DEF Past
<1>2. Past(A, t) /\ Len(A) = 1 /\ A[1] = t
    <2>1. Past(A, t)
        BY <1>1, Appended
    <2>2. Len(A) = 1 /\ A[1] = t
        OBVIOUS
    <2> QED
        BY <2>1, <2>2
<1> HIDE DEF A
<1>3. Spaced(A)
    BY <1>2, AccessAssumption DEF Spaced
<1>4. q \in [count : 0..(Limit - 1), window : Nat, blocked : Nat] /\ q.count = 0
    BY AccessAssumption
<1>5. CASE 1 >= Limit
    <2> DEFINE until == t + Block
               next == [q EXCEPT !.count = 0, !.blocked = until]
    <2>1. NextRecord(q, t) = next
        BY <1>4, <1>5 DEF NextRecord
    <2>2. until \in Nat /\ 0 \in 0..(Limit - 1)
        BY AccessAssumption
    <2>3. \A i \in 1..Len(A) : A[i] + Block <= until
        BY <1>2, AccessAssumption
    <2> HIDE DEF until
    <2>4. /\ next \in [count : 0..(Limit - 1), window : Nat, blocked : Nat]
          /\ next.count = 0 /\ next.blocked = until
        BY <1>4, <2>2
    <2> HIDE DEF next
    <2>5. Tracked(A, next)
        BY <1>2, <2>3, <2>4 DEF Tracked
    <2> QED
        BY <1>2, <1>3, <2>1, <2>5 DEF A
<1>6. CASE ~(1 >= Limit)
    <2> DEFINE next == [q EXCEPT !.count = 1]
    <2>1. NextRecord(q, t) = next
        BY <1>4, <1>6 DEF NextRecord
    <2>2. 1 \in 0..(Limit - 1)
        BY <1>6, AccessAssumption
    <2>3. next \in [count : 0..(Limit - 1), window : Nat, blocked : Nat] /\ next.count = 1
        BY <1>4, <2>2
    <2> HIDE DEF next
    <2> DEFINE f == (Len(A) + 1) - next.count
    <2>4. f = 1
        BY <1>2, <2>3
    <2>5. 1..(f - 1) = {} /\ 1..(f - Limit) = {}
        BY <2>4, AccessAssumption
    <2>6. next.count <= Len(A) /\ next.count # 0
        BY <1>2, <2>3
    <2> HIDE DEF f
    <2>7. Tracked(A, next)
        BY <2>3, <2>5, <2>6 DEF Tracked, f
    <2> QED
        BY <1>2, <1>3, <2>1, <2>7 DEF A
<1> QED
    BY <1>5, <1>6

(* Another one, of an address that is not blocked *)
LEMMA NextTry ==
    ASSUME NEW t \in Nat, NEW T, Past(T, t), Spaced(T), NEW r, Tracked(T, r), r.blocked <= t,
           NEW q, q = IF t - r.window < Window THEN r
                      ELSE [count |-> 0, window |-> t, blocked |-> 0]
    PROVE  /\ Past(Append(T, t), t) /\ Spaced(Append(T, t))
           /\ Tracked(Append(T, t), NextRecord(q, t))
<1> DEFINE A == Append(T, t)
           n == Len(T)
           c == q.count
           f0 == (n + 1) - r.count
<1>1. /\ A \in Seq(Nat) /\ Len(A) = n + 1 /\ n \in Nat
      /\ \A i \in 1..n : A[i] = T[i] /\ T[i] \in Nat /\ T[i] <= t
      /\ A[n + 1] = t
      /\ Past(A, t)
    BY Appended
<1>2. /\ r.count \in Nat /\ r.count <= Limit - 1 /\ r.count <= n
      /\ r.window \in Nat /\ r.blocked \in Nat
      /\ r \in [count : 0..(Limit - 1), window : Nat, blocked : Nat]
    BY AccessAssumption DEF Tracked
<1>3. Limit \in Nat /\ Limit >= 1 /\ Block \in Nat /\ Window \in Nat /\ Block <= Window
    BY AccessAssumption, BlockAssumption
<1>4. r.count = 0 => \A i \in 1..n : T[i] + Block <= r.blocked
    BY DEF Tracked
<1>5. r.count > 0 =>
        /\ \A i \in 1..(f0 - 1) : T[i] <= r.window \/ T[i] + Block <= T[f0]
        /\ \A i \in 1..(f0 - Limit) : T[i] + Block <= T[f0]
    BY DEF Tracked
<1>6. /\ q \in [count : 0..(Limit - 1), window : Nat, blocked : Nat]
      /\ c \in Nat /\ c <= Limit - 1 /\ c <= n
    <2>1. CASE t - r.window < Window
        BY <1>2, <1>3, <2>1
    <2>2. CASE ~(t - r.window < Window)
        BY <1>1, <1>2, <1>3, <2>2
    <2> QED
        BY <2>1, <2>2
<1>7. f0 \in Int /\ f0 = (n + 1) - r.count
    BY <1>1, <1>2
<1> HIDE DEF A, n, f0
(* What lies a block's time before t: everything but the run, if the run goes on, and the
   last Limit - 1, if a new one begins with its window; everything after a block *)
<1>8. c = 0 => \A i \in 1..(n + 1 - Limit) : T[i] + Block <= t
    <2>1. CASE r.count = 0
        BY SMTT(30), <1>1, <1>2, <1>3, <1>4, <2>1
    <2>2. CASE r.count > 0 /\ t - r.window < Window
        BY <1>2, <2>2
    <2>3. ASSUME r.count > 0, ~(t - r.window < Window), NEW i \in 1..(n + 1 - Limit)
          PROVE  T[i] + Block <= t
        <3>0. i \in 1..n
            BY <1>1, <1>3
        <3>1. i \in 1..(f0 - 1) /\ i \in 1..n /\ f0 \in 1..n
            <4> DEFINE rc == r.count
            <4>1. /\ rc \in Nat /\ rc <= Limit - 1 /\ rc <= n /\ rc > 0 /\ f0 = (n + 1) - rc
                  /\ n \in Nat /\ Limit \in Nat
                BY <1>1, <1>2, <1>3, <1>7, <2>3
            <4> HIDE DEF rc
            <4> QED
                BY <3>0, <4>1, RunBegins
        <3>2. T[i] <= r.window \/ T[i] + Block <= T[f0]
            BY <1>5, <2>3, <3>1
        <3>3. T[f0] \in Nat /\ T[f0] <= t /\ T[i] \in Nat
            BY <1>1, <3>1
        <3>4. r.window + Window <= t
            BY <1>2, <1>3, <2>3
        <3> QED
            BY <1>2, <1>3, <3>2, <3>3, <3>4
    <2> QED
        BY <1>2, <2>1, <2>2, <2>3
<1>9. c > 0 => q = r /\ c = r.count
    BY <1>2
<1> HIDE DEF c
<1>10. ASSUME NEW i \in 1..n, n + 1 - i >= 2 * Limit - 1 PROVE T[i] + Block <= t
    <2>1. CASE c = 0
        <3>1. i \in 1..(n + 1 - Limit)
            BY <1>1, <1>3, <1>10
        <3> QED
            BY <1>8, <2>1, <3>1
    <2>2. CASE c > 0
        <3>1. i \in 1..(f0 - Limit) /\ f0 \in 1..n
            BY <1>1, <1>2, <1>3, <1>6, <1>7, <1>9, <1>10, <2>2, RunBegins
        <3>2. T[f0] \in Nat /\ T[f0] <= t /\ T[i] \in Nat
            BY <1>1, <3>1
        <3>3. T[i] + Block <= T[f0]
            BY <1>5, <1>9, <2>2, <3>1
        <3> QED
            BY <1>3, <3>2, <3>3
    <2> QED
        BY <1>6, <2>1, <2>2
<1>11. Spaced(A)
    <2> SUFFICES ASSUME NEW k \in 1..(n + 1), NEW m \in k..(n + 1), m - k >= 2 * Limit - 1
                 PROVE  A[m] - A[k] >= Block
        BY <1>1 DEF Spaced
    <2>1. CASE m = n + 1
        <3>1. CASE k = n + 1
            BY <1>1, <1>3, <2>1, <3>1
        <3>2. CASE k # n + 1
            <4>1. k \in 1..n /\ n + 1 - k >= 2 * Limit - 1
                BY <1>1, <2>1, <3>2
            <4>2. T[k] + Block <= t /\ A[k] = T[k] /\ T[k] \in Nat
                BY <1>1, <1>10, <4>1
            <4> QED
                BY <1>1, <1>3, <2>1, <4>2
        <3> QED
            BY <3>1, <3>2
    <2>2. CASE m # n + 1
        <3>1. m \in 1..n /\ k \in 1..n /\ m \in k..n
            BY <1>1, <2>2
        <3>2. T[m] - T[k] >= Block
            BY <3>1 DEF Spaced, n
        <3> QED
            BY <1>1, <3>1, <3>2
    <2> QED
        BY <2>1, <2>2
<1>12. CASE c + 1 >= Limit
    <2> DEFINE until == t + Block
               next == [q EXCEPT !.count = 0, !.blocked = until]
    <2>1. NextRecord(q, t) = next
        BY <1>12 DEF NextRecord, c
    <2>2. until \in Nat /\ 0 \in 0..(Limit - 1)
        BY <1>3
    <2>3. \A i \in 1..(n + 1) : A[i] + Block <= until
        <3>1. ASSUME NEW i \in 1..(n + 1) PROVE A[i] \in Nat /\ A[i] <= t
            <4>1. CASE i = n + 1
                BY <1>1, <4>1
            <4>2. CASE i # n + 1
                <5>1. i \in 1..n
                    BY <1>1, <4>2
                <5> QED
                    BY <1>1, <5>1
            <4> QED
                BY <4>1, <4>2
        <3> QED
            BY <1>3, <3>1
    <2> HIDE DEF until
    <2>5. /\ next \in [count : 0..(Limit - 1), window : Nat, blocked : Nat]
          /\ next.count = 0 /\ next.blocked = until
        BY <1>6, <2>2
    <2> HIDE DEF next
    <2>4. Tracked(A, next)
        BY <1>1, <2>5, <2>3 DEF Tracked
    <2> QED
        BY <1>1, <1>11, <2>1, <2>4 DEF A
<1>13. CASE ~(c + 1 >= Limit)
    <2> DEFINE next == [q EXCEPT !.count = c + 1]
    <2>1. NextRecord(q, t) = next
        BY <1>13 DEF NextRecord, c
    <2>2. /\ next \in [count : 0..(Limit - 1), window : Nat, blocked : Nat]
          /\ next.count = c + 1 /\ next.window = q.window
        <3>1. c + 1 \in 0..(Limit - 1)
            BY <1>3, <1>6, <1>13
        <3> QED
            BY <1>6, <3>1
    <2> HIDE DEF next
    <2> DEFINE f == (n + 1) - c
    <2>3. (Len(A) + 1) - next.count = f /\ f \in 1..(n + 1)
        BY <1>1, <1>6, <2>2
    <2>4. \A i \in 1..(f - Limit) : A[i] + Block <= A[f]
        <3>1. CASE c = 0
            BY <1>1, <1>3, <1>8, <3>1
        <3>2. CASE c > 0
            <4>1. f \in 1..n /\ \A i \in 1..(f - Limit) : i \in 1..n
                BY <1>1, <1>3, <1>6, <3>2
            <4>2. f = f0 /\ r.count > 0
                BY <1>7, <1>9, <3>2
            <4> HIDE DEF f
            <4> QED
                BY <1>1, <1>5, <4>1, <4>2
        <3> QED
            BY <1>6, <3>1, <3>2
    <2>5. \A i \in 1..(f - 1) : A[i] <= q.window \/ A[i] + Block <= A[f]
        <3>1. CASE c = 0 /\ t - r.window < Window
            <4>1. q = r /\ r.count = 0
                BY <3>1 DEF c
            <4>2. \A i \in 1..n : T[i] + Block <= t
                BY <1>1, <1>2, <1>3, <1>4, <4>1
            <4> QED
                BY <1>1, <3>1, <4>2
        <3>2. CASE c = 0 /\ ~(t - r.window < Window)
            <4>1. q.window = t
                BY <3>2
            <4> QED
                BY <1>1, <3>2, <4>1
        <3>3. CASE c > 0
            <4>1. f \in 1..n /\ \A i \in 1..(f - 1) : i \in 1..n
                BY <1>1, <1>3, <1>6, <3>3
            <4>2. q = r /\ f = f0 /\ r.count > 0
                BY <1>7, <1>9, <3>3
            <4> HIDE DEF f
            <4> QED
                BY <1>1, <1>5, <4>1, <4>2
        <3> QED
            BY <1>6, <3>1, <3>2, <3>3
    <2> HIDE DEF f
    <2>6. next.count <= Len(A) /\ next.count # 0
        BY <1>1, <1>6, <2>2
    <2>7. Tracked(A, next)
        BY <2>2, <2>3, <2>4, <2>5, <2>6 DEF Tracked
    <2> QED
        BY <1>1, <1>11, <2>1, <2>7 DEF A
<1> QED
    BY <1>12, <1>13


(* Only logins, the clock and the end of the process touch what the limit is about. *)
LEMMA LimitsElsewhere ==
    ASSUME [Next]_vars, ~Lost, ~Tick,
           \A a \in Addresses : ~LoginFails(a) /\ ~Login(a)
    PROVE  UNCHANGED <<now, failures, tries>>
<1> USE DEF access, account, configuration, webVars
<1>1. CASE Start
    BY <1>1 DEF Start, StoreBootstrap, StoreFirstRecord, LoadRecord
<1>2. CASE Tls
    BY <1>2 DEF Tls, TlsAnswered
<1>3. CASE WebRequest
    <2>1. CASE Refused
        BY <2>1 DEF Refused
    <2>2. ASSUME NEW t \in Tokens,
                 ReadIec(t) \/ AskNetwork(t) \/ Maintain(t) \/ AskTime(t)
                 \/ ReadStored(t) \/ ReadSession(t) \/ ReadPage(t)
          PROVE  UNCHANGED <<now, failures, tries>>
        BY <2>2 DEF ReadIec, AskNetwork, Maintain, AskTime, ReadStored, ReadSession, ReadPage, Renew
    <2>3. ASSUME NEW t \in Tokens, Logout(t) \/ RevokeOthers(t) \/ ReadConfig(t)
          PROVE  UNCHANGED <<now, failures, tries>>
        BY <2>3 DEF Logout, RevokeOthers, ReadConfig
    <2>4. ASSUME NEW t \in Tokens, PutConfig(t) \/ SetIedName(t)
          PROVE  UNCHANGED <<now, failures, tries>>
        BY <2>4 DEF PutConfig, SetIedName
    <2>5. ASSUME NEW t \in Tokens, NEW new \in Passwords, PutPassword(t, new)
          PROVE  UNCHANGED <<now, failures, tries>>
        BY <2>5 DEF PutPassword
    <2>6. ASSUME NEW t \in Tokens, NEW pair \in Pairs, PutTls(t, pair)
          PROVE  UNCHANGED <<now, failures, tries>>
        BY <2>6 DEF PutTls
    <2> QED
        BY <1>3, <2>1, <2>2, <2>3, <2>4, <2>5, <2>6 DEF WebRequest
<1>4. CASE WriteRecord \/ PasswordChanged
    BY <1>4 DEF WriteRecord, PasswordChanged
<1>5. CASE UNCHANGED vars
    BY <1>5 DEF vars
<1> QED
    BY <1>1, <1>2, <1>3, <1>4, <1>5 DEF Next

LEMMA EmptyLimits == \A t \in Nat : Past(<<>>, t) /\ Spaced(<<>>)
BY DEF Past, Spaced

LEMMA FailureKeepsLimits ==
    ASSUME Limits, now \in Nat, NEW a \in Addresses, LoginFails(a)
    PROVE  Limits'
<1>1. PICK victim \in Evicted(a) :
        LET counted == Counted(a)
            next == IF counted.count + 1 >= Limit
                    THEN [counted EXCEPT !.count = 0, !.blocked = now + Block]
                    ELSE [counted EXCEPT !.count = @ + 1]
            kept == DOMAIN failures \ {victim}
        IN /\ failures' = [b \in kept \cup {a} |-> IF b = a THEN next ELSE failures[b]]
           /\ tries' = [b \in Addresses |->
                          IF b = a THEN Append(tries[a], now)
                          ELSE IF b = victim THEN <<>> ELSE tries[b]]
    BY DEF LoginFails
<1> DEFINE next == NextRecord(Counted(a), now)
           kept == DOMAIN failures \ {victim}
<1>2. /\ failures' = [b \in kept \cup {a} |-> IF b = a THEN next ELSE failures[b]]
      /\ tries' = [b \in Addresses |->
                     IF b = a THEN Append(tries[a], now)
                     ELSE IF b = victim THEN <<>> ELSE tries[b]]
      /\ now' = now
    BY <1>1 DEF NextRecord, LoginFails
<1>3. Past(tries[a], now) /\ Spaced(tries[a])
    BY DEF Limits
<1>4. /\ Past(Append(tries[a], now), now) /\ Spaced(Append(tries[a], now))
      /\ Tracked(Append(tries[a], now), next)
    <2>1. CASE a \in DOMAIN failures
        <3>1. Tracked(tries[a], failures[a])
            BY <2>1 DEF Limits
        <3>2. failures[a].blocked <= now
            BY <2>1, <3>1 DEF LoginFails, IsBlocked, Tracked
        <3>3. Counted(a) = IF now - failures[a].window < Window THEN failures[a]
                           ELSE [count |-> 0, window |-> now, blocked |-> 0]
            BY <2>1 DEF Counted
        <3> DEFINE T == tries[a]
                   r == failures[a]
                   q == Counted(a)
        <3> HIDE DEF T, r, q
        <3> QED
            BY <1>3, <3>1, <3>2, <3>3, NextTry DEF T, r, q
    <2>2. CASE a \notin DOMAIN failures
        <3>1. tries[a] = <<>>
            BY <2>2 DEF Limits
        <3>2. Counted(a) = [count |-> 0, window |-> now, blocked |-> 0]
            BY <2>2 DEF Counted
        <3> QED
            BY <3>1, <3>2, FirstTry
    <2> QED
        BY <2>1, <2>2
<1> HIDE DEF next
<1>5. ASSUME NEW b \in Addresses
      PROVE  /\ tries'[b] \in Seq(Nat) /\ Past(tries'[b], now) /\ Spaced(tries'[b])
             /\ IF b \in DOMAIN failures' THEN Tracked(tries'[b], failures'[b])
                ELSE tries'[b] = <<>>
    <2>1. CASE b = a
        <3>1. tries'[b] = Append(tries[a], now) /\ failures'[b] = next /\ b \in DOMAIN failures'
            BY <1>2, <2>1
        <3> QED
            BY <1>4, <3>1 DEF Past
    <2>2. CASE b # a /\ b = victim
        <3>1. tries'[b] = <<>> /\ b \notin DOMAIN failures'
            BY <1>2, <2>2
        <3> QED
            BY <3>1, EmptyLimits
    <2>3. CASE b # a /\ b # victim
        <3>1. /\ tries'[b] = tries[b]
              /\ b \in DOMAIN failures' <=> b \in DOMAIN failures
              /\ b \in DOMAIN failures => failures'[b] = failures[b]
            BY <1>2, <2>3
        <3> QED
            BY <3>1 DEF Limits
    <2> QED
        BY <2>1, <2>2, <2>3
<1>6. tries' \in [Addresses -> Seq(Nat)]
    <2>1. tries' = [b \in Addresses |-> tries'[b]]
        BY <1>2
    <2> QED
        BY <1>5, <2>1
<1> QED
    BY <1>2, <1>5, <1>6 DEF Limits

LEMMA LimitsKept == TypeOK /\ Limits /\ [Next]_vars => Limits'
<1> SUFFICES ASSUME TypeOK, Limits, [Next]_vars PROVE Limits'
    OBVIOUS
<1>1. now \in Nat
    BY AccessBounds DEF TypeOK
<1>2. ASSUME NEW a \in Addresses, LoginFails(a) PROVE Limits'
    BY <1>1, <1>2, FailureKeepsLimits
<1>3. ASSUME NEW a \in Addresses, Login(a) PROVE Limits'
    <2>1. /\ tries' = [tries EXCEPT ![a] = <<>>] /\ now' = now
          /\ failures' = [b \in DOMAIN failures \ {a} |-> failures[b]]
        BY <1>3 DEF Login, Restrict
    <2>2. tries' \in [Addresses -> Seq(Nat)]
        BY <2>1 DEF Limits
    <2>3. ASSUME NEW b \in Addresses
          PROVE  /\ Past(tries'[b], now) /\ Spaced(tries'[b])
                 /\ IF b \in DOMAIN failures' THEN Tracked(tries'[b], failures'[b])
                    ELSE tries'[b] = <<>>
        <3>1. CASE b = a
            <4>1. tries'[b] = <<>> /\ b \notin DOMAIN failures'
                BY <2>1, <3>1 DEF Limits
            <4> QED
                BY <1>1, <4>1, EmptyLimits
        <3>2. CASE b # a
            <4>1. /\ tries'[b] = tries[b]
                  /\ b \in DOMAIN failures' <=> b \in DOMAIN failures
                  /\ b \in DOMAIN failures => failures'[b] = failures[b]
                BY <2>1, <3>2 DEF Limits
            <4> QED
                BY <4>1 DEF Limits
        <3> QED
            BY <3>1, <3>2
    <2> QED
        BY <2>1, <2>2, <2>3 DEF Limits
<1>4. CASE Lost
    <2>1. tries' = [a \in Addresses |-> <<>>] /\ DOMAIN failures' = {} /\ now' = now
        BY <1>4 DEF Lost, NoTries, NoFailures
    <2>2. \A a \in Addresses : tries'[a] = <<>> /\ a \notin DOMAIN failures'
        BY <2>1
    <2> QED
        BY <1>1, <2>1, <2>2, EmptyLimits DEF Limits
<1>5. CASE Tick
    <2>1. now' = now + 1 /\ UNCHANGED <<failures, tries>>
        BY <1>5 DEF Tick, access
    <2>2. ASSUME NEW a \in Addresses PROVE Past(tries[a], now')
        <3>1. Past(tries[a], now)
            BY DEF Limits
        <3> QED
            BY <1>1, <2>1, <3>1 DEF Past
    <2> QED
        BY <2>1, <2>2 DEF Limits
<1>6. CASE UNCHANGED <<now, failures, tries>>
    BY <1>6 DEF Limits
<1> QED
    BY <1>2, <1>3, <1>4, <1>5, <1>6, LimitsElsewhere

(* Whatever the order of logins from whatever addresses, expiring windows and evicted
   records, an address whose record is kept needs at least the time of a block for any
   2 * Limit wrong passwords in a row. *)
THEOREM AttemptsAreLimited == Spec => []AttemptsLimited
<1>1. Init => Limits
    <2> SUFFICES ASSUME Init PROVE Limits
        OBVIOUS
    <2>1. tries = [a \in Addresses |-> <<>>] /\ DOMAIN failures = {} /\ now = 1
        BY DEF Init, NoTries, NoFailures
    <2> QED
        BY <2>1, EmptyLimits DEF Limits
<1>2. Limits => AttemptsLimited
    BY DEF Limits, Spaced, AttemptsLimited
<1> QED
    BY <1>1, <1>2, WebTypeCorrect, LimitsKept, PTL DEF Spec
=============================================================================
