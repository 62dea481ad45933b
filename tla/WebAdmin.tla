------------------------------ MODULE WebAdmin ------------------------------
(***************************************************************************)
(* The administration of the gateway through the web server: sessions,     *)
(* login limits, the password and its file, the configuration with its     *)
(* versions, and the TLS pair of module TlsStore.                          *)
(*                                                                         *)
(* handle_client holds state_mutex_ for the whole of a request, so a       *)
(* request is one action, except where it writes files one after the       *)
(* other: there a loss of the process or a new connection may come         *)
(* between.  Routing, headers, JSON and the pages are left out.            *)
(***************************************************************************)
EXTENDS TlsStore, FiniteSets, Functions, Sequences

CONSTANTS Addresses,   \* remote addresses
          Tokens,      \* session tokens
          Passwords,   \* passwords that meet the policy
          Default,     \* kDefaultBootstrapPassword
          MaxSessions, \* kMaxSessions
          MaxRecords,  \* kMaxLoginFailureRecords
          Limit,       \* failures until an address is blocked, 5 in the code
          Window,      \* kLoginFailureWindow
          Block,       \* kLoginBlockTime
          Lifetime,    \* kSessionLifetime
          MaxTime,     \* bound on the steady clock
          MaxRequests, \* bound on requests
          Nobody       \* no password, no address

ASSUME AccessAssumption ==
    /\ Default \in Passwords /\ NoFile \notin Passwords /\ Nobody \notin Passwords
    /\ Nobody \notin Addresses
    /\ MaxSessions \in Nat \ {0} /\ MaxRecords \in Nat \ {0} /\ Limit \in Nat \ {0}
    /\ Window \in Nat \ {0} /\ Block \in Nat \ {0} /\ Lifetime \in Nat \ {0}
(* Thirty seconds and a minute *)
ASSUME BlockAssumption == Block <= Window
ASSUME AccessBounds == MaxTime \in Nat \ {0} /\ MaxRequests \in Nat

VARIABLES
    now,          \* steady_clock::now()
    sessions,     \* sessions_
    failures,     \* login_failures_
    record,       \* record_ of the AuthStore
    authFile,     \* auth.json
    bootstrap,    \* initial-password
    change,       \* the new password of change_password, once its checks are over
    config,       \* snapshot_ of the ConfigStore
    configFile,   \* its file
    seen,         \* for every token, the configuration its holder has read last
    requests,     \* requests so far
    tries,        \* history: when wrong passwords came from an address
    acknowledged, \* history: the password of the last change that was confirmed
    doubtful      \* history: passwords of later changes that were not

access == <<sessions, failures>>
account == <<record, authFile, bootstrap, change, acknowledged, doubtful>>
configuration == <<config, configFile, seen>>
webVars == <<now, access, account, configuration, requests, tries>>
vars == <<tlsVars, webVars>>

NoSessions == [t \in {} |-> Nobody]
NoFailures == [a \in {} |-> Nobody]
NoTries == [a \in Addresses |-> <<>>]

(* Snapshot: the content is a number that no two updates share, with the
   content its author edited. *)
Config(version, content, base) == [version |-> version, content |-> content, base |-> base]

Init ==
    /\ TlsInit
    /\ now = 1 /\ sessions = NoSessions /\ failures = NoFailures
    /\ record = Nobody /\ change = Nobody
    /\ authFile = NoFile /\ bootstrap = NoFile
    /\ config = Config(1, 0, 0) /\ configFile = config /\ seen = [t \in Tokens |-> config]
    /\ requests = 0
    /\ tries = NoTries
    /\ acknowledged = Default /\ doubtful = {}

----------------------------------------------------------------------------
(* The start of the process: AuthStore::AuthStore, then TlsContext. *)

(* Without either file the bootstrap password is stored first. *)
StoreBootstrap ==
    /\ step = "down" /\ authFile = NoFile /\ bootstrap = NoFile
    /\ \/ NoFault /\ bootstrap' = Default
       \/ Fault /\ bootstrap' \in {NoFile, Default}
    /\ UNCHANGED <<certificate, privateKey, previous, context, setup, candidate, step, crashes,
                   now, access, record, authFile, change, acknowledged, doubtful,
                   configuration, requests, tries>>

StoreFirstRecord ==
    /\ step = "down" /\ authFile = NoFile /\ bootstrap # NoFile
    /\ \/ NoFault /\ authFile' = bootstrap
       \/ Fault /\ authFile' \in {NoFile, bootstrap}
    /\ UNCHANGED <<certificate, privateKey, previous, context, setup, candidate, step, crashes,
                   now, access, record, bootstrap, change, acknowledged, doubtful,
                   configuration, requests, tries>>

LoadRecord ==
    /\ step = "down" /\ authFile # NoFile
    /\ record' = authFile
    /\ config' = configFile
    /\ Goto("load")
    /\ UNCHANGED <<tlsFiles, context, setup, candidate, faults, crashes, now, access, authFile,
                   bootstrap, change, acknowledged, doubtful, configFile, seen, requests, tries>>

----------------------------------------------------------------------------
(* What every request does first *)

(* cleanup_sessions *)
Live == {t \in DOMAIN sessions : sessions[t].expires > now}
Cleaned == Restrict(sessions, Live)

Request ==
    /\ step = "idle" /\ change = Nobody
    /\ requests < MaxRequests /\ requests' = requests + 1

(* The lookup of a session, and its renewal *)
WithSession(t) == Request /\ t \in Live
Renewed(t) == [Cleaned EXCEPT ![t].expires = now + Lifetime]

----------------------------------------------------------------------------
(* POST session *)

(* Mutant: every failure starts a window of its own. *)
CountedAnew(a) == [count |-> 0, window |-> now, blocked |-> 0]

(* The record a wrong password is counted in *)
Counted(a) ==
    IF a \in DOMAIN failures /\ now - failures[a].window < Window
    THEN failures[a]
    ELSE [count |-> 0, window |-> now, blocked |-> 0]

IsBlocked(a) == a \in DOMAIN failures /\ failures[a].blocked > now

(* A full table loses some record to make room: begin() of a hash table. *)
Evicted(a) ==
    IF a \in DOMAIN failures \/ Cardinality(DOMAIN failures) < MaxRecords
    THEN {Nobody}
    ELSE DOMAIN failures

LoginFails(a) ==
    /\ Request /\ ~IsBlocked(a)
    /\ \E victim \in Evicted(a) :
          LET counted == Counted(a)
              next == IF counted.count + 1 >= Limit
                      THEN [counted EXCEPT !.count = 0, !.blocked = now + Block]
                      ELSE [counted EXCEPT !.count = @ + 1]
              kept == DOMAIN failures \ {victim}
          IN /\ failures' = [b \in kept \cup {a} |-> IF b = a THEN next ELSE failures[b]]
             /\ tries' = [b \in Addresses |->
                            IF b = a THEN Append(tries[a], now)
                            ELSE IF b = victim THEN <<>> ELSE tries[b]]
    /\ sessions' = Cleaned
    /\ UNCHANGED <<tlsVars, now, account, configuration>>

(* A full table loses some session. *)
Login(a) ==
    /\ Request /\ ~IsBlocked(a)
    /\ \E t \in Tokens \ Live,
          kept \in IF Cardinality(Live) < MaxSessions THEN {Live} ELSE {Live \ {u} : u \in Live} :
          sessions' = [u \in kept \cup {t} |->
                         IF u = t THEN [expires |-> now + Lifetime, password |-> record]
                                  ELSE sessions[u]]
    /\ failures' = Restrict(failures, DOMAIN failures \ {a})
    /\ tries' = [tries EXCEPT ![a] = <<>>]
    /\ UNCHANGED <<tlsVars, now, account, configuration>>

----------------------------------------------------------------------------
(* Requests with a session *)

(* A request that renews its session and changes nothing else here *)
Renew(t) ==
    /\ WithSession(t)
    /\ sessions' = Renewed(t)
    /\ UNCHANGED <<tlsVars, now, failures, account, configuration, tries>>

(* Status of the IEC server, GET of the ICD and its downloads *)
ReadIec(t) == Renew(t)

(* Requests to the privileged service, also those that fail their CSRF or
   password check: what a stage, a confirmation or a rollback does is in
   NetworkTransaction. *)
AskNetwork(t) == Renew(t)
Maintain(t) == Renew(t)
AskTime(t) == Renew(t)

(* Logs, frames and events; the session itself; the pages and the schema *)
ReadStored(t) == Renew(t)
ReadSession(t) == Renew(t)
ReadPage(t) == Renew(t)

(* A request that renews no session: one that needs none, one without a valid
   session, one refused before a login or a change of sessions, or a login
   while the address is blocked *)
Refused ==
    /\ Request
    /\ sessions' = Cleaned
    /\ UNCHANGED <<tlsVars, now, failures, account, configuration, tries>>

(* DELETE session *)
Logout(t) ==
    /\ WithSession(t)
    /\ sessions' = Restrict(sessions, Live \ {t})
    /\ UNCHANGED <<tlsVars, now, failures, account, configuration, tries>>

(* POST session/revoke-others *)
RevokeOthers(t) ==
    /\ WithSession(t)
    /\ sessions' = Restrict(sessions, {t})
    /\ UNCHANGED <<tlsVars, now, failures, account, configuration, tries>>

(* PUT password: change_password up to its write *)
PutPassword(t, new) ==
    /\ WithSession(t)
    /\ new # record
    /\ sessions' = Cleaned
    /\ change' = new /\ doubtful' = doubtful \cup {new}
    /\ UNCHANGED <<tlsVars, now, failures, record, authFile, bootstrap, acknowledged,
                   configuration, tries>>

(* Mutant: a failing write is reported as success. *)
WriteRecordUnchecked ==
    /\ change # Nobody /\ change # authFile
    /\ \/ NoFault /\ authFile' = change /\ UNCHANGED <<record, sessions, acknowledged, doubtful, change>>
       \/ /\ Fault /\ UNCHANGED authFile
          /\ record' = change /\ acknowledged' = change /\ doubtful' = {}
          /\ sessions' = NoSessions /\ change' = Nobody
    /\ UNCHANGED <<certificate, privateKey, previous, context, setup, candidate, step, crashes,
                   now, failures, bootstrap, configuration, requests, tries>>

(* The record takes its name, or the write fails, before that or after it: also
   when the file held the new password already, after an earlier failure. *)
WriteRecord ==
    /\ change # Nobody
    /\ \/ change # authFile /\ NoFault /\ authFile' = change /\ UNCHANGED change
       \/ Fault /\ authFile' \in {authFile, change} /\ change' = Nobody
    /\ UNCHANGED <<certificate, privateKey, previous, context, setup, candidate, step, crashes,
                   now, access, record, bootstrap, acknowledged, doubtful, configuration,
                   requests, tries>>

(* Mutant: the sessions survive. *)
PasswordChangedKept ==
    /\ change # Nobody /\ change = authFile
    /\ record' = change /\ change' = Nobody
    /\ bootstrap' = NoFile
    /\ acknowledged' = change /\ doubtful' = {}
    /\ UNCHANGED <<tlsVars, now, sessions, failures, authFile, configuration, requests, tries>>

(* The record is replaced, initial-password removed if that works, and every
   session ends. *)
PasswordChanged ==
    /\ change # Nobody /\ change = authFile
    /\ record' = change /\ change' = Nobody
    /\ \/ NoFault /\ bootstrap' = NoFile
       \/ bootstrap # NoFile /\ Fault /\ UNCHANGED bootstrap
    /\ sessions' = NoSessions
    /\ acknowledged' = change /\ doubtful' = {}
    /\ UNCHANGED <<certificate, privateKey, previous, context, setup, candidate, step, crashes,
                   now, failures, authFile, configuration, requests, tries>>

----------------------------------------------------------------------------
(* The configuration *)

(* GET config *)
ReadConfig(t) ==
    /\ WithSession(t) /\ seen[t] # config
    /\ sessions' = Renewed(t)
    /\ seen' = [seen EXCEPT ![t] = config]
    /\ UNCHANGED <<tlsVars, now, failures, account, config, configFile, tries>>

(* ConfigStore::update and set_iec_ied_name store the next version and only
   then take it over. *)
Store(base) ==
    LET new == Config(config.version + 1, requests', base)
    IN \/ NoFault /\ config' = new /\ configFile' = new
       \/ Fault /\ UNCHANGED config /\ configFile' \in {configFile, new}

(* Mutant: the version is not compared. *)
PutConfigUnmatched(t) ==
    /\ WithSession(t)
    /\ Store(seen[t].content)
    /\ sessions' = Renewed(t)
    /\ UNCHANGED <<certificate, privateKey, previous, context, setup, candidate, step, crashes,
                   now, failures, account, seen, tries>>

(* PUT config with the version that was read as If-Match; another version is
   a conflict, which renews the session only. *)
PutConfig(t) ==
    /\ WithSession(t)
    /\ seen[t].version = config.version
    /\ Store(seen[t].content)
    /\ sessions' = Renewed(t)
    /\ UNCHANGED <<certificate, privateKey, previous, context, setup, candidate, step, crashes,
                   now, failures, account, seen, tries>>

(* An upload of an ICD with another name *)
SetIedName(t) ==
    /\ WithSession(t)
    /\ Store(config.content)
    /\ sessions' = Renewed(t)
    /\ UNCHANGED <<certificate, privateKey, previous, context, setup, candidate, step, crashes,
                   now, failures, account, seen, tries>>

----------------------------------------------------------------------------
(* PUT tls *)

PutTls(t, pair) ==
    /\ WithSession(t)
    /\ BeginReplace(pair)
    /\ sessions' = Renewed(t)
    /\ UNCHANGED <<now, failures, account, configuration, tries>>

(* The answer: the sessions end only if the pair was replaced. *)
TlsAnswered ==
    /\ step \in {"replaced", "failed"}
    /\ sessions' = IF step = "replaced" THEN NoSessions ELSE sessions
    /\ candidate' = NoFile
    /\ Goto("idle")
    /\ UNCHANGED <<tlsFiles, context, setup, faults, crashes, now, failures, account,
                   configuration, requests, tries>>

----------------------------------------------------------------------------
Tick ==
    /\ now < MaxTime
    /\ now' = now + 1
    /\ UNCHANGED <<tlsVars, access, account, configuration, requests, tries>>

(* Sessions, login limits and what was not stored are memory. *)
Lost ==
    /\ Killed \/ FreedContextKills
    /\ sessions' = NoSessions /\ failures' = NoFailures
    /\ tries' = NoTries
    /\ record' = Nobody /\ change' = Nobody
    /\ UNCHANGED <<now, authFile, bootstrap, acknowledged, doubtful, configuration, requests>>

Start ==
    \/ StoreBootstrap \/ StoreFirstRecord \/ LoadRecord
    \/ (GenerateKey \/ GenerateCertificate \/ LoadFiles \/ StartFails) /\ UNCHANGED webVars

Tls ==
    \/ (Replace \/ TakeContext \/ NewConnection) /\ UNCHANGED webVars
    \/ TlsAnswered

WebRequest ==
    \/ Refused
    \/ \E a \in Addresses : LoginFails(a) \/ Login(a)
    \/ \E t \in Tokens :
          \/ ReadIec(t) \/ AskNetwork(t) \/ Maintain(t) \/ AskTime(t)
          \/ ReadStored(t) \/ ReadSession(t) \/ ReadPage(t)
          \/ Logout(t) \/ RevokeOthers(t)
          \/ ReadConfig(t) \/ PutConfig(t) \/ SetIedName(t)
          \/ \E new \in Passwords : PutPassword(t, new)
          \/ \E pair \in Pairs : PutTls(t, pair)

Next == Start \/ Tls \/ WebRequest \/ WriteRecord \/ PasswordChanged \/ Tick \/ Lost

Spec == Init /\ [][Next]_vars

----------------------------------------------------------------------------
(* Properties *)

TypeOK ==
    /\ TlsTypeOK
    /\ now \in 1..MaxTime /\ requests \in 0..MaxRequests
    /\ DOMAIN sessions \subseteq Tokens /\ Cardinality(DOMAIN sessions) <= MaxSessions
    /\ DOMAIN failures \subseteq Addresses /\ Cardinality(DOMAIN failures) <= MaxRecords
    /\ record \in Passwords \cup {Nobody} /\ change \in Passwords \cup {Nobody}
    /\ authFile \in Passwords \cup {NoFile} /\ bootstrap \in {Default, NoFile}
    /\ Up => record # Nobody

(* Every session was opened with the password that is valid now: none opened
   before a change outlives it. *)
SessionsKnowPassword ==
    \A t \in DOMAIN sessions : sessions[t].password = record

(* The password that counts, in memory and after a restart, is the last one
   whose change was confirmed, or one whose change was not confirmed since. *)
PasswordAcknowledged ==
    \A p \in {record, authFile} \ {Nobody, NoFile} : p \in {acknowledged} \cup doubtful

(* The wrong passwords one address may try in any span as long as a block are
   the last of one window and all of the next: twice Limit of them in a row
   take at least a block's time. *)
AttemptsLimited ==
    \A a \in Addresses : \A k \in 1..Len(tries[a]) : \A n \in k..Len(tries[a]) :
        n - k >= 2 * Limit - 1 => tries[a][n] - tries[a][k] >= Block

(* A configuration is replaced only by one edited from it: no administrator
   undoes a change that he has not read. *)
NoLostUpdate ==
    [][Up /\ Up' /\ config' # config => config'.base = config.content]_vars
=============================================================================
