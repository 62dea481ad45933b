--------------------------- MODULE IecModelProofs ---------------------------
(***************************************************************************)
(* Theorems about IecModel, for every set of files, names and ports and    *)
(* every number of requests, failures and restarts.                        *)
(***************************************************************************)
EXTENDS IecModel, TLAPS

-----------------------------------------------------------------------------
(* Types *)

LEMMA CurrentType ==
    ASSUME TypeOK
    PROVE  Current \in Icds /\ NameOf[Current] \in Names
BY FileAssumption DEF TypeOK, Current

LEMMA StartedType ==
    ASSUME TypeOK, NEW c \in Config
    PROVE  Started(c) \in Server \cup {NoServer}
BY CurrentType DEF Started, Server, Config

LEMMA CandidateType ==
    ASSUME TypeOK, server # NoServer, NEW t \in Threads
    PROVE  Candidate(t) \in Server
BY DEF TypeOK, Candidate, Server

(* ConfigStore keeps its snapshot and its file well formed. *)
LEMMA StoreType ==
    ASSUME TypeOK, NEW c \in Config, Store(c)
    PROVE  conf' \in Config /\ confFile' \in Config /\ failures' \in Nat
BY DEF TypeOK, Store, Succeed, Fail

LEMMA RenamedType ==
    ASSUME TypeOK, NEW n \in Names
    PROVE  Renamed(n) \in Config
<1>1. conf \in [version : Nat, enabled : BOOLEAN, name : Names, port : Ports]
    BY DEF TypeOK, Config
<1>2. conf.version + 1 \in Nat
    BY <1>1
<1>3. [conf EXCEPT !.version = conf.version + 1] \in Config
    BY <1>1, <1>2 DEF Config
<1>4. [[conf EXCEPT !.version = conf.version + 1] EXCEPT !.name = n] \in Config
    BY <1>3 DEF Config
<1> QED
    BY <1>4 DEF Renamed

LEMMA InitType == Init => TypeOK
<1> SUFFICES ASSUME Init PROVE TypeOK
    OBVIOUS
<1>1. override \in Icds \cup {NoFile} /\ previous \in Icds \cup {NoFile} /\ Current \in Icds
    BY FileAssumption DEF Init, Current
<1>2. PICK p \in Ports :
        conf = [version |-> 1, enabled |-> TRUE, name |-> NameOf[Current], port |-> p]
    BY DEF Init
<1>3. conf \in Config /\ conf.enabled /\ conf.port \in Ports /\ conf.name \in Names
    BY <1>1, <1>2, FileAssumption DEF Config
<1>4. server \in Server
    BY <1>1, <1>3 DEF Init, Started, Server
<1> QED
    BY <1>1, <1>3, <1>4, FileAssumption DEF Init, TypeOK, Threads, Steps

LEMMA NextType == TypeOK /\ [Next]_vars => TypeOK'
<1> SUFFICES ASSUME TypeOK, [Next]_vars PROVE TypeOK'
    OBVIOUS
<1> USE DEF Threads, Steps, Goto, Answer, Succeed, Fail, files, web, acq, bounds
<1>1. ASSUME NEW c \in Icds, Upload(c) PROVE TypeOK'
    BY <1>1, BoundAssumption DEF TypeOK, Upload, Begin, Remember, Config
<1>2. CASE Restore
    BY <1>2, BoundAssumption DEF TypeOK, Restore, Begin, Remember, Config
<1>3. ASSUME NEW e \in BOOLEAN, NEW n \in Names, NEW p \in Ports, Save(e, n, p)
      PROVE  TypeOK'
    <2> DEFINE c == [version |-> conf.version + 1, enabled |-> e, name |-> n, port |-> p]
    <2>1. c \in Config
        BY DEF TypeOK, Config
    <2>2. Store(c)
        BY <1>3 DEF Save
    <2>3. conf' \in Config /\ confFile' \in Config /\ failures' \in Nat
        BY <2>1, <2>2, StoreType
    <2> QED
        BY <1>3, <2>3 DEF TypeOK, Save, Begin
<1>4. CASE SavePrevious
    BY <1>4 DEF TypeOK, SavePrevious
<1>5. CASE WriteOverride
    BY <1>5 DEF TypeOK, WriteOverride
<1>6. CASE SetName
    <2>1. Renamed(NameOf[Current]) \in Config
        BY CurrentType, RenamedType
    <2>2. conf' \in Config /\ confFile' \in Config /\ failures' \in Nat
        BY <1>6, <2>1, StoreType DEF SetName, TypeOK
    <2> QED
        BY <1>6, <2>2 DEF TypeOK, SetName
<1>7. CASE UndoFiles
    BY <1>7 DEF TypeOK, UndoFiles
<1>8. CASE UndoName
    <2>1. Renamed(beforeName) \in Config
        BY RenamedType DEF TypeOK
    <2>2. conf' \in Config /\ confFile' \in Config /\ failures' \in Nat
        BY <1>8, <2>1, StoreType DEF UndoName, TypeOK
    <2> QED
        BY <1>8, <2>2 DEF TypeOK, UndoName
<1>9. ASSUME NEW t \in Threads, Load(t) PROVE TypeOK'
    BY <1>9, CurrentType DEF TypeOK, Load
<1>10. ASSUME NEW t \in Threads, ReadName(t) PROVE TypeOK'
    BY <1>10 DEF TypeOK, ReadName, Config
<1>11. ASSUME NEW t \in Threads, Install(t) PROVE TypeOK'
    <2>1. server' \in Server \cup {NoServer}
        BY <1>11, CandidateType DEF TypeOK, Install, Server
    <2>2. Succeed \/ Fail(1) \/ Fail(2)
        BY <1>11 DEF Install
    <2>3. failures' \in Nat
        BY <2>2 DEF TypeOK
    <2>4. pc' \in [Threads -> Steps] /\ answer' \in {"none", "ok", "error", "rejected"}
        BY <1>11 DEF TypeOK, Install, Reloaded
    <2> QED
        BY <1>11, <2>1, <2>3, <2>4 DEF TypeOK, Install
<1>12. CASE Snapshot
    BY <1>12 DEF TypeOK, Snapshot
<1>13. CASE Compare
    BY <1>13 DEF TypeOK, Compare
<1>14. CASE Endpoint
    <2>1. configured.port \in Ports /\ configured.version \in Nat
        BY DEF TypeOK, Config
    <2>2. Succeed \/ Fail(1) \/ Fail(2)
        BY <1>14 DEF Endpoint, UpdateEndpoint
    <2>3. failures' \in Nat
        BY <2>2 DEF TypeOK
    <2>4. server' \in Server \cup {NoServer}
        BY <1>14, <2>1 DEF TypeOK, Endpoint, UpdateEndpoint, Server
    <2>5. current' \in Ports /\ disabled' \in BOOLEAN
        BY <1>14, <2>1 DEF TypeOK, Endpoint, UpdateEndpoint
    <2> QED
        BY <1>14, <2>1, <2>3, <2>4, <2>5 DEF TypeOK, Endpoint
<1>15. CASE Restart
    <2>1. Started(confFile) \in Server \cup {NoServer} /\ confFile.port \in Ports
        BY StartedType DEF TypeOK, Config
    <2>2. pc' \in [Threads -> Steps]
        BY <1>15 DEF Restart
    <2>3. server' \in Server \cup {NoServer} /\ current' \in Ports
        BY <1>15, <2>1 DEF Restart
    <2>4. /\ conf' \in Config /\ confFile' \in Config /\ configured' \in Config
          /\ override' \in Icds \cup {NoFile} /\ previous' \in Icds \cup {NoFile}
          /\ target' \in Icds \cup {NoFile} /\ before' \in Icds \cup {NoFile}
          /\ beforeName' \in Names
          /\ def' \in [Threads -> Icds] /\ nm' \in [Threads -> Names]
        BY <1>15 DEF Restart, TypeOK
    <2>5. answer' \in {"none", "ok", "error", "rejected"} /\ disabled' \in BOOLEAN
        BY <1>15 DEF Restart
    <2>6. applied' \in Nat /\ requests' \in Nat /\ failures' \in Nat /\ crashes' \in Nat
        BY <1>15 DEF Restart, TypeOK
    <2> QED
        BY <2>2, <2>3, <2>4, <2>5, <2>6 DEF TypeOK
<1>16. CASE UNCHANGED vars
    BY <1>16 DEF TypeOK, vars
<1> QED
    BY <1>1, <1>2, <1>3, <1>4, <1>5, <1>6, <1>7, <1>8, <1>9, <1>10, <1>11, <1>12, <1>13,
       <1>14, <1>15, <1>16 DEF Next, Web, Reload, Acquisition

(* The files, the configuration, the server and both threads keep their types; above
   all, load_iec61850_definition never yields the absent file. *)
THEOREM IecTypeCorrect == Spec => []TypeOK
BY InitType, NextType, PTL DEF Spec

-----------------------------------------------------------------------------
(* The server survives a failure *)

LEMMA NextSurvives == TypeOK /\ ServerSurvives /\ [Next]_vars => ServerSurvives'
<1> SUFFICES ASSUME TypeOK, ServerSurvives, [Next]_vars PROVE ServerSurvives'
    OBVIOUS
<1> USE DEF Succeed, Fail, files, web, acq, bounds
<1>1. failures \in Nat /\ failures' \in Nat
    BY NextType DEF TypeOK
<1>2. ASSUME UNCHANGED <<server, disabled>>, failures' >= failures PROVE ServerSurvives'
    BY <1>1, <1>2 DEF ServerSurvives
<1>3. ASSUME NEW c \in Icds, Upload(c) PROVE ServerSurvives'
    BY <1>1, <1>2, <1>3 DEF Upload
<1>4. CASE Restore
    BY <1>1, <1>2, <1>4 DEF Restore
<1>5. ASSUME NEW e \in BOOLEAN, NEW n \in Names, NEW p \in Ports, Save(e, n, p)
      PROVE  ServerSurvives'
    BY <1>1, <1>2, <1>5 DEF Save, Store
<1>6. CASE SavePrevious
    BY <1>1, <1>2, <1>6 DEF SavePrevious
<1>7. CASE WriteOverride
    BY <1>1, <1>2, <1>7 DEF WriteOverride
<1>8. CASE SetName
    BY <1>1, <1>2, <1>8 DEF SetName, Store
<1>9. CASE UndoFiles
    BY <1>1, <1>2, <1>9 DEF UndoFiles
<1>10. CASE UndoName
    BY <1>1, <1>2, <1>10 DEF UndoName, Store
<1>11. ASSUME NEW t \in Threads, Load(t) \/ ReadName(t) PROVE ServerSurvives'
    BY <1>1, <1>2, <1>11 DEF Load, ReadName
<1>12. ASSUME NEW t \in Threads, Install(t) PROVE ServerSurvives'
    <2>1. CASE server' = (IF server = NoServer THEN server ELSE Candidate(t)) /\ Succeed
        BY <1>1, <1>12, <2>1 DEF ServerSurvives, Install, Candidate
    <2>2. CASE UNCHANGED server /\ Fail(1)
        BY <1>1, <1>2, <1>12, <2>2 DEF Install
    <2>3. CASE Fail(2)
        BY <1>1, <2>3 DEF ServerSurvives
    <2> QED
        BY <1>12, <2>1, <2>2, <2>3 DEF Install
<1>13. CASE Snapshot \/ Compare
    BY <1>1, <1>2, <1>13 DEF Snapshot, Compare
<1>14. CASE Endpoint
    <2>1. CASE disabled'
        BY <2>1 DEF ServerSurvives
    <2>2. CASE UNCHANGED <<server, disabled>>
        BY <1>1, <1>2, <1>14, <2>2 DEF Endpoint, UpdateEndpoint
    <2>3. CASE /\ server # NoServer /\ server.running
               /\ UNCHANGED disabled
               /\ server' = [server EXCEPT !.port = configured.port]
        BY <2>3 DEF ServerSurvives, TypeOK, Server
    <2>4. CASE Fail(2)
        BY <1>1, <2>4 DEF ServerSurvives
    <2> QED
        BY <1>14, <2>1, <2>2, <2>3, <2>4 DEF Endpoint, UpdateEndpoint
<1>15. CASE Restart
    BY <1>15 DEF Restart, Started, ServerSurvives
<1>16. CASE UNCHANGED vars
    BY <1>1, <1>2, <1>16 DEF vars
<1> QED
    BY <1>3, <1>4, <1>5, <1>6, <1>7, <1>8, <1>9, <1>10, <1>11, <1>12, <1>13, <1>14, <1>15,
       <1>16 DEF Next, Web, Reload, Acquisition

(* A single failure of a write, of building a candidate or of binding its port never
   leaves the board without the server that its configuration enables. *)
THEOREM ServerStaysUp == Spec => []ServerSurvives
<1>1. Init => ServerSurvives
    BY DEF Init, ServerSurvives, Started
<1> QED
    BY <1>1, IecTypeCorrect, NextSurvives, PTL DEF Spec

-----------------------------------------------------------------------------
(* A rejected request leaves no trace *)

(* What makes RejectionUndone inductive: a request is answered when the web thread is
   idle again, its way back is taken because something has failed, and once the files
   have been put back without a second failure they are what they were. *)
Answered == answer # "none" => pc["web"] = "idle"
FailedBefore == pc["web"] \in {"undo_files", "undo_name"} => failures >= 1
FilesBack == pc["web"] = "undo_name" /\ failures <= 1 => override = before

Undoing == Answered /\ FailedBefore /\ FilesBack /\ RejectionUndone

LEMMA NextUndoing == TypeOK /\ Undoing /\ [Next]_vars => Undoing'
<1> SUFFICES ASSUME TypeOK, Undoing, [Next]_vars PROVE Undoing'
    OBVIOUS
<1> USE DEF Succeed, Fail, files, web, acq, bounds
<1>1. /\ failures \in Nat /\ failures' \in Nat
      /\ pc \in [Threads -> Steps] /\ "web" \in Threads /\ "acq" \in Threads
    BY NextType DEF TypeOK, Threads
<1>2. ASSUME pc'["web"] = pc["web"], failures' >= failures,
             UNCHANGED <<override, before, beforeName, conf, answer>>
      PROVE  Undoing'
    BY <1>1, <1>2 DEF Undoing, Answered, FailedBefore, FilesBack, RejectionUndone
<1>3. ASSUME pc'["web"] \notin {"undo_files", "undo_name"}, answer' = "none"
      PROVE  Undoing'
    BY <1>3 DEF Undoing, Answered, FailedBefore, FilesBack, RejectionUndone
<1>4. ASSUME pc'["web"] = "idle", answer' \in {"ok", "error"}
      PROVE  Undoing'
    BY <1>4 DEF Undoing, Answered, FailedBefore, FilesBack, RejectionUndone
<1>5. ASSUME pc["web"] # "idle" PROVE answer = "none"
    BY <1>5 DEF Undoing, Answered
<1>6. ASSUME pc'["web"] = "undo_files", answer' = "none", failures' >= 1
      PROVE  Undoing'
    BY <1>6 DEF Undoing, Answered, FailedBefore, FilesBack, RejectionUndone
<1>7. ASSUME NEW c \in Icds, Upload(c) PROVE Undoing'
    BY <1>1, <1>3, <1>7 DEF Upload, Begin, Goto
<1>8. CASE Restore
    BY <1>1, <1>3, <1>8 DEF Restore, Begin, Goto
<1>9. ASSUME NEW e \in BOOLEAN, NEW n \in Names, NEW p \in Ports, Save(e, n, p)
      PROVE  Undoing'
    BY <1>3, <1>9 DEF Save, Begin
<1>10. CASE SavePrevious
    BY <1>1, <1>3, <1>4, <1>5, <1>10 DEF SavePrevious, Goto, Answer
<1>11. CASE WriteOverride
    BY <1>1, <1>3, <1>4, <1>5, <1>11 DEF WriteOverride, Goto, Answer
<1>12. CASE SetName
    <2>1. answer' = "none"
        BY <1>5, <1>12 DEF SetName
    <2>2. CASE Goto("web", "load")
        BY <1>1, <1>3, <2>1, <2>2 DEF Goto
    <2>3. CASE Goto("web", "undo_files") /\ conf' = conf /\ Store(Renamed(NameOf[Current]))
        <3>1. Renamed(NameOf[Current]) # conf
            <4>1. conf.version \in Nat
                BY DEF TypeOK, Config
            <4>2. Renamed(NameOf[Current]).version = conf.version + 1
                BY DEF Renamed, TypeOK, Config
            <4> QED
                BY <4>1, <4>2
        <3>2. failures' >= 1
            BY <1>1, <2>3, <3>1 DEF Store
        <3> QED
            BY <1>1, <1>6, <2>1, <2>3, <3>2 DEF Goto
    <2> QED
        BY <1>12, <2>2, <2>3 DEF SetName
<1>13. CASE UndoFiles
    <2>1. pc["web"] = "undo_files" /\ failures >= 1 /\ answer' = "none"
        BY <1>5, <1>13 DEF UndoFiles, Undoing, FailedBefore
    <2>2. pc'["web"] = "undo_name" /\ UNCHANGED before
        BY <1>1, <1>13 DEF UndoFiles, Goto
    <2>3. override' = before \/ failures' = failures + 1
        BY <1>13 DEF UndoFiles
    <2>4. failures' >= failures
        BY <1>1, <1>13 DEF UndoFiles
    <2> QED
        BY <1>1, <2>1, <2>2, <2>3, <2>4
        DEF Undoing, Answered, FailedBefore, FilesBack, RejectionUndone
<1>14. CASE UndoName
    <2>1. pc["web"] = "undo_name" /\ failures >= 1 /\ (failures <= 1 => override = before)
        BY <1>14 DEF UndoName, Undoing, FailedBefore, FilesBack
    <2>2. pc'["web"] = "idle" /\ UNCHANGED <<override, before, beforeName>>
        BY <1>1, <1>14 DEF UndoName, Goto, Answer
    <2>3. Renamed(beforeName).name = beforeName
        BY DEF Renamed, TypeOK, Config
    <2>4. (failures' = failures /\ conf'.name = beforeName) \/ failures' = failures + 1
        BY <1>14, <2>3 DEF UndoName, Store
    <2> QED
        BY <1>1, <2>1, <2>2, <2>4
        DEF Undoing, Answered, FailedBefore, FilesBack, RejectionUndone
<1>15. ASSUME NEW t \in Threads, Load(t) \/ ReadName(t) PROVE Undoing'
    <2>1. CASE t = "acq"
        BY <1>1, <1>2, <1>15, <2>1 DEF Load, ReadName, Goto
    <2>2. CASE t = "web"
        BY <1>1, <1>3, <1>5, <1>15, <2>2 DEF Load, ReadName, Goto
    <2> QED
        BY <2>1, <2>2 DEF Threads
<1>16. ASSUME NEW t \in Threads, Install(t) PROVE Undoing'
    <2>0. Succeed \/ Fail(1) \/ Fail(2)
        BY <1>16 DEF Install
    <2>1. failures' >= failures /\ UNCHANGED <<override, before, beforeName, conf>>
        BY <1>1, <1>16, <2>0 DEF Install
    <2>2. CASE t = "acq"
        <3>1. Goto("acq", "endpoint") /\ UNCHANGED answer
            BY <1>16, <2>2 DEF Install, Reloaded
        <3> QED
            BY <1>1, <1>2, <2>1, <3>1 DEF Goto
    <2>3. CASE t = "web"
        <3>1. CASE Reloaded(t, TRUE)
            <4>1. Answer("ok")
                BY <2>3, <3>1 DEF Reloaded
            <4> QED
                BY <1>1, <1>4, <4>1 DEF Answer, Goto
        <3>2. CASE Reloaded(t, FALSE) /\ failures' >= 1
            <4>1. Goto("web", "undo_files") /\ UNCHANGED answer
                BY <2>3, <3>2 DEF Reloaded
            <4>2. answer' = "none"
                BY <1>5, <1>16, <2>3, <4>1 DEF Install
            <4> QED
                BY <1>1, <1>6, <3>2, <4>1, <4>2 DEF Goto
        <3>3. \/ Reloaded(t, TRUE)
              \/ Reloaded(t, FALSE) /\ (Fail(1) \/ Fail(2))
            BY <1>16, Zenon DEF Install
        <3>4. Fail(1) \/ Fail(2) => failures' >= 1
            BY <1>1
        <3> QED
            BY <3>1, <3>2, <3>3, <3>4
    <2> QED
        BY <2>2, <2>3 DEF Threads
<1>17. CASE Snapshot \/ Compare
    BY <1>1, <1>2, <1>17 DEF Snapshot, Compare, Goto
<1>18. CASE Endpoint
    BY <1>1, <1>2, <1>18 DEF Endpoint, UpdateEndpoint, Goto
<1>19. CASE Restart
    BY <1>1, <1>3, <1>19 DEF Restart
<1>20. CASE UNCHANGED vars
    BY <1>1, <1>2, <1>20 DEF vars
<1> QED
    BY <1>7, <1>8, <1>9, <1>10, <1>11, <1>12, <1>13, <1>14, <1>15, <1>16, <1>17, <1>18,
       <1>19, <1>20 DEF Next, Web, Reload, Acquisition

(* An upload or a restore that one failure turns into a rejection leaves the file in
   force and the configured name as they were, whatever the acquisition thread does
   meanwhile. *)
THEOREM RejectionsUndone == Spec => []RejectionUndone
<1>1. Init => Undoing
    BY DEF Init, Undoing, Answered, FailedBefore, FilesBack, RejectionUndone, Threads
<1>2. Undoing => RejectionUndone
    BY DEF Undoing
<1> QED
    BY <1>1, <1>2, IecTypeCorrect, NextUndoing, PTL DEF Spec

-----------------------------------------------------------------------------
(* The configuration is followed *)

(* What makes ConfigurationFollowed inductive while nothing has failed.  Every change
   of the configuration has a version of its own and reaches the file, and a version
   that is being applied does not count as applied yet. *)
Versions ==
    /\ confFile = conf /\ conf.version >= 1
    /\ applied <= conf.version /\ configured.version <= conf.version
    /\ configured.version = conf.version => configured = conf
    /\ pc["acq"] # "idle" => applied < conf.version

(* The web thread is the only one that renames the device, so what it is about to
   install has the name in force; the acquisition thread may be about to install an
   older name, but then the configuration it applies is an older one as well. *)
NamesToInstall ==
    /\ pc["web"] = "install" => nm["web"] = conf.name
    /\ pc["acq"] = "install" /\ configured.version = conf.version => nm["acq"] = conf.name

(* The newest configuration is in the server as soon as it counts as applied, and its
   name one step earlier. *)
InServer ==
    server # NoServer =>
        /\ applied = conf.version => server.name = conf.name
        /\ pc["acq"] = "endpoint" /\ configured.version = conf.version
              => server.name = conf.name
        /\ server.running => server.port = current
        /\ server.running /\ applied = conf.version => current = conf.port

Following == failures = 0 => Versions /\ NamesToInstall /\ InServer

LEMMA NextFollowing == TypeOK /\ Following /\ [Next]_vars => Following'
<1> DEFINE Goal == Versions' /\ NamesToInstall' /\ InServer'
<1> SUFFICES ASSUME TypeOK, Following, [Next]_vars, failures' = 0 PROVE Goal
    BY DEF Following
<1> USE DEF files, web, acq, bounds
<1>1. /\ failures \in Nat
      /\ pc \in [Threads -> Steps] /\ nm \in [Threads -> Names]
      /\ "web" \in Threads /\ "acq" \in Threads
      /\ conf \in Config /\ configured \in Config /\ conf.version \in Nat
      /\ configured.version \in Nat /\ applied \in Nat
      /\ server \in Server \cup {NoServer}
    BY DEF TypeOK, Threads, Config
<1>2. ASSUME NEW n \in {1, 2}, Fail(n) PROVE FALSE
    BY <1>1, <1>2 DEF Fail
<1>3. ASSUME failures = 0 PROVE Versions /\ NamesToInstall /\ InServer
    BY <1>3 DEF Following
(* A step of the web thread that leaves the configuration alone *)
<1>4. ASSUME failures = 0, UNCHANGED <<conf, confFile, server, current, configured, applied, nm>>,
             pc'["acq"] = pc["acq"], pc'["web"] # "install" \/ pc'["web"] = pc["web"]
      PROVE  Goal
    BY <1>3, <1>4 DEF Versions, NamesToInstall, InServer
(* A step of the web thread that changes it *)
<1>5. ASSUME failures = 0, conf'.version = conf.version + 1, confFile' = conf',
             UNCHANGED <<server, current, configured, applied>>,
             pc'["acq"] = pc["acq"], pc'["web"] # "install"
      PROVE  Goal
    <2>1. conf'.version >= 1 /\ applied < conf'.version /\ configured.version < conf'.version
        BY <1>1, <1>3, <1>5 DEF Versions
    <2>2. conf'.version # applied /\ conf'.version # configured.version
        BY <1>1, <1>5, <2>1
    <2>3. Versions'
        BY <1>1, <1>5, <2>1, <2>2 DEF Versions
    <2>4. NamesToInstall'
        BY <1>5, <2>2 DEF NamesToInstall
    <2>5. InServer'
        BY <1>3, <1>5, <2>2 DEF InServer
    <2> QED
        BY <2>3, <2>4, <2>5
<1>6. ASSUME NEW c \in Config, Store(c)
      PROVE  failures = 0 /\ confFile' = c /\ conf' = c
    BY <1>2, <1>6 DEF Store, Succeed
<1>7. ASSUME NEW n \in Names
      PROVE  Renamed(n) \in Config /\ Renamed(n).version = conf.version + 1
    BY <1>1, RenamedType DEF Renamed, Config
<1>8. ASSUME NEW c \in Icds, Upload(c) PROVE Goal
    BY <1>1, <1>4, <1>8 DEF Upload, Begin, Goto
<1>9. CASE Restore
    BY <1>1, <1>4, <1>9 DEF Restore, Begin, Goto
<1>10. ASSUME NEW e \in BOOLEAN, NEW n \in Names, NEW p \in Ports, Save(e, n, p) PROVE Goal
    <2> DEFINE c == [version |-> conf.version + 1, enabled |-> e, name |-> n, port |-> p]
    <2>1. c \in Config /\ c.version = conf.version + 1
        BY <1>1 DEF Config
    <2>2. Store(c)
        BY <1>10 DEF Save
    <2> HIDE DEF c
    <2>3. failures = 0 /\ confFile' = c /\ conf' = c
        BY <1>6, <2>1, <2>2
    <2>4. pc["web"] = "idle" /\ UNCHANGED <<pc, server, current, configured, applied>>
        BY <1>10 DEF Save, Begin
    <2> QED
        BY <1>5, <2>1, <2>3, <2>4
<1>11. CASE SavePrevious
    <2>1. Succeed /\ Goto("web", "write")
        BY <1>2, <1>11 DEF SavePrevious
    <2> QED
        BY <1>1, <1>4, <1>11, <2>1 DEF SavePrevious, Succeed, Goto
<1>12. CASE WriteOverride
    <2>1. Succeed /\ Goto("web", "set_name")
        BY <1>2, <1>12 DEF WriteOverride
    <2> QED
        BY <1>1, <1>4, <1>12, <2>1 DEF WriteOverride, Succeed, Goto
<1>13. CASE SetName
    <2>1. pc'["acq"] = pc["acq"] /\ pc'["web"] \in {"load", "undo_files"}
        BY <1>1, <1>13 DEF SetName, Goto
    <2>2. CASE Succeed /\ UNCHANGED <<conf, confFile>>
        BY <1>4, <1>13, <2>1, <2>2 DEF SetName, Succeed
    <2>3. CASE Store(Renamed(NameOf[Current]))
        BY <1>5, <1>6, <1>7, <1>13, <2>1, <2>3, CurrentType DEF SetName
    <2> QED
        BY <1>13, <2>2, <2>3 DEF SetName
<1>14. CASE UndoFiles
    BY <1>1, <1>2, <1>4, <1>14 DEF UndoFiles, Succeed, Goto
<1>15. CASE UndoName
    <2>1. pc'["acq"] = pc["acq"] /\ pc'["web"] = "idle" /\ beforeName \in Names
        BY <1>1, <1>15 DEF UndoName, Answer, Goto, TypeOK
    <2>2. CASE Succeed /\ UNCHANGED <<conf, confFile>>
        BY <1>4, <1>15, <2>1, <2>2 DEF UndoName, Succeed
    <2>3. CASE Store(Renamed(beforeName))
        BY <1>5, <1>6, <1>7, <1>15, <2>1, <2>3 DEF UndoName
    <2> QED
        BY <1>15, <2>2, <2>3 DEF UndoName
<1>16. ASSUME NEW t \in Threads, Load(t) PROVE Goal
    <2>1. failures = 0 /\ UNCHANGED <<conf, confFile, server, current, configured, applied, nm>>
        BY <1>16 DEF Load
    <2>2. pc[t] = "load" /\ pc' = [pc EXCEPT ![t] = "name"]
        BY <1>16 DEF Load, Goto
    <2> QED
        BY <1>1, <1>3, <2>1, <2>2 DEF Versions, NamesToInstall, InServer, Threads
(* The name that a thread is going to install is the one now in force. *)
<1>17. ASSUME NEW t \in Threads, ReadName(t) PROVE Goal
    <2>1. failures = 0 /\ UNCHANGED <<conf, confFile, server, current, configured, applied>>
        BY <1>17 DEF ReadName
    <2>2. /\ pc[t] = "name" /\ pc' = [pc EXCEPT ![t] = "install"]
          /\ nm' = [nm EXCEPT ![t] = conf.name]
        BY <1>17 DEF ReadName, Goto
    <2> QED
        BY <1>1, <1>3, <2>1, <2>2 DEF Versions, NamesToInstall, InServer, Threads
<1>18. ASSUME NEW t \in Threads, Install(t) PROVE Goal
    <2>1. /\ Succeed /\ Reloaded(t, TRUE)
          /\ server' = IF server = NoServer THEN server ELSE Candidate(t)
        BY <1>2, <1>18 DEF Install
    <2>2. failures = 0 /\ UNCHANGED <<conf, confFile, current, configured, applied, nm>>
        BY <1>18, <2>1 DEF Install, Succeed
    <2>3. /\ pc[t] = "install"
          /\ pc' = [pc EXCEPT ![t] = IF t = "acq" THEN "endpoint" ELSE "idle"]
        <3>1. pc[t] = "install" /\ (t = "acq" \/ t = "web")
            BY <1>18 DEF Install, Threads
        <3>2. CASE t = "acq"
            BY <2>1, <3>1, <3>2 DEF Reloaded, Goto
        <3>3. CASE t = "web"
            BY <2>1, <3>1, <3>3 DEF Reloaded, Answer, Goto
        <3> QED
            BY <3>1, <3>2, <3>3
    <2>4. Versions' /\ NamesToInstall'
        BY <1>1, <1>3, <2>2, <2>3 DEF Versions, NamesToInstall, Threads
    <2>5. CASE server = NoServer
        BY <2>1, <2>4, <2>5 DEF InServer
    <2>6. CASE server # NoServer
        <3>1. /\ server'.name = nm[t] /\ server'.port = current
              /\ server'.running = server.running
            BY <2>1, <2>6 DEF Candidate
        <3>2. CASE t = "web"
            BY <1>1, <1>3, <2>2, <2>3, <2>4, <2>6, <3>1, <3>2 DEF NamesToInstall, InServer
        <3>3. CASE t = "acq"
            <4>1. applied # conf.version
                BY <1>1, <1>3, <2>2, <2>3, <3>3 DEF Versions
            <4>2. configured.version = conf.version => nm[t] = conf.name
                BY <1>3, <2>2, <2>3, <3>3 DEF NamesToInstall
            <4> QED
                BY <2>2, <3>1, <4>1, <4>2, <2>4 DEF InServer
        <3> QED
            BY <2>4, <3>2, <3>3 DEF Threads
    <2> QED
        BY <2>4, <2>5, <2>6
<1>19. CASE Snapshot
    <2>1. failures = 0 /\ UNCHANGED <<conf, confFile, server, current, applied, nm>>
        BY <1>19 DEF Snapshot
    <2>2. /\ pc' = [pc EXCEPT !["acq"] = "compare"]
          /\ configured' = conf /\ conf.version # applied
        BY <1>19 DEF Snapshot, Goto
    <2>3. applied < conf.version
        BY <1>1, <1>3, <2>1, <2>2 DEF Versions
    <2> QED
        BY <1>1, <1>3, <2>1, <2>2, <2>3 DEF Versions, NamesToInstall, InServer
<1>20. CASE Compare
    <2>1. failures = 0 /\ UNCHANGED <<conf, confFile, server, current, configured, applied, nm>>
        BY <1>20 DEF Compare
    <2>2. /\ pc["acq"] = "compare"
          /\ pc' = [pc EXCEPT !["acq"] = IF server # NoServer /\ server.name # configured.name
                                         THEN "load" ELSE "endpoint"]
        BY <1>20 DEF Compare, Goto
    <2>3. Versions' /\ NamesToInstall'
        BY <1>1, <1>3, <2>1, <2>2 DEF Versions, NamesToInstall
    <2>4. InServer'
        BY <1>1, <1>3, <2>1, <2>2 DEF Versions, InServer
    <2> QED
        BY <2>3, <2>4
<1>21. CASE Endpoint
    <2>1. Succeed
        BY <1>2, <1>21 DEF Endpoint, UpdateEndpoint
    <2>2. failures = 0 /\ UNCHANGED <<conf, confFile, configured, nm>>
        BY <1>21, <2>1 DEF Endpoint, Succeed
    <2>3. /\ pc["acq"] = "endpoint" /\ pc' = [pc EXCEPT !["acq"] = "idle"]
          /\ applied' = configured.version
        BY <1>21 DEF Endpoint, Goto
    <2>4. Versions' /\ NamesToInstall'
        BY <1>1, <1>3, <2>2, <2>3 DEF Versions, NamesToInstall
    <2>5. applied' = conf.version => configured = conf
        BY <1>3, <2>2, <2>3 DEF Versions
    <2>6. ASSUME server # NoServer
          PROVE  /\ server'.name = server.name
                 /\ server'.running => /\ server'.port = current'
                                       /\ current' = configured.port
        <3>1. server \in Server /\ (server.running => server.port = current)
            BY <1>1, <1>3, <2>2, <2>6 DEF InServer
        <3>2. CASE server' = [server EXCEPT !.running = FALSE]
            BY <3>1, <3>2 DEF Server
        <3>3. CASE /\ server' = [server EXCEPT !.port = configured.port]
                   /\ current' = configured.port
            BY <3>1, <3>3 DEF Server
        <3>4. CASE ~server.running /\ UNCHANGED server
            BY <3>4
        <3> QED
            BY <1>2, <1>21, <2>6, <3>2, <3>3, <3>4 DEF Endpoint, UpdateEndpoint
    <2>7. server = NoServer => server' = NoServer
        BY <1>21 DEF Endpoint
    <2>8. InServer'
        BY <1>1, <1>3, <2>2, <2>3, <2>5, <2>6, <2>7 DEF InServer
    <2> QED
        BY <2>4, <2>8
<1>22. CASE Restart
    <2>1. failures = 0 /\ confFile' = confFile /\ conf' = confFile /\ configured' = configured
        BY <1>22 DEF Restart
    <2>2. /\ applied' = 0 /\ current' = confFile.port /\ server' = Started(confFile)
          /\ pc'["web"] = "idle" /\ pc'["acq"] = "idle"
        BY <1>1, <1>22 DEF Restart
    <2>3. confFile = conf /\ conf.version >= 1 /\ conf.version # 0
        BY <1>1, <1>3, <2>1 DEF Versions
    <2>4. Versions' /\ NamesToInstall'
        BY <1>1, <1>3, <2>1, <2>2, <2>3 DEF Versions, NamesToInstall
    <2>5. server' # NoServer => server'.port = current'
        BY <2>2 DEF Started
    <2>6. InServer'
        BY <2>1, <2>2, <2>3, <2>5 DEF InServer
    <2> QED
        BY <2>4, <2>6
<1>23. CASE UNCHANGED vars
    BY <1>4, <1>23 DEF vars
<1> QED
    BY <1>8, <1>9, <1>10, <1>11, <1>12, <1>13, <1>14, <1>15, <1>16, <1>17, <1>18, <1>19,
       <1>20, <1>21, <1>22, <1>23 DEF Next, Web, Reload, Acquisition

(* As long as no step fails, the server has the configured name and port whenever no
   request is being handled and the acquisition thread has nothing to apply, although
   both threads rebuild it and the acquisition thread may install a name that the web
   thread has changed since it was read. *)
THEOREM ConfigurationsFollowed == Spec => []ConfigurationFollowed
<1>1. ASSUME Init PROVE Following
    <2>1. /\ conf.version = 1 /\ confFile = conf /\ configured = conf /\ applied = 0
          /\ current = conf.port /\ server = Started(conf)
          /\ pc["web"] = "idle" /\ pc["acq"] = "idle"
        BY <1>1 DEF Init, Threads
    <2>2. Versions /\ NamesToInstall
        BY <2>1 DEF Versions, NamesToInstall
    <2>3. InServer
        BY <2>1 DEF InServer, Started
    <2> QED
        BY <2>2, <2>3 DEF Following
<1>2. TypeOK /\ Following => ConfigurationFollowed
    BY DEF Following, ConfigurationFollowed, Quiet, InServer
<1> QED
    BY <1>1, <1>2, IecTypeCorrect, NextFollowing, PTL DEF Spec
=============================================================================
