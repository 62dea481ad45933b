------------------------------ MODULE IecModel ------------------------------
(***************************************************************************)
(* The model the IEC 61850 server runs: the engineering file (ICD) that a  *)
(* user uploads or restores, the configuration that names the device,      *)
(* enables the server and gives its port, and the two threads that rebuild *)
(* the server from them.  The web thread does so at the end of an upload   *)
(* or a restore, the acquisition thread when it finds a new version of the *)
(* configuration before a cycle.  The web server handles one request at a  *)
(* time; iec_mutex_ is held only while servers are exchanged.              *)
(*                                                                         *)
(* A step ends where a file, the configuration or the server changes and   *)
(* where one of them has been read.  A write may fail after its rename.    *)
(***************************************************************************)
EXTENDS Naturals

CONSTANTS Icds,          \* contents of engineering files that pass validation
          Packaged,      \* the one that comes with the release
          Names,         \* IED names
          NameOf,        \* the name an engineering file gives the device
          Ports,         \* ports of the MMS server
          NoFile,        \* no such file
          NoServer,      \* the process was started with the server disabled
          MaxRequests,   \* bound on the requests
          MaxFailures,   \* bound on the steps that fail
          MaxCrashes     \* bound on the restarts of the process

ASSUME FileAssumption ==
    /\ Packaged \in Icds /\ NoFile \notin Icds
    /\ NameOf \in [Icds -> Names]
    /\ NoServer \notin [icd : Icds, name : Names, port : Ports, running : BOOLEAN]

ASSUME BoundAssumption ==
    MaxRequests \in Nat /\ MaxFailures \in Nat /\ MaxCrashes \in Nat

VARIABLES
    (* files *)
    override, previous,  \* UHFPD1.icd in the state directory and its .previous
    confFile,            \* the configuration file
    (* memory of the process *)
    conf,                \* snapshot_ of ConfigStore
    server,              \* iec61850_server_
    current,             \* iec_current_port_
    (* threads *)
    pc,                  \* what the web and the acquisition thread do next
    def, nm,             \* definition and ied_name in their reload_iec61850_model
    target,              \* the content to be written; NoFile removes the file
    before, beforeName,  \* before_current and before_configured_ied_name
    answer,              \* how the latest request was answered
    configured, applied, \* the acquisition thread's snapshot and applied_version
    (* history and bounds *)
    disabled,            \* the configuration has stopped this server
    requests, failures, crashes

files == <<override, previous, confFile>>
web == <<target, before, beforeName, answer>>
acq == <<configured, applied>>
bounds == <<requests, failures, crashes>>
vars == <<files, conf, server, current, pc, def, nm, web, acq, disabled, bounds>>

-----------------------------------------------------------------------------
(* Values *)

Threads == {"web", "acq"}
Config == [version : Nat, enabled : BOOLEAN, name : Names, port : Ports]
Server == [icd : Icds, name : Names, port : Ports, running : BOOLEAN]
Steps == {"idle", "save", "write", "set_name", "load", "name", "install",
          "undo_files", "undo_name", "compare", "endpoint"}

(* read_current of the store, load_iec61850_definition of the runtime *)
Current == IF override = NoFile THEN Packaged ELSE override

Succeed == UNCHANGED failures

Fail(n) ==
    /\ failures + n <= MaxFailures
    /\ failures' = failures + n

Goto(t, step) == pc' = [pc EXCEPT ![t] = step]

Answer(a) == Goto("web", "idle") /\ answer' = a

(* The runtime's constructor and start, with what the files hold *)
Started(c) ==
    IF c.enabled THEN [icd |-> Current, name |-> c.name, port |-> c.port, running |-> TRUE]
    ELSE NoServer

Init ==
    /\ override \in Icds \cup {NoFile}
    /\ previous = NoFile
    /\ \E p \in Ports :
          conf = [version |-> 1, enabled |-> TRUE, name |-> NameOf[Current], port |-> p]
    /\ confFile = conf
    /\ server = Started(conf)
    /\ current = conf.port
    /\ pc = [t \in Threads |-> "idle"]
    /\ def = [t \in Threads |-> Packaged]
    /\ nm = [t \in Threads |-> conf.name]
    /\ target = NoFile
    /\ before = NoFile /\ beforeName = conf.name
    /\ answer = "none"
    /\ configured = conf /\ applied = 0
    /\ disabled = FALSE
    /\ requests = 0 /\ failures = 0 /\ crashes = 0

-----------------------------------------------------------------------------
(* Requests *)

Begin ==
    /\ pc["web"] = "idle"
    /\ requests < MaxRequests
    /\ requests' = requests + 1
    /\ answer' = "none"

Remember == before' = override /\ beforeName' = conf.name

(* PUT of an engineering file: what it replaces is saved first *)
Upload(c) ==
    /\ Begin /\ Remember
    /\ target' = c
    /\ Goto("web", IF override = NoFile THEN "write" ELSE "save")
    /\ UNCHANGED <<files, conf, server, current, def, nm, acq, disabled, failures, crashes>>

(* POST of a restore: the previous file and the current one change places, or the
   packaged one is in force again *)
Restore ==
    /\ override # NoFile
    /\ Begin /\ Remember
    /\ target' = previous
    /\ Goto("web", IF previous = NoFile THEN "write" ELSE "save")
    /\ UNCHANGED <<files, conf, server, current, def, nm, acq, disabled, failures, crashes>>

(* ConfigStore's write of a new snapshot; its result, and what the file may hold *)
Store(c) ==
    \/ /\ Succeed
       /\ confFile' = c
       /\ conf' = c
    \/ /\ Fail(1)
       /\ confFile' \in {confFile, c}
       /\ UNCHANGED conf

(* PUT of a configuration with the version in force *)
Save(enabled, name, port) ==
    /\ Begin
    /\ Store([version |-> conf.version + 1, enabled |-> enabled, name |-> name, port |-> port])
    /\ UNCHANGED <<override, previous, server, current, pc, def, nm, target, before,
                   beforeName, acq, disabled, crashes>>

-----------------------------------------------------------------------------
(* The rest of an upload or a restore *)

SavePrevious ==
    /\ pc["web"] = "save"
    /\ \/ /\ Succeed
          /\ previous' = override
          /\ Goto("web", "write")
          /\ UNCHANGED answer
       \/ /\ Fail(1)
          /\ previous' \in {previous, override}
          /\ Answer("error")
    /\ UNCHANGED <<override, confFile, conf, server, current, def, nm, target, before,
                   beforeName, acq, disabled, requests, crashes>>

WriteOverride ==
    /\ pc["web"] = "write"
    /\ \/ /\ Succeed
          /\ override' = target
          /\ Goto("web", "set_name")
          /\ UNCHANGED answer
       \/ /\ Fail(1)
          /\ override' \in {override, target}
          /\ Answer("error")
    /\ UNCHANGED <<previous, confFile, conf, server, current, def, nm, target, before,
                   beforeName, acq, disabled, requests, crashes>>

Renamed(n) == [conf EXCEPT !.version = @ + 1, !.name = n]

(* set_iec_ied_name with the name in the file that is now current *)
SetName ==
    LET n == NameOf[Current]
    IN  /\ pc["web"] = "set_name"
        /\ \/ /\ conf.name = n
              /\ Succeed
              /\ Goto("web", "load")
              /\ UNCHANGED <<conf, confFile>>
           \/ /\ conf.name # n
              /\ Store(Renamed(n))
              /\ Goto("web", IF conf' = conf THEN "undo_files" ELSE "load")
        /\ UNCHANGED <<override, previous, server, current, def, nm, web, acq, disabled,
                       requests, crashes>>

(* Mutant: the way back is taken from the previous file. *)
UndoFromPrevious ==
    /\ pc["web"] = "undo_files"
    /\ Succeed
    /\ override' = previous
    /\ Goto("web", "undo_name")
    /\ UNCHANGED <<previous, confFile, conf, server, current, def, nm, web, acq, disabled,
                   requests, crashes>>

(* replace with the content before the request, or discard_override; a failure is
   ignored *)
UndoFiles ==
    LET saved == IF before # NoFile /\ override # NoFile THEN override ELSE previous
    IN  /\ pc["web"] = "undo_files"
        /\ \/ /\ Succeed
              /\ previous' = saved
              /\ override' = before
           \/ /\ Fail(1)
              /\ \/ previous' \in {previous, saved} /\ UNCHANGED override
                 \/ previous' = saved /\ override' = before
        /\ Goto("web", "undo_name")
        /\ UNCHANGED <<confFile, conf, server, current, def, nm, web, acq, disabled,
                       requests, crashes>>

(* set_iec_ied_name with the name before the request; there is nothing to undo if it
   was the change of the name that failed *)
UndoName ==
    /\ pc["web"] = "undo_name"
    /\ \/ /\ conf.name = beforeName
          /\ Succeed
          /\ UNCHANGED <<conf, confFile>>
       \/ /\ conf.name # beforeName
          /\ Store(Renamed(beforeName))
    /\ Answer("rejected")
    /\ UNCHANGED <<override, previous, server, current, def, nm, target, before, beforeName,
                   acq, disabled, requests, crashes>>

-----------------------------------------------------------------------------
(* reload_iec61850_model, in either thread *)

Load(t) ==
    /\ pc[t] = "load"
    /\ def' = [def EXCEPT ![t] = Current]
    /\ Goto(t, "name")
    /\ UNCHANGED <<files, conf, server, current, nm, web, acq, disabled, bounds>>

ReadName(t) ==
    /\ pc[t] = "name"
    /\ nm' = [nm EXCEPT ![t] = conf.name]
    /\ Goto(t, "install")
    /\ UNCHANGED <<files, conf, server, current, def, web, acq, disabled, bounds>>

(* What the caller does with the result *)
Reloaded(t, ok) ==
    IF t = "acq" THEN Goto("acq", "endpoint") /\ UNCHANGED answer
    ELSE IF ok THEN Answer("ok")
    ELSE Goto("web", "undo_files") /\ UNCHANGED answer

Candidate(t) ==
    [icd |-> def[t], name |-> nm[t], port |-> current, running |-> server.running]

(* Mutant: a candidate that does not start leaves nothing running. *)
InstallUnrestored(t) ==
    /\ pc[t] = "install"
    /\ \/ /\ Succeed
          /\ server' = IF server = NoServer THEN server ELSE Candidate(t)
          /\ Reloaded(t, TRUE)
       \/ /\ server # NoServer
          /\ Fail(1)
          /\ server' = [server EXCEPT !.running = FALSE]
          /\ Reloaded(t, FALSE)
    /\ UNCHANGED <<files, conf, current, def, nm, target, before, beforeName, acq, disabled,
                   requests, crashes>>

(* Under iec_mutex_: the candidate is built, the server stopped, the candidate
   started.  If the candidate cannot be built or started, the server is started
   again, which may fail as well. *)
Install(t) ==
    /\ pc[t] = "install"
    /\ \/ /\ Succeed
          /\ server' = IF server = NoServer THEN server ELSE Candidate(t)
          /\ Reloaded(t, TRUE)
       \/ /\ server # NoServer
          /\ Fail(1)
          /\ UNCHANGED server
          /\ Reloaded(t, FALSE)
       \/ /\ server # NoServer /\ server.running
          /\ Fail(2)
          /\ server' = [server EXCEPT !.running = FALSE]
          /\ Reloaded(t, FALSE)
    /\ UNCHANGED <<files, conf, current, def, nm, target, before, beforeName, acq, disabled,
                   requests, crashes>>

-----------------------------------------------------------------------------
(* apply_runtime_configuration in the acquisition thread *)

Snapshot ==
    /\ pc["acq"] = "idle"
    /\ conf.version # applied
    /\ configured' = conf
    /\ Goto("acq", "compare")
    /\ UNCHANGED <<files, conf, server, current, def, nm, web, applied, disabled, bounds>>

Compare ==
    /\ pc["acq"] = "compare"
    /\ Goto("acq", IF server # NoServer /\ server.name # configured.name
                   THEN "load" ELSE "endpoint")
    /\ UNCHANGED <<files, conf, server, current, def, nm, web, acq, disabled, bounds>>

(* update_endpoint of a running server: to the new port, back to the old one, or
   to no port at all *)
UpdateEndpoint ==
    \/ /\ Succeed
       /\ server' = [server EXCEPT !.port = configured.port]
       /\ current' = configured.port
    \/ /\ server.port # configured.port
       /\ UNCHANGED current
       /\ \/ Fail(1) /\ UNCHANGED server
          \/ Fail(2) /\ server' = [server EXCEPT !.running = FALSE]

(* Mutant: the version that is in force by now counts as applied. *)
EndpointNewest ==
    /\ pc["acq"] = "endpoint"
    /\ IF server # NoServer /\ configured.enabled /\ server.running
       THEN UpdateEndpoint
       ELSE Succeed /\ UNCHANGED <<server, current>>
    /\ applied' = conf.version
    /\ Goto("acq", "idle")
    /\ UNCHANGED <<files, conf, def, nm, web, configured, disabled, requests, crashes>>

(* A server that is not running is not started here. *)
Endpoint ==
    /\ pc["acq"] = "endpoint"
    /\ \/ /\ server # NoServer /\ server.running /\ ~configured.enabled
          /\ Succeed
          /\ server' = [server EXCEPT !.running = FALSE]
          /\ disabled' = TRUE
          /\ UNCHANGED current
       \/ /\ server # NoServer /\ server.running /\ configured.enabled
          /\ UpdateEndpoint
          /\ UNCHANGED disabled
       \/ /\ server # NoServer /\ ~server.running
          /\ Succeed
          /\ current' = IF configured.enabled THEN configured.port ELSE current
          /\ UNCHANGED <<server, disabled>>
       \/ /\ server = NoServer
          /\ Succeed
          /\ UNCHANGED <<server, current, disabled>>
    /\ applied' = configured.version
    /\ Goto("acq", "idle")
    /\ UNCHANGED <<files, conf, def, nm, web, configured, requests, crashes>>

-----------------------------------------------------------------------------
(* The process dies and is started again with what the files hold. *)
Restart ==
    /\ crashes < MaxCrashes
    /\ crashes' = crashes + 1
    /\ conf' = confFile
    /\ server' = Started(confFile)
    /\ current' = confFile.port
    /\ pc' = [t \in Threads |-> "idle"]
    /\ answer' = "none"
    /\ applied' = 0
    /\ disabled' = FALSE
    /\ UNCHANGED <<files, def, nm, target, before, beforeName, configured, requests, failures>>

Web ==
    \/ \E c \in Icds : Upload(c)
    \/ Restore
    \/ \E e \in BOOLEAN, n \in Names, p \in Ports : Save(e, n, p)
    \/ SavePrevious \/ WriteOverride \/ SetName \/ UndoFiles \/ UndoName

Reload == \E t \in Threads : Load(t) \/ ReadName(t) \/ Install(t)

Acquisition == Snapshot \/ Compare \/ Endpoint

Next == Web \/ Reload \/ Acquisition \/ Restart

Spec == Init /\ [][Next]_vars

-----------------------------------------------------------------------------
(* What is checked *)

(* The type of the state; a server always has a definition, from an uploaded file
   or from the packaged one. *)
TypeOK ==
    /\ override \in Icds \cup {NoFile} /\ previous \in Icds \cup {NoFile}
    /\ confFile \in Config /\ conf \in Config /\ configured \in Config
    /\ server \in Server \cup {NoServer}
    /\ current \in Ports
    /\ pc \in [Threads -> Steps]
    /\ def \in [Threads -> Icds] /\ nm \in [Threads -> Names]
    /\ target \in Icds \cup {NoFile} /\ before \in Icds \cup {NoFile}
    /\ beforeName \in Names
    /\ answer \in {"none", "ok", "error", "rejected"}
    /\ applied \in Nat
    /\ disabled \in BOOLEAN
    /\ requests \in Nat /\ failures \in Nat /\ crashes \in Nat

(* No request is being handled and the acquisition thread has nothing to apply. *)
Quiet == pc = [t \in Threads |-> "idle"] /\ applied = conf.version

(* As long as no step fails, the server ends up with the configured name and port,
   although both threads rebuild it and each may install what it has read before
   the other changed it. *)
ConfigurationFollowed ==
    Quiet /\ failures = 0 /\ server # NoServer
        => server.name = conf.name /\ (server.running => server.port = conf.port)

(* One failure, wherever it strikes, does not stop a server that the configuration
   leaves enabled: reload and update_endpoint start the previous one again. *)
ServerSurvives ==
    server # NoServer /\ ~disabled /\ failures <= 1 => server.running

(* A request that is rejected because of one failure leaves the file a restart
   would load and the configured name as they were before it. *)
RejectionUndone ==
    answer = "rejected" /\ failures <= 1 => override = before /\ conf.name = beforeName

=============================================================================
