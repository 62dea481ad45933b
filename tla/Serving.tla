------------------------------ MODULE Serving ------------------------------
(***************************************************************************)
(* The servers that show the newest snapshot: the web server with its      *)
(* WebSockets and the Modbus TCP and RTU servers.  They run side by side   *)
(* and share nothing but the snapshot store, which they only read: what    *)
(* one server can do does not depend on the others, and in one behaviour   *)
(* the peers talk to one of them, front.  The same holds for the           *)
(* connections of the web server and its listener, whose port may change.  *)
(* Only WebSockets look at the availability, so it changes only for them.  *)
(***************************************************************************)
EXTENDS WebSocket, ModbusServers

VARIABLE front

vars == <<view, faults, webVars, tcpVars, rtuVars, front>>

Init ==
    /\ ViewInit /\ WebInit /\ TcpInit /\ RtuInit
    /\ front \in {"web", "listener", "tcp", "rtu"}

Next ==
    /\ UNCHANGED front
    /\ \/ Publish /\ UNCHANGED <<faults, webVars, tcpVars, rtuVars>>
       \/ front = "web" /\ RecordFailure /\ UNCHANGED <<faults, webVars, tcpVars, rtuVars>>
       \/ front = "web" /\ WebNext /\ UNCHANGED <<tcpVars, rtuVars>>
       \/ front = "listener" /\ ListenerNext /\ UNCHANGED <<tcpVars, rtuVars>>
       \/ front = "tcp" /\ TcpNext /\ UNCHANGED <<webVars, rtuVars>>
       \/ front = "rtu" /\ RtuNext /\ UNCHANGED <<webVars, tcpVars>>

Spec == Init /\ [][Next]_vars

Web(A) == front = "web" /\ UNCHANGED front /\ A /\ UNCHANGED <<tcpVars, rtuVars>>
Listener(A) == front = "listener" /\ UNCHANGED front /\ A /\ UNCHANGED <<tcpVars, rtuVars>>
Tcp(A) == front = "tcp" /\ UNCHANGED front /\ A /\ UNCHANGED <<webVars, rtuVars>>

(* Every thread goes on: a loop is never blocked for longer than its poll.  New
   options are looked for before every poll, so never passed over for ever.  A
   send has no deadline: that the peer of a WebSocket takes what is pending in
   the end is assumed of the peer, which stays connected and keeps reading. *)
FairSpec ==
    /\ Spec
    /\ \A c \in WebClients :
          /\ WF_vars(Web(WebThread(c)))
          /\ SF_vars(Web(WsSendAll(c)))
    /\ WF_vars(Listener(ReloadWeb))
    /\ \A c \in TcpClients : WF_vars(Tcp(TcpHandle(c)))
    /\ SF_vars(Tcp(TcpReload))

----------------------------------------------------------------------------
TypeOK ==
    /\ generation \in 0..MaxGeneration /\ availability \in Availabilities
    /\ faults \in 0..MaxFaults /\ front \in {"web", "listener", "tcp", "rtu"}
    /\ WebTypeOK /\ TcpTypeOK /\ RtuTypeOK

(* Both servers with a configurable endpoint end up at the one configured
   last, also when the port could not be opened at first. *)
EndpointsFollowed ==
    /\ []<>(webPort = webWanted.port)
    /\ []<>(tcpActive = tcpWanted)
=============================================================================
