----------------------------- MODULE WebSocket -----------------------------
(***************************************************************************)
(* The connections of the web server: the slots of HTTP and of WebSocket   *)
(* connections, the thread that serves a request and hands a WebSocket     *)
(* over to a thread of its own, the telemetry loop of that thread, and the *)
(* change of the listening port.                                           *)
(*                                                                         *)
(* A frame is its kind and what it tells; of its bytes only matters        *)
(* whether none, some or all have been sent.  web[c].got is what the peer  *)
(* has learnt from whole frames.                                           *)
(***************************************************************************)
EXTENDS ServingView, FiniteSets

CONSTANTS WebClients,    \* possible connections
          MaxHttp,       \* kMaxHttpConnections
          MaxWebSockets, \* kMaxWebSocketConnections
          MaxInputs      \* bound on frames from peers

ASSUME WebAssumption ==
    /\ IsFiniteSet(WebClients)
    /\ MaxHttp \in Nat \ {0} /\ MaxWebSockets \in Nat \ {0}
    /\ MaxInputs \in Nat

VARIABLES
    web,        \* the threads of the connections
    httpCount,  \* active_http_count_
    wsCount,    \* active_websocket_count_
    webPort,    \* port_, where the server listens
    webWanted,  \* the configured version and port
    webApplied, \* applied_config_version
    inputs      \* frames from peers so far

webServer == <<httpCount, wsCount>>
webEndpoint == <<webPort, webWanted, webApplied>>
webVars == <<web, webServer, webEndpoint, inputs>>

Frame(kind) == [kind |-> kind, generation |-> generation, availability |-> availability]
Bare(kind) == [kind |-> kind, generation |-> 0, availability |-> "invalid"]
NoFrame == Bare("none")

NoConnection ==
    [serve |-> "none", at |-> "none", out |-> NoFrame, part |-> FALSE,
     last |-> 0, lastAvailability |-> "none", told |-> FALSE, closing |-> FALSE,
     got |-> NoFrame, broken |-> FALSE, lost |-> FALSE]

WebInit ==
    /\ web = [c \in WebClients |-> NoConnection]
    /\ httpCount = 0 /\ wsCount = 0 /\ inputs = 0
    /\ webPort = FirstPort
    /\ webWanted = [version |-> 1, port |-> webPort] /\ webApplied = 1

Set(c, r) == web' = [web EXCEPT ![c] = r]

----------------------------------------------------------------------------
(* run and serve_client *)

(* A connection beyond the limit is closed at once. *)
HttpAccept(c) ==
    /\ web[c].serve = "none" /\ web[c].at = "none"
    /\ httpCount < MaxHttp
    /\ httpCount' = httpCount + 1
    /\ Set(c, [NoConnection EXCEPT !.serve = "serving"])
    /\ UNCHANGED <<view, faults, wsCount, webEndpoint, inputs>>

(* The TLS handshake fails, or any request but an upgrade *)
HttpAnswered(c) ==
    /\ web[c].serve = "serving"
    /\ Set(c, [web[c] EXCEPT !.serve = "leaving"])
    /\ UNCHANGED <<view, faults, webServer, webEndpoint, inputs>>

(* GET /ws/v1/telemetry, with its slot or refused for want of one *)
Upgrade(c) ==
    /\ web[c].serve = "serving"
    /\ IF wsCount < MaxWebSockets
       THEN wsCount' = wsCount + 1 /\ Set(c, [web[c] EXCEPT !.serve = "handshake"])
       ELSE UNCHANGED wsCount /\ Set(c, [web[c] EXCEPT !.serve = "leaving"])
    /\ UNCHANGED <<view, faults, httpCount, webEndpoint, inputs>>

(* Mutant: the slot is not given back. *)
UpgradeFailsKept(c) ==
    /\ web[c].serve = "handshake"
    /\ Fault
    /\ Set(c, [web[c] EXCEPT !.serve = "leaving"])
    /\ UNCHANGED <<view, webServer, webEndpoint, inputs>>

(* The answer cannot be sent, or no thread be created *)
UpgradeFails(c) ==
    /\ web[c].serve = "handshake"
    /\ Fault
    /\ wsCount' = wsCount - 1
    /\ Set(c, [web[c] EXCEPT !.serve = "leaving"])
    /\ UNCHANGED <<view, httpCount, webEndpoint, inputs>>

(* The thread of the WebSocket starts while this one ends. *)
HandOver(c) ==
    /\ web[c].serve = "handshake"
    /\ Set(c, [web[c] EXCEPT !.serve = "leaving", !.at = "input"])
    /\ UNCHANGED <<view, faults, webServer, webEndpoint, inputs>>

HttpLeave(c) ==
    /\ web[c].serve = "leaving"
    /\ httpCount' = httpCount - 1
    /\ Set(c, [web[c] EXCEPT !.serve = "none"])
    /\ UNCHANGED <<view, faults, wsCount, webEndpoint, inputs>>

----------------------------------------------------------------------------
(* run_websocket: one iteration is input, then update and send. *)

Telling == {"telemetry", "health"}

(* output = frame: what was pending is gone, sent in part or not at all. *)
Output(r, frame) ==
    [r EXCEPT !.out = frame, !.part = FALSE, !.broken = @ \/ r.part,
              !.got = IF r.part THEN NoFrame ELSE @,
              !.lost = frame.kind \notin Telling /\ (@ \/ r.out.kind \in Telling)]

WsQuiet(c) ==
    /\ web[c].at = "input"
    /\ Set(c, [web[c] EXCEPT !.at = "send"])
    /\ UNCHANGED <<view, faults, webServer, webEndpoint, inputs>>

(* consume_websocket_input: a ping is answered, a close is returned.  It takes all
   complete frames of one receive; each answer replaces the one before it, so
   that the last ping or the close decides what several of them leave. *)
WsInput(c) ==
    /\ web[c].at = "input" /\ inputs < MaxInputs
    /\ inputs' = inputs + 1
    /\ \/ Set(c, [Output(web[c], Bare("pong")) EXCEPT !.at = "send"])
       \/ Set(c, [Output(web[c], Bare("close")) EXCEPT !.at = "send", !.closing = TRUE])
    /\ UNCHANGED <<view, faults, webServer, webEndpoint>>

(* A malformed frame, too much input, or the peer is gone *)
WsBroken(c) ==
    /\ web[c].at = "input"
    /\ Set(c, [web[c] EXCEPT !.at = "ending"])
    /\ UNCHANGED <<view, faults, webServer, webEndpoint, inputs>>

(* Mutant: only the generation decides. *)
UpdatedByGeneration(r) ==
    IF r.closing \/ generation = 0 \/ generation = r.last THEN r
    ELSE [Output(r, Frame("telemetry")) EXCEPT !.last = generation, !.told = TRUE]

(* A new generation or availability is told with the snapshot if there is
   one, and otherwise, as at the beginning, with the health alone. *)
Updated(r) ==
    LET changed == r.lastAvailability # availability
        new == IF generation # 0 /\ (generation # r.last \/ changed)
               THEN [Output(r, Frame("telemetry")) EXCEPT !.last = generation, !.told = TRUE]
               ELSE IF ~r.told \/ changed
                    THEN [Output(r, Frame("health")) EXCEPT !.told = TRUE]
                    ELSE r
    IN IF r.closing THEN r ELSE [new EXCEPT !.lastAvailability = availability]

(* Everything pending is sent, or nothing was. *)
WsSendAll(c) ==
    /\ web[c].at = "send"
    /\ LET r == Updated(web[c])
       IN Set(c, [r EXCEPT !.out = NoFrame, !.part = FALSE,
                           !.got = IF r.out.kind \in Telling /\ ~r.broken THEN r.out ELSE @,
                           !.at = IF r.closing THEN "ending" ELSE "input"])
    /\ UNCHANGED <<view, faults, webServer, webEndpoint, inputs>>

(* The peer does not take everything, or nothing. *)
WsSendPart(c) ==
    /\ web[c].at = "send"
    /\ LET r == Updated(web[c])
       IN /\ r.out.kind # "none"
          /\ \E part \in {r.part, TRUE} : Set(c, [r EXCEPT !.part = part, !.at = "input"])
    /\ UNCHANGED <<view, faults, webServer, webEndpoint, inputs>>

WsSendFails(c) ==
    /\ web[c].at = "send" /\ Updated(web[c]).out.kind # "none"
    /\ Set(c, [web[c] EXCEPT !.at = "ending"])
    /\ UNCHANGED <<view, faults, webServer, webEndpoint, inputs>>

WsEnd(c) ==
    /\ web[c].at = "ending"
    /\ wsCount' = wsCount - 1
    /\ Set(c, [NoConnection EXCEPT !.serve = web[c].serve])
    /\ UNCHANGED <<view, faults, httpCount, webEndpoint, inputs>>

----------------------------------------------------------------------------
(* The listener *)

SaveWebPort ==
    /\ webWanted.version <= MaxVersions
    /\ \E port \in Ports : webWanted' = [version |-> webWanted.version + 1, port |-> port]
    /\ UNCHANGED <<view, faults, web, webServer, webPort, webApplied, inputs>>

(* A port that cannot be opened is tried again in the next iteration. *)
ReloadWeb ==
    /\ webApplied # webWanted.version
    /\ \/ NoFault /\ webPort' = webWanted.port /\ webApplied' = webWanted.version
       \/ webWanted.port # webPort /\ Fault /\ UNCHANGED <<webPort, webApplied>>
    /\ UNCHANGED <<view, web, webServer, webWanted, inputs>>

WebThread(c) ==
    \/ HttpAnswered(c) \/ Upgrade(c) \/ UpgradeFails(c) \/ HandOver(c) \/ HttpLeave(c)
    \/ WsQuiet(c) \/ WsInput(c) \/ WsBroken(c)
    \/ WsSendAll(c) \/ WsSendPart(c) \/ WsSendFails(c) \/ WsEnd(c)

WebNext == \E c \in WebClients : HttpAccept(c) \/ WebThread(c)
ListenerNext == SaveWebPort \/ ReloadWeb

----------------------------------------------------------------------------
Frames == [kind : {"none", "pong", "close"} \cup Telling,
           generation : 0..MaxGeneration, availability : Availabilities]

WebConnections ==
    [serve : {"none", "serving", "handshake", "leaving"},
     at : {"none", "input", "send", "ending"},
     out : Frames, part : BOOLEAN, last : 0..MaxGeneration,
     lastAvailability : Availabilities \cup {"none"}, told : BOOLEAN, closing : BOOLEAN,
     got : Frames, broken : BOOLEAN, lost : BOOLEAN]

WebTypeOK ==
    /\ web \in [WebClients -> WebConnections]
    /\ httpCount \in 0..MaxHttp /\ wsCount \in 0..MaxWebSockets
    /\ inputs \in 0..MaxInputs
    /\ webPort \in Ports /\ webWanted \in [version : 1..MaxVersions + 1, port : Ports]
    /\ webApplied \in 1..webWanted.version

(* Both counters are the numbers of threads that hold a slot, on every path:
   no slot leaks, and none is given back twice. *)
SlotsExact ==
    /\ httpCount = Cardinality({c \in WebClients : web[c].serve # "none"})
    /\ wsCount = Cardinality({c \in WebClients : web[c].serve = "handshake" \/ web[c].at # "none"})

(* A new frame replaces only frames of which nothing has been sent: the peer
   never sees the beginning of a frame without its end. *)
WholeFrames == \A c \in WebClients : ~web[c].broken

(* A connected peer learns the newest generation and availability, unless the
   answer to its own ping has replaced them or the stream is broken. *)
TelemetryDelivered ==
    \A c \in WebClients :
        []<>\/ web[c].at = "none" \/ web[c].broken \/ web[c].lost
            \/ web[c].got.generation = generation /\ web[c].got.availability = availability
=============================================================================
