--------------------------- MODULE ModbusServers ---------------------------
(***************************************************************************)
(* The Modbus servers of the gateway.                                      *)
(*                                                                         *)
(* TCP: one thread polls the listener and the connections; a request waits *)
(* on the wire until it is complete, all complete requests of one receive  *)
(* are answered before anything else happens, and the answers wait in the  *)
(* output buffer.  The options are replaced by another thread.             *)
(*                                                                         *)
(* RTU: one thread reads bytes of a serial line in chunks of any size and  *)
(* takes every FrameBytes of them for a request.  A byte is <<n, i>>, byte *)
(* i of the frame that carries request n; n is 0 in frames to other units, *)
(* and i is 0 in a byte that belongs to no frame.                          *)
(***************************************************************************)
EXTENDS ServingView, FiniteSets, Sequences

CONSTANTS TcpClients,     \* possible connections
          MaxTcp,         \* max_connections
          Units,          \* unit identifiers
          MaxOutput,      \* kMaximumOutputBytes, in answers
          MaxAsked,       \* bound on requests of one peer
          FrameBytes,     \* kReadRequestBytes
          ReadBytes,      \* size of the buffer of one read
          MaxFrameBytes   \* max_frame_bytes

(* The third: the part of a frame that is left and one read fit into the
   frame limit, as 7 + 256 fit into 512. *)
ASSUME ModbusAssumption ==
    /\ IsFiniteSet(TcpClients) /\ Units # {} /\ MaxAsked \in Nat
    /\ {MaxTcp, MaxOutput, FrameBytes, ReadBytes, MaxFrameBytes} \subseteq Nat \ {0}
    /\ FrameBytes - 1 + ReadBytes <= MaxFrameBytes

VARIABLES
    tcp,          \* the connections: wire, input, output, and what the peer got
    tcpWanted,    \* options_ and options_generation_
    tcpActive,    \* active_options and applied_generation
    rtuWire,      \* bytes not read yet
    rtuInput,     \* input
    rtuAsked,     \* requests to this unit
    rtuAnswered,  \* answers handed to the serial port
    noise         \* a stray byte has been on the line

tcpVars == <<tcp, tcpWanted, tcpActive>>
rtuVars == <<rtuWire, rtuInput, rtuAsked, rtuAnswered, noise>>

NoTcp == [open |-> FALSE, wire |-> <<>>, input |-> <<>>, output |-> <<>>,
          asked |-> 0, got |-> 0, newest |-> 0]

TcpInit ==
    /\ tcp = [c \in TcpClients |-> NoTcp]
    /\ \E unit \in Units : tcpWanted = [unit |-> unit, port |-> FirstPort, version |-> 0]
    /\ tcpActive = tcpWanted

Connected == {c \in TcpClients : tcp[c].open}
SetTcp(c, r) == tcp' = [tcp EXCEPT ![c] = r]

----------------------------------------------------------------------------
(* The peers *)

(* A read for some unit, or a request for which the unit does not matter *)
Requests(id) ==
    [id : {id}, unit : Units, kind : {"read"}]
       \cup [id : {id}, unit : {CHOOSE unit \in Units : TRUE}, kind : {"illegal", "malformed"}]

TcpAsk(c) ==
    /\ tcp[c].open /\ tcp[c].asked < MaxAsked
    /\ \E request \in Requests(tcp[c].asked + 1) :
          SetTcp(c, [tcp[c] EXCEPT !.wire = Append(@, request), !.asked = @ + 1])
    /\ UNCHANGED <<view, faults, tcpWanted, tcpActive>>

----------------------------------------------------------------------------
(* The thread of ModbusTcpServer::run *)

Polling == \A c \in TcpClients : tcp[c].input = <<>>

(* Connections are taken up to the limit; one beyond it is closed at once. *)
TcpAccept(c) ==
    /\ Polling /\ ~tcp[c].open
    /\ Cardinality(Connected) < MaxTcp
    /\ SetTcp(c, [NoTcp EXCEPT !.open = TRUE])
    /\ UNCHANGED <<view, faults, tcpWanted, tcpActive>>

TcpReceive(c) ==
    /\ Polling /\ tcp[c].open
    /\ \E n \in 1..Len(tcp[c].wire) :
          SetTcp(c, [tcp[c] EXCEPT !.input = SubSeq(tcp[c].wire, 1, n),
                                   !.wire = SubSeq(@, n + 1, Len(@))])
    /\ UNCHANGED <<view, faults, tcpWanted, tcpActive>>

(* handle_request, with the newest options and the newest snapshot: the
   generation that is answered, or 0 for an exception. *)
Answer(request) ==
    [id |-> request.id,
     generation |-> IF request.unit = tcpWanted.unit /\ request.kind = "read"
                    THEN generation ELSE 0]

(* A malformed request, or an answer for which there is no room, ends the
   connection. *)
TcpHandle(c) ==
    /\ tcp[c].input # <<>>
    /\ LET request == Head(tcp[c].input)
       IN IF request.kind = "malformed" \/ Len(tcp[c].output) >= MaxOutput
          THEN SetTcp(c, NoTcp)
          ELSE SetTcp(c, [tcp[c] EXCEPT !.input = Tail(@),
                                        !.output = Append(@, Answer(request))])
    /\ UNCHANGED <<view, faults, tcpWanted, tcpActive>>

(* Mutant: the newest answer goes out first. *)
TcpSendNewest(c) ==
    /\ tcp[c].input = <<>> /\ tcp[c].output # <<>>
    /\ LET answer == tcp[c].output[Len(tcp[c].output)]
       IN SetTcp(c, [tcp[c] EXCEPT !.output = SubSeq(@, 1, Len(@) - 1), !.got = answer.id,
                                   !.newest = IF answer.generation = 0 THEN @
                                              ELSE answer.generation])
    /\ UNCHANGED <<view, faults, tcpWanted, tcpActive>>

(* The peer has the next answer complete. *)
TcpSend(c) ==
    /\ tcp[c].input = <<>> /\ tcp[c].output # <<>>
    /\ LET answer == Head(tcp[c].output)
       IN SetTcp(c, [tcp[c] EXCEPT !.output = Tail(@), !.got = answer.id,
                                   !.newest = IF answer.generation = 0 THEN @
                                              ELSE answer.generation])
    /\ UNCHANGED <<view, faults, tcpWanted, tcpActive>>

(* The peer closes, or a call on its socket fails. *)
TcpHangup(c) ==
    /\ Polling /\ tcp[c].open
    /\ SetTcp(c, NoTcp)
    /\ UNCHANGED <<view, faults, tcpWanted, tcpActive>>

(* update_options, from the thread that reloads the configuration *)
UpdateOptions ==
    /\ tcpWanted.version < MaxVersions
    /\ \E unit \in Units, port \in Ports :
          tcpWanted' = [unit |-> unit, port |-> port, version |-> tcpWanted.version + 1]
    /\ UNCHANGED <<view, faults, tcp, tcpActive>>

(* Mutant: new options count as applied before their listener is open. *)
TcpReloadOnce ==
    /\ Polling /\ tcpActive.version # tcpWanted.version
    /\ \/ /\ tcpWanted.port = tcpActive.port /\ tcpActive' = tcpWanted
          /\ NoFault /\ UNCHANGED tcp
       \/ /\ tcpWanted.port # tcpActive.port /\ tcpActive' = tcpWanted
          /\ tcp' = [c \in TcpClients |-> NoTcp] /\ NoFault
       \/ /\ tcpWanted.port # tcpActive.port
          /\ tcpActive' = [tcpActive EXCEPT !.version = tcpWanted.version]
          /\ UNCHANGED tcp /\ Fault
    /\ UNCHANGED <<view, tcpWanted>>

(* New options of the same endpoint are taken over.  A new endpoint is opened
   first: then every connection is closed with the old one.  If it cannot be
   opened the old one stays, and the next iteration tries again. *)
TcpReload ==
    /\ Polling /\ tcpActive.version # tcpWanted.version
    /\ \/ /\ tcpWanted.port = tcpActive.port /\ tcpActive' = tcpWanted
          /\ NoFault /\ UNCHANGED tcp
       \/ /\ tcpWanted.port # tcpActive.port /\ tcpActive' = tcpWanted
          /\ tcp' = [c \in TcpClients |-> NoTcp] /\ NoFault
       \/ /\ tcpWanted.port # tcpActive.port
          /\ UNCHANGED <<tcp, tcpActive>> /\ Fault
    /\ UNCHANGED <<view, tcpWanted>>

TcpNext ==
    \/ \E c \in TcpClients :
          \/ TcpAsk(c) \/ TcpAccept(c) \/ TcpReceive(c) \/ TcpHandle(c)
          \/ TcpSend(c) \/ TcpHangup(c)
    \/ UpdateOptions \/ TcpReload

----------------------------------------------------------------------------
(* The serial line and the thread of ModbusRtuServer::run *)

RtuInit ==
    /\ rtuWire = <<>> /\ rtuInput = <<>>
    /\ rtuAsked = 0 /\ rtuAnswered = 0 /\ noise = FALSE

FrameOf(n) == [i \in 1..FrameBytes |-> <<n, i>>]

RtuAsk ==
    /\ rtuAsked < MaxAsked /\ Len(rtuWire) <= ReadBytes
    /\ rtuWire' = rtuWire \o FrameOf(rtuAsked + 1)
    /\ rtuAsked' = rtuAsked + 1
    /\ UNCHANGED <<view, faults, rtuInput, rtuAnswered, noise>>

(* A request of the same length to another unit of the line *)
RtuOther ==
    /\ Len(rtuWire) <= ReadBytes
    /\ rtuWire' = rtuWire \o FrameOf(0)
    /\ UNCHANGED <<view, faults, rtuInput, rtuAsked, rtuAnswered, noise>>

RtuNoise ==
    /\ ~noise /\ noise' = TRUE
    /\ rtuWire' = Append(rtuWire, <<0, 0>>)
    /\ UNCHANGED <<view, faults, rtuInput, rtuAsked, rtuAnswered>>

(* The groups of FrameBytes in s, and those that are a request to this unit:
   only they have its number and the right checksum. *)
Groups(s) == {SubSeq(s, k * FrameBytes + 1, (k + 1) * FrameBytes) : k \in 0..(Len(s) \div FrameBytes) - 1}
OwnRequests(s) == {group \in Groups(s) : \E n \in 1..MaxAsked : group = FrameOf(n)}

(* Mutant: the rest of the input is dropped with the requests answered. *)
RtuReadDropped ==
    \E k \in 1..ReadBytes :
       /\ k <= Len(rtuWire)
       /\ rtuWire' = SubSeq(rtuWire, k + 1, Len(rtuWire))
       /\ LET input == rtuInput \o SubSeq(rtuWire, 1, k)
          IN /\ rtuInput' = IF Len(input) < FrameBytes THEN input ELSE <<>>
             /\ rtuAnswered' = rtuAnswered + Cardinality(OwnRequests(input))
       /\ UNCHANGED <<view, faults, rtuAsked, noise>>

(* One read: what exceeds the frame limit is thrown away, otherwise all
   complete groups are taken out and the requests among them answered; an
   answer that cannot be written is not looked at. *)
RtuRead ==
    \E k \in 1..ReadBytes :
       /\ k <= Len(rtuWire)
       /\ rtuWire' = SubSeq(rtuWire, k + 1, Len(rtuWire))
       /\ LET input == rtuInput \o SubSeq(rtuWire, 1, k)
              rest == Len(input) % FrameBytes
          IN IF Len(input) > MaxFrameBytes
             THEN rtuInput' = <<>> /\ UNCHANGED rtuAnswered
             ELSE /\ rtuInput' = SubSeq(input, Len(input) - rest + 1, Len(input))
                  /\ rtuAnswered' = rtuAnswered + Cardinality(OwnRequests(input))
       /\ UNCHANGED <<view, faults, rtuAsked, noise>>

RtuNext == RtuAsk \/ RtuOther \/ RtuNoise \/ RtuRead

----------------------------------------------------------------------------
Endpoints == [unit : Units, port : Ports, version : 0..MaxVersions]
Answers == [id : 1..MaxAsked, generation : 0..MaxGeneration]
Received == UNION {Requests(id) : id \in 1..MaxAsked}
TcpConnections ==
    [open : BOOLEAN, wire : Seq(Received), input : Seq(Received), output : Seq(Answers),
     asked : 0..MaxAsked, got : 0..MaxAsked, newest : 0..MaxGeneration]
Bytes == (0..MaxAsked) \X (0..FrameBytes)

TcpTypeOK ==
    /\ tcp \in [TcpClients -> TcpConnections]
    /\ \A c \in TcpClients :
          /\ Len(tcp[c].output) <= MaxOutput
          /\ ~tcp[c].open => tcp[c] = NoTcp
    /\ Cardinality(Connected) <= MaxTcp
    /\ tcpWanted \in Endpoints /\ tcpActive \in Endpoints
    /\ tcpActive.version <= tcpWanted.version

RtuTypeOK ==
    /\ rtuWire \in Seq(Bytes) /\ rtuInput \in Seq(Bytes) /\ Len(rtuInput) < FrameBytes
    /\ rtuAsked \in 0..MaxAsked /\ rtuAnswered \in Nat /\ noise \in BOOLEAN

(* On one connection every request is answered once and in order, whatever
   the chunks in which requests arrive and answers leave and whatever options
   are exchanged meanwhile, and no answer shows an older snapshot than an
   earlier one did. *)
AnswersInOrder ==
    \A c \in Connected :
        LET t == tcp[c]
            queue == t.output \o t.input \o t.wire
        IN /\ Len(queue) = t.asked - t.got
           /\ \A i \in 1..Len(queue) : queue[i].id = t.got + i
           /\ \A i \in 1..Len(t.output) : t.output[i].generation # 0 =>
                 /\ t.newest <= t.output[i].generation
                 /\ \A j \in 1..i : t.output[j].generation <= t.output[i].generation

(* As long as only requests are on the line, every request to this unit that
   has arrived completely is answered once, however reads cut the bytes. *)
RtuAnswered ==
    LET pending == rtuInput \o rtuWire
        unread == {k \in 1..Len(pending) : pending[k][1] > 0 /\ pending[k][2] = FrameBytes}
    IN ~noise => rtuAnswered + Cardinality(unread) = rtuAsked
=============================================================================
