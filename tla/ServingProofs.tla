--------------------------- MODULE ServingProofs ---------------------------
(***************************************************************************)
(* Theorems about Serving, for every number of clients, slots, requests,   *)
(* options and failures, and every length of frames, reads and outputs.    *)
(***************************************************************************)
EXTENDS Serving, FiniteSetTheorems, SequenceTheorems, TLAPS

-----------------------------------------------------------------------------
(* The records of the connections *)

(* Setting a frame to be sent keeps the type of a connection. *)
LEMMA OutputType ==
    ASSUME NEW r \in WebConnections, NEW f \in Frames
    PROVE  /\ Output(r, f) \in WebConnections
           /\ Output(r, f).at = r.at /\ Output(r, f).serve = r.serve
<1> DEFINE b == r.broken \/ r.part
           g == IF r.part THEN NoFrame ELSE r.got
           l == f.kind \notin Telling /\ (r.lost \/ r.out.kind \in Telling)
<1>1. Output(r, f) = [r EXCEPT !.out = f, !.part = FALSE, !.broken = b, !.got = g, !.lost = l]
    BY DEF Output, WebConnections
<1>2. b \in BOOLEAN /\ l \in BOOLEAN
    OBVIOUS
<1>3. NoFrame \in Frames
    BY ViewBounds DEF NoFrame, Bare, Frames, Availabilities
<1>4. g \in Frames
    BY <1>3 DEF WebConnections
<1> HIDE DEF b, g, l
<1> QED
    BY <1>1, <1>2, <1>4 DEF WebConnections

LEMMA FrameTypes ==
    ASSUME generation \in 0..MaxGeneration, availability \in Availabilities
    PROVE  /\ \A kind \in {"telemetry", "health"} : Frame(kind) \in Frames
           /\ \A kind \in {"none", "pong", "close"} : Bare(kind) \in Frames
BY ViewBounds DEF Frame, Bare, Frames, Telling, Availabilities

(* So does the choice of the next frame (run_websocket), which leaves the
   place of the thread alone. *)
LEMMA UpdatedType ==
    ASSUME NEW r \in WebConnections, generation \in 0..MaxGeneration,
           availability \in Availabilities
    PROVE  /\ Updated(r) \in WebConnections
           /\ Updated(r).at = r.at /\ Updated(r).serve = r.serve
<1> DEFINE t == Output(r, Frame("telemetry"))
           h == Output(r, Frame("health"))
<1>1. t \in WebConnections /\ t.at = r.at /\ t.serve = r.serve
    BY FrameTypes, OutputType
<1>2. h \in WebConnections /\ h.at = r.at /\ h.serve = r.serve
    BY FrameTypes, OutputType
<1> HIDE DEF t, h
<1> DEFINE t1 == [t EXCEPT !.last = generation, !.told = TRUE]
           h1 == [h EXCEPT !.told = TRUE]
<1>3. t1 \in WebConnections /\ t1.at = r.at /\ t1.serve = r.serve
    BY <1>1 DEF WebConnections
<1>4. h1 \in WebConnections /\ h1.at = r.at /\ h1.serve = r.serve
    BY <1>2 DEF WebConnections
<1> HIDE DEF t1, h1
<1>5. Updated(r) \in {r} \cup {[n EXCEPT !.lastAvailability = availability] : n \in {r, t1, h1}}
    BY DEF Updated, t1, h1, t, h
<1>6. ASSUME NEW n \in {r, t1, h1}
      PROVE  LET u == [n EXCEPT !.lastAvailability = availability]
             IN u \in WebConnections /\ u.at = r.at /\ u.serve = r.serve
    BY <1>3, <1>4, <1>6 DEF WebConnections
<1> QED
    BY <1>5, <1>6

-----------------------------------------------------------------------------
(* Slots *)

(* A connection is not yet a WebSocket while its request is served. *)
Handing == \A c \in WebClients : web[c].serve \in {"serving", "handshake"} => web[c].at = "none"

HoldsHttp(r) == r.serve # "none"
HoldsWs(r) == r.serve = "handshake" \/ r.at # "none"
One(holds) == IF holds THEN 1 ELSE 0

LEMMA Counting ==
    ASSUME NEW all, IsFiniteSet(all), NEW S \in SUBSET all, NEW c \in all, NEW T,
           NEW was \in BOOLEAN, NEW is \in BOOLEAN, was <=> c \in S,
           T = IF is THEN S \cup {c} ELSE S \ {c}
    PROVE  /\ Cardinality(S) \in Nat /\ Cardinality(T) \in Nat
           /\ Cardinality(T) = Cardinality(S) + One(is) - One(was)
<1>1. IsFiniteSet(S)
    BY FS_Subset
<1>2. Cardinality(S) \in Nat
    BY <1>1, FS_CardinalityType
<1>3. CASE is
    <2>1. T = S \cup {c} /\ IsFiniteSet(T)
        BY <1>1, <1>3, FS_AddElement
    <2>2. Cardinality(T) = IF c \in S THEN Cardinality(S) ELSE Cardinality(S) + 1
        BY <1>1, <2>1, FS_AddElement
    <2> QED
        BY <1>2, <1>3, <2>2 DEF One
<1>4. CASE ~is
    <2>1. T = S \ {c} /\ IsFiniteSet(T)
        BY <1>1, <1>4, FS_RemoveElement
    <2>2. Cardinality(T) = IF c \in S THEN Cardinality(S) - 1 ELSE Cardinality(S)
        BY <1>1, <2>1, FS_RemoveElement
    <2>3. Cardinality(T) \in Nat
        BY <2>1, FS_CardinalityType
    <2> QED
        BY <1>2, <1>4, <2>2, <2>3 DEF One
<1> QED
    BY <1>3, <1>4

(* A step of one thread that takes and gives back slots as its record says
   keeps the counters exact. *)
LEMMA OneThread ==
    ASSUME NEW c \in WebClients, NEW r \in WebConnections,
           WebTypeOK, SlotsExact, Handing, Set(c, r),
           r.serve \in {"serving", "handshake"} => r.at = "none",
           httpCount' = httpCount + One(HoldsHttp(r)) - One(HoldsHttp(web[c])),
           wsCount' = wsCount + One(HoldsWs(r)) - One(HoldsWs(web[c]))
    PROVE  /\ web' \in [WebClients -> WebConnections] /\ SlotsExact' /\ Handing'
           /\ httpCount' \in Nat /\ wsCount' \in Nat
<1> DEFINE H == {d \in WebClients : web[d].serve # "none"}
           W == {d \in WebClients : web[d].serve = "handshake" \/ web[d].at # "none"}
<1>1. /\ web' \in [WebClients -> WebConnections]
      /\ web'[c] = r /\ \A d \in WebClients \ {c} : web'[d] = web[d]
    BY DEF WebTypeOK, Set
<1>2. H' = IF HoldsHttp(r) THEN H \cup {c} ELSE H \ {c}
    BY <1>1 DEF HoldsHttp
<1>3. W' = IF HoldsWs(r) THEN W \cup {c} ELSE W \ {c}
    BY <1>1 DEF HoldsWs
<1>4. /\ HoldsHttp(r) \in BOOLEAN /\ HoldsHttp(web[c]) \in BOOLEAN
      /\ HoldsWs(r) \in BOOLEAN /\ HoldsWs(web[c]) \in BOOLEAN
    BY DEF HoldsHttp, HoldsWs
<1>5. (HoldsHttp(web[c]) <=> c \in H) /\ (HoldsWs(web[c]) <=> c \in W)
    BY DEF HoldsHttp, HoldsWs
<1>6. H \subseteq WebClients /\ W \subseteq WebClients
    OBVIOUS
<1>7. httpCount = Cardinality(H) /\ wsCount = Cardinality(W)
    BY DEF SlotsExact
<1> HIDE DEF H, W
<1>8. /\ Cardinality(H') = Cardinality(H) + One(HoldsHttp(r)) - One(HoldsHttp(web[c]))
      /\ Cardinality(H') \in Nat
    BY <1>2, <1>4, <1>5, <1>6, WebAssumption, Counting
<1>9. /\ Cardinality(W') = Cardinality(W) + One(HoldsWs(r)) - One(HoldsWs(web[c]))
      /\ Cardinality(W') \in Nat
    BY <1>3, <1>4, <1>5, <1>6, WebAssumption, Counting
<1>10. Handing'
    BY <1>1 DEF Handing
<1>11. httpCount' = Cardinality(H') /\ wsCount' = Cardinality(W')
    BY <1>7, <1>8, <1>9
<1> QED
    BY <1>1, <1>8, <1>9, <1>10, <1>11 DEF SlotsExact, H, W

-----------------------------------------------------------------------------
(* The web server *)

WebInv == WebTypeOK /\ SlotsExact /\ Handing

LEMMA NoConnectionType == NoConnection \in WebConnections /\ NoFrame \in Frames
<1>1. NoFrame \in Frames
    BY ViewBounds DEF NoFrame, Bare, Frames, Availabilities
<1> QED
    BY <1>1, ViewBounds DEF NoConnection, WebConnections

(* What a step of the thread of c has to show *)
Kept(c, r) ==
    /\ r \in WebConnections
    /\ r.serve \in {"serving", "handshake"} => r.at = "none"
    /\ httpCount' = httpCount + One(HoldsHttp(r)) - One(HoldsHttp(web[c]))
    /\ wsCount' = wsCount + One(HoldsWs(r)) - One(HoldsWs(web[c]))
    /\ httpCount' <= MaxHttp /\ wsCount' <= MaxWebSockets
    /\ Set(c, r)

LEMMA WebStep ==
    ASSUME WebInv, NEW c \in WebClients, HttpAccept(c) \/ WebThread(c),
           generation \in 0..MaxGeneration, availability \in Availabilities,
           faults \in 0..MaxFaults
    PROVE  WebInv' /\ faults' \in 0..MaxFaults
<1> DEFINE r0 == web[c]
           u == Updated(r0)
<1> USE DEF WebInv
<1>1. r0 \in WebConnections /\ httpCount \in Nat /\ wsCount \in Nat
    BY DEF WebTypeOK
<1>2. httpCount <= MaxHttp /\ wsCount <= MaxWebSockets /\ MaxHttp \in Nat /\ MaxWebSockets \in Nat
    BY WebAssumption DEF WebTypeOK
<1>3. u \in WebConnections /\ u.at = r0.at /\ u.serve = r0.serve
    BY <1>1, UpdatedType
<1>4. r0.serve \in {"serving", "handshake"} => r0.at = "none"
    BY DEF Handing
<1>5. faults \in Nat /\ MaxFaults \in Nat /\ MaxInputs \in Nat /\ inputs \in 0..MaxInputs
    BY ViewBounds, WebAssumption DEF WebTypeOK
<1> DEFINE Done == /\ \E r \in WebConnections : Kept(c, r)
                   /\ UNCHANGED webEndpoint
                   /\ inputs' \in 0..MaxInputs /\ faults' \in 0..MaxFaults
<1> SUFFICES Done
    <2>1. PICK r \in WebConnections : Kept(c, r)
        OBVIOUS
    <2>2. /\ web' \in [WebClients -> WebConnections] /\ SlotsExact' /\ Handing'
          /\ httpCount' \in Nat /\ wsCount' \in Nat
        BY <2>1, OneThread DEF Kept
    <2>3. httpCount' \in 0..MaxHttp /\ wsCount' \in 0..MaxWebSockets
        BY <1>2, <2>1, <2>2 DEF Kept
    <2> QED
        BY <2>2, <2>3 DEF WebTypeOK, webEndpoint
<1>6. CASE HttpAccept(c)
    <2> DEFINE r == [NoConnection EXCEPT !.serve = "serving"]
    <2>1. r \in WebConnections /\ r.serve = "serving" /\ r.at = "none"
        BY NoConnectionType DEF WebConnections, NoConnection
    <2> HIDE DEF r
    <2>2. Set(c, r)
        BY <1>6 DEF HttpAccept, r
    <2>3. Kept(c, r)
        BY <1>1, <1>2, <1>6, <2>1, <2>2 DEF HttpAccept, Kept, HoldsHttp, HoldsWs, One
    <2> QED
        BY <1>5, <1>6, <2>1, <2>3 DEF HttpAccept
<1>7. CASE HttpAnswered(c)
    <2> DEFINE r == [r0 EXCEPT !.serve = "leaving"]
    <2>1. r \in WebConnections /\ r.serve = "leaving" /\ r.at = r0.at
        BY <1>1 DEF WebConnections
    <2> HIDE DEF r
    <2>2. Set(c, r)
        BY <1>7 DEF HttpAnswered, r
    <2>3. Kept(c, r)
        BY <1>1, <1>2, <1>7, <2>1, <2>2
           DEF HttpAnswered, webServer, Kept, HoldsHttp, HoldsWs, One
    <2> QED
        BY <1>5, <1>7, <2>1, <2>3 DEF HttpAnswered
<1>8. CASE Upgrade(c)
    <2> DEFINE r == [r0 EXCEPT !.serve = IF wsCount < MaxWebSockets THEN "handshake" ELSE "leaving"]
    <2>1. /\ r \in WebConnections /\ r.at = r0.at
          /\ r.serve = IF wsCount < MaxWebSockets THEN "handshake" ELSE "leaving"
        BY <1>1 DEF WebConnections
    <2> HIDE DEF r
    <2>2. Set(c, r)
        BY <1>8 DEF Upgrade, r
    <2>3. Kept(c, r)
        BY <1>1, <1>2, <1>4, <1>8, <2>1, <2>2 DEF Upgrade, Kept, HoldsHttp, HoldsWs, One
    <2> QED
        BY <1>5, <1>8, <2>1, <2>3 DEF Upgrade
<1>9. CASE UpgradeFails(c)
    <2> DEFINE r == [r0 EXCEPT !.serve = "leaving"]
    <2>1. r \in WebConnections /\ r.serve = "leaving" /\ r.at = r0.at
        BY <1>1 DEF WebConnections
    <2> HIDE DEF r
    <2>2. Set(c, r)
        BY <1>9 DEF UpgradeFails, r
    <2>3. Kept(c, r)
        BY <1>1, <1>2, <1>4, <1>9, <2>1, <2>2 DEF UpgradeFails, Kept, HoldsHttp, HoldsWs, One
    <2> QED
        BY <1>5, <1>9, <2>1, <2>3 DEF UpgradeFails, Fault
<1>10. CASE HandOver(c)
    <2> DEFINE r == [r0 EXCEPT !.serve = "leaving", !.at = "input"]
    <2>1. r \in WebConnections /\ r.serve = "leaving" /\ r.at = "input"
        BY <1>1 DEF WebConnections
    <2> HIDE DEF r
    <2>2. Set(c, r)
        BY <1>10 DEF HandOver, r
    <2>3. Kept(c, r)
        BY <1>1, <1>2, <1>10, <2>1, <2>2
           DEF HandOver, webServer, Kept, HoldsHttp, HoldsWs, One
    <2> QED
        BY <1>5, <1>10, <2>1, <2>3 DEF HandOver
<1>11. CASE HttpLeave(c)
    <2> DEFINE r == [r0 EXCEPT !.serve = "none"]
    <2>1. r \in WebConnections /\ r.serve = "none" /\ r.at = r0.at
        BY <1>1 DEF WebConnections
    <2> HIDE DEF r
    <2>2. Set(c, r)
        BY <1>11 DEF HttpLeave, r
    <2>3. Kept(c, r)
        BY <1>1, <1>2, <1>11, <2>1, <2>2 DEF HttpLeave, Kept, HoldsHttp, HoldsWs, One
    <2> QED
        BY <1>5, <1>11, <2>1, <2>3 DEF HttpLeave
(* A step inside run_websocket keeps both slots. *)
<1>12. ASSUME NEW r \in WebConnections, r.serve = r0.serve, r.at # "none", r0.at # "none",
              Set(c, r), UNCHANGED webServer
       PROVE  Kept(c, r)
    BY <1>1, <1>2, <1>4, <1>12 DEF webServer, Kept, HoldsHttp, HoldsWs, One
<1>13. CASE WsQuiet(c)
    <2> DEFINE r == [r0 EXCEPT !.at = "send"]
    <2>1. r \in WebConnections /\ r.serve = r0.serve /\ r.at = "send"
        BY <1>1 DEF WebConnections
    <2> HIDE DEF r
    <2>2. Set(c, r)
        BY <1>13 DEF WsQuiet, r
    <2> QED
        BY <1>5, <1>12, <1>13, <2>1, <2>2 DEF WsQuiet
<1>14. CASE WsInput(c)
    <2> DEFINE p == Output(r0, Bare("pong"))
               q == Output(r0, Bare("close"))
               r1 == [p EXCEPT !.at = "send"]
               r2 == [q EXCEPT !.at = "send", !.closing = TRUE]
    <2>1. p \in WebConnections /\ p.serve = r0.serve /\ q \in WebConnections /\ q.serve = r0.serve
        BY <1>1, FrameTypes, OutputType
    <2>2. Set(c, r1) \/ Set(c, r2)
        BY <1>14 DEF WsInput
    <2> HIDE DEF p, q
    <2>3. /\ r1 \in WebConnections /\ r1.serve = r0.serve /\ r1.at = "send"
          /\ r2 \in WebConnections /\ r2.serve = r0.serve /\ r2.at = "send"
        BY <2>1 DEF WebConnections
    <2> HIDE DEF r1, r2
    <2>4. \E r \in WebConnections : Kept(c, r)
        BY <1>12, <1>14, <2>2, <2>3 DEF WsInput
    <2> QED
        BY <1>5, <1>14, <2>4 DEF WsInput
<1>15. CASE WsBroken(c)
    <2> DEFINE r == [r0 EXCEPT !.at = "ending"]
    <2>1. r \in WebConnections /\ r.serve = r0.serve /\ r.at = "ending"
        BY <1>1 DEF WebConnections
    <2> HIDE DEF r
    <2>2. Set(c, r)
        BY <1>15 DEF WsBroken, r
    <2> QED
        BY <1>5, <1>12, <1>15, <2>1, <2>2 DEF WsBroken
<1> HIDE DEF u
<1>16. CASE WsSendAll(c)
    <2> DEFINE got == IF u.out.kind \in Telling /\ ~u.broken THEN u.out ELSE u.got
               at == IF u.closing THEN "ending" ELSE "input"
               r == [u EXCEPT !.out = NoFrame, !.part = FALSE, !.got = got, !.at = at]
    <2>1. got \in Frames /\ at \in {"ending", "input"}
        BY <1>3 DEF WebConnections
    <2>2. Set(c, r)
        BY <1>3, <1>16 DEF WsSendAll, u, WebConnections
    <2> HIDE DEF got, at
    <2>3. r \in WebConnections /\ r.serve = r0.serve /\ r.at # "none"
        BY <1>3, <2>1, NoConnectionType DEF WebConnections
    <2> HIDE DEF r
    <2> QED
        BY <1>5, <1>12, <1>16, <2>2, <2>3 DEF WsSendAll
<1>17. CASE WsSendPart(c)
    <2>1. PICK part \in {u.part, TRUE} : Set(c, [u EXCEPT !.part = part, !.at = "input"])
        BY <1>17 DEF WsSendPart, u
    <2> DEFINE r == [u EXCEPT !.part = part, !.at = "input"]
    <2>2. r \in WebConnections /\ r.serve = r0.serve /\ r.at = "input"
        BY <1>3, <2>1 DEF WebConnections
    <2> HIDE DEF r
    <2> QED
        BY <1>5, <1>12, <1>17, <2>1, <2>2 DEF WsSendPart, r
<1>18. CASE WsSendFails(c)
    <2> DEFINE r == [r0 EXCEPT !.at = "ending"]
    <2>1. r \in WebConnections /\ r.serve = r0.serve /\ r.at = "ending"
        BY <1>1 DEF WebConnections
    <2> HIDE DEF r
    <2>2. Set(c, r)
        BY <1>18 DEF WsSendFails, r
    <2> QED
        BY <1>5, <1>12, <1>18, <2>1, <2>2 DEF WsSendFails
<1>19. CASE WsEnd(c)
    <2> DEFINE r == [NoConnection EXCEPT !.serve = r0.serve]
    <2>1. r \in WebConnections /\ r.serve = r0.serve /\ r.at = "none"
        BY <1>1, NoConnectionType DEF WebConnections, NoConnection
    <2> HIDE DEF r
    <2>2. Set(c, r)
        BY <1>19 DEF WsEnd, r
    <2>3. Kept(c, r)
        BY <1>1, <1>2, <1>4, <1>19, <2>1, <2>2 DEF WsEnd, Kept, HoldsHttp, HoldsWs, One
    <2> QED
        BY <1>5, <1>19, <2>1, <2>3 DEF WsEnd
<1> QED
    BY <1>6, <1>7, <1>8, <1>9, <1>10, <1>11, <1>13, <1>14, <1>15, <1>16, <1>17, <1>18, <1>19
       DEF WebThread

(* The listener and its options touch no connection. *)
LEMMA ListenerStep ==
    ASSUME WebInv, ListenerNext, faults \in 0..MaxFaults
    PROVE  WebInv' /\ faults' \in 0..MaxFaults
<1>1. CASE SaveWebPort
    BY <1>1, ViewBounds DEF SaveWebPort, WebInv, WebTypeOK, SlotsExact, Handing, webServer
<1>2. CASE ReloadWeb
    BY <1>2, ViewBounds
       DEF ReloadWeb, Fault, NoFault, WebInv, WebTypeOK, SlotsExact, Handing, webServer
<1> QED
    BY <1>1, <1>2 DEF ListenerNext

-----------------------------------------------------------------------------
(* The Modbus TCP server *)

(* The requests of one connection, from the oldest answer that has not left to
   the newest on the wire, are numbered without a gap; no answer is newer than
   the snapshot g or older than one before it. *)
Numbered(s, first) == \A i \in 1..Len(s) : s[i].id = first + i
Fresh(s, newest, g) ==
    /\ newest <= g
    /\ \A i \in 1..Len(s) :
          /\ s[i].generation <= g
          /\ s[i].generation # 0 =>
                /\ newest <= s[i].generation
                /\ \A j \in 1..i : s[j].generation <= s[i].generation
Ordered(t, g) ==
    /\ Len(t.output) + Len(t.input) + Len(t.wire) = t.asked - t.got
    /\ Numbered(t.output, t.got)
    /\ Numbered(t.input, t.got + Len(t.output))
    /\ Numbered(t.wire, t.got + Len(t.output) + Len(t.input))
    /\ Fresh(t.output, t.newest, g)

InOrder == \A c \in TcpClients : Ordered(tcp[c], generation)

(* What every record of an open connection satisfies *)
Sound(t, g) == t \in TcpConnections /\ Len(t.output) <= MaxOutput /\ Ordered(t, g)

LEMMA NoTcpSound ==
    ASSUME NEW g \in 0..MaxGeneration
    PROVE  Sound(NoTcp, g) /\ Sound([NoTcp EXCEPT !.open = TRUE], g)
<1> DEFINE e == <<>>
<1>1. e \in Seq(Received) /\ e \in Seq(Answers) /\ Len(e) = 0
    OBVIOUS
<1>2. \A open \in BOOLEAN :
         [NoTcp EXCEPT !.open = open]
            = [open |-> open, wire |-> e, input |-> e, output |-> e,
               asked |-> 0, got |-> 0, newest |-> 0]
    BY DEF NoTcp
<1>3. NoTcp = [open |-> FALSE, wire |-> e, input |-> e, output |-> e,
               asked |-> 0, got |-> 0, newest |-> 0]
    BY DEF NoTcp
<1> HIDE DEF e
<1>4. MaxOutput \in Nat /\ 0 \in 0..MaxAsked /\ 0 \in 0..MaxGeneration
    BY ModbusAssumption, ViewBounds
<1>5. Numbered(e, 0) /\ Fresh(e, 0, g)
    BY <1>1, ViewBounds DEF Numbered, Fresh
<1>6. ASSUME NEW open \in BOOLEAN
      PROVE  Sound([open |-> open, wire |-> e, input |-> e, output |-> e,
                    asked |-> 0, got |-> 0, newest |-> 0], g)
    <2> DEFINE r == [open |-> open, wire |-> e, input |-> e, output |-> e,
                     asked |-> 0, got |-> 0, newest |-> 0]
    <2>1. /\ r \in TcpConnections /\ r.wire = e /\ r.input = e /\ r.output = e
          /\ r.asked = 0 /\ r.got = 0 /\ r.newest = 0
        BY <1>1, <1>4 DEF TcpConnections
    <2> HIDE DEF r
    <2>2. Sound(r, g)
        BY <1>1, <1>4, <1>5, <2>1 DEF Sound, Ordered
    <2> QED
        BY <2>2 DEF r
<1> QED
    BY <1>2, <1>3, <1>6

LEMMA NumberedAppend ==
    ASSUME NEW S, NEW s \in Seq(S), NEW a \in S, NEW first \in Nat,
           Numbered(s, first), a.id = first + Len(s) + 1
    PROVE  Numbered(Append(s, a), first)
<1> DEFINE w == Append(s, a)
<1>1. /\ Len(w) = Len(s) + 1 /\ w[Len(s) + 1] = a /\ Len(s) \in Nat
      /\ \A i \in 1..Len(s) : w[i] = s[i]
    BY AppendProperties, LenProperties
<1> HIDE DEF w
<1>2. SUFFICES ASSUME NEW i \in 1..Len(w) PROVE w[i].id = first + i
    BY DEF Numbered, w
<1>3. CASE i \in 1..Len(s)
    BY <1>1, <1>3 DEF Numbered
<1>4. CASE i = Len(s) + 1
    BY <1>1, <1>4
<1> QED
    BY <1>1, <1>3, <1>4

LEMMA NumberedTail ==
    ASSUME NEW S, NEW s \in Seq(S), s # <<>>, NEW first \in Nat, Numbered(s, first)
    PROVE  Head(s).id = first + 1 /\ Numbered(Tail(s), first + 1)
<1> DEFINE w == Tail(s)
<1>1. /\ Len(w) = Len(s) - 1 /\ \A i \in 1..Len(w) : w[i] = s[i + 1]
    BY HeadTailProperties
<1>2. Len(s) \in Nat \ {0}
    BY EmptySeq
<1>3. Head(s) = s[1]
    BY <1>2
<1> HIDE DEF w
<1>4. \A i \in 1..Len(s) : s[i].id = first + i
    BY DEF Numbered
<1>5. ASSUME NEW i \in 1..Len(w) PROVE w[i].id = (first + 1) + i
    <2>1. i + 1 \in 1..Len(s) /\ w[i] = s[i + 1] /\ i \in Nat
        BY <1>1, <1>2
    <2>2. first + (i + 1) = (first + 1) + i
        BY <2>1
    <2> QED
        BY <1>4, <2>1, <2>2
<1> QED
    BY <1>2, <1>3, <1>4, <1>5 DEF Numbered, w

(* An answer built from the newest snapshot is as new as all before it. *)
LEMMA FreshAppend ==
    ASSUME NEW s \in Seq(Answers), NEW a \in Answers, NEW newest \in Nat, NEW g \in Nat,
           Fresh(s, newest, g), a.generation \in {0, g}
    PROVE  Fresh(Append(s, a), newest, g)
<1> DEFINE w == Append(s, a)
<1>1. /\ Len(w) = Len(s) + 1 /\ w[Len(s) + 1] = a /\ Len(s) \in Nat
      /\ \A i \in 1..Len(s) : w[i] = s[i]
    BY AppendProperties, LenProperties
<1>2. \A i \in 1..Len(s) : s[i].generation <= g
    BY DEF Fresh
<1> HIDE DEF w
<1>3. ASSUME NEW j \in 1..Len(w) PROVE w[j].generation <= g
    <2>1. CASE j \in 1..Len(s)
        BY <1>1, <1>2, <2>1
    <2>2. CASE j = Len(s) + 1
        BY <1>1, <2>2
    <2> QED
        BY <1>1, <2>1, <2>2
<1>4. ASSUME NEW i \in 1..Len(w), w[i].generation # 0
      PROVE  /\ newest <= w[i].generation
             /\ \A j \in 1..i : w[j].generation <= w[i].generation
    <2>1. CASE i \in 1..Len(s)
        BY <1>1, <1>4, <2>1 DEF Fresh
    <2>2. CASE i = Len(s) + 1
        BY <1>1, <1>3, <1>4, <2>2 DEF Fresh
    <2> QED
        BY <1>1, <2>1, <2>2
<1> QED
    BY <1>3, <1>4 DEF Fresh, w

(* What is left when the oldest answer has been sent is no older. *)
LEMMA FreshTail ==
    ASSUME NEW s \in Seq(Answers), s # <<>>, NEW newest \in Nat, NEW g \in Nat,
           Fresh(s, newest, g)
    PROVE  Fresh(Tail(s), IF Head(s).generation = 0 THEN newest ELSE Head(s).generation, g)
<1> DEFINE w == Tail(s)
           m == IF s[1].generation = 0 THEN newest ELSE s[1].generation
<1>1. /\ Len(w) = Len(s) - 1 /\ \A i \in 1..Len(w) : w[i] = s[i + 1]
    BY HeadTailProperties
<1>2. Len(s) \in Nat \ {0}
    BY EmptySeq
<1>3. Head(s) = s[1]
    BY <1>2
<1>4. \A i \in 1..Len(s) :
         /\ s[i].generation <= g
         /\ s[i].generation # 0 =>
               /\ newest <= s[i].generation
               /\ \A j \in 1..i : s[j].generation <= s[i].generation
    BY DEF Fresh
<1>5. m <= g
    BY <1>2, <1>4 DEF Fresh
<1>6. ASSUME NEW i \in 1..Len(w)
      PROVE  /\ w[i].generation <= g
             /\ w[i].generation # 0 =>
                   /\ m <= w[i].generation
                   /\ \A j \in 1..i : w[j].generation <= w[i].generation
    <2>1. i + 1 \in 1..Len(s) /\ w[i] = s[i + 1] /\ 1 \in 1..i + 1
        BY <1>1, <1>2
    <2>2. \A j \in 1..i : j + 1 \in 1..i + 1 /\ w[j] = s[j + 1]
        BY <1>1, <1>2
    <2> HIDE DEF w
    <2> QED
        BY <1>4, <2>1, <2>2
<1> HIDE DEF w, m
<1>7. Fresh(w, m, g)
    BY <1>5, <1>6 DEF Fresh
<1> QED
    BY <1>3, <1>7 DEF w, m

LEMMA Sums ==
    ASSUME NEW o \in Nat, NEW i \in Nat, NEW w \in Nat, NEW asked \in Nat, NEW got \in Nat,
           o + i + w = asked - got
    PROVE  /\ (got + o + i) + w = asked /\ got + o + i \in Nat
           /\ o + i + (w + 1) = (asked + 1) - got
           /\ \A n \in 1..w : o + (i + n) + (w - n) = asked - got
           /\ i > 0 => (o + 1) + (i - 1) + w = asked - got
           /\ o > 0 => (o - 1) + i + w = asked - (got + 1)
OBVIOUS

(* A request is sent. *)
LEMMA AskSound ==
    ASSUME NEW g \in 0..MaxGeneration, NEW t, Sound(t, g), t.asked < MaxAsked,
           NEW request \in Requests(t.asked + 1)
    PROVE  LET r == [t EXCEPT !.wire = Append(@, request), !.asked = @ + 1]
           IN Sound(r, g) /\ r.open = t.open
<1> DEFINE w == Append(t.wire, request)
           n == t.asked + 1
           r == [t EXCEPT !.wire = w, !.asked = n]
<1>1. t \in TcpConnections /\ t.wire \in Seq(Received) /\ t.input \in Seq(Received)
      /\ t.output \in Seq(Answers)
    BY DEF Sound, TcpConnections
<1>2. n \in 0..MaxAsked /\ n \in 1..MaxAsked /\ t.asked \in Nat /\ t.got \in Nat
    <2>1. t.asked \in 0..MaxAsked /\ t.got \in 0..MaxAsked
        BY <1>1 DEF TcpConnections
    <2> QED
        BY <2>1, ModbusAssumption
<1>3. request \in Received /\ request.id = n
    BY <1>2 DEF Received, Requests
<1>4. /\ w \in Seq(Received) /\ Len(w) = Len(t.wire) + 1
      /\ \A i \in 1..Len(t.wire) : w[i] = t.wire[i]
      /\ w[Len(t.wire) + 1] = request
    BY <1>1, <1>3, AppendProperties
<1>5. Len(t.wire) \in Nat /\ Len(t.input) \in Nat /\ Len(t.output) \in Nat
    BY <1>1, LenProperties
<1> HIDE DEF w, n
<1>6. /\ r \in TcpConnections /\ r.wire = w /\ r.asked = n /\ r.input = t.input
      /\ r.output = t.output /\ r.got = t.got /\ r.newest = t.newest /\ r.open = t.open
    BY <1>1, <1>2, <1>4 DEF TcpConnections
<1> HIDE DEF r
<1> DEFINE first == t.got + Len(t.output) + Len(t.input)
<1>a. /\ first + Len(t.wire) = t.asked /\ first \in Nat /\ n = t.asked + 1
      /\ Len(t.output) + Len(t.input) + (Len(t.wire) + 1) = n - t.got
    <2> DEFINE o == Len(t.output)
               i == Len(t.input)
               l == Len(t.wire)
    <2>1. o + i + l = t.asked - t.got
        BY DEF Sound, Ordered
    <2> DEFINE asked == t.asked
               got == t.got
    <2>2. o \in Nat /\ i \in Nat /\ l \in Nat /\ asked \in Nat /\ got \in Nat
        BY <1>2, <1>5
    <2> HIDE DEF o, i, l, asked, got
    <2>3. o + i + l = asked - got
        BY <2>1 DEF asked, got
    <2>4. /\ (got + o + i) + l = asked /\ got + o + i \in Nat
          /\ o + i + (l + 1) = (asked + 1) - got
        BY <2>2, <2>3, Sums
    <2>5. n = asked + 1
        BY DEF n, asked
    <2>6. o + i + (l + 1) = n - got
        BY <2>4, <2>5
    <2> QED
        BY <2>4, <2>5, <2>6 DEF o, i, l, asked, got
<1>7. Numbered(w, first)
    <2>1. Numbered(t.wire, first)
        BY DEF Sound, Ordered
    <2> HIDE DEF first
    <2> QED
        BY <1>1, <1>3, <1>a, <2>1, NumberedAppend DEF w
<1>8. Len(r.output) + Len(r.input) + Len(r.wire) = r.asked - r.got
    BY <1>2, <1>4, <1>5, <1>6, <1>a
<1>9. Sound(r, g)
    BY <1>6, <1>7, <1>8 DEF Sound, Ordered
<1>10. r = [t EXCEPT !.wire = Append(@, request), !.asked = @ + 1]
    BY <1>1 DEF r, w, n, TcpConnections
<1> QED
    BY <1>6, <1>9, <1>10

(* Some requests are received: they move from the wire to the input. *)
LEMMA ReceiveSound ==
    ASSUME NEW g \in 0..MaxGeneration, NEW t, Sound(t, g), t.input = <<>>,
           NEW n \in 1..Len(t.wire)
    PROVE  LET r == [t EXCEPT !.input = SubSeq(t.wire, 1, n),
                              !.wire = SubSeq(@, n + 1, Len(@))]
           IN Sound(r, g) /\ r.open = t.open
<1> DEFINE a == SubSeq(t.wire, 1, n)
           w == SubSeq(t.wire, n + 1, Len(t.wire))
           r == [t EXCEPT !.input = a, !.wire = w]
<1>1. t \in TcpConnections /\ t.wire \in Seq(Received) /\ t.output \in Seq(Answers)
    BY DEF Sound, TcpConnections
<1>2. Len(t.wire) \in Nat /\ Len(t.output) \in Nat /\ Len(t.input) = 0 /\ n \in Nat
    BY <1>1, LenProperties
<1>3. \A i \in 1..Len(t.wire) : t.wire[i] \in Received
    BY <1>1, ElementOfSeq
<1>4. a \in Seq(Received) /\ Len(a) = n /\ \A i \in 1..n : a[i] = t.wire[i]
    <2>1. \A i \in 1..n : t.wire[i] \in Received
        BY <1>2, <1>3
    <2>2. /\ a \in Seq(Received) /\ Len(a) = IF 1 <= n THEN n - 1 + 1 ELSE 0
          /\ \A i \in 1..n - 1 + 1 : a[i] = t.wire[1 + i - 1]
        BY <1>2, <2>1, SubSeqProperties
    <2> QED
        BY <1>2, <2>2
<1>5. /\ w \in Seq(Received) /\ Len(w) = Len(t.wire) - n
      /\ \A i \in 1..Len(w) : w[i] = t.wire[n + i]
    <2> DEFINE m == n + 1
               l == Len(t.wire)
    <2>1. \A i \in m..l : t.wire[i] \in Received
        BY <1>2, <1>3
    <2>2. /\ w \in Seq(Received) /\ Len(w) = IF m <= l THEN l - m + 1 ELSE 0
          /\ \A i \in 1..l - m + 1 : w[i] = t.wire[m + i - 1]
        BY <1>2, <2>1, SubSeqProperties
    <2>3. Len(w) = l - n
        BY <1>2, <2>2
    <2> QED
        BY <1>2, <2>2, <2>3
<1> HIDE DEF a, w
<1>6. /\ r \in TcpConnections /\ r.wire = w /\ r.input = a /\ r.asked = t.asked
      /\ r.output = t.output /\ r.got = t.got /\ r.newest = t.newest /\ r.open = t.open
    BY <1>1, <1>4, <1>5 DEF TcpConnections
<1>7. t.asked \in Nat /\ t.got \in Nat
    BY <1>1, ModbusAssumption DEF TcpConnections
<1> HIDE DEF r
<1> DEFINE first == t.got + Len(t.output)
<1>a. first \in Nat /\ first = first + Len(t.input)
    BY <1>2, <1>7
<1>8. \A i \in 1..Len(t.wire) : t.wire[i].id = first + i
    <2>1. \A i \in 1..Len(t.wire) : t.wire[i].id = first + Len(t.input) + i
        BY DEF Sound, Ordered, Numbered
    <2> QED
        BY <1>a, <2>1
<1>9. Numbered(a, first) /\ Numbered(w, first + Len(a))
    <2> HIDE DEF first
    <2>1. \A i \in 1..Len(a) : a[i].id = first + i
        BY <1>2, <1>4, <1>8
    <2>2. ASSUME NEW i \in 1..Len(w) PROVE w[i].id = first + Len(a) + i
        <3>1. n + i \in 1..Len(t.wire) /\ w[i] = t.wire[n + i]
            BY <1>2, <1>5
        <3>2. first + (n + i) = first + Len(a) + i
            BY <1>2, <1>4, <1>5, <1>a
        <3> QED
            BY <1>8, <3>1, <3>2
    <2> QED
        BY <2>1, <2>2 DEF Numbered
<1>10. Len(r.output) + Len(r.input) + Len(r.wire) = r.asked - r.got
    <2> DEFINE o == Len(t.output)
               i == Len(t.input)
               l == Len(t.wire)
               asked == t.asked
               got == t.got
    <2>1. o + i + l = asked - got /\ o \in Nat /\ i \in Nat /\ l \in Nat /\ asked \in Nat /\ got \in Nat /\ n \in 1..l
        BY <1>2, <1>7 DEF Sound, Ordered
    <2> HIDE DEF o, i, l, asked, got
    <2>a. o + (i + n) + (l - n) = asked - got
        BY <2>1, Sums
    <2>2. Len(t.output) + (Len(t.input) + n) + (Len(t.wire) - n) = t.asked - t.got
        BY <2>a DEF o, i, l, asked, got
    <2>3. Len(t.input) + n = n
        BY <1>2
    <2> QED
        BY <1>4, <1>5, <1>6, <2>2, <2>3
<1>11. Sound(r, g)
    BY <1>6, <1>9, <1>10 DEF Sound, Ordered
<1>12. r = [t EXCEPT !.input = SubSeq(t.wire, 1, n), !.wire = SubSeq(@, n + 1, Len(@))]
    BY <1>1 DEF r, a, w, TcpConnections
<1> QED
    BY <1>6, <1>11, <1>12

(* handle_request: the oldest request of the input becomes an answer. *)
LEMMA HandleSound ==
    ASSUME generation \in 0..MaxGeneration, NEW t, Sound(t, generation), t.input # <<>>,
           Len(t.output) < MaxOutput
    PROVE  LET r == [t EXCEPT !.input = Tail(@), !.output = Append(@, Answer(Head(t.input)))]
           IN Sound(r, generation) /\ r.open = t.open
<1> DEFINE a == Answer(Head(t.input))
           in == Tail(t.input)
           out == Append(t.output, a)
           r == [t EXCEPT !.input = in, !.output = out]
           first == t.got + Len(t.output)
<1>1. t \in TcpConnections /\ t.wire \in Seq(Received) /\ t.input \in Seq(Received)
      /\ t.output \in Seq(Answers)
    BY DEF Sound, TcpConnections
<1>2. t.asked \in Nat /\ t.got \in Nat /\ t.newest \in Nat /\ generation \in Nat /\ MaxOutput \in Nat
    BY <1>1, ModbusAssumption, ViewBounds DEF TcpConnections
<1>3. Len(t.wire) \in Nat /\ Len(t.input) \in Nat \ {0} /\ Len(t.output) \in Nat /\ first \in Nat
    <2>1. Len(t.wire) \in Nat /\ Len(t.input) \in Nat /\ Len(t.output) \in Nat
        BY <1>1, LenProperties
    <2>2. Len(t.input) # 0
        BY <1>1, EmptySeq
    <2>3. first \in Nat
        BY <1>2, <2>1
    <2> QED
        BY <2>1, <2>2, <2>3
<1>4. Head(t.input) \in Received /\ in \in Seq(Received) /\ Len(in) = Len(t.input) - 1
    BY <1>1, HeadTailProperties
<1>5. a \in Answers /\ a.id = Head(t.input).id /\ a.generation \in {0, generation}
    BY <1>4, ViewBounds DEF Answer, Answers, Received, Requests
<1>6. /\ Numbered(t.output, t.got) /\ Numbered(t.input, first)
      /\ Numbered(t.wire, first + Len(t.input)) /\ Fresh(t.output, t.newest, generation)
    BY DEF Sound, Ordered
<1> HIDE DEF a, first
<1>7. a.id = first + 1 /\ Numbered(in, first + 1)
    BY <1>1, <1>3, <1>5, <1>6, NumberedTail
<1>8. out \in Seq(Answers) /\ Len(out) = Len(t.output) + 1
    BY <1>1, <1>5, AppendProperties
<1>9. Numbered(out, t.got)
    BY <1>1, <1>2, <1>5, <1>6, <1>7, NumberedAppend DEF first
<1>10. Fresh(out, t.newest, generation)
    BY <1>1, <1>2, <1>5, <1>6, FreshAppend
<1>11. t.got + Len(out) = first + 1 /\ t.got + Len(out) + Len(in) = first + Len(t.input)
    <2> HIDE DEF in, out
    <2>1. first = t.got + Len(t.output)
        BY DEF first
    <2>2. t.got + Len(out) = first + 1
        BY <1>2, <1>3, <1>8, <2>1
    <2> QED
        BY <1>3, <1>4, <2>2
<1> HIDE DEF in, out
<1>12. /\ r \in TcpConnections /\ r.wire = t.wire /\ r.input = in /\ r.asked = t.asked
       /\ r.output = out /\ r.got = t.got /\ r.newest = t.newest /\ r.open = t.open
    BY <1>1, <1>4, <1>8 DEF TcpConnections
<1>13. Len(out) + Len(in) + Len(t.wire) = t.asked - t.got
    <2> DEFINE o == Len(t.output)
               i == Len(t.input)
               l == Len(t.wire)
               asked == t.asked
               got == t.got
    <2>1. o + i + l = asked - got /\ o \in Nat /\ i \in Nat \ {0} /\ l \in Nat
          /\ asked \in Nat /\ got \in Nat
        BY <1>2, <1>3 DEF Sound, Ordered
    <2> HIDE DEF o, i, l, asked, got
    <2>2. (o + 1) + (i - 1) + l = asked - got
        BY <2>1, Sums
    <2> QED
        BY <1>4, <1>8, <2>2 DEF o, i, l, asked, got
<1> HIDE DEF r
<1>14. Len(r.output) <= MaxOutput
    BY <1>2, <1>3, <1>8, <1>12
<1>15. Sound(r, generation)
    BY <1>6, <1>7, <1>9, <1>10, <1>11, <1>12, <1>13, <1>14 DEF Sound, Ordered
<1>16. r = [t EXCEPT !.input = Tail(@), !.output = Append(@, Answer(Head(t.input)))]
    BY <1>1 DEF r, in, out, a, TcpConnections
<1> QED
    BY <1>12, <1>15, <1>16

(* The oldest answer has left. *)
LEMMA SendSound ==
    ASSUME NEW g \in 0..MaxGeneration, NEW t, Sound(t, g), t.output # <<>>
    PROVE  LET answer == Head(t.output)
               r == [t EXCEPT !.output = Tail(@), !.got = answer.id,
                              !.newest = IF answer.generation = 0 THEN @ ELSE answer.generation]
           IN Sound(r, g) /\ r.open = t.open
<1> DEFINE a == Head(t.output)
           out == Tail(t.output)
           got == a.id
           newest == IF a.generation = 0 THEN t.newest ELSE a.generation
           r == [t EXCEPT !.output = out, !.got = got, !.newest = newest]
<1>1. t \in TcpConnections /\ t.wire \in Seq(Received) /\ t.input \in Seq(Received)
      /\ t.output \in Seq(Answers)
    BY DEF Sound, TcpConnections
<1>2. t.asked \in Nat /\ t.got \in Nat /\ t.newest \in Nat /\ g \in Nat /\ MaxOutput \in Nat
    BY <1>1, ModbusAssumption, ViewBounds DEF TcpConnections
<1>3. Len(t.wire) \in Nat /\ Len(t.input) \in Nat /\ Len(t.output) \in Nat \ {0}
    BY <1>1, LenProperties, EmptySeq
<1>4. a \in Answers /\ out \in Seq(Answers) /\ Len(out) = Len(t.output) - 1
    BY <1>1, HeadTailProperties
<1>5. got \in 0..MaxAsked /\ newest \in 0..MaxGeneration
    BY <1>1, <1>4 DEF Answers, TcpConnections
<1>6. /\ Numbered(t.output, t.got) /\ Numbered(t.input, t.got + Len(t.output))
      /\ Numbered(t.wire, t.got + Len(t.output) + Len(t.input)) /\ Fresh(t.output, t.newest, g)
    BY DEF Sound, Ordered
<1>7. got = t.got + 1 /\ Numbered(out, got)
    BY <1>1, <1>2, <1>6, NumberedTail
<1>8. Fresh(out, newest, g)
    BY <1>1, <1>2, <1>6, FreshTail
<1> HIDE DEF out, got, newest, a
<1>9. got + Len(out) = t.got + Len(t.output)
    <2> DEFINE before == t.got
               n == Len(t.output)
               m == Len(out)
    <2>1. before \in Nat /\ n \in Nat /\ m = n - 1 /\ got = before + 1
        BY <1>2, <1>3, <1>4, <1>7
    <2> HIDE DEF before, n, m
    <2>2. got + m = before + n
        BY <2>1
    <2> QED
        BY <2>2 DEF before, n, m
<1>10. /\ r \in TcpConnections /\ r.wire = t.wire /\ r.input = t.input /\ r.asked = t.asked
       /\ r.output = out /\ r.got = got /\ r.newest = newest /\ r.open = t.open
    BY <1>1, <1>4, <1>5 DEF TcpConnections
<1>11. Len(out) + Len(t.input) + Len(t.wire) = t.asked - got
    <2> DEFINE o == Len(t.output)
               i == Len(t.input)
               l == Len(t.wire)
               asked == t.asked
               before == t.got
    <2>1. o + i + l = asked - before /\ o \in Nat \ {0} /\ i \in Nat /\ l \in Nat
          /\ asked \in Nat /\ before \in Nat
        BY <1>2, <1>3 DEF Sound, Ordered
    <2> HIDE DEF o, i, l, asked, before
    <2>2. (o - 1) + i + l = asked - (before + 1)
        BY <2>1, Sums
    <2> QED
        BY <1>4, <1>7, <2>2 DEF o, i, l, asked, before
<1> HIDE DEF r
<1>12. Len(r.output) <= MaxOutput
    <2>1. Len(t.output) <= MaxOutput
        BY DEF Sound
    <2> QED
        BY <1>2, <1>3, <1>4, <1>10, <2>1
<1>13. Sound(r, g)
    BY <1>6, <1>7, <1>8, <1>9, <1>10, <1>11, <1>12 DEF Sound, Ordered
<1>14. r = [t EXCEPT !.output = Tail(@), !.got = a.id,
                     !.newest = IF a.generation = 0 THEN @ ELSE a.generation]
    BY <1>1 DEF r, out, got, newest, TcpConnections
<1> QED
    BY <1>10, <1>13, <1>14 DEF a

TcpInv == TcpTypeOK /\ InOrder

(* One connection changes, from one sound record to another, and if it is
   opened there was room for it. *)
LEMMA OneConnection ==
    ASSUME NEW c \in TcpClients, NEW r, TcpInv, generation \in 0..MaxGeneration,
           Sound(r, generation), SetTcp(c, r), UNCHANGED <<generation, tcpWanted, tcpActive>>,
           ~r.open => r = NoTcp,
           r.open => tcp[c].open \/ Cardinality(Connected) < MaxTcp
    PROVE  TcpInv'
<1>1. tcp \in [TcpClients -> TcpConnections] /\ r \in TcpConnections
    BY DEF TcpInv, TcpTypeOK, Sound
<1>2. /\ tcp' \in [TcpClients -> TcpConnections]
      /\ tcp'[c] = r /\ \A d \in TcpClients \ {c} : tcp'[d] = tcp[d]
    BY <1>1 DEF SetTcp
<1>3. Cardinality(Connected') <= MaxTcp
    <2> DEFINE C == Connected
    <2>1. C \subseteq TcpClients /\ (tcp[c].open <=> c \in C) /\ tcp[c].open \in BOOLEAN
          /\ r.open \in BOOLEAN
        BY <1>1 DEF Connected, TcpConnections
    <2>2. C' = IF r.open THEN C \cup {c} ELSE C \ {c}
        BY <1>2 DEF Connected
    <2>3. Cardinality(C) <= MaxTcp /\ MaxTcp \in Nat
        BY ModbusAssumption DEF TcpInv, TcpTypeOK
    <2>4. r.open => (tcp[c].open \/ Cardinality(C) < MaxTcp)
        OBVIOUS
    <2> HIDE DEF C
    <2>5. /\ Cardinality(C) \in Nat /\ Cardinality(C') \in Nat
          /\ Cardinality(C') = Cardinality(C) + One(r.open) - One(tcp[c].open)
        BY <2>1, <2>2, ModbusAssumption, Counting
    <2>6. Cardinality(C') <= MaxTcp
        BY <2>3, <2>4, <2>5 DEF One
    <2> QED
        BY <2>6 DEF C
<1>4. \A d \in TcpClients :
         Len(tcp'[d].output) <= MaxOutput /\ (~tcp'[d].open => tcp'[d] = NoTcp)
    BY <1>2 DEF TcpInv, TcpTypeOK, Sound
<1>5. \A d \in TcpClients : Ordered(tcp'[d], generation)
    BY <1>2 DEF TcpInv, InOrder, Sound
<1> QED
    BY <1>2, <1>3, <1>4, <1>5 DEF TcpInv, TcpTypeOK, InOrder

LEMMA TcpStep ==
    ASSUME TcpInv, TcpNext, generation \in 0..MaxGeneration, faults \in 0..MaxFaults
    PROVE  TcpInv' /\ faults' \in 0..MaxFaults
<1>1. \A c \in TcpClients : Sound(tcp[c], generation) /\ tcp[c].open \in BOOLEAN
                             /\ (~tcp[c].open => tcp[c] = NoTcp)
    BY DEF TcpInv, TcpTypeOK, InOrder, Sound, TcpConnections
<1>2. NoTcp.open = FALSE /\ NoTcp.output = <<>> /\ NoTcp.input = <<>>
      /\ [NoTcp EXCEPT !.open = TRUE].open = TRUE
    BY DEF NoTcp
<1>3. ASSUME NEW c \in TcpClients, TcpAsk(c) PROVE TcpInv' /\ UNCHANGED faults
    <2>1. PICK request \in Requests(tcp[c].asked + 1) :
             SetTcp(c, [tcp[c] EXCEPT !.wire = Append(@, request), !.asked = @ + 1])
        BY <1>3 DEF TcpAsk
    <2> DEFINE r == [tcp[c] EXCEPT !.wire = Append(@, request), !.asked = @ + 1]
    <2>2. Sound(r, generation) /\ r.open = tcp[c].open
        BY <1>1, <1>3, AskSound DEF TcpAsk
    <2>3. SetTcp(c, r)
        BY <2>1
    <2> HIDE DEF r
    <2> QED
        BY <1>3, <2>2, <2>3, OneConnection DEF TcpAsk, view
<1>4. ASSUME NEW c \in TcpClients, TcpAccept(c) PROVE TcpInv' /\ UNCHANGED faults
    <2> DEFINE r == [NoTcp EXCEPT !.open = TRUE]
    <2>1. Sound(r, generation) /\ r.open = TRUE
        BY <1>2, NoTcpSound
    <2>2. SetTcp(c, r)
        BY <1>4 DEF TcpAccept
    <2> HIDE DEF r
    <2> QED
        BY <1>4, <2>1, <2>2, OneConnection DEF TcpAccept, view
<1>5. ASSUME NEW c \in TcpClients, TcpReceive(c) PROVE TcpInv' /\ UNCHANGED faults
    <2>1. PICK n \in 1..Len(tcp[c].wire) :
             SetTcp(c, [tcp[c] EXCEPT !.input = SubSeq(tcp[c].wire, 1, n),
                                      !.wire = SubSeq(@, n + 1, Len(@))])
        BY <1>5 DEF TcpReceive
    <2> DEFINE r == [tcp[c] EXCEPT !.input = SubSeq(tcp[c].wire, 1, n),
                                   !.wire = SubSeq(@, n + 1, Len(@))]
    <2>2. Sound(r, generation) /\ r.open = tcp[c].open
        <3> DEFINE t == tcp[c]
                   g == generation
        <3>1. g \in 0..MaxGeneration /\ Sound(t, g)
            BY <1>1
        <3>2. t.input = <<>> /\ n \in 1..Len(t.wire)
            BY <1>5 DEF TcpReceive, Polling
        <3>3. r = [t EXCEPT !.input = SubSeq(t.wire, 1, n), !.wire = SubSeq(@, n + 1, Len(@))]
            OBVIOUS
        <3> HIDE DEF t, g, r
        <3>4. Sound(r, g) /\ r.open = t.open
            BY <3>1, <3>2, <3>3, ReceiveSound
        <3> QED
            BY <3>4 DEF t, g
    <2>3. SetTcp(c, r)
        BY <2>1
    <2> HIDE DEF r
    <2> QED
        BY <1>5, <2>2, <2>3, OneConnection DEF TcpReceive, view
<1>6. ASSUME NEW c \in TcpClients, SetTcp(c, NoTcp), UNCHANGED <<view, faults, tcpWanted, tcpActive>>
      PROVE  TcpInv' /\ UNCHANGED faults
    BY <1>2, <1>6, NoTcpSound, OneConnection DEF view
<1>7. ASSUME NEW c \in TcpClients, TcpHandle(c) PROVE TcpInv' /\ UNCHANGED faults
    <2> DEFINE request == Head(tcp[c].input)
               r == [tcp[c] EXCEPT !.input = Tail(@), !.output = Append(@, Answer(request))]
    <2>1. CASE request.kind = "malformed" \/ Len(tcp[c].output) >= MaxOutput
        <3>1. SetTcp(c, NoTcp)
            BY <1>7, <2>1 DEF TcpHandle
        <3> QED
            BY <1>6, <1>7, <3>1 DEF TcpHandle
    <2>2. CASE ~(request.kind = "malformed" \/ Len(tcp[c].output) >= MaxOutput)
        <3>1. SetTcp(c, r) /\ tcp[c].input # <<>>
            BY <1>7, <2>2 DEF TcpHandle
        <3>2. Len(tcp[c].output) < MaxOutput
            <4>1. tcp[c].output \in Seq(Answers)
                BY <1>1 DEF Sound, TcpConnections
            <4>2. Len(tcp[c].output) \in Nat /\ MaxOutput \in Nat
                BY <4>1, LenProperties, ModbusAssumption
            <4> QED
                BY <2>2, <4>2
        <3>3. Sound(r, generation) /\ r.open = tcp[c].open
            BY <1>1, <3>1, <3>2, HandleSound
        <3>4. tcp[c].open
            BY <1>1, <1>2, <3>1
        <3> HIDE DEF r
        <3> QED
            BY <1>7, <3>1, <3>3, <3>4, OneConnection DEF TcpHandle, view
    <2> QED
        BY <2>1, <2>2
<1>8. ASSUME NEW c \in TcpClients, TcpSend(c) PROVE TcpInv' /\ UNCHANGED faults
    <2> DEFINE answer == Head(tcp[c].output)
               r == [tcp[c] EXCEPT !.output = Tail(@), !.got = answer.id,
                                   !.newest = IF answer.generation = 0 THEN @
                                              ELSE answer.generation]
    <2>1. SetTcp(c, r) /\ tcp[c].output # <<>>
        BY <1>8 DEF TcpSend
    <2>2. Sound(r, generation) /\ r.open = tcp[c].open
        BY <1>1, <2>1, SendSound
    <2>3. tcp[c].open
        BY <1>1, <1>2, <2>1
    <2> HIDE DEF r
    <2> QED
        BY <1>8, <2>1, <2>2, <2>3, OneConnection DEF TcpSend, view
<1>9. CASE UpdateOptions
    BY <1>9, ViewBounds DEF UpdateOptions, TcpInv, TcpTypeOK, InOrder, Connected, Endpoints, view
<1>10. CASE TcpReload
    <2>1. tcpActive' \in {tcpActive, tcpWanted} /\ UNCHANGED <<tcpWanted, generation>>
          /\ (UNCHANGED tcp \/ tcp' = [c \in TcpClients |-> NoTcp])
          /\ (NoFault \/ Fault)
        BY <1>10 DEF TcpReload, view
    <2>2. faults' \in 0..MaxFaults
        BY <2>1, ViewBounds DEF NoFault, Fault
    <2>3. /\ tcpWanted' \in Endpoints /\ tcpActive' \in Endpoints
          /\ tcpActive'.version <= tcpWanted'.version
        BY <2>1, ViewBounds DEF TcpInv, TcpTypeOK, Endpoints
    <2>4. CASE UNCHANGED tcp
        BY <2>1, <2>2, <2>3, <2>4 DEF TcpInv, TcpTypeOK, InOrder, Connected
    <2>5. CASE tcp' = [c \in TcpClients |-> NoTcp]
        <3>1. \A c \in TcpClients : tcp'[c] = NoTcp
            BY <2>5
        <3>2. Sound(NoTcp, generation)
            BY NoTcpSound
        <3>3. tcp' \in [TcpClients -> TcpConnections]
            BY <2>5, <3>2 DEF Sound
        <3>4. Connected' = {}
            BY <1>2, <3>1 DEF Connected
        <3>5. Cardinality(Connected') <= MaxTcp
            BY <3>4, FS_EmptySet, ModbusAssumption
        <3> QED
            BY <2>1, <2>2, <2>3, <3>1, <3>2, <3>3, <3>5 DEF TcpInv, TcpTypeOK, InOrder, Sound
    <2> QED
        BY <2>1, <2>4, <2>5
<1>11. ASSUME NEW c \in TcpClients, TcpHangup(c) PROVE TcpInv' /\ UNCHANGED faults
    BY <1>6, <1>11 DEF TcpHangup
<1> QED
    BY <1>3, <1>4, <1>5, <1>7, <1>8, <1>9, <1>10, <1>11 DEF TcpNext, UpdateOptions

-----------------------------------------------------------------------------
(* The Modbus RTU server *)

(* The number of requests among some bytes is a number. *)
LEMMA OwnRequestsFinite ==
    ASSUME NEW s \in Seq(Bytes)
    PROVE  Cardinality(OwnRequests(s)) \in Nat
<1> DEFINE K == 0..(Len(s) \div FrameBytes) - 1
           f == [k \in K |-> SubSeq(s, k * FrameBytes + 1, (k + 1) * FrameBytes)]
<1>1. FrameBytes \in Nat \ {0} /\ Len(s) \in Nat
    BY ModbusAssumption, LenProperties
<1>2. (Len(s) \div FrameBytes) - 1 \in Int
    BY <1>1
<1>3. IsFiniteSet(K)
    BY <1>2, FS_Interval
<1>4. f \in Surjection(K, Groups(s))
    <2> HIDE DEF K
    <2>1. Groups(s) = {f[k] : k \in K}
        BY DEF Groups, K
    <2> QED
        BY <2>1 DEF Surjection
<1>5. IsFiniteSet(Groups(s))
    <2> HIDE DEF K, f
    <2> QED
        BY <1>3, <1>4, FS_Surjection
<1>6. OwnRequests(s) \in SUBSET Groups(s)
    BY DEF OwnRequests
<1>7. IsFiniteSet(OwnRequests(s))
    BY <1>5, <1>6, FS_Subset
<1> QED
    BY <1>7, FS_CardinalityType

LEMMA FrameType ==
    ASSUME NEW n \in 0..MaxAsked
    PROVE  FrameOf(n) \in Seq(Bytes)
<1>1. FrameBytes \in Nat /\ \A i \in 1..FrameBytes : <<n, i>> \in Bytes
    BY ModbusAssumption DEF Bytes
<1> QED
    BY <1>1 DEF FrameOf

(* Between reads less than a frame is left. *)
LEMMA RtuStep ==
    ASSUME RtuTypeOK, RtuNext
    PROVE  RtuTypeOK' /\ UNCHANGED <<view, faults>>
<1> USE DEF RtuTypeOK
<1>1. MaxAsked \in Nat /\ FrameBytes \in Nat \ {0} /\ ReadBytes \in Nat
    BY ModbusAssumption
<1>2. CASE RtuAsk
    <2>1. rtuAsked + 1 \in 0..MaxAsked
        BY <1>1, <1>2 DEF RtuAsk
    <2>2. rtuWire \o FrameOf(rtuAsked + 1) \in Seq(Bytes)
        BY <2>1, FrameType, ConcatProperties
    <2> QED
        BY <1>2, <2>1, <2>2 DEF RtuAsk
<1>3. CASE RtuOther
    <2>1. rtuWire \o FrameOf(0) \in Seq(Bytes)
        BY <1>1, FrameType, ConcatProperties
    <2> QED
        BY <1>3, <2>1 DEF RtuOther
<1>4. CASE RtuNoise
    <2>1. <<0, 0>> \in Bytes
        BY <1>1 DEF Bytes
    <2>2. Append(rtuWire, <<0, 0>>) \in Seq(Bytes)
        BY <2>1, AppendProperties
    <2> QED
        BY <1>4, <2>2 DEF RtuNoise
<1>5. CASE RtuRead
    <2>1. PICK k \in 1..ReadBytes :
             /\ k <= Len(rtuWire)
             /\ rtuWire' = SubSeq(rtuWire, k + 1, Len(rtuWire))
             /\ LET input == rtuInput \o SubSeq(rtuWire, 1, k)
                    rest == Len(input) % FrameBytes
                IN IF Len(input) > MaxFrameBytes
                   THEN rtuInput' = <<>> /\ UNCHANGED rtuAnswered
                   ELSE /\ rtuInput' = SubSeq(input, Len(input) - rest + 1, Len(input))
                        /\ rtuAnswered' = rtuAnswered + Cardinality(OwnRequests(input))
             /\ UNCHANGED <<view, faults, rtuAsked, noise>>
        BY <1>5 DEF RtuRead
    <2> DEFINE input == rtuInput \o SubSeq(rtuWire, 1, k)
               l == Len(input)
               rest == l % FrameBytes
               left == SubSeq(input, l - rest + 1, l)
    <2>2. k \in Nat /\ Len(rtuWire) \in Nat /\ \A i \in 1..Len(rtuWire) : rtuWire[i] \in Bytes
        BY <1>1, ElementOfSeq, LenProperties
    <2>3. SubSeq(rtuWire, 1, k) \in Seq(Bytes) /\ SubSeq(rtuWire, k + 1, Len(rtuWire)) \in Seq(Bytes)
        BY <2>1, <2>2, SubSeqProperties
    <2>4. input \in Seq(Bytes)
        BY <2>3, ConcatProperties
    <2> HIDE DEF input
    <2>5. l \in Nat /\ \A i \in 1..l : input[i] \in Bytes
        BY <2>4, ElementOfSeq, LenProperties
    <2>6. rest \in Nat /\ rest < FrameBytes /\ rest <= l
        <3> HIDE DEF l
        <3> QED
            BY <1>1, <2>5
    <2>7. left \in Seq(Bytes) /\ Len(left) < FrameBytes
        <3> HIDE DEF l, rest
        <3> DEFINE m == l - rest + 1
        <3>1. m \in Int /\ l \in Int /\ \A i \in m..l : input[i] \in Bytes
            BY <2>5, <2>6
        <3>2. left \in Seq(Bytes) /\ Len(left) = IF m <= l THEN l - m + 1 ELSE 0
            BY <3>1, SubSeqProperties
        <3>3. Len(left) = rest
            BY <2>5, <2>6, <3>2
        <3> QED
            BY <2>6, <3>2, <3>3
    <2>8. Cardinality(OwnRequests(input)) \in Nat
        BY <2>4, OwnRequestsFinite
    <2>9. \/ rtuInput' = <<>> /\ UNCHANGED rtuAnswered
          \/ rtuInput' = left /\ rtuAnswered' = rtuAnswered + Cardinality(OwnRequests(input))
        BY <2>1 DEF input
    <2> HIDE DEF left
    <2>10. rtuInput' \in Seq(Bytes) /\ Len(rtuInput') < FrameBytes /\ rtuAnswered' \in Nat
        <3>1. CASE rtuInput' = <<>> /\ UNCHANGED rtuAnswered
            <4>1. <<>> \in Seq(Bytes) /\ Len(<<>>) = 0
                BY EmptySeq
            <4> QED
                BY <1>1, <3>1, <4>1
        <3>2. CASE rtuInput' = left /\ rtuAnswered' = rtuAnswered + Cardinality(OwnRequests(input))
            BY <2>7, <2>8, <3>2
        <3> QED
            BY <2>9, <3>1, <3>2
    <2> QED
        BY <2>1, <2>3, <2>10
<1> QED
    BY <1>2, <1>3, <1>4, <1>5 DEF RtuNext, RtuAsk, RtuOther, RtuNoise, RtuRead

-----------------------------------------------------------------------------
(* Frames on the serial line *)

(* Where the j-th frame from the first begins *)
Offset(j) == j * FrameBytes

(* s is q whole frames, F[j] the number of the j-th one. *)
Framed(s, q, F) ==
    /\ q \in Nat /\ F \in [0..q - 1 -> 0..MaxAsked]
    /\ s \in Seq(Bytes) /\ Len(s) = Offset(q)
    /\ \A j \in 0..q - 1 : \A i \in 1..FrameBytes : s[Offset(j) + i] = <<F[j], i>>

(* The frames that are requests to this unit; none occurs twice. *)
Own(q, F) == {j \in 0..q - 1 : F[j] > 0}

Distinct(q, F) == \A j, k \in 0..q - 1 : F[j] = F[k] /\ F[j] > 0 => j = k

(* Without noise the bytes read and not read are whole frames from the first byte
   on, and those to this unit among them are the requests without an answer. *)
Aligned ==
    ~noise => \E q \in Nat : \E F \in [0..q - 1 -> 0..MaxAsked] :
        /\ Framed(rtuInput \o rtuWire, q, F)
        /\ Distinct(q, F)
        /\ \A j \in 0..q - 1 : F[j] <= rtuAsked
        /\ rtuAnswered + Cardinality(Own(q, F)) = rtuAsked

LEMMA Offsets ==
    ASSUME NEW j \in Int, NEW k \in Int
    PROVE  /\ Offset(j) \in Int
           /\ Offset(0) = 0
           /\ Offset(j + k) = Offset(j) + Offset(k)
           /\ Offset(j + 1) = Offset(j) + FrameBytes
           /\ j < k => Offset(j) + FrameBytes <= Offset(k)
           /\ j <= k => Offset(j) <= Offset(k)
<1>1. FrameBytes \in Nat \ {0}
    BY ModbusAssumption
<1>2. ASSUME NEW d \in Nat PROVE d * FrameBytes >= 0
    BY <1>1
<1>3. j < k => Offset(j) + FrameBytes <= Offset(k)
    <2> SUFFICES ASSUME j < k PROVE j * FrameBytes + FrameBytes <= k * FrameBytes
        BY DEF Offset
    <2>1. ((k - j) - 1) * FrameBytes >= 0
        BY <1>2
    <2>2. ((k - j) - 1) * FrameBytes = (k * FrameBytes - j * FrameBytes) - FrameBytes
        BY <1>1
    <2>3. k * FrameBytes \in Int /\ j * FrameBytes \in Int
        BY <1>1
    <2> QED
        BY <1>1, <2>1, <2>2, <2>3
<1>4. Offset(j) \in Int /\ Offset(k) \in Int /\ Offset(0) = 0
    BY <1>1 DEF Offset
<1>5. Offset(j + k) = Offset(j) + Offset(k) /\ Offset(j + 1) = Offset(j) + FrameBytes
    BY <1>1 DEF Offset
<1>6. j <= k => Offset(j) <= Offset(k)
    BY <1>1, <1>3, <1>4
<1> QED
    BY <1>3, <1>4, <1>5, <1>6

(* Every number is a place in some frame. *)
LEMMA Places ==
    ASSUME NEW p \in Nat
    PROVE  /\ p \div FrameBytes \in Nat
           /\ p % FrameBytes \in 0..FrameBytes - 1
           /\ p = Offset(p \div FrameBytes) + (p % FrameBytes)
<1>1. FrameBytes \in Nat \ {0}
    BY ModbusAssumption
<1>2. p \div FrameBytes \in Int /\ p % FrameBytes \in 0..FrameBytes - 1
      /\ p = FrameBytes * (p \div FrameBytes) + (p % FrameBytes)
    BY <1>1
<1>3. p \div FrameBytes >= 0
    BY <1>1
<1> QED
    BY <1>1, <1>2, <1>3 DEF Offset

(* The place of a byte in one of q frames *)
LEMMA PlaceIn ==
    ASSUME NEW q \in Nat, NEW p \in 1..Offset(q)
    PROVE  \E j \in 0..q - 1 : \E i \in 1..FrameBytes : p = Offset(j) + i
<1> DEFINE j == (p - 1) \div FrameBytes
           r == (p - 1) % FrameBytes
<1>1. FrameBytes \in Nat \ {0} /\ Offset(q) \in Int
    BY ModbusAssumption, Offsets
<1>2. p - 1 \in Nat
    BY <1>1
<1>3. j \in Nat /\ r \in 0..FrameBytes - 1 /\ p - 1 = Offset(j) + r
    BY <1>2, Places
<1> HIDE DEF j, r
<1>4. Offset(j) \in Int /\ (q <= j => Offset(q) <= Offset(j))
    BY <1>3, Offsets
<1>5. j < q
    BY <1>1, <1>2, <1>3, <1>4
<1>6. j \in 0..q - 1 /\ r + 1 \in 1..FrameBytes /\ p = Offset(j) + (r + 1)
    BY <1>1, <1>3, <1>4, <1>5
<1> QED
    BY <1>6

(* The frames are finitely many. *)
LEMMA OwnFinite ==
    ASSUME NEW q \in Nat, NEW F
    PROVE  IsFiniteSet(Own(q, F)) /\ Cardinality(Own(q, F)) \in Nat
<1>1. IsFiniteSet(0..q - 1)
    <2>1. 0 \in Int /\ q - 1 \in Int
        OBVIOUS
    <2> QED
        BY <2>1, FS_Interval
<1>2. Own(q, F) \subseteq 0..q - 1
    BY DEF Own
<1> QED
    BY <1>1, <1>2, FS_Subset, FS_CardinalityType

(* The last bytes of requests to this unit are as many as those requests. *)
LEMMA UnreadFrames ==
    ASSUME NEW s, NEW q, NEW F, Framed(s, q, F)
    PROVE  Cardinality({k \in 1..Len(s) : s[k][1] > 0 /\ s[k][2] = FrameBytes})
               = Cardinality(Own(q, F))
<1> DEFINE T == {k \in 1..Len(s) : s[k][1] > 0 /\ s[k][2] = FrameBytes}
           O == Own(q, F)
           g == [j \in O |-> Offset(j) + FrameBytes]
<1>1. /\ q \in Nat /\ Len(s) = Offset(q) /\ Offset(q) \in Int
      /\ \A j \in 0..q - 1 : F[j] \in 0..MaxAsked
      /\ \A j \in 0..q - 1 : \A i \in 1..FrameBytes : s[Offset(j) + i] = <<F[j], i>>
    <2>1. q \in Nat
        BY DEF Framed
    <2>2. Offset(q) \in Int
        BY <2>1, Offsets
    <2> QED
        BY <2>1, <2>2 DEF Framed
<1>2. FrameBytes \in 1..FrameBytes /\ FrameBytes \in Nat \ {0}
    BY ModbusAssumption
<1>3. ASSUME NEW j \in O PROVE g[j] \in T
    <2>1. j \in 0..q - 1 /\ F[j] > 0 /\ j \in Int
        BY <1>1 DEF Own
    <2>2. s[Offset(j) + FrameBytes] = <<F[j], FrameBytes>>
        BY <1>1, <1>2, <2>1
    <2>3. Offset(j) \in Int /\ Offset(0) = 0 /\ 0 <= j /\ j < q
          /\ Offset(j) + FrameBytes <= Offset(q) /\ Offset(0) <= Offset(j)
        BY <1>1, <2>1, Offsets
    <2>4. Offset(j) + FrameBytes \in 1..Len(s)
        BY <1>1, <1>2, <2>3
    <2> HIDE DEF O
    <2> QED
        BY <2>1, <2>2, <2>4
<1>4. ASSUME NEW j \in O, NEW k \in O, g[j] = g[k] PROVE j = k
    <2>1. j \in Int /\ k \in Int
        BY <1>1 DEF Own
    <2>2. Offset(j) \in Int /\ Offset(k) \in Int
          /\ (j < k => Offset(j) + FrameBytes <= Offset(k))
          /\ (k < j => Offset(k) + FrameBytes <= Offset(j))
        BY <2>1, Offsets
    <2> HIDE DEF O
    <2> QED
        BY <1>2, <1>4, <2>1, <2>2
<1>5. ASSUME NEW p \in T PROVE \E j \in O : g[j] = p
    <2>1. p \in 1..Offset(q) /\ s[p][1] > 0 /\ s[p][2] = FrameBytes
        BY <1>1
    <2>2. PICK j \in 0..q - 1 : \E i \in 1..FrameBytes : p = Offset(j) + i
        BY <1>1, <2>1, PlaceIn
    <2>3. PICK i \in 1..FrameBytes : p = Offset(j) + i
        BY <2>2
    <2>4. s[p] = <<F[j], i>>
        BY <1>1, <2>3
    <2>5. i = FrameBytes /\ F[j] > 0
        BY <2>1, <2>4
    <2>6. j \in O
        BY <2>5 DEF Own
    <2> HIDE DEF O
    <2> QED
        BY <2>3, <2>5, <2>6
<1>6. g \in Bijection(O, T)
    <2> HIDE DEF O, T
    <2>1. g \in [O -> T]
        BY <1>3
    <2> HIDE DEF g
    <2>2. g \in Injection(O, T)
        BY <1>4, <2>1 DEF Injection, IsInjective
    <2>3. g \in Surjection(O, T)
        BY <1>5, <2>1 DEF Surjection
    <2> QED
        BY <2>2, <2>3 DEF Bijection
<1>7. IsFiniteSet(O)
    BY <1>1, OwnFinite
<1> HIDE DEF O, T, g
<1>8. ExistsBijection(O, T)
    BY <1>6 DEF ExistsBijection
<1>9. Cardinality(T) = Cardinality(O)
    BY <1>7, <1>8, FS_Bijection
<1> QED
    BY <1>9 DEF O, T

(* G are the q frame numbers of F and one more, n. *)
Extended(q, F, n, G) ==
    /\ G \in [0..q -> 0..MaxAsked]
    /\ \A j \in 0..q - 1 : G[j] = F[j]
    /\ G[q] = n

(* One more frame on the line *)
LEMMA FrameAdded ==
    ASSUME NEW s, NEW q, NEW F, Framed(s, q, F), NEW n \in 0..MaxAsked,
           NEW G, Extended(q, F, n, G)
    PROVE  /\ Framed(s \o FrameOf(n), q + 1, G)
           /\ Cardinality(Own(q + 1, G)) = Cardinality(Own(q, F)) + IF n > 0 THEN 1 ELSE 0
<1>0. G \in [0..q -> 0..MaxAsked] /\ (\A j \in 0..q - 1 : G[j] = F[j]) /\ G[q] = n
    BY DEF Extended
<1> DEFINE f == FrameOf(n)
           t == s \o f
<1>1. /\ q \in Nat /\ F \in [0..q - 1 -> 0..MaxAsked]
      /\ s \in Seq(Bytes) /\ Len(s) = Offset(q) /\ Offset(q) \in Int
      /\ \A j \in 0..q - 1 : \A i \in 1..FrameBytes : s[Offset(j) + i] = <<F[j], i>>
    <2>1. q \in Nat
        BY DEF Framed
    <2>2. Offset(q) \in Int
        BY <2>1, Offsets
    <2> QED
        BY <2>1, <2>2 DEF Framed
<1>2. FrameBytes \in Nat \ {0} /\ MaxAsked \in Nat
    BY ModbusAssumption
<1>3. f \in Seq(Bytes) /\ Len(f) = FrameBytes /\ \A i \in 1..FrameBytes : f[i] = <<n, i>>
    BY <1>2, FrameType DEF FrameOf
<1> HIDE DEF f
<1>4. /\ t \in Seq(Bytes) /\ Len(t) = Offset(q) + FrameBytes
      /\ \A i \in 1..Offset(q) + FrameBytes :
            t[i] = IF i <= Offset(q) THEN s[i] ELSE f[i - Offset(q)]
    <2>1. /\ t \in Seq(Bytes) /\ Len(t) = Len(s) + Len(f)
          /\ \A i \in 1..Len(s) + Len(f) : t[i] = IF i <= Len(s) THEN s[i] ELSE f[i - Len(s)]
        <3>1. s \in Seq(Bytes) /\ f \in Seq(Bytes)
            BY <1>1, <1>3
        <3> QED
            BY <3>1, ConcatProperties
    <2> HIDE DEF t
    <2> QED
        BY <1>1, <1>3, <2>1
<1> HIDE DEF t
<1>5. Offset(q + 1) = Offset(q) + FrameBytes
    BY <1>1, Offsets
<1>6. 0..(q + 1) - 1 = 0..q
    BY <1>1
<1>7. ASSUME NEW j \in 0..(q + 1) - 1, NEW i \in 1..FrameBytes
      PROVE  t[Offset(j) + i] = <<G[j], i>>
    <2>1. j \in Int /\ 0 <= j /\ Offset(j) \in Int /\ Offset(0) = 0 /\ Offset(0) <= Offset(j)
          /\ (j < q => Offset(j) + FrameBytes <= Offset(q))
        <3>1. j \in Int /\ q \in Int /\ 0 \in Int /\ 0 <= j
            BY <1>1
        <3> QED
            BY <3>1, Offsets
    <2>2. CASE j < q
        <3>1. j \in 0..q - 1 /\ G[j] = F[j]
            BY <1>0, <1>1, <2>1, <2>2
        <3>2. Offset(j) + i \in 1..Offset(q)
            BY <1>1, <1>2, <2>1, <2>2
        <3>3. Offset(j) + i \in 1..Offset(q) + FrameBytes /\ Offset(j) + i <= Offset(q)
            BY <1>1, <1>2, <2>1, <3>2
        <3> QED
            BY <1>1, <1>4, <3>1, <3>3
    <2>3. CASE j = q
        <3>1. G[j] = n
            BY <1>0, <2>3
        <3>2. Offset(q) + i \in 1..Offset(q) + FrameBytes /\ ~(Offset(q) + i <= Offset(q))
              /\ (Offset(q) + i) - Offset(q) = i
            BY <1>1, <1>2, <2>1, <2>3
        <3> QED
            BY <1>3, <1>4, <2>3, <3>1, <3>2
    <2> QED
        BY <1>1, <2>2, <2>3
<1>8. Framed(t, q + 1, G)
    <2>1. q + 1 \in Nat /\ (q + 1) - 1 = q
        BY <1>1
    <2> QED
        BY <1>0, <1>4, <1>5, <1>6, <1>7, <2>1 DEF Framed
<1>9. Own(q + 1, G) = IF n > 0 THEN Own(q, F) \cup {q} ELSE Own(q, F)
    BY <1>0, <1>1, <1>2 DEF Own
<1>10. q \notin Own(q, F) /\ IsFiniteSet(Own(q, F)) /\ Cardinality(Own(q, F)) \in Nat
    <2>1. q \notin Own(q, F)
        BY <1>1 DEF Own
    <2> QED
        BY <1>1, <2>1, OwnFinite
<1>11. Cardinality(Own(q, F) \cup {q}) = Cardinality(Own(q, F)) + 1
    BY <1>10, FS_AddElement
<1>12. Cardinality(Own(q + 1, G)) = Cardinality(Own(q, F)) + IF n > 0 THEN 1 ELSE 0
    BY <1>9, <1>10, <1>11
<1> QED
    BY <1>8, <1>12 DEF t, f

(* Reading k bytes of w behind a and taking m of the result away leaves what taking
   them away from all of it leaves. *)
LEMMA ReadSplits ==
    ASSUME NEW S, NEW a \in Seq(S), NEW w \in Seq(S), NEW k \in 1..Len(w), NEW m \in 0..Len(a) + k
    PROVE  /\ a \o SubSeq(w, 1, k) = SubSeq(a \o w, 1, Len(a) + k)
           /\ SubSeq(a \o SubSeq(w, 1, k), m + 1, Len(a) + k) \o SubSeq(w, k + 1, Len(w))
                  = SubSeq(a \o w, m + 1, Len(a) + Len(w))
<1> DEFINE u == SubSeq(w, 1, k)
           v == SubSeq(w, k + 1, Len(w))
           x == a \o u
           y == a \o w
           la == Len(a)
           lw == Len(w)
           c == SubSeq(x, m + 1, la + k)
           d == SubSeq(y, m + 1, la + lw)
           e == SubSeq(y, 1, la + k)
           z == c \o v
<1>1. la \in Nat /\ lw \in Nat /\ (\A i \in 1..lw : w[i] \in S) /\ (\A i \in 1..la : a[i] \in S)
    BY LenProperties, ElementOfSeq
<1>2. k \in 1..lw /\ m \in 0..la + k /\ k \in Int /\ m \in Int
    BY <1>1
<1>3. u \in Seq(S) /\ Len(u) = k /\ \A i \in 1..k : u[i] = w[i]
    <2> HIDE DEF lw
    <2>1. \A i \in 1..k : w[i] \in S
        BY <1>1, <1>2
    <2>2. /\ u \in Seq(S) /\ Len(u) = IF 1 <= k THEN k - 1 + 1 ELSE 0
          /\ \A i \in 1 .. k - 1 + 1 : u[i] = w[1 + i - 1]
        BY <1>2, <2>1, SubSeqProperties
    <2> HIDE DEF u
    <2>3. (IF 1 <= k THEN k - 1 + 1 ELSE 0) = k /\ k - 1 + 1 = k
        BY <1>1, <1>2
    <2>4. \A i \in 1..k : 1 + i - 1 = i
        BY <1>2
    <2> QED
        BY <2>2, <2>3, <2>4
<1>4. v \in Seq(S) /\ Len(v) = lw - k /\ \A i \in 1..lw - k : v[i] = w[k + i]
    <2>1. \A i \in k + 1..lw : w[i] \in S
        BY <1>1, <1>2
    <2>2. /\ v \in Seq(S) /\ Len(v) = IF k + 1 <= lw THEN lw - (k + 1) + 1 ELSE 0
          /\ \A i \in 1 .. lw - (k + 1) + 1 : v[i] = w[(k + 1) + i - 1]
        BY <1>1, <1>2, <2>1, SubSeqProperties
    <2> HIDE DEF v, lw
    <2> QED
        BY <1>1, <1>2, <2>2
<1> HIDE DEF u, v
<1>5. x \in Seq(S) /\ Len(x) = la + k
      /\ \A i \in 1..la + k : x[i] = IF i <= la THEN a[i] ELSE u[i - la]
    BY <1>3, ConcatProperties
<1>6. y \in Seq(S) /\ Len(y) = la + lw
      /\ \A i \in 1..la + lw : y[i] = IF i <= la THEN a[i] ELSE w[i - la]
    BY ConcatProperties
<1>7. (\A i \in 1..la + k : x[i] \in S) /\ (\A i \in 1..la + lw : y[i] \in S)
    <2> HIDE DEF x, y, la, lw
    <2> QED
        BY <1>5, <1>6, ElementOfSeq
<1> HIDE DEF x, y, la, lw
<1>8. ASSUME NEW i \in 1..la + k PROVE x[i] = y[i]
    <2>1. i \in 1..la + lw /\ i \in Int
        BY <1>1, <1>2
    <2>2. CASE i <= la
        BY <1>5, <1>6, <2>1, <2>2
    <2>3. CASE ~(i <= la)
        <3>1. i - la \in 1..k
            BY <1>1, <1>2, <2>1, <2>3
        <3> QED
            BY <1>3, <1>5, <1>6, <2>1, <2>3, <3>1
    <2> QED
        BY <2>2, <2>3
<1>9. c \in Seq(S) /\ Len(c) = (la + k) - m /\ \A i \in 1..(la + k) - m : c[i] = x[m + i]
    <2>1. \A i \in m + 1..la + k : x[i] \in S
        BY <1>1, <1>2, <1>7
    <2>2. /\ c \in Seq(S) /\ Len(c) = IF m + 1 <= la + k THEN la + k - (m + 1) + 1 ELSE 0
          /\ \A i \in 1 .. la + k - (m + 1) + 1 : c[i] = x[(m + 1) + i - 1]
        BY <1>1, <1>2, <2>1, SubSeqProperties
    <2> HIDE DEF c
    <2>3. la + k - (m + 1) + 1 = (la + k) - m
        BY <1>1, <1>2
    <2>4. Len(c) = (la + k) - m
        BY <1>1, <1>2, <2>2, <2>3
    <2>5. \A i \in 1..(la + k) - m : (m + 1) + i - 1 = m + i
        BY <1>1, <1>2
    <2> QED
        BY <2>2, <2>3, <2>4, <2>5
<1>10. d \in Seq(S) /\ Len(d) = (la + lw) - m /\ \A i \in 1..(la + lw) - m : d[i] = y[m + i]
    <2>1. \A i \in m + 1..la + lw : y[i] \in S
        BY <1>1, <1>2, <1>7
    <2>2. /\ d \in Seq(S) /\ Len(d) = IF m + 1 <= la + lw THEN la + lw - (m + 1) + 1 ELSE 0
          /\ \A i \in 1 .. la + lw - (m + 1) + 1 : d[i] = y[(m + 1) + i - 1]
        BY <1>1, <1>2, <2>1, SubSeqProperties
    <2> HIDE DEF d
    <2> QED
        BY <1>1, <1>2, <2>2
<1>11. e \in Seq(S) /\ Len(e) = la + k /\ \A i \in 1..la + k : e[i] = y[i]
    <2>1. \A i \in 1..la + k : y[i] \in S
        BY <1>1, <1>2, <1>7
    <2>2. /\ e \in Seq(S) /\ Len(e) = IF 1 <= la + k THEN la + k - 1 + 1 ELSE 0
          /\ \A i \in 1 .. la + k - 1 + 1 : e[i] = y[1 + i - 1]
        BY <1>1, <1>2, <2>1, SubSeqProperties
    <2> HIDE DEF e
    <2> QED
        BY <1>1, <1>2, <2>2
<1> HIDE DEF c, d, e
<1>12. x = e
    BY <1>5, <1>8, <1>11, SeqEqual
<1>13. /\ z \in Seq(S) /\ Len(z) = Len(c) + Len(v)
       /\ \A i \in 1..Len(c) + Len(v) : z[i] = IF i <= Len(c) THEN c[i] ELSE v[i - Len(c)]
    BY <1>4, <1>9, ConcatProperties
<1> HIDE DEF z
<1>14. Len(z) = Len(d)
    BY <1>1, <1>2, <1>4, <1>9, <1>10, <1>13
<1>15. ASSUME NEW i \in 1..Len(z) PROVE z[i] = d[i]
    <2>1. i \in Int /\ 1 <= i /\ i <= (la + lw) - m /\ d[i] = y[m + i]
        BY <1>1, <1>2, <1>10, <1>14
    <2>2. CASE i <= Len(c)
        <3>1. z[i] = x[m + i] /\ m + i \in 1..la + k
            BY <1>1, <1>2, <1>9, <1>13, <2>1, <2>2
        <3> QED
            BY <1>8, <2>1, <3>1
    <2>3. CASE i > Len(c)
        <3>1. z[i] = v[i - Len(c)] /\ i - Len(c) \in 1..lw - k
            BY <1>1, <1>2, <1>4, <1>9, <1>13, <2>1, <2>3
        <3>2. v[i - Len(c)] = w[k + (i - Len(c))] /\ k + (i - Len(c)) = (m + i) - la
            <4> DEFINE n == Len(c)
            <4>1. v[i - n] = w[k + (i - n)]
                BY <1>4, <3>1
            <4>2. n = (la + k) - m
                BY <1>9
            <4> HIDE DEF n
            <4>3. k + (i - n) = (m + i) - la
                BY <1>1, <1>2, <2>1, <4>2
            <4> QED
                BY <4>1, <4>3 DEF n
        <3>3. m + i \in 1..la + lw /\ ~(m + i <= la)
            BY <1>1, <1>2, <1>9, <2>1, <2>3
        <3> QED
            BY <1>6, <2>1, <3>1, <3>2, <3>3
    <2> QED
        BY <1>1, <1>2, <1>9, <2>1, <2>2, <2>3
<1>16. z = d
    BY <1>10, <1>13, <1>14, <1>15, SeqEqual
<1> QED
    BY <1>12, <1>16 DEF z, c, d, e, x, y, u, v, la, lw

(* The requests that handle finds in the first l bytes are the first frames that are
   requests: no two groups are the same request. *)
LEMMA FramesTaken ==
    ASSUME NEW s, NEW q, NEW F, Framed(s, q, F), Distinct(q, F), NEW l \in 0..Len(s)
    PROVE  LET g == l \div FrameBytes
           IN /\ g \in 0..q
              /\ Cardinality(OwnRequests(SubSeq(s, 1, l))) = Cardinality(Own(g, F))
<1> DEFINE g == l \div FrameBytes
           t == SubSeq(s, 1, l)
           B == Own(g, F)
           A == OwnRequests(t)
           h == [j \in B |-> FrameOf(F[j])]
<1>1. /\ q \in Nat /\ s \in Seq(Bytes) /\ Len(s) = Offset(q) /\ Offset(q) \in Int
      /\ \A j \in 0..q - 1 : F[j] \in 0..MaxAsked
      /\ \A j \in 0..q - 1 : \A i \in 1..FrameBytes : s[Offset(j) + i] = <<F[j], i>>
    <2>1. q \in Nat
        BY DEF Framed
    <2>2. Offset(q) \in Int
        BY <2>1, Offsets
    <2> QED
        BY <2>1, <2>2 DEF Framed
<1>2. FrameBytes \in Nat \ {0} /\ MaxAsked \in Nat /\ l \in Nat /\ l <= Offset(q)
    BY <1>1, ModbusAssumption
<1>3. g \in Nat /\ Offset(g) \in Int /\ Offset(g) <= l /\ g <= q
    <2>1. g \in Nat /\ l % FrameBytes \in 0..FrameBytes - 1 /\ l = Offset(g) + (l % FrameBytes)
        BY <1>2, Places
    <2> DEFINE r == l % FrameBytes
    <2>2. r \in 0..FrameBytes - 1 /\ l = Offset(g) + r /\ g \in Nat
        BY <2>1
    <2> HIDE DEF g, r
    <2>3. Offset(g) \in Int /\ (q < g => Offset(q) + FrameBytes <= Offset(g))
        BY <1>1, <2>1, Offsets
    <2>4. Offset(g) <= l
        BY <1>2, <2>2, <2>3
    <2> QED
        BY <1>1, <1>2, <2>2, <2>3, <2>4
<1>4. t \in Seq(Bytes) /\ Len(t) = l /\ \A i \in 1..l : t[i] = s[i]
    <2>1. \A i \in 1..l : s[i] \in Bytes
        BY <1>1, <1>2, ElementOfSeq
    <2>2. /\ t \in Seq(Bytes) /\ Len(t) = IF 1 <= l THEN l - 1 + 1 ELSE 0
          /\ \A i \in 1 .. l - 1 + 1 : t[i] = s[1 + i - 1]
        BY <1>2, <2>1, SubSeqProperties
    <2> HIDE DEF t
    <2> QED
        BY <1>2, <2>2
<1>5. Groups(t) = {SubSeq(t, k * FrameBytes + 1, (k + 1) * FrameBytes) : k \in 0..g - 1}
    BY <1>4 DEF Groups
<1> HIDE DEF g, t
<1>6. ASSUME NEW k \in 0..g - 1
      PROVE  SubSeq(t, k * FrameBytes + 1, (k + 1) * FrameBytes) = FrameOf(F[k])
    <2> DEFINE m == Offset(k)
               f == FrameOf(F[k])
               u == SubSeq(t, m + 1, m + FrameBytes)
    <2>1. k \in Int /\ k \in 0..q - 1 /\ k < g /\ 0 <= k /\ F[k] \in 0..MaxAsked
        BY <1>1, <1>3
    <2>2. m \in Int /\ 0 <= m /\ m + FrameBytes <= Offset(g) /\ Offset(k + 1) = m + FrameBytes
        <3>1. Offset(0) = 0 /\ Offset(0) <= Offset(k)
            BY <2>1, Offsets
        <3>2. m \in Int /\ m + FrameBytes <= Offset(g) /\ Offset(k + 1) = m + FrameBytes
            BY <1>3, <2>1, Offsets
        <3> QED
            BY <3>1, <3>2
    <2>3. f \in Seq(Bytes) /\ Len(f) = FrameBytes /\ \A i \in 1..FrameBytes : f[i] = <<F[k], i>>
        BY <1>2, <2>1, FrameType DEF FrameOf
    <2>4. \A i \in 1..FrameBytes : s[m + i] = <<F[k], i>>
        BY <1>1, <2>1
    <2> HIDE DEF m, f
    <2>5. \A i \in m + 1..m + FrameBytes : i \in 1..l /\ t[i] \in Bytes
        <3>1. \A i \in m + 1..m + FrameBytes : i \in 1..l
            BY <1>2, <1>3, <2>2
        <3> QED
            BY <1>4, <3>1, ElementOfSeq
    <2>6. /\ u \in Seq(Bytes)
          /\ Len(u) = IF m + 1 <= m + FrameBytes THEN m + FrameBytes - (m + 1) + 1 ELSE 0
          /\ \A i \in 1 .. m + FrameBytes - (m + 1) + 1 : u[i] = t[(m + 1) + i - 1]
        BY <1>2, <2>2, <2>5, SubSeqProperties
    <2> HIDE DEF u
    <2>7. m + FrameBytes - (m + 1) + 1 = FrameBytes /\ m + 1 <= m + FrameBytes
          /\ \A i \in 1..FrameBytes : (m + 1) + i - 1 = m + i /\ m + i \in m + 1..m + FrameBytes
        BY <1>2, <2>2
    <2>8. Len(u) = FrameBytes /\ \A i \in 1..FrameBytes : u[i] = t[m + i] /\ m + i \in 1..l
        BY <2>5, <2>6, <2>7
    <2>9. \A i \in 1..FrameBytes : u[i] = f[i]
        BY <1>4, <2>3, <2>4, <2>8
    <2>10. u = f
        BY <2>3, <2>6, <2>8, <2>9, SeqEqual
    <2>11. (k + 1) * FrameBytes = m + FrameBytes /\ k * FrameBytes = m
        BY <2>2 DEF m, Offset
    <2> QED
        BY <2>10, <2>11 DEF u, f
<1>7. \A k \in 0..g - 1 : k \in 0..q - 1 /\ F[k] \in Nat /\ F[k] \in 0..MaxAsked
    BY <1>1, <1>2, <1>3
<1>8. ASSUME NEW a, NEW b, FrameOf(a) = FrameOf(b) PROVE a = b
    <2>1. 1 \in 1..FrameBytes
        BY <1>2
    <2>2. FrameOf(a)[1] = <<a, 1>> /\ FrameOf(b)[1] = <<b, 1>>
        BY <2>1 DEF FrameOf
    <2> QED
        BY <1>8, <2>2
<1>9. ASSUME NEW j \in B PROVE h[j] \in A
    <2>1. j \in 0..g - 1 /\ F[j] > 0 /\ F[j] \in 1..MaxAsked
        <3>1. j \in 0..g - 1 /\ F[j] > 0
            BY DEF Own
        <3> QED
            BY <1>7, <3>1
    <2>2. FrameOf(F[j]) \in Groups(t)
        BY <1>5, <1>6, <2>1
    <2>3. FrameOf(F[j]) \in A
        BY <2>1, <2>2 DEF OwnRequests
    <2> HIDE DEF B, A
    <2> QED
        BY <2>3
<1>10. ASSUME NEW j \in B, NEW k \in B, h[j] = h[k] PROVE j = k
    <2>1. j \in 0..q - 1 /\ k \in 0..q - 1 /\ F[j] > 0
        BY <1>7 DEF Own
    <2>2. FrameOf(F[j]) = FrameOf(F[k])
        <3> HIDE DEF B
        <3> QED
            BY <1>10
    <2>3. F[j] = F[k]
        BY <1>8, <2>2
    <2> QED
        BY <2>1, <2>3 DEF Distinct
<1>11. ASSUME NEW x \in A PROVE \E j \in B : h[j] = x
    <2>1. x \in Groups(t) /\ \E n \in 1..MaxAsked : x = FrameOf(n)
        BY DEF OwnRequests
    <2>2. PICK k \in 0..g - 1 : x = FrameOf(F[k])
        BY <1>5, <1>6, <2>1
    <2>3. PICK n \in 1..MaxAsked : x = FrameOf(n)
        BY <2>1
    <2>4. F[k] = n
        BY <1>8, <2>2, <2>3
    <2>5. k \in B
        BY <1>2, <2>4 DEF Own
    <2> HIDE DEF B
    <2> QED
        BY <2>2, <2>5
<1>12. h \in Bijection(B, A)
    <2> HIDE DEF A, B
    <2>1. h \in [B -> A]
        BY <1>9
    <2> HIDE DEF h
    <2>2. h \in Injection(B, A)
        BY <1>10, <2>1 DEF Injection, IsInjective
    <2>3. h \in Surjection(B, A)
        BY <1>11, <2>1 DEF Surjection
    <2> QED
        BY <2>2, <2>3 DEF Bijection
<1>13. IsFiniteSet(B)
    BY <1>3, OwnFinite
<1> HIDE DEF A, B, h
<1>14. ExistsBijection(B, A)
    BY <1>12 DEF ExistsBijection
<1>15. Cardinality(A) = Cardinality(B)
    BY <1>13, <1>14, FS_Bijection
<1>16. g \in 0..q
    BY <1>1, <1>3
<1> QED
    BY <1>15, <1>16 DEF A, B, g, t

(* G are the numbers of the frames behind the first g. *)
Behind(q, F, g, G) ==
    /\ G \in [0..(q - g) - 1 -> 0..MaxAsked]
    /\ \A j \in 0..(q - g) - 1 : G[j] = F[j + g]

(* What is left behind the first g frames is the other ones. *)
LEMMA FramesLeft ==
    ASSUME NEW s, NEW q, NEW F, Framed(s, q, F), Distinct(q, F), NEW g \in 0..q,
           NEW G, Behind(q, F, g, G)
    PROVE  /\ Framed(SubSeq(s, Offset(g) + 1, Len(s)), q - g, G)
           /\ Distinct(q - g, G)
           /\ Cardinality(Own(q, F)) = Cardinality(Own(g, F)) + Cardinality(Own(q - g, G))
<1> DEFINE p == q - g
           o == Offset(g)
           t == SubSeq(s, o + 1, Len(s))
<1>1. /\ q \in Nat /\ s \in Seq(Bytes) /\ Len(s) = Offset(q) /\ Offset(q) \in Int
      /\ F \in [0..q - 1 -> 0..MaxAsked]
      /\ \A j \in 0..q - 1 : \A i \in 1..FrameBytes : s[Offset(j) + i] = <<F[j], i>>
    <2>1. q \in Nat
        BY DEF Framed
    <2>2. Offset(q) \in Int
        BY <2>1, Offsets
    <2> QED
        BY <2>1, <2>2 DEF Framed
<1>2. FrameBytes \in Nat \ {0} /\ MaxAsked \in Nat
    BY ModbusAssumption
<1>3. p \in Nat /\ p <= q /\ p = q - g /\ g \in Nat
    BY <1>1
<1>4. \A j \in 0..p - 1 : j + g \in 0..q - 1 /\ G[j] = F[j + g] /\ G[j] \in 0..MaxAsked
    BY <1>1, <1>3 DEF Behind
<1>5. G \in [0..p - 1 -> 0..MaxAsked]
    BY DEF Behind
<1> HIDE DEF p
<1>6. o \in Int /\ 0 <= o /\ Offset(q) = Offset(p) + o /\ Offset(p) \in Int /\ 0 <= Offset(p)
    <2>1. 0 <= g /\ 0 <= p /\ p + g = q
        BY <1>1, <1>3
    <2>2. Offset(0) = 0 /\ Offset(0) <= Offset(g) /\ Offset(0) <= Offset(p)
        BY <1>3, <2>1, Offsets
    <2>3. Offset(p + g) = Offset(p) + Offset(g) /\ Offset(p) \in Int /\ Offset(g) \in Int
        BY <1>3, Offsets
    <2> QED
        BY <2>1, <2>2, <2>3
<1>7. t \in Seq(Bytes) /\ Len(t) = Offset(p) /\ \A i \in 1..Offset(p) : t[i] = s[o + i]
    <2> HIDE DEF o
    <2>1. \A i \in o + 1..Len(s) : s[i] \in Bytes
        BY <1>1, <1>6, ElementOfSeq
    <2>2. /\ t \in Seq(Bytes) /\ Len(t) = IF o + 1 <= Len(s) THEN Len(s) - (o + 1) + 1 ELSE 0
          /\ \A i \in 1 .. Len(s) - (o + 1) + 1 : t[i] = s[(o + 1) + i - 1]
        BY <1>1, <1>6, <2>1, SubSeqProperties
    <2> HIDE DEF t
    <2>3. Len(s) - (o + 1) + 1 = Offset(p) /\ \A i \in 1..Offset(p) : (o + 1) + i - 1 = o + i
        BY <1>1, <1>6
    <2>4. Len(t) = Offset(p)
        BY <1>1, <1>6, <2>2, <2>3
    <2> QED
        BY <2>2, <2>3, <2>4
<1> HIDE DEF t
<1>8. ASSUME NEW j \in 0..p - 1, NEW i \in 1..FrameBytes
      PROVE  t[Offset(j) + i] = <<G[j], i>>
    <2>1. j \in Int /\ 0 <= j /\ j < p /\ j + g \in 0..q - 1 /\ G[j] = F[j + g]
        BY <1>3, <1>4
    <2>2. Offset(0) = 0 /\ Offset(0) <= Offset(j)
        BY <2>1, Offsets
    <2>3. Offset(j) \in Int /\ Offset(j) + FrameBytes <= Offset(p)
        BY <1>3, <2>1, Offsets
    <2>4. Offset(j + g) = Offset(j) + Offset(g)
        BY <1>3, <2>1, Offsets
    <2>5. s[Offset(j + g) + i] = <<G[j], i>>
        BY <1>1, <2>1
    <2> HIDE DEF o
    <2>6. Offset(j) + i \in 1..Offset(p)
        BY <1>2, <1>6, <2>2, <2>3
    <2>7. Offset(j + g) + i = o + (Offset(j) + i)
        BY <1>6, <2>3, <2>4 DEF o
    <2> QED
        BY <1>7, <2>5, <2>6, <2>7
<1>9. Framed(t, p, G)
    BY <1>3, <1>5, <1>7, <1>8 DEF Framed
<1>10. Distinct(p, G)
    <2> SUFFICES ASSUME NEW j \in 0..p - 1, NEW k \in 0..p - 1, G[j] = G[k], G[j] > 0
                 PROVE  j = k
        BY DEF Distinct
    <2>1. j + g = k + g
        BY <1>4 DEF Distinct
    <2> QED
        BY <1>3, <2>1
<1> DEFINE R == {j \in g..q - 1 : F[j] > 0}
           O == Own(p, G)
           h == [j \in O |-> j + g]
<1>11. Own(q, F) = Own(g, F) \cup R /\ Own(g, F) \cap R = {}
    BY <1>1, <1>3 DEF Own
<1>12. h \in Bijection(O, R)
    <2>1. ASSUME NEW j \in O PROVE j \in 0..p - 1 /\ j + g \in R
        <3>1. j \in 0..p - 1 /\ G[j] > 0
            BY DEF Own
        <3>2. F[j + g] > 0 /\ j + g \in g..q - 1
            BY <1>1, <1>3, <1>4, <3>1
        <3> QED
            BY <3>1, <3>2
    <2>2. ASSUME NEW k \in R PROVE \E j \in O : j + g = k
        <3>1. k \in g..q - 1 /\ F[k] > 0
            OBVIOUS
        <3>2. k - g \in 0..p - 1 /\ (k - g) + g = k
            BY <1>1, <1>3, <3>1
        <3>3. G[k - g] > 0
            BY <1>4, <3>1, <3>2
        <3> QED
            BY <3>2, <3>3 DEF Own
    <2> HIDE DEF O, R
    <2>3. h \in [O -> R]
        BY <2>1
    <2>4. \A j \in O : h[j] = j + g /\ j \in Int
        BY <1>3, <2>1
    <2> HIDE DEF h
    <2>5. h \in Injection(O, R)
        BY <1>3, <2>3, <2>4 DEF Injection, IsInjective
    <2>6. h \in Surjection(O, R)
        BY <2>2, <2>3, <2>4 DEF Surjection
    <2> QED
        BY <2>5, <2>6 DEF Bijection
<1>13. IsFiniteSet(O) /\ Cardinality(O) \in Nat /\ IsFiniteSet(Own(g, F))
       /\ Cardinality(Own(g, F)) \in Nat
    BY <1>3, OwnFinite
<1> HIDE DEF O, R, h
<1>14. ExistsBijection(O, R)
    BY <1>12 DEF ExistsBijection
<1>15. IsFiniteSet(R) /\ Cardinality(R) = Cardinality(O)
    BY <1>13, <1>14, FS_Bijection
<1>16. Cardinality(Own(g, F) \cup R)
           = Cardinality(Own(g, F)) + Cardinality(R) - Cardinality(Own(g, F) \cap R)
    BY <1>13, <1>15, FS_Union
<1>17. Cardinality(Own(g, F) \cap R) = 0
    BY <1>11, FS_EmptySet
<1>18. Cardinality(Own(q, F)) = Cardinality(Own(g, F)) + Cardinality(O)
    BY <1>11, <1>13, <1>15, <1>16, <1>17
<1> QED
    BY <1>9, <1>10, <1>18 DEF O, t, o, p

(* A frame that arrives as a whole keeps the frames aligned. *)
LEMMA AlignedBehind ==
    ASSUME RtuTypeOK, Aligned, NEW n \in 0..MaxAsked,
           rtuWire' = rtuWire \o FrameOf(n), UNCHANGED <<rtuInput, rtuAnswered, noise>>,
           \/ n = rtuAsked + 1 /\ rtuAsked' = n
           \/ n = 0 /\ UNCHANGED rtuAsked
    PROVE  Aligned'
<1> SUFFICES ASSUME ~noise PROVE Aligned'
    BY DEF Aligned
<1> DEFINE s == rtuInput \o rtuWire
<1>0. PICK q \in Nat : \E F \in [0..q - 1 -> 0..MaxAsked] :
        /\ Framed(s, q, F)
        /\ Distinct(q, F)
        /\ \A j \in 0..q - 1 : F[j] <= rtuAsked
        /\ rtuAnswered + Cardinality(Own(q, F)) = rtuAsked
    BY DEF Aligned
<1>1. PICK F \in [0..q - 1 -> 0..MaxAsked] :
        /\ Framed(s, q, F)
        /\ Distinct(q, F)
        /\ \A j \in 0..q - 1 : F[j] <= rtuAsked
        /\ rtuAnswered + Cardinality(Own(q, F)) = rtuAsked
    BY <1>0
<1>2. /\ rtuInput \in Seq(Bytes) /\ rtuWire \in Seq(Bytes) /\ FrameOf(n) \in Seq(Bytes)
      /\ rtuAsked \in Nat /\ rtuAnswered \in Nat /\ MaxAsked \in Nat
    BY FrameType, ModbusAssumption DEF RtuTypeOK
<1>3. rtuInput' \o rtuWire' = s \o FrameOf(n)
    <2> DEFINE f == FrameOf(n)
    <2>1. f \in Seq(Bytes) /\ rtuInput \in Seq(Bytes) /\ rtuWire \in Seq(Bytes)
        BY <1>2
    <2> HIDE DEF f
    <2>2. ASSUME NEW a \in Seq(Bytes), NEW b \in Seq(Bytes), NEW d \in Seq(Bytes)
          PROVE  (a \o b) \o d = a \o (b \o d)
        BY SMTT(30)
    <2>3. (rtuInput \o rtuWire) \o f = rtuInput \o (rtuWire \o f)
        BY <2>1, <2>2
    <2> QED
        BY <2>3 DEF f
<1> HIDE DEF s
<1> DEFINE G == [j \in 0..q |-> IF j < q THEN F[j] ELSE n]
<1>4. /\ Framed(s \o FrameOf(n), q + 1, G)
      /\ Cardinality(Own(q + 1, G)) = Cardinality(Own(q, F)) + IF n > 0 THEN 1 ELSE 0
    <2>1. Extended(q, F, n, G)
        BY <1>1 DEF Extended
    <2> HIDE DEF G
    <2> QED
        BY <1>1, <2>1, FrameAdded
<1>5. q + 1 \in Nat /\ G \in [0..(q + 1) - 1 -> 0..MaxAsked]
    BY <1>1
<1>6. \A j \in 0..q : (j < q => j \in 0..q - 1 /\ G[j] = F[j] /\ F[j] \in Nat) /\ (~(j < q) => j = q /\ G[j] = n)
    BY <1>1, <1>2
<1>7. 0..(q + 1) - 1 = 0..q
    BY <1>1
<1> HIDE DEF G
<1>8. ASSUME NEW j \in 0..q PROVE G[j] <= rtuAsked'
    <2>1. rtuAsked <= rtuAsked' /\ rtuAsked' \in Nat /\ n <= rtuAsked'
        BY <1>2
    <2>2. CASE j < q
        BY <1>1, <1>2, <1>6, <2>1, <2>2
    <2>3. CASE ~(j < q)
        BY <1>6, <2>1, <2>3
    <2> QED
        BY <2>2, <2>3
<1>9. ASSUME NEW j \in 0..q, NEW k \in 0..q, G[j] = G[k], G[j] > 0 PROVE j = k
    <2>1. CASE n = 0
        BY <1>1, <1>6, <1>9, <2>1 DEF Distinct
    <2>2. CASE n = rtuAsked + 1
        <3>1. \A i \in 0..q - 1 : F[i] \in Nat /\ F[i] # n
            BY <1>1, <1>2, <2>2
        <3> QED
            BY <1>1, <1>6, <1>9, <3>1 DEF Distinct
    <2> QED
        BY <2>1, <2>2
<1>10. Cardinality(Own(q, F)) \in Nat
    BY <1>1, OwnFinite
<1>11. rtuAnswered' + Cardinality(Own(q + 1, G)) = rtuAsked'
    BY <1>1, <1>2, <1>4, <1>10
<1>12. Distinct(q + 1, G)
    BY <1>7, <1>9 DEF Distinct
<1>13. \E r \in Nat : \E H \in [0..r - 1 -> 0..MaxAsked] :
          /\ Framed(rtuInput' \o rtuWire', r, H)
          /\ Distinct(r, H)
          /\ \A j \in 0..r - 1 : H[j] <= rtuAsked'
          /\ rtuAnswered' + Cardinality(Own(r, H)) = rtuAsked'
    BY <1>3, <1>4, <1>5, <1>7, <1>8, <1>11, <1>12
<1> QED
    BY <1>13 DEF Aligned

(* A read answers the requests whose last byte it has got and leaves the frames
   behind them: it never gets more than max_frame_bytes. *)
LEMMA AlignedRead ==
    ASSUME RtuTypeOK, Aligned, RtuRead
    PROVE  Aligned'
<1> SUFFICES ASSUME ~noise PROVE Aligned'
    <2>1. noise' = noise
        BY DEF RtuRead
    <2> QED
        BY <2>1 DEF Aligned
<1> DEFINE s == rtuInput \o rtuWire
<1>0. PICK q \in Nat : \E F \in [0..q - 1 -> 0..MaxAsked] :
        /\ Framed(s, q, F)
        /\ Distinct(q, F)
        /\ \A j \in 0..q - 1 : F[j] <= rtuAsked
        /\ rtuAnswered + Cardinality(Own(q, F)) = rtuAsked
    BY DEF Aligned
<1>1. PICK F \in [0..q - 1 -> 0..MaxAsked] :
        /\ Framed(s, q, F)
        /\ Distinct(q, F)
        /\ \A j \in 0..q - 1 : F[j] <= rtuAsked
        /\ rtuAnswered + Cardinality(Own(q, F)) = rtuAsked
    BY <1>0
<1>2. PICK k \in 1..ReadBytes :
         /\ k <= Len(rtuWire)
         /\ rtuWire' = SubSeq(rtuWire, k + 1, Len(rtuWire))
         /\ LET input == rtuInput \o SubSeq(rtuWire, 1, k)
                rest == Len(input) % FrameBytes
            IN IF Len(input) > MaxFrameBytes
               THEN rtuInput' = <<>> /\ UNCHANGED rtuAnswered
               ELSE /\ rtuInput' = SubSeq(input, Len(input) - rest + 1, Len(input))
                    /\ rtuAnswered' = rtuAnswered + Cardinality(OwnRequests(input))
         /\ UNCHANGED <<view, faults, rtuAsked, noise>>
    BY DEF RtuRead
<1> DEFINE input == rtuInput \o SubSeq(rtuWire, 1, k)
           l == Len(rtuInput) + k
           g == l \div FrameBytes
           r == l % FrameBytes
           o == Offset(g)
           m == Len(s)
<1>3. /\ rtuInput \in Seq(Bytes) /\ rtuWire \in Seq(Bytes)
      /\ Len(rtuInput) \in Nat /\ Len(rtuWire) \in Nat /\ Len(rtuInput) < FrameBytes
      /\ rtuAsked \in Nat /\ rtuAnswered \in Nat
    BY ModbusAssumption, LenProperties DEF RtuTypeOK
<1>4. /\ FrameBytes \in Nat \ {0} /\ ReadBytes \in Nat /\ MaxFrameBytes \in Nat
      /\ FrameBytes - 1 + ReadBytes <= MaxFrameBytes
    BY ModbusAssumption
<1>5. k \in 1..Len(rtuWire) /\ k \in Nat /\ l \in Nat /\ l <= MaxFrameBytes
    <2>1. k \in Nat /\ k <= ReadBytes /\ k <= Len(rtuWire) /\ 1 <= k
        BY <1>2, <1>4
    <2> QED
        BY <1>3, <1>4, <2>1
<1>6. m = Len(rtuInput) + Len(rtuWire) /\ l \in 0..m
    <2>1. m = Len(rtuInput) + Len(rtuWire)
        BY <1>3, ConcatProperties
    <2> HIDE DEF m
    <2> QED
        BY <1>3, <1>5, <2>1
<1>7. g \in Nat /\ r \in 0..FrameBytes - 1 /\ l = o + r /\ o \in Int
    <2> HIDE DEF l
    <2>1. g \in Nat /\ r \in 0..FrameBytes - 1 /\ l = o + r
        BY <1>5, Places
    <2> QED
        BY <2>1, Offsets
<1>8. /\ input = SubSeq(s, 1, l)
      /\ \A i \in 0..l : SubSeq(input, i + 1, l) \o SubSeq(rtuWire, k + 1, Len(rtuWire))
                             = SubSeq(s, i + 1, m)
    <2> HIDE DEF m
    <2>1. ASSUME NEW i \in 0..Len(rtuInput) + k
          PROVE  /\ rtuInput \o SubSeq(rtuWire, 1, k) = SubSeq(rtuInput \o rtuWire, 1, Len(rtuInput) + k)
                 /\ SubSeq(rtuInput \o SubSeq(rtuWire, 1, k), i + 1, Len(rtuInput) + k)
                           \o SubSeq(rtuWire, k + 1, Len(rtuWire))
                       = SubSeq(rtuInput \o rtuWire, i + 1, Len(rtuInput) + Len(rtuWire))
        BY <1>3, <1>5, ReadSplits
    <2>2. 0 \in 0..Len(rtuInput) + k
        BY <1>3, <1>5
    <2> QED
        BY <1>6, <2>1, <2>2
<1>9. Len(input) = l
    <2>1. \A i \in 1..k : rtuWire[i] \in Bytes
        BY <1>3, <1>5, ElementOfSeq
    <2>2. SubSeq(rtuWire, 1, k) \in Seq(Bytes)
          /\ Len(SubSeq(rtuWire, 1, k)) = IF 1 <= k THEN k - 1 + 1 ELSE 0
        BY <1>5, <2>1, SubSeqProperties
    <2>3. Len(SubSeq(rtuWire, 1, k)) = k
        BY <1>5, <2>2
    <2> QED
        BY <1>3, <2>2, <2>3, ConcatProperties
<1>10. /\ rtuInput' = SubSeq(input, l - r + 1, l)
       /\ rtuAnswered' = rtuAnswered + Cardinality(OwnRequests(input))
       /\ rtuWire' = SubSeq(rtuWire, k + 1, Len(rtuWire))
       /\ rtuAsked' = rtuAsked
    <2>1. ~(Len(input) > MaxFrameBytes)
        <3> HIDE DEF input, l
        <3> QED
            BY <1>4, <1>5, <1>9
    <2> QED
        BY <1>2, <1>9, <2>1
<1> DEFINE G == [j \in 0..(q - g) - 1 |-> F[j + g]]
           t == SubSeq(s, o + 1, m)
<1>11. g \in 0..q /\ Cardinality(OwnRequests(SubSeq(s, 1, l))) = Cardinality(Own(g, F))
    <2> HIDE DEF s, l
    <2> QED
        BY <1>1, <1>6, FramesTaken
<1>12. /\ Framed(t, q - g, G)
       /\ Distinct(q - g, G)
       /\ Cardinality(Own(q, F)) = Cardinality(Own(g, F)) + Cardinality(Own(q - g, G))
    <2> HIDE DEF s, g
    <2>1. q - g \in Nat /\ \A j \in 0..(q - g) - 1 : j + g \in 0..q - 1
        BY <1>1, <1>11
    <2>2. Behind(q, F, g, G)
        BY <1>1, <2>1 DEF Behind
    <2> HIDE DEF G
    <2>3. Framed(s, q, F) /\ Distinct(q, F) /\ g \in 0..q
        BY <1>1, <1>11
    <2>4. /\ Framed(SubSeq(s, Offset(g) + 1, Len(s)), q - g, G)
          /\ Distinct(q - g, G)
          /\ Cardinality(Own(q, F)) = Cardinality(Own(g, F)) + Cardinality(Own(q - g, G))
        BY <2>2, <2>3, FramesLeft
    <2> QED
        BY <2>4
<1>13. rtuInput' \o rtuWire' = t
    <2> HIDE DEF s, m, l, r, o, input
    <2>1. l - r + 1 = o + 1 /\ o \in 0..l
        <3>1. o >= 0
            <4>1. 0 <= g /\ Offset(0) = 0 /\ Offset(0) <= Offset(g)
                <5> HIDE DEF g
                <5>1. 0 \in Int /\ g \in Int /\ 0 <= g
                    BY <1>7
                <5> QED
                    BY <5>1, Offsets
            <4> QED
                BY <4>1 DEF o
        <3> QED
            BY <1>4, <1>5, <1>7, <3>1
    <2> QED
        BY <1>8, <1>10, <2>1
<1>14. q - g \in Nat /\ G \in [0..(q - g) - 1 -> 0..MaxAsked]
       /\ \A j \in 0..(q - g) - 1 : G[j] <= rtuAsked
    <2> HIDE DEF g
    <2>1. q - g \in Nat /\ \A j \in 0..(q - g) - 1 : j + g \in 0..q - 1
        BY <1>1, <1>7, <1>11
    <2> QED
        BY <1>1, <2>1
<1>15. rtuAnswered' + Cardinality(Own(q - g, G)) = rtuAsked
    <2> DEFINE a == Cardinality(Own(g, F))
               b == Cardinality(Own(q - g, G))
    <2>1. a \in Nat /\ b \in Nat
        <3> HIDE DEF g, G
        <3> QED
            BY <1>7, <1>14, OwnFinite
    <2>2. rtuAnswered' = rtuAnswered + a
        BY <1>8, <1>10, <1>11
    <2>3. Cardinality(Own(q, F)) = a + b
        BY <1>12
    <2> HIDE DEF a, b
    <2>4. rtuAnswered' + b = rtuAsked
        BY <1>1, <1>3, <2>1, <2>2, <2>3
    <2> QED
        BY <2>4 DEF b
<1> HIDE DEF G, g, t
<1> DEFINE p == q - g
<1>16. /\ p \in Nat /\ G \in [0..p - 1 -> 0..MaxAsked]
       /\ Framed(rtuInput' \o rtuWire', p, G)
       /\ Distinct(p, G)
       /\ \A j \in 0..p - 1 : G[j] <= rtuAsked'
       /\ rtuAnswered' + Cardinality(Own(p, G)) = rtuAsked'
    BY <1>10, <1>12, <1>13, <1>14, <1>15
<1> HIDE DEF p
<1>17. \E n \in Nat : \E H \in [0..n - 1 -> 0..MaxAsked] :
          /\ Framed(rtuInput' \o rtuWire', n, H)
          /\ Distinct(n, H)
          /\ \A j \in 0..n - 1 : H[j] <= rtuAsked'
          /\ rtuAnswered' + Cardinality(Own(n, H)) = rtuAsked'
    BY <1>16
<1> QED
    BY <1>17 DEF Aligned

LEMMA AlignedStep ==
    ASSUME RtuTypeOK, Aligned, RtuNext
    PROVE  Aligned'
<1>1. MaxAsked \in Nat /\ rtuAsked \in Nat
    BY ModbusAssumption DEF RtuTypeOK
<1>2. CASE RtuAsk
    <2>1. rtuAsked + 1 \in 0..MaxAsked
        BY <1>1, <1>2 DEF RtuAsk
    <2> QED
        BY <1>2, <2>1, AlignedBehind DEF RtuAsk
<1>3. CASE RtuOther
    <2>1. 0 \in 0..MaxAsked
        BY <1>1
    <2> QED
        BY <1>3, <2>1, AlignedBehind DEF RtuOther
<1>4. CASE RtuNoise
    BY <1>4 DEF RtuNoise, Aligned
<1> QED
    BY <1>2, <1>3, <1>4, AlignedRead DEF RtuNext

-----------------------------------------------------------------------------
(* Together *)

IInv == TypeOK /\ WebInv /\ TcpInv

LEMMA InitInv == Init => IInv
<1> SUFFICES ASSUME Init PROVE IInv
    OBVIOUS
<1>1. generation = 0 /\ availability \in Availabilities /\ faults \in 0..MaxFaults
      /\ 0 \in 0..MaxGeneration /\ front \in {"web", "listener", "tcp", "rtu"}
    BY ViewBounds DEF Init, ViewInit, Availabilities
<1>2. FirstPort \in Ports
    BY ViewBounds DEF FirstPort
<1>3. WebInv
    <2>1. web \in [WebClients -> WebConnections] /\ \A c \in WebClients : web[c] = NoConnection
        BY NoConnectionType DEF Init, WebInit
    <2>2. NoConnection.serve = "none" /\ NoConnection.at = "none"
        BY DEF NoConnection
    <2>3. /\ {c \in WebClients : web[c].serve # "none"} = {}
          /\ {c \in WebClients : web[c].serve = "handshake" \/ web[c].at # "none"} = {}
        BY <2>1, <2>2
    <2>4. SlotsExact
        BY <2>3, FS_EmptySet DEF SlotsExact, Init, WebInit
    <2>5. WebTypeOK
        BY <1>2, <2>1, WebAssumption, ViewBounds DEF WebTypeOK, Init, WebInit
    <2>6. Handing
        BY <2>1, <2>2 DEF Handing
    <2> QED
        BY <2>4, <2>5, <2>6 DEF WebInv
<1>4. TcpInv
    <2>1. \A c \in TcpClients : tcp[c] = NoTcp
        BY DEF Init, TcpInit
    <2>2. Sound(NoTcp, generation) /\ NoTcp.open = FALSE
        BY <1>1, NoTcpSound DEF NoTcp
    <2>3. tcp \in [TcpClients -> TcpConnections]
        BY <2>2 DEF Init, TcpInit, Sound
    <2>4. Connected = {}
        BY <2>1, <2>2 DEF Connected
    <2>5. Cardinality(Connected) <= MaxTcp
        BY <2>4, FS_EmptySet, ModbusAssumption
    <2>6. tcpWanted \in Endpoints /\ tcpActive \in Endpoints /\ tcpActive.version <= tcpWanted.version
        BY <1>2, ViewBounds DEF Init, TcpInit, Endpoints
    <2> QED
        BY <2>1, <2>2, <2>3, <2>5, <2>6 DEF TcpInv, TcpTypeOK, InOrder, Sound
<1>5. RtuTypeOK
    <2>1. <<>> \in Seq(Bytes) /\ Len(<<>>) = 0
        BY EmptySeq
    <2> QED
        <3>1. 0 < FrameBytes /\ 0 \in 0..MaxAsked
            BY ModbusAssumption
        <3>2. rtuWire = <<>> /\ rtuInput = <<>> /\ rtuAsked = 0 /\ rtuAnswered = 0 /\ noise = FALSE
            BY DEF Init, RtuInit
        <3>3. rtuWire \in Seq(Bytes) /\ rtuInput \in Seq(Bytes) /\ Len(rtuInput) < FrameBytes
            BY <2>1, <3>1, <3>2
        <3> QED
            BY <3>1, <3>2, <3>3 DEF RtuTypeOK
<1> QED
    BY <1>1, <1>3, <1>4, <1>5 DEF IInv, TypeOK, WebInv, TcpInv

(* A newer snapshot leaves the answers in order. *)
LEMMA ViewStep ==
    ASSUME IInv, Publish \/ RecordFailure, UNCHANGED <<faults, webVars, tcpVars, rtuVars, front>>
    PROVE  IInv'
<1>1. generation' \in 0..MaxGeneration /\ generation <= generation' /\ availability' \in Availabilities
    BY ViewBounds DEF IInv, TypeOK, Publish, RecordFailure, Availabilities
<1>2. WebInv'
    BY DEF IInv, WebInv, WebTypeOK, SlotsExact, Handing, webVars, webServer, webEndpoint
<1>3. ASSUME NEW c \in TcpClients PROVE Ordered(tcp[c], generation')
    <2> DEFINE s == tcp[c].output
               n == tcp[c].newest
    <2>1. Ordered(tcp[c], generation) /\ Fresh(s, n, generation)
        BY DEF IInv, TcpInv, InOrder, Ordered
    <2>2. s \in Seq(Answers) /\ n \in Nat
        BY ViewBounds DEF IInv, TypeOK, TcpTypeOK, TcpConnections
    <2>3. \A i \in 1..Len(s) : s[i].generation \in Nat
        <3>1. \A i \in 1..Len(s) : s[i] \in Answers
            BY <2>2, ElementOfSeq
        <3> QED
            BY <3>1, ViewBounds DEF Answers
    <2>4. generation \in Nat /\ generation' \in Nat
        BY <1>1, ViewBounds DEF IInv, TypeOK
    <2> HIDE DEF s, n
    <2>5. Fresh(s, n, generation')
        BY <1>1, <2>1, <2>2, <2>3, <2>4 DEF Fresh
    <2> QED
        BY <2>1, <2>5 DEF Ordered, s, n
<1>4. TcpInv'
    BY <1>3 DEF IInv, TcpInv, TcpTypeOK, InOrder, Connected, tcpVars
<1>5. RtuTypeOK'
    BY DEF IInv, TypeOK, RtuTypeOK, rtuVars
<1> QED
    BY <1>1, <1>2, <1>4, <1>5 DEF IInv, TypeOK, WebInv, TcpInv

LEMMA StepInv == IInv /\ [Next]_vars => IInv'
<1> SUFFICES ASSUME IInv, [Next]_vars PROVE IInv'
    OBVIOUS
<1>1. WebInv /\ TcpInv /\ RtuTypeOK /\ generation \in 0..MaxGeneration
      /\ availability \in Availabilities /\ faults \in 0..MaxFaults
    BY DEF IInv, TypeOK
<1>2. ASSUME UNCHANGED webVars PROVE WebInv'
    BY <1>1, <1>2 DEF WebInv, WebTypeOK, SlotsExact, Handing, webVars, webServer, webEndpoint
<1>3. ASSUME UNCHANGED <<view, tcpVars>> PROVE TcpInv'
    BY <1>1, <1>3 DEF TcpInv, TcpTypeOK, InOrder, Connected, tcpVars, view
<1>4. ASSUME UNCHANGED rtuVars PROVE RtuTypeOK'
    BY <1>1, <1>4 DEF RtuTypeOK, rtuVars
<1>5. ASSUME UNCHANGED <<view, front>>, WebInv', TcpInv', RtuTypeOK', faults' \in 0..MaxFaults
      PROVE  IInv'
    BY <1>5 DEF IInv, TypeOK, WebInv, TcpInv, view
<1>6. CASE (Publish \/ RecordFailure) /\ UNCHANGED <<faults, webVars, tcpVars, rtuVars, front>>
    BY <1>6, ViewStep
<1>7. CASE WebNext /\ UNCHANGED <<tcpVars, rtuVars, front>>
    <2>1. PICK c \in WebClients : HttpAccept(c) \/ WebThread(c)
        BY <1>7 DEF WebNext
    <2>2. UNCHANGED view
        BY <2>1 DEF WebThread, HttpAccept, HttpAnswered, Upgrade, UpgradeFails, HandOver, HttpLeave,
                    WsQuiet, WsInput, WsBroken, WsSendAll, WsSendPart, WsSendFails, WsEnd
    <2>3. WebInv' /\ faults' \in 0..MaxFaults
        BY <1>1, <2>1, WebStep
    <2> QED
        BY <1>3, <1>4, <1>5, <1>7, <2>2, <2>3
<1>8. CASE ListenerNext /\ UNCHANGED <<tcpVars, rtuVars, front>>
    <2>1. UNCHANGED view
        BY <1>8 DEF ListenerNext, SaveWebPort, ReloadWeb
    <2>2. WebInv' /\ faults' \in 0..MaxFaults
        BY <1>1, <1>8, ListenerStep
    <2> QED
        BY <1>3, <1>4, <1>5, <1>8, <2>1, <2>2
<1>9. CASE TcpNext /\ UNCHANGED <<webVars, rtuVars, front>>
    <2>1. UNCHANGED view
        BY <1>9 DEF TcpNext, TcpAsk, TcpAccept, TcpReceive, TcpHandle, TcpSend, TcpHangup,
                    UpdateOptions, TcpReload
    <2>2. TcpInv' /\ faults' \in 0..MaxFaults
        BY <1>1, <1>9, TcpStep
    <2> QED
        BY <1>2, <1>4, <1>5, <1>9, <2>1, <2>2
<1>10. CASE RtuNext /\ UNCHANGED <<webVars, tcpVars, front>>
    <2>1. RtuTypeOK' /\ UNCHANGED <<view, faults>>
        BY <1>1, <1>10, RtuStep
    <2> QED
        BY <1>1, <1>2, <1>3, <1>5, <1>10, <2>1
<1>11. CASE UNCHANGED vars
    BY <1>1, <1>2, <1>3, <1>4, <1>5, <1>11 DEF vars
<1> QED
    BY <1>6, <1>7, <1>8, <1>9, <1>10, <1>11 DEF Next

LEMMA Always == Spec => []IInv
BY InitInv, StepInv, PTL DEF Spec

-----------------------------------------------------------------------------
(* Every connection of the three servers has its type, and no table, buffer or
   counter exceeds its limit: kMaxHttpConnections, kMaxWebSocketConnections,
   max_connections, kMaximumOutputBytes and the input of the RTU server. *)
THEOREM ServingTypeCorrect == Spec => []TypeOK
<1>1. IInv => TypeOK
    BY DEF IInv
<1> QED
    BY <1>1, Always, PTL

(* active_http_count_ and active_websocket_count_ are the numbers of threads
   that hold a slot, whichever way an upgrade or a connection ends. *)
THEOREM SlotsAreExact == Spec => []SlotsExact
<1>1. IInv => SlotsExact
    BY DEF IInv, WebInv
<1> QED
    BY <1>1, Always, PTL

(* The Modbus TCP server answers every request of a connection once, in order
   and never from an older snapshot than before (ModbusTcpServer::run). *)
THEOREM AnswersAreInOrder == Spec => []AnswersInOrder
<1>1. ASSUME IInv, NEW c \in Connected
      PROVE  LET t == tcp[c]
                 queue == t.output \o t.input \o t.wire
             IN /\ Len(queue) = t.asked - t.got
                /\ \A i \in 1..Len(queue) : queue[i].id = t.got + i
                /\ \A i \in 1..Len(t.output) : t.output[i].generation # 0 =>
                      /\ t.newest <= t.output[i].generation
                      /\ \A j \in 1..i : t.output[j].generation <= t.output[i].generation
    <2> DEFINE t == tcp[c]
               All == Answers \cup Received
               o == t.output
               n == t.input
               w == t.wire
               half == o \o n
               queue == half \o w
               got == t.got
               asked == t.asked
    <2>1. c \in TcpClients
        BY DEF Connected
    <2>2. t \in TcpConnections /\ Ordered(t, generation)
        BY <1>1, <2>1 DEF IInv, TypeOK, TcpTypeOK, TcpInv, InOrder
    <2>3. o \in Seq(Answers) /\ n \in Seq(Received) /\ w \in Seq(Received)
          /\ got \in Nat /\ asked \in Nat
        <3>1. t.output \in Seq(Answers) /\ t.input \in Seq(Received) /\ t.wire \in Seq(Received)
            BY <2>2 DEF TcpConnections
        <3>2. t.got \in 0..MaxAsked /\ t.asked \in 0..MaxAsked
            BY <2>2 DEF TcpConnections
        <3> QED
            BY <3>1, <3>2, ModbusAssumption
    <2>4. o \in Seq(All) /\ n \in Seq(All) /\ w \in Seq(All)
        BY <2>3, SeqMonotonic
    <2>5. Len(o) \in Nat /\ Len(n) \in Nat /\ Len(w) \in Nat
        BY <2>3, LenProperties
    <2>6. /\ Len(o) + Len(n) + Len(w) = asked - got
          /\ \A i \in 1..Len(o) : o[i].id = got + i
          /\ \A i \in 1..Len(n) : n[i].id = got + Len(o) + i
          /\ \A i \in 1..Len(w) : w[i].id = got + Len(o) + Len(n) + i
        BY <2>2 DEF Ordered, Numbered
    <2>7. \A i \in 1..Len(o) : o[i].generation # 0 =>
             t.newest <= o[i].generation /\ \A j \in 1..i : o[j].generation <= o[i].generation
        BY <2>2 DEF Ordered, Fresh
    <2> HIDE DEF t, o, n, w, got, asked
    <2>8. /\ half \in Seq(All) /\ Len(half) = Len(o) + Len(n)
          /\ \A i \in 1..Len(o) + Len(n) : half[i] = IF i <= Len(o) THEN o[i] ELSE n[i - Len(o)]
        BY <2>4, ConcatProperties
    <2> HIDE DEF half
    <2>9. /\ Len(queue) = Len(half) + Len(w)
          /\ \A i \in 1..Len(half) + Len(w) :
                queue[i] = IF i <= Len(half) THEN half[i] ELSE w[i - Len(half)]
        <3>1. half \in Seq(All) /\ w \in Seq(All)
            BY <2>4, <2>8
        <3> HIDE DEF All
        <3> QED
            BY <3>1, ConcatProperties
    <2> HIDE DEF queue
    <2>10. Len(queue) = asked - got
        BY <2>6, <2>8, <2>9
    <2>11. ASSUME NEW i \in 1..Len(queue) PROVE queue[i].id = got + i
        <3>1. CASE i \in 1..Len(o)
            BY <2>5, <2>6, <2>8, <2>9, <3>1
        <3>2. CASE i > Len(o) /\ i <= Len(half)
            <4>1. i - Len(o) \in 1..Len(n) /\ queue[i] = n[i - Len(o)]
                BY <2>5, <2>8, <2>9, <3>2
            <4>2. got + Len(o) + (i - Len(o)) = got + i
                BY <2>3, <2>5
            <4> QED
                BY <2>6, <4>1, <4>2
        <3>3. CASE i > Len(half)
            <4>1. i - Len(half) \in 1..Len(w) /\ queue[i] = w[i - Len(half)]
                BY <2>5, <2>8, <2>9, <3>3
            <4>2. got + Len(o) + Len(n) + (i - Len(half)) = got + i
                BY <2>3, <2>5, <2>8
            <4> QED
                BY <2>6, <4>1, <4>2
        <3> QED
            BY <2>5, <2>8, <2>9, <3>1, <3>2, <3>3
    <2> QED
        BY <2>7, <2>10, <2>11 DEF queue, half, t, o, n, w, got, asked
<1>2. IInv => AnswersInOrder
    BY <1>1 DEF AnswersInOrder
<1> QED
    BY <1>2, Always, PTL

(* As long as the line carries whole frames, the RTU server has answered every
   request to its unit except those whose last byte it has not read: it neither
   skips one nor answers one twice, however the bytes are split between reads
   (ModbusRtuServer::run). *)
THEOREM RtuRequestsAnswered == Spec => []RtuAnswered
<1>1. Init => Aligned
    <2> SUFFICES ASSUME Init PROVE Aligned
        OBVIOUS
    <2>1. rtuWire = <<>> /\ rtuInput = <<>> /\ rtuAsked = 0 /\ rtuAnswered = 0
        BY DEF Init, RtuInit
    <2>2. <<>> \o <<>> \in Seq(Bytes) /\ Len(<<>> \o <<>>) = 0
        OBVIOUS
    <2> DEFINE F == [j \in 0..0 - 1 |-> 0]
    <2>3. 0..0 - 1 = {}
        OBVIOUS
    <2>4. F \in [0..0 - 1 -> 0..MaxAsked]
        BY <2>3
    <2>5. Own(0, F) = {} /\ Distinct(0, F) /\ \A j \in 0..0 - 1 : F[j] <= rtuAsked
        BY <2>3 DEF Own, Distinct
    <2>6. Cardinality(Own(0, F)) = 0
        BY <2>5, FS_EmptySet
    <2>7. Offset(0) = 0
        BY Offsets
    <2> HIDE DEF F
    <2>8. Framed(rtuInput \o rtuWire, 0, F)
        BY <2>1, <2>2, <2>3, <2>4, <2>7 DEF Framed
    <2>9. 0 \in Nat /\ rtuAnswered + Cardinality(Own(0, F)) = rtuAsked
        BY <2>1, <2>6
    <2> QED
        BY <2>4, <2>5, <2>8, <2>9 DEF Aligned
<1>2. IInv /\ Aligned /\ [Next]_vars => Aligned'
    <2> SUFFICES ASSUME IInv, Aligned, [Next]_vars PROVE Aligned'
        OBVIOUS
    <2>1. RtuTypeOK
        BY DEF IInv, TypeOK
    <2>2. CASE RtuNext
        BY <2>1, <2>2, AlignedStep
    <2>3. CASE UNCHANGED rtuVars
        BY <2>3 DEF Aligned, rtuVars
    <2> QED
        BY <2>2, <2>3 DEF Next, vars
<1>3. Aligned => RtuAnswered
    <2> SUFFICES ASSUME Aligned, ~noise PROVE RtuAnswered
        BY DEF RtuAnswered
    <2>1. PICK q \in Nat : \E F \in [0..q - 1 -> 0..MaxAsked] :
             /\ Framed(rtuInput \o rtuWire, q, F)
             /\ rtuAnswered + Cardinality(Own(q, F)) = rtuAsked
        BY DEF Aligned
    <2>2. PICK F \in [0..q - 1 -> 0..MaxAsked] :
             /\ Framed(rtuInput \o rtuWire, q, F)
             /\ rtuAnswered + Cardinality(Own(q, F)) = rtuAsked
        BY <2>1
    <2> DEFINE s == rtuInput \o rtuWire
    <2>3. Cardinality({k \in 1..Len(s) : s[k][1] > 0 /\ s[k][2] = FrameBytes})
              = Cardinality(Own(q, F))
        <3>1. Framed(s, q, F)
            BY <2>2
        <3> HIDE DEF s
        <3> QED
            BY <3>1, UnreadFrames
    <2> QED
        BY <2>2, <2>3 DEF RtuAnswered
<1> QED
    BY <1>1, <1>2, <1>3, InitInv, StepInv, PTL DEF Spec
=============================================================================
