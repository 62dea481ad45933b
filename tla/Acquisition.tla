----------------------------- MODULE Acquisition -----------------------------
(***************************************************************************)
(* The acquisition engine and the snapshot store.  A cycle reads the       *)
(* registers of the PD1000 in blocks, one request after the other, and     *)
(* publishes them together or not at all.  A Modbus RTU response carries   *)
(* no address: a response that comes late cannot be told from the answer   *)
(* to the next request, so every failure is followed by a quarantine that  *)
(* discards what arrives until the line has been quiet long enough.        *)
(*                                                                         *)
(* A response travels in two parts, the header that read_response reads    *)
(* first and the rest of the frame.  The parts arrive in order, each at    *)
(* most MaxLate after the request.  A register block is represented by the *)
(* request whose answer it is.                                             *)
(***************************************************************************)
EXTENDS Naturals, Sequences

CONSTANTS Blocks,        \* the number of requests of the plan
          OptionSets,    \* response timeouts and retry budgets that may be configured
          CycleDeadline, \* cycle_deadline
          Quarantine,    \* quarantine_duration
          MaxLate,       \* the latest a part of a response arrives after the request
          Replies,       \* what the device may answer
          None,          \* no snapshot, no block
          MaxCycles,     \* bound on the cycles
          MaxNow         \* bound on the steady clock

(* data: a response with a good checksum; corrupt: one of the right length with a
   bad one; exception: a Modbus exception; misread: a data response whose function
   code is damaged into that of an exception; cut: a header whose rest is lost;
   foreign: the wrong slave, function or length, or a header that is incomplete *)
Kinds == {"data", "corrupt", "exception", "misread", "cut", "foreign"}

Options == [timeout : Nat, retries : Nat]

ASSUME PlanAssumption ==
    /\ Blocks \in Nat \ {0}
    /\ OptionSets \subseteq Options /\ OptionSets # {}
    /\ Replies \subseteq Kinds \cup {"none"}
    /\ CycleDeadline \in Nat \ {0}
    /\ Quarantine \in Nat
    /\ MaxLate \in Nat
    /\ MaxCycles \in Nat
    /\ MaxNow \in Nat

ASSUME NoneAssumption == None \notin [cycle : Nat, block : Nat, attempt : Nat]

(* What the hardware acceptance must show of the PD1000 *)
ASSUME LatenessAssumption == MaxLate < Quarantine

VARIABLES
    (* the engine *)
    pc,            \* where poll_once is
    options,       \* options_
    cycle,         \* the number of the cycle
    block, attempt,\* plan_index and attempt
    deadline,      \* the deadline of the cycle
    limit,         \* the deadline of the response, or of the quarantine
    registers,     \* raw_registers
    (* the serial line *)
    line,          \* what has arrived and is not read
    flight,        \* what the device is still to send
    (* the snapshot store *)
    latest,        \* latest_
    availability, noResponse, alarm, \* status_
    now,           \* the steady clock
    results        \* history: how the cycles ended

engine == <<pc, options, cycle, block, attempt, deadline, limit, registers>>
serial == <<line, flight>>
store == <<latest, availability, noResponse, alarm, results>>
vars == <<engine, serial, store, now>>

-----------------------------------------------------------------------------
(* Values *)

Request == [cycle : Nat, block : Nat, attempt : Nat]

Current == [cycle |-> cycle, block |-> block, attempt |-> attempt]

(* remains: what is left of a misread response *)
Part == [request : Request, kind : Kinds \cup {"remains"}, head : BOOLEAN, by : Nat]

Plan == 1 .. Blocks

Empty == [b \in Plan |-> None]

Snapshot == [generation : Nat, cycle : Nat, registers : [Plan -> Request \cup {None}]]

ASSUME SnapshotAssumption == None \notin Snapshot

Least(m, n) == IF m < n THEN m ELSE n

-----------------------------------------------------------------------------
(* The device: the parts of its answer to the current request, sent by now + MaxLate *)

PartOf(k, h) == [request |-> Current, kind |-> k, head |-> h, by |-> now + MaxLate]

Answer(k) ==
    IF k = "none" THEN <<>>
    ELSE IF k = "cut" THEN <<PartOf(k, TRUE)>>
    ELSE <<PartOf(k, TRUE), PartOf(k, FALSE)>>

Arrive ==
    /\ flight # <<>>
    /\ line' = Append(line, Head(flight))
    /\ flight' = Tail(flight)
    /\ UNCHANGED <<engine, store, now>>

-----------------------------------------------------------------------------
(* SnapshotStore *)

Generation == IF latest = None THEN 0 ELSE latest.generation

Publish ==
    /\ latest' = [generation |-> Generation + 1, cycle |-> cycle, registers |-> registers]
    /\ availability' = "fresh"
    /\ noResponse' = 0
    /\ alarm' = FALSE
    /\ results' = Append(results, "ok")

(* Mutant: a failure of another kind does not end the series. *)
RecordFailureKept(reason) ==
    /\ availability' = IF latest = None THEN "invalid" ELSE "stale"
    /\ noResponse' = IF reason = "no_response" THEN noResponse + 1 ELSE noResponse
    /\ alarm' = (noResponse' >= 3)
    /\ results' = Append(results, reason)
    /\ UNCHANGED latest

RecordFailure(reason) ==
    /\ availability' = IF latest = None THEN "invalid" ELSE "stale"
    /\ noResponse' = IF reason = "no_response" THEN noResponse + 1 ELSE 0
    /\ alarm' = (noResponse' >= 3)
    /\ results' = Append(results, reason)
    /\ UNCHANGED latest

-----------------------------------------------------------------------------
(* The ends of a cycle *)

(* Mutant: the quiet period ends with the time of the cycle that failed. *)
FailAndQuarantineBriefly(reason) ==
    /\ RecordFailure(reason)
    /\ pc' = "quarantine"
    /\ limit' = deadline
    /\ UNCHANGED <<options, cycle, block, attempt, deadline, registers, now>>

FailAndQuarantine(reason) ==
    /\ RecordFailure(reason)
    /\ pc' = "quarantine"
    /\ limit' = now + Quarantine
    /\ UNCHANGED <<options, cycle, block, attempt, deadline, registers, now>>

(* Mutant: a read that times out restarts the quiet period as well. *)
DrainAlways ==
    /\ pc = "quarantine" /\ now < limit
    /\ line' = <<>>
    /\ limit' = now + Quarantine
    /\ UNCHANGED <<pc, options, cycle, block, attempt, deadline, registers, flight, store, now>>

Drain ==
    /\ pc = "quarantine" /\ now < limit
    /\ line # <<>>
    /\ line' = <<>>
    /\ limit' = now + Quarantine
    /\ UNCHANGED <<pc, options, cycle, block, attempt, deadline, registers, flight, store, now>>

QuarantineOver ==
    /\ pc = "quarantine" /\ now >= limit
    /\ pc' = "idle"
    /\ UNCHANGED <<options, cycle, block, attempt, deadline, limit, registers, serial,
                   store, now>>

-----------------------------------------------------------------------------
(* poll_once *)

(* apply_runtime_configuration, which the acquisition thread calls between cycles *)
ApplyConfiguration(o) ==
    /\ pc = "idle"
    /\ options' = o
    /\ UNCHANGED <<pc, cycle, block, attempt, deadline, limit, registers, serial, store, now>>

(* The bounded clock has room for the cycle, its last answer and two quarantines. *)
Foreseeable == now + CycleDeadline + MaxLate + 2 * Quarantine + 2 <= MaxNow

StartCycle ==
    /\ pc = "idle"
    /\ cycle < MaxCycles /\ Foreseeable
    /\ pc' = "send"
    /\ cycle' = cycle + 1
    /\ block' = 1
    /\ attempt' = 0
    /\ deadline' = now + CycleDeadline
    /\ registers' = Empty
    /\ UNCHANGED <<options, limit, serial, store, now>>

(* The silence between frames or the delay before a retry has passed. *)
Send(k) ==
    /\ pc = "send" /\ now < deadline
    /\ pc' = "header"
    /\ flight' = flight \o Answer(k)
    /\ limit' = Least(deadline, now + options.timeout)
    /\ UNCHANGED <<options, cycle, block, attempt, deadline, registers, line, store, now>>

WriteFails ==
    /\ pc = "send" /\ now < deadline
    /\ FailAndQuarantine("other")
    /\ UNCHANGED serial

DeadlineBeforeRequest ==
    /\ pc = "send" /\ now >= deadline
    /\ FailAndQuarantine("other")
    /\ UNCHANGED serial

(* read_response: the header *)

Readable == line # <<>> /\ now < limit

Recognised(p) == p.head /\ p.kind \in {"data", "corrupt", "exception", "misread", "cut"}

ReadHeader ==
    /\ pc = "header" /\ Readable
    /\ Recognised(Head(line))
    /\ pc' = "rest"
    /\ line' = Tail(line)
    /\ UNCHANGED <<options, cycle, block, attempt, deadline, limit, registers, flight,
                   store, now>>

ReadForeign ==
    /\ pc = "header" /\ Readable
    /\ ~Recognised(Head(line))
    /\ line' = Tail(line)
    /\ UNCHANGED flight
    /\ FailAndQuarantine("other")

(* Nothing arrived before the deadline, or the read failed. *)
NoResponse ==
    /\ pc = "header"
    /\ FailAndQuarantine("no_response")
    /\ UNCHANGED serial

(* read_response: the rest of the frame *)

Complete ==
    /\ pc = "rest" /\ Readable
    /\ Head(line).kind = "data"
    /\ line' = Tail(line)
    /\ registers' = [registers EXCEPT ![block] = Head(line).request]
    /\ IF block < Blocks
       THEN pc' = "send" /\ block' = block + 1 /\ attempt' = 0
       ELSE pc' = "publish" /\ UNCHANGED <<block, attempt>>
    /\ UNCHANGED <<options, cycle, deadline, limit, flight, store, now>>

Remains(p) == [request |-> p.request, kind |-> "remains", head |-> FALSE, by |-> p.by]

(* A bad checksum or an exception.  Of a frame taken for an exception only five
   bytes are read. *)
Retryable ==
    /\ pc = "rest" /\ Readable
    /\ Head(line).kind \in {"corrupt", "exception", "misread"}
    /\ line' = IF Head(line).kind = "misread"
               THEN <<Remains(Head(line))>> \o Tail(line)
               ELSE Tail(line)
    /\ UNCHANGED flight

Retry ==
    /\ Retryable
    /\ attempt < options.retries
    /\ pc' = "send"
    /\ attempt' = attempt + 1
    /\ UNCHANGED <<options, cycle, block, deadline, limit, registers, store, now>>

(* Mutant: a block that the device refuses to the end is left out. *)
RetriesExhaustedSkips ==
    /\ Retryable
    /\ attempt >= options.retries
    /\ IF Head(line).kind # "exception"
       THEN FailAndQuarantine("other")
       ELSE /\ IF block < Blocks
               THEN pc' = "send" /\ block' = block + 1 /\ attempt' = 0
               ELSE pc' = "publish" /\ UNCHANGED <<block, attempt>>
            /\ UNCHANGED <<options, cycle, deadline, limit, registers, store, now>>

RetriesExhausted ==
    /\ Retryable
    /\ attempt >= options.retries
    /\ FailAndQuarantine("other")

(* The rest did not arrive, is not the rest of the frame, or cannot be read. *)
RestMissing ==
    /\ pc = "rest"
    /\ FailAndQuarantine("other")
    /\ UNCHANGED serial

PublishSnapshot ==
    /\ pc = "publish" /\ now <= deadline
    /\ Publish
    /\ pc' = "idle"
    /\ UNCHANGED <<options, cycle, block, attempt, deadline, limit, registers, serial, now>>

DeadlineAfterResponse ==
    /\ pc = "publish" /\ now > deadline
    /\ FailAndQuarantine("other")
    /\ UNCHANGED serial

-----------------------------------------------------------------------------
(* The acquisition thread is at most one tick late for the end of a wait. *)
Punctual ==
    /\ pc \in {"send", "publish"} => now <= deadline
    /\ pc \in {"header", "rest", "quarantine"} => now <= limit

(* Time passes when the device need not have sent yet and when the reader, which
   poll() wakes as soon as something arrives, has nothing to read. *)
Tick ==
    /\ now < MaxNow
    /\ flight # <<>> => now < Head(flight).by
    /\ line # <<>> => pc \in {"idle", "send", "publish"} \/ now >= limit
    /\ Punctual
    /\ now' = now + 1
    /\ UNCHANGED <<engine, serial, store>>

Init ==
    /\ pc = "idle"
    /\ options \in OptionSets
    /\ cycle = 0 /\ block = 1 /\ attempt = 0
    /\ deadline = 0 /\ limit = 0
    /\ registers = Empty
    /\ line = <<>> /\ flight = <<>>
    /\ latest = None
    /\ availability = "invalid"
    /\ noResponse = 0 /\ alarm = FALSE
    /\ now = 0
    /\ results = <<>>

Engine ==
    \/ \E k \in Replies : Send(k)
    \/ WriteFails
    \/ DeadlineBeforeRequest
    \/ ReadHeader
    \/ ReadForeign
    \/ NoResponse
    \/ Complete
    \/ Retry
    \/ RetriesExhausted
    \/ RestMissing
    \/ PublishSnapshot
    \/ DeadlineAfterResponse
    \/ Drain
    \/ QuarantineOver

Next ==
    \/ \E o \in OptionSets : ApplyConfiguration(o)
    \/ StartCycle
    \/ Engine
    \/ Arrive
    \/ Tick

Spec == Init /\ [][Next]_vars

(* The acquisition thread runs, what was sent arrives and time passes. *)
FairSpec == Spec /\ WF_vars(Engine) /\ WF_vars(Arrive) /\ WF_vars(Tick)

-----------------------------------------------------------------------------
(* What is checked *)

(* The type of the state; a block index stays in the plan and an attempt in the
   widest retry budget. *)
TypeOK ==
    /\ pc \in {"idle", "send", "header", "rest", "publish", "quarantine"}
    /\ options \in OptionSets
    /\ cycle \in Nat
    /\ block \in Plan
    /\ attempt \in Nat
    /\ deadline \in Nat /\ limit \in Nat /\ now \in Nat
    /\ registers \in [Plan -> Request \cup {None}]
    /\ line \in Seq(Part) /\ flight \in Seq(Part)
    /\ latest \in Snapshot \cup {None}
    /\ availability \in {"fresh", "stale", "invalid"}
    /\ noResponse \in Nat
    /\ alarm \in BOOLEAN
    /\ results \in Seq({"ok", "no_response", "other"})

(* Every block of a published snapshot is the answer to the request for that very
   block in the cycle that published it: no late response of an earlier request
   and no half of an earlier cycle is ever mixed in. *)
SnapshotPure ==
    latest # None =>
        \A b \in Plan : /\ latest.registers[b] # None
                        /\ latest.registers[b].cycle = latest.cycle
                        /\ latest.registers[b].block = b

(* A cycle starts on a line on which nothing of an earlier cycle is left or is
   still to come, whatever was damaged, late or met by a retry before. *)
CycleStartsQuiet == pc = "idle" => line = <<>> /\ flight = <<>>

(* A request, a retry too, is sent only when nothing of an earlier response is left
   on the line or still to come: only a response that has been received to its end
   is retried.  That is so as long as no data response is damaged into an exception:
   of such a one five bytes are read and the request is repeated at once. *)
SendsOnQuietLine == pc = "send" => line = <<>> /\ flight = <<>>

LastAre(n, r) ==
    /\ Len(results) >= n
    /\ \A i \in Len(results) - n + 1 .. Len(results) : results[i] = r

(* The status tells how the latest cycle ended, also while the engine is still in
   quarantine, and the alarm that the last three cycles met no response at all. *)
StatusTruthful ==
    /\ availability = "fresh" <=> LastAre(1, "ok")
    /\ availability = "invalid" <=> \A i \in DOMAIN results : results[i] # "ok"
    /\ alarm <=> LastAre(3, "no_response")

(* Every cycle ends, with a snapshot or with a quarantine that is over: a device
   that stops sending cannot hold the acquisition thread. *)
CyclesEnd == pc # "idle" ~> pc = "idle"

=============================================================================
