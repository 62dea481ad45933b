------------------------- MODULE AcquisitionProofs -------------------------
(***************************************************************************)
(* No snapshot mixes answers, for every plan, every set of options and     *)
(* every device whose responses are less late than the quarantine lasts.   *)
(*                                                                         *)
(* The invariant says what may be on the wire at each point of the cycle:  *)
(* nothing before it starts; at most the remains of a misread response     *)
(* before a request; only such remains and the answer to the current       *)
(* request while the engine reads; and in quarantine only what arrives     *)
(* before the quiet period can end.  From it follow what a snapshot holds  *)
(* and on which line a request is sent; the status has an invariant of its *)
(* own, about the series of cycles without a response.                     *)
(***************************************************************************)
EXTENDS Acquisition, TLAPS

Polling == {"send", "header", "rest", "publish"}

(* How many parts are on the wire, and the one that is read next *)
Count == Len(line) + Len(flight)

First == IF line # <<>> THEN line[1] ELSE flight[1]

Leftover(s) == \A i \in DOMAIN s : s[i].kind = "remains" /\ s[i].head = FALSE

(* The answer to the current request, or the remains of an earlier one *)
Expected(s) ==
    \A i \in DOMAIN s : \/ s[i].kind = "remains" /\ s[i].head = FALSE
                        \/ s[i].kind # "remains" /\ s[i].request = Current

Answered(b) ==
    /\ registers[b] # None
    /\ registers[b].cycle = cycle
    /\ registers[b].block = b

Wire ==
    /\ pc = "send" => Leftover(line) /\ Leftover(flight) /\ Count <= 1
    /\ pc = "publish" => line = <<>> /\ flight = <<>>
    /\ pc = "header" => /\ Expected(line) /\ Expected(flight)
                        /\ (Count > 0 /\ First.head = TRUE) => Count <= 2
    /\ pc = "rest" => Expected(line) /\ Expected(flight) /\ Count <= 1

(* The latest a part can arrive *)
Arrivals ==
    /\ \A i \in DOMAIN flight : flight[i].by <= now + MaxLate
    /\ pc = "quarantine" =>
          /\ \A i \in DOMAIN flight : flight[i].by < limit
          /\ now >= limit => line = <<>> /\ flight = <<>>

Read ==
    /\ pc \in {"send", "header", "rest"} => \A b \in Plan : b < block => Answered(b)
    /\ pc = "publish" => \A b \in Plan : Answered(b)

IInv == TypeOK /\ CycleStartsQuiet /\ Wire /\ Arrivals /\ Read /\ SnapshotPure

-----------------------------------------------------------------------------
LEMMA InitInv == Init => IInv
<1> SUFFICES ASSUME Init PROVE IInv
  OBVIOUS
<1>1. line \in Seq(Part) /\ flight \in Seq(Part) /\ DOMAIN flight = {}
  BY DEF Init
<1>2. results \in Seq({"ok", "no_response", "other"})
  BY DEF Init
<1>3. registers \in [Plan -> Request \cup {None}]
  BY DEF Init, Empty
<1>4. block \in Plan
  BY PlanAssumption DEF Init, Plan
<1>5. TypeOK
  BY <1>1, <1>2, <1>3, <1>4 DEF Init, TypeOK
<1>6. Arrivals
  BY <1>1 DEF Init, Arrivals
<1> QED BY <1>5, <1>6 DEF Init, IInv, CycleStartsQuiet, Wire, Read, SnapshotPure

(* The store after a failure *)
LEMMA FailureType ==
    ASSUME TypeOK, NEW r \in {"no_response", "other"}, RecordFailure(r)
    PROVE  /\ latest' \in Snapshot \cup {None}
           /\ availability' \in {"fresh", "stale", "invalid"}
           /\ noResponse' \in Nat
           /\ alarm' \in BOOLEAN
           /\ results' \in Seq({"ok", "no_response", "other"})
<1>1. noResponse' \in Nat
  BY DEF TypeOK, RecordFailure
<1>2. alarm' \in BOOLEAN
  BY <1>1 DEF RecordFailure
<1>3. availability' \in {"fresh", "stale", "invalid"}
  BY DEF RecordFailure
<1>4. results' \in Seq({"ok", "no_response", "other"})
  BY DEF TypeOK, RecordFailure
<1> QED BY <1>1, <1>2, <1>3, <1>4 DEF TypeOK, RecordFailure

(* Every failure of a cycle leads into a quarantine that outlasts what is still
   to come. *)
LEMMA FailInv ==
    ASSUME IInv, pc \in Polling, NEW r \in {"no_response", "other"},
           FailAndQuarantine(r), line' \in Seq(Part), flight' = flight
    PROVE  IInv'
<1>1. pc' = "quarantine" /\ limit' = now + Quarantine /\ now' = now /\ latest' = latest
  BY DEF FailAndQuarantine, RecordFailure
<1>2. limit' \in Nat /\ ~(now >= limit')
  BY <1>1, PlanAssumption, LatenessAssumption DEF IInv, TypeOK
<1>3. Arrivals'
  <2>1. \A i \in DOMAIN flight : flight[i] \in Part
    BY DEF IInv, TypeOK
  <2>2. \A i \in DOMAIN flight : flight[i].by \in Nat /\ flight[i].by <= now + MaxLate
    BY <2>1 DEF IInv, Arrivals, Part
  <2>3. \A i \in DOMAIN flight : flight[i].by < now + Quarantine
    BY <2>2, PlanAssumption, LatenessAssumption DEF IInv, TypeOK
  <2> QED BY <1>1, <1>2, <2>2, <2>3 DEF Arrivals
<1>4. TypeOK'
  BY <1>1, <1>2, FailureType DEF IInv, TypeOK, FailAndQuarantine
<1>5. CycleStartsQuiet' /\ Wire' /\ Read'
  BY <1>1 DEF CycleStartsQuiet, Wire, Read
<1>6. SnapshotPure'
  BY <1>1 DEF IInv, SnapshotPure
<1> QED BY <1>3, <1>4, <1>5, <1>6 DEF IInv

(* Only a part that has not been read yet is on the wire after Arrive. *)
LEMMA ArriveInv == IInv /\ Arrive => IInv'
<1> SUFFICES ASSUME IInv, Arrive PROVE IInv'
  OBVIOUS
<1>1. /\ line \in Seq(Part) /\ flight \in Seq(Part) /\ flight # <<>>
      /\ line' = Append(line, Head(flight)) /\ flight' = Tail(flight)
      /\ UNCHANGED <<pc, options, cycle, block, attempt, deadline, limit, registers>>
      /\ UNCHANGED <<latest, availability, noResponse, alarm, results, now>>
  BY DEF IInv, TypeOK, Arrive, engine, store
<1>2. /\ line' \in Seq(Part) /\ flight' \in Seq(Part)
      /\ Len(line') = Len(line) + 1 /\ Len(flight') = Len(flight) - 1
      /\ Head(flight) = flight[1] /\ 1 \in DOMAIN flight
      /\ \A i \in DOMAIN line' : line'[i] = IF i \in DOMAIN line THEN line[i] ELSE flight[1]
      /\ \A i \in DOMAIN flight' : i + 1 \in DOMAIN flight /\ flight'[i] = flight[i + 1]
  BY <1>1
<1>3. Count' = Count
  BY <1>1, <1>2 DEF Count
<1>4. First' = First
  BY <1>1, <1>2 DEF First
<1>5. Current' = Current
  BY <1>1 DEF Current
<1>6. Leftover(line) /\ Leftover(flight) => Leftover(line)' /\ Leftover(flight)'
  BY <1>2 DEF Leftover
<1>7. Expected(line) /\ Expected(flight) => Expected(line)' /\ Expected(flight)'
  BY <1>2, <1>5 DEF Expected
<1>8. Wire'
  <2>1. Wire
    BY DEF IInv
  <2> QED BY <2>1, <1>1, <1>3, <1>4, <1>6, <1>7 DEF Wire
<1>9. Arrivals'
  <2>1. Arrivals
    BY DEF IInv
  <2>2. \A i \in DOMAIN flight' : /\ flight'[i].by <= now + MaxLate
                                  /\ pc = "quarantine" => flight'[i].by < limit
    BY <2>1, <1>2 DEF Arrivals
  <2>3. pc = "quarantine" => ~(now >= limit)
    BY <2>1, <1>1 DEF Arrivals
  <2> QED BY <1>1, <2>2, <2>3 DEF Arrivals
<1>10. TypeOK'
  BY <1>1, <1>2 DEF IInv, TypeOK
<1>11. CycleStartsQuiet' /\ Read' /\ SnapshotPure'
  BY <1>1 DEF IInv, CycleStartsQuiet, Read, Answered, SnapshotPure
<1> QED BY <1>8, <1>9, <1>10, <1>11 DEF IInv

(* Time passes in a quarantine only when nothing is left to read, and does not
   pass a part that is still to come. *)
LEMMA TickInv == IInv /\ Tick => IInv'
<1> SUFFICES ASSUME IInv, Tick PROVE IInv'
  OBVIOUS
<1>1. /\ now \in Nat /\ now' = now + 1 /\ limit \in Nat
      /\ flight \in Seq(Part)
      /\ UNCHANGED <<pc, options, cycle, block, attempt, deadline, limit, registers>>
      /\ UNCHANGED <<line, flight, latest, availability, noResponse, alarm, results>>
  BY DEF IInv, TypeOK, Tick, engine, serial, store
<1>2. Arrivals'
  <2>1. \A i \in DOMAIN flight : flight[i] \in Part
    BY <1>1
  <2>2. \A i \in DOMAIN flight : flight[i].by \in Nat /\ flight[i].by <= now + MaxLate
    BY <2>1 DEF IInv, Arrivals, Part
  <2>3. \A i \in DOMAIN flight : flight[i].by <= now + 1 + MaxLate
    BY <2>2, <1>1, PlanAssumption
  <2>4. ASSUME pc = "quarantine", now + 1 >= limit
        PROVE  line = <<>> /\ flight = <<>>
    <3>1. CASE now >= limit
      BY <2>4, <3>1 DEF IInv, Arrivals
    <3>2. CASE ~(now >= limit)
      <4>1. line = <<>>
        BY <2>4, <3>2 DEF Tick
      <4>2. ASSUME flight # <<>> PROVE FALSE
        <5>1. 1 \in DOMAIN flight /\ Head(flight) = flight[1]
          BY <4>2, <1>1
        <5>2. flight[1].by < limit /\ now < flight[1].by /\ flight[1].by \in Nat
          BY <2>2, <2>4, <4>2, <5>1 DEF IInv, Arrivals, Tick
        <5> QED BY <2>4, <5>2, <1>1
      <4> QED BY <4>1, <4>2
    <3> QED BY <3>1, <3>2
  <2>5. pc = "quarantine" => \A i \in DOMAIN flight : flight[i].by < limit
    BY DEF IInv, Arrivals
  <2> QED BY <1>1, <2>3, <2>4, <2>5 DEF Arrivals
<1>3. TypeOK'
  BY <1>1 DEF IInv, TypeOK
<1>4. Wire'
  BY <1>1 DEF IInv, Wire, Count, First, Leftover, Expected, Current
<1>5. CycleStartsQuiet' /\ Read' /\ SnapshotPure'
  BY <1>1 DEF IInv, CycleStartsQuiet, Read, Answered, SnapshotPure
<1> QED BY <1>2, <1>3, <1>4, <1>5 DEF IInv

LEMMA StartInv == IInv /\ StartCycle => IInv'
<1> SUFFICES ASSUME IInv, StartCycle PROVE IInv'
  OBVIOUS
<1>1. /\ pc = "idle" /\ pc' = "send" /\ cycle' = cycle + 1 /\ block' = 1 /\ attempt' = 0
      /\ deadline' = now + CycleDeadline /\ registers' = Empty
      /\ line = <<>> /\ flight = <<>>
      /\ UNCHANGED <<options, limit, line, flight, now>>
      /\ UNCHANGED <<latest, availability, noResponse, alarm, results>>
  BY DEF IInv, CycleStartsQuiet, StartCycle, serial, store
<1>2. TypeOK'
  <2>1. 1 \in Plan /\ Empty \in [Plan -> Request \cup {None}]
    BY PlanAssumption DEF Plan, Empty
  <2> QED BY <1>1, <2>1, PlanAssumption DEF IInv, TypeOK
<1>3. Wire'
  BY <1>1 DEF Wire, Leftover, Count
<1>4. Arrivals'
  BY <1>1 DEF Arrivals
<1>5. Read'
  BY <1>1 DEF Read, Plan
<1>6. CycleStartsQuiet' /\ SnapshotPure'
  BY <1>1 DEF IInv, CycleStartsQuiet, SnapshotPure
<1> QED BY <1>2, <1>3, <1>4, <1>5, <1>6 DEF IInv

(* After a request the wire holds its answer, behind remains that are not taken
   for a header. *)
LEMMA SendInv == ASSUME IInv, NEW k \in Replies, Send(k) PROVE IInv'
<1>1. /\ pc = "send" /\ pc' = "header" /\ now \in Nat
      /\ flight' = flight \o Answer(k)
      /\ limit' = Least(deadline, now + options.timeout)
      /\ UNCHANGED <<options, cycle, block, attempt, deadline, registers, line, now>>
      /\ UNCHANGED <<latest, availability, noResponse, alarm, results>>
  BY DEF IInv, TypeOK, Send, store
<1>2. /\ line \in Seq(Part) /\ flight \in Seq(Part)
      /\ Leftover(line) /\ Leftover(flight) /\ Len(line) + Len(flight) <= 1
  BY <1>1 DEF IInv, TypeOK, Wire, Count
<1>3. Current \in Request
  BY DEF IInv, TypeOK, Current, Request, Plan
<1>4. /\ Answer(k) \in Seq(Part) /\ Len(Answer(k)) <= 2
      /\ \A i \in DOMAIN Answer(k) : /\ Answer(k)[i].kind # "remains"
                                     /\ Answer(k)[i].request = Current
                                     /\ Answer(k)[i].by = now + MaxLate
  <2>1. k # "none" => k \in Kinds /\ k # "remains"
    BY PlanAssumption DEF Kinds
  <2>2. ASSUME NEW h \in BOOLEAN, k # "none"
        PROVE  /\ PartOf(k, h) \in Part /\ PartOf(k, h).kind # "remains"
               /\ PartOf(k, h).request = Current /\ PartOf(k, h).by = now + MaxLate
    BY <2>1, <2>2, <1>1, <1>3, PlanAssumption DEF PartOf, Part
  <2> DEFINE a == PartOf(k, TRUE)
             b == PartOf(k, FALSE)
  <2>3. CASE k = "none"
    BY <2>3 DEF Answer
  <2>4. CASE k = "cut"
    <3>1. Answer(k) = <<a>>
      BY <2>4 DEF Answer
    <3>2. /\ a \in Part /\ a.kind # "remains"
          /\ a.request = Current /\ a.by = now + MaxLate
      BY <2>2, <2>4
    <3> HIDE DEF a
    <3>3. Len(<<a>>) = 1 /\ <<a>>[1] = a /\ <<a>> \in Seq(Part) /\ DOMAIN <<a>> = {1}
      BY <3>2
    <3> QED BY <3>1, <3>2, <3>3
  <2>5. CASE k # "none" /\ k # "cut"
    <3>1. Answer(k) = <<a, b>>
      BY <2>5 DEF Answer
    <3>2. /\ a \in Part /\ a.kind # "remains"
          /\ a.request = Current /\ a.by = now + MaxLate
      BY <2>2, <2>5
    <3>3. /\ b \in Part /\ b.kind # "remains"
          /\ b.request = Current /\ b.by = now + MaxLate
      BY <2>2, <2>5
    <3> HIDE DEF a, b
    <3>4. /\ Len(<<a, b>>) = 2 /\ <<a, b>>[1] = a /\ <<a, b>>[2] = b
          /\ <<a, b>> \in Seq(Part) /\ DOMAIN <<a, b>> = {1, 2}
      BY <3>2, <3>3
    <3> QED BY <3>1, <3>2, <3>3, <3>4
  <2> QED BY <2>3, <2>4, <2>5
<1>5. /\ flight' \in Seq(Part) /\ Len(flight') = Len(flight) + Len(Answer(k))
      /\ \A i \in DOMAIN flight' :
            \/ i \in DOMAIN flight /\ flight'[i] = flight[i]
            \/ \E j \in DOMAIN Answer(k) : flight'[i] = Answer(k)[j]
  <2>1. flight' \in Seq(Part) /\ Len(flight') = Len(flight) + Len(Answer(k))
    BY <1>1, <1>2, <1>4
  <2>2. ASSUME NEW i \in DOMAIN flight', ~(i \in DOMAIN flight)
        PROVE  \E j \in DOMAIN Answer(k) : flight'[i] = Answer(k)[j]
    <3>1. i - Len(flight) \in DOMAIN Answer(k) /\ flight'[i] = Answer(k)[i - Len(flight)]
      BY <1>1, <1>2, <1>4, <2>1, <2>2
    <3> QED BY <3>1
  <2>3. \A i \in DOMAIN flight : flight'[i] = flight[i]
    BY <1>1, <1>2, <1>4
  <2> QED BY <2>1, <2>2, <2>3
<1>6. Expected(line)' /\ Expected(flight)'
  <2>1. Current' = Current
    BY <1>1 DEF Current
  <2>2. Expected(line)'
    BY <1>1, <1>2 DEF Leftover, Expected
  <2>3. Expected(flight)'
    <3> QED BY <2>1, <1>2, <1>4, <1>5 DEF Leftover, Expected
  <2> QED BY <2>2, <2>3
<1>7. (Count' > 0 /\ First'.head = TRUE) => Count' <= 2
  <2>1. CASE line = <<>> /\ flight = <<>>
    BY <2>1, <1>1, <1>4, <1>5 DEF Count
  <2>2. CASE line # <<>>
    <3>1. 1 \in DOMAIN line /\ line' = line
      BY <2>2, <1>1, <1>2
    <3> QED BY <2>2, <3>1, <1>2 DEF First, Leftover
  <2>3. CASE line = <<>> /\ flight # <<>>
    <3>1. 1 \in DOMAIN flight /\ flight'[1] = flight[1] /\ line' = <<>>
      BY <2>3, <1>1, <1>2, <1>4
    <3> QED BY <2>3, <3>1, <1>2 DEF First, Leftover
  <2> QED BY <2>1, <2>2, <2>3
<1>8. Wire'
  BY <1>1, <1>6, <1>7 DEF Wire
<1>9. Arrivals'
  <2>1. \A i \in DOMAIN flight : flight[i].by <= now + MaxLate
    BY DEF IInv, Arrivals
  <2>2. now + MaxLate <= now + MaxLate
    BY <1>1, PlanAssumption
  <2> QED BY <2>1, <2>2, <1>1, <1>4, <1>5 DEF Arrivals
<1>10. TypeOK'
  <2>1. limit' \in Nat
    <3>1. options.timeout \in Nat
      BY PlanAssumption DEF IInv, TypeOK, Options
    <3> QED BY <1>1, <3>1 DEF IInv, TypeOK, Least
  <2> QED BY <1>1, <1>5, <2>1 DEF IInv, TypeOK
<1>11. CycleStartsQuiet' /\ Read' /\ SnapshotPure'
  BY <1>1 DEF IInv, CycleStartsQuiet, Read, Answered, SnapshotPure
<1> QED BY <1>8, <1>9, <1>10, <1>11 DEF IInv

LEMMA ReadHeaderInv == IInv /\ ReadHeader => IInv'
<1> SUFFICES ASSUME IInv, ReadHeader PROVE IInv'
  OBVIOUS
<1>1. /\ pc = "header" /\ pc' = "rest" /\ line # <<>> /\ line' = Tail(line)
      /\ Head(line).head
      /\ UNCHANGED <<options, cycle, block, attempt, deadline, limit, registers, flight, now>>
      /\ UNCHANGED <<latest, availability, noResponse, alarm, results>>
  BY DEF ReadHeader, Readable, Recognised, store
<1>2. /\ line \in Seq(Part) /\ flight \in Seq(Part)
      /\ 1 \in DOMAIN line /\ Head(line) = line[1]
      /\ line' \in Seq(Part) /\ Len(line') = Len(line) - 1
      /\ \A i \in DOMAIN line' : i + 1 \in DOMAIN line /\ line'[i] = line[i + 1]
  BY <1>1 DEF IInv, TypeOK
<1>3. Count' <= 1
  <2>1. First.head = TRUE
    <3>1. line[1] \in Part
      BY <1>2
    <3>2. line[1].head \in BOOLEAN
      BY <3>1 DEF Part
    <3> QED BY <1>1, <1>2, <3>2 DEF First
  <2>2. Count > 0
    BY <1>1, <1>2 DEF Count
  <2>3. Count <= 2
    BY <1>1, <2>1, <2>2 DEF IInv, Wire
  <2> QED BY <1>1, <1>2, <2>3 DEF Count
<1>4. Expected(line)' /\ Expected(flight)'
  <2>1. Expected(line) /\ Expected(flight) /\ Current' = Current
    BY <1>1 DEF IInv, Wire, Current
  <2> QED BY <1>1, <1>2, <2>1 DEF Expected
<1>5. Wire'
  BY <1>1, <1>3, <1>4 DEF Wire
<1>6. TypeOK' /\ Arrivals'
  BY <1>1, <1>2 DEF IInv, TypeOK, Arrivals
<1>7. CycleStartsQuiet' /\ Read' /\ SnapshotPure'
  BY <1>1 DEF IInv, CycleStartsQuiet, Read, Answered, SnapshotPure
<1> QED BY <1>5, <1>6, <1>7 DEF IInv

(* A part that completes a block is the answer to the current request. *)
LEMMA CompleteInv == IInv /\ Complete => IInv'
<1> SUFFICES ASSUME IInv, Complete PROVE IInv'
  OBVIOUS
<1>1. /\ pc = "rest" /\ line # <<>> /\ line' = Tail(line) /\ Head(line).kind = "data"
      /\ registers' = [registers EXCEPT ![block] = Head(line).request]
      /\ UNCHANGED <<options, cycle, deadline, limit, flight, now>>
      /\ UNCHANGED <<latest, availability, noResponse, alarm, results>>
  BY DEF Complete, Readable, store
<1>2. /\ \/ block < Blocks /\ pc' = "send" /\ block' = block + 1 /\ attempt' = 0
         \/ ~(block < Blocks) /\ pc' = "publish" /\ block' = block /\ attempt' = attempt
      /\ block \in Nat /\ block >= 1 /\ block <= Blocks /\ Blocks \in Nat
  BY PlanAssumption DEF Complete, IInv, TypeOK, Plan
<1>3. /\ line \in Seq(Part) /\ flight \in Seq(Part)
      /\ 1 \in DOMAIN line /\ Head(line) = line[1]
      /\ line' \in Seq(Part) /\ Len(line') = Len(line) - 1
      /\ Len(line) + Len(flight) <= 1
  BY <1>1 DEF IInv, TypeOK, Wire, Count
<1>4. line' = <<>> /\ flight' = <<>>
  BY <1>1, <1>3
<1>5. Head(line).request = Current /\ Current \in Request
  <2>1. Expected(line)
    BY <1>1 DEF IInv, Wire
  <2> QED BY <1>1, <1>3, <2>1 DEF Expected, IInv, TypeOK, Current, Request, Plan
<1>6. registers \in [Plan -> Request \cup {None}] /\ block \in Plan
  BY DEF IInv, TypeOK
<1>7. TypeOK'
  <2>1. block' \in Plan /\ attempt' \in Nat /\ pc' \in {"send", "publish"}
    BY <1>2 DEF IInv, TypeOK, Plan
  <2>2. registers' \in [Plan -> Request \cup {None}]
    BY <1>1, <1>5, <1>6
  <2> QED BY <1>1, <1>3, <2>1, <2>2 DEF IInv, TypeOK
<1>8. Read'
  <2>1. \A b \in Plan : b < block => Answered(b)
    BY <1>1 DEF IInv, Read
  <2>2. Current.cycle = cycle /\ Current.block = block /\ Current # None
    BY <1>5, NoneAssumption DEF Current, Request
  <2>3. \A b \in Plan : b <= block => Answered(b)'
    <3> SUFFICES ASSUME NEW b \in Plan, b <= block PROVE Answered(b)'
      OBVIOUS
    <3>1. CASE b = block
      BY <3>1, <1>1, <1>5, <1>6, <2>2 DEF Answered
    <3>2. CASE b # block
      <4>1. b < block
        BY <3>2, <1>2 DEF Plan
      <4>2. registers'[b] = registers[b]
        BY <3>2, <1>1, <1>6
      <4> QED BY <2>1, <4>1, <4>2, <1>1 DEF Answered
    <3> QED BY <3>1, <3>2
  <2>4. CASE block < Blocks
    <3>1. pc' = "send" /\ \A b \in Plan : b < block' => b <= block
      BY <2>4, <1>2 DEF Plan
    <3> QED BY <2>3, <3>1 DEF Read
  <2>5. CASE ~(block < Blocks)
    <3>1. pc' = "publish" /\ \A b \in Plan : b <= block
      BY <2>5, <1>2 DEF Plan
    <3> QED BY <2>3, <3>1 DEF Read
  <2> QED BY <2>4, <2>5
<1>9. Wire' /\ Arrivals' /\ CycleStartsQuiet' /\ SnapshotPure'
  <2>1. pc' \in {"send", "publish"}
    BY <1>2
  <2> QED BY <1>1, <1>4, <2>1
          DEF IInv, Wire, Arrivals, Leftover, Count, CycleStartsQuiet, SnapshotPure
<1> QED BY <1>7, <1>8, <1>9 DEF IInv

(* What Retryable leaves on the wire *)
LEMMA RetryableLine ==
    ASSUME IInv, Retryable
    PROVE  /\ line' \in Seq(Part) /\ flight' = flight /\ flight = <<>>
           /\ Len(line') <= 1 /\ Leftover(line)' /\ pc = "rest"
<1>1. /\ pc = "rest" /\ line # <<>> /\ flight' = flight
      /\ line' = IF Head(line).kind = "misread"
                 THEN <<Remains(Head(line))>> \o Tail(line)
                 ELSE Tail(line)
  BY DEF Retryable, Readable
<1>2. /\ line \in Seq(Part) /\ flight \in Seq(Part)
      /\ Len(line) + Len(flight) <= 1
  BY <1>1 DEF IInv, TypeOK, Wire, Count
<1>3. Tail(line) = <<>> /\ flight = <<>> /\ Head(line) \in Part
  BY <1>1, <1>2
<1>4. CASE Head(line).kind = "misread"
  <2> DEFINE r == Remains(Head(line))
  <2>1. r \in Part /\ r.kind = "remains" /\ r.head = FALSE
    BY <1>3 DEF Remains, Part
  <2>2. line' = <<r>> \o <<>>
    BY <1>1, <1>3, <1>4
  <2> HIDE DEF r
  <2>3. <<r>> \o <<>> = <<r>>
    BY <2>1
  <2>4. <<r>> \in Seq(Part) /\ Len(<<r>>) = 1 /\ DOMAIN <<r>> = {1} /\ <<r>>[1] = r
    BY <2>1
  <2>5. line' = <<r>>
    BY <2>2, <2>3
  <2>6. line' \in Seq(Part) /\ Len(line') <= 1 /\ DOMAIN line' = {1} /\ line'[1] = r
    BY <2>4, <2>5
  <2>7. Leftover(line)'
    BY <2>1, <2>6 DEF Leftover
  <2> QED BY <1>1, <1>3, <2>6, <2>7
<1>5. CASE Head(line).kind # "misread"
  <2>1. line' = <<>>
    BY <1>1, <1>3, <1>5
  <2>2. line' \in Seq(Part) /\ Len(line') <= 1 /\ DOMAIN line' = {}
    BY <2>1
  <2>3. Leftover(line)'
    BY <2>2 DEF Leftover
  <2> QED BY <1>1, <1>3, <2>2, <2>3
<1> QED BY <1>4, <1>5

LEMMA RetryInv == IInv /\ Retry => IInv'
<1> SUFFICES ASSUME IInv, Retry PROVE IInv'
  OBVIOUS
<1>1. /\ line' \in Seq(Part) /\ flight' = <<>> /\ Len(line') <= 1 /\ Leftover(line)'
      /\ pc = "rest"
  BY RetryableLine DEF Retry
<1>2. /\ pc' = "send" /\ attempt' = attempt + 1
      /\ UNCHANGED <<options, cycle, block, deadline, limit, registers, now>>
      /\ UNCHANGED <<latest, availability, noResponse, alarm, results>>
  BY DEF Retry, store
<1>3. TypeOK' /\ Arrivals'
  BY <1>1, <1>2 DEF IInv, TypeOK, Arrivals
<1>4. Wire'
  BY <1>1, <1>2 DEF Wire, Leftover, Count
<1>5. Read' /\ CycleStartsQuiet' /\ SnapshotPure'
  BY <1>1, <1>2 DEF IInv, Read, Answered, CycleStartsQuiet, SnapshotPure
<1> QED BY <1>3, <1>4, <1>5 DEF IInv

LEMMA PublishInv == IInv /\ PublishSnapshot => IInv'
<1> SUFFICES ASSUME IInv, PublishSnapshot PROVE IInv'
  OBVIOUS
<1>1. /\ pc = "publish" /\ pc' = "idle"
      /\ latest' = [generation |-> Generation + 1, cycle |-> cycle, registers |-> registers]
      /\ availability' = "fresh" /\ noResponse' = 0 /\ alarm' = FALSE
      /\ results' = Append(results, "ok")
      /\ UNCHANGED <<options, cycle, block, attempt, deadline, limit, registers, line, flight, now>>
  BY DEF PublishSnapshot, Publish, serial
<1>2. Generation \in Nat
  BY DEF IInv, TypeOK, Generation, Snapshot
<1>3. latest' \in Snapshot
  BY <1>1, <1>2 DEF IInv, TypeOK, Snapshot
<1>4. results' \in Seq({"ok", "no_response", "other"})
  BY <1>1 DEF IInv, TypeOK
<1>5. TypeOK'
  BY <1>1, <1>3, <1>4 DEF IInv, TypeOK
<1>6. SnapshotPure'
  <2>1. \A b \in Plan : Answered(b)
    BY <1>1 DEF IInv, Read
  <2>2. latest'.registers = registers /\ latest'.cycle = cycle
    BY <1>1
  <2> QED BY <2>1, <2>2 DEF SnapshotPure, Answered
<1> QED BY <1>1, <1>5, <1>6 DEF IInv, Wire, Arrivals, Read, CycleStartsQuiet

LEMMA QuarantineInv == IInv /\ (Drain \/ QuarantineOver) => IInv'
<1> SUFFICES ASSUME IInv, Drain \/ QuarantineOver PROVE IInv'
  OBVIOUS
<1>1. /\ pc = "quarantine" /\ now \in Nat /\ limit \in Nat
      /\ line \in Seq(Part) /\ flight \in Seq(Part)
  BY DEF IInv, TypeOK, Drain, QuarantineOver
<1>2. CASE Drain
  <2>1. /\ pc' = pc /\ now < limit /\ line' = <<>> /\ limit' = now + Quarantine
        /\ UNCHANGED <<options, cycle, block, attempt, deadline, registers, flight, now>>
        /\ UNCHANGED <<latest, availability, noResponse, alarm, results>>
    BY <1>2 DEF Drain, store
  <2>2. limit' \in Nat /\ ~(now >= limit')
    BY <1>1, <2>1, PlanAssumption, LatenessAssumption
  <2>3. \A i \in DOMAIN flight : flight[i] \in Part
    BY <1>1
  <2>4. \A i \in DOMAIN flight : flight[i].by \in Nat /\ flight[i].by <= now + MaxLate
    BY <2>3 DEF IInv, Arrivals, Part
  <2>5. \A i \in DOMAIN flight : flight[i].by < now + Quarantine
    BY <2>4, <1>1, PlanAssumption, LatenessAssumption
  <2>6. Arrivals'
    BY <2>1, <2>2, <2>4, <2>5 DEF Arrivals
  <2>7. TypeOK'
    BY <2>1, <2>2 DEF IInv, TypeOK
  <2> QED BY <1>1, <2>1, <2>6, <2>7 DEF IInv, CycleStartsQuiet, Wire, Read, SnapshotPure
<1>3. CASE QuarantineOver
  <2>1. /\ pc' = "idle" /\ now >= limit
        /\ UNCHANGED <<options, cycle, block, attempt, deadline, limit, registers, line, flight>>
        /\ UNCHANGED <<latest, availability, noResponse, alarm, results, now>>
    BY <1>3 DEF QuarantineOver, serial, store
  <2>2. line = <<>> /\ flight = <<>>
    BY <1>1, <2>1 DEF IInv, Arrivals
  <2> QED BY <2>1, <2>2
          DEF IInv, TypeOK, CycleStartsQuiet, Wire, Arrivals, Read, SnapshotPure
<1> QED BY <1>2, <1>3

LEMMA NextInv == IInv /\ [Next]_vars => IInv'
<1> SUFFICES ASSUME IInv, [Next]_vars PROVE IInv'
  OBVIOUS
<1>1. line \in Seq(Part) /\ flight \in Seq(Part)
  BY DEF IInv, TypeOK
<1>2. ASSUME NEW o \in OptionSets, ApplyConfiguration(o)
      PROVE  IInv'
  BY <1>2 DEF ApplyConfiguration, serial, store, IInv, TypeOK, CycleStartsQuiet, Wire, Arrivals,
     Read, SnapshotPure
<1>3. CASE WriteFails
  BY <1>1, <1>3, FailInv DEF WriteFails, serial, Polling
<1>4. CASE DeadlineBeforeRequest
  BY <1>1, <1>4, FailInv DEF DeadlineBeforeRequest, serial, Polling
<1>5. CASE ReadForeign
  <2>1. line' \in Seq(Part)
    BY <1>1, <1>5 DEF ReadForeign, Readable
  <2> QED BY <1>5, <2>1, FailInv DEF ReadForeign, Polling
<1>6. CASE NoResponse
  BY <1>1, <1>6, FailInv DEF NoResponse, serial, Polling
<1>7. CASE RetriesExhausted
  <2>1. line' \in Seq(Part) /\ flight' = flight /\ pc = "rest"
    BY <1>7, RetryableLine DEF RetriesExhausted
  <2> QED BY <1>7, <2>1, FailInv DEF RetriesExhausted, Polling
<1>8. CASE RestMissing
  BY <1>1, <1>8, FailInv DEF RestMissing, serial, Polling
<1>9. CASE DeadlineAfterResponse
  BY <1>1, <1>9, FailInv DEF DeadlineAfterResponse, serial, Polling
<1>10. ASSUME NEW k \in Replies, Send(k)
       PROVE  IInv'
  BY <1>10, SendInv
<1>11. CASE UNCHANGED vars
  BY <1>11 DEF vars, engine, serial, store, IInv, TypeOK, CycleStartsQuiet, Wire, Arrivals, Read,
     SnapshotPure, Answered, Count, First, Leftover, Expected, Current
<1> QED
  BY <1>2, <1>3, <1>4, <1>5, <1>6, <1>7, <1>8, <1>9, <1>10, <1>11, StartInv, ReadHeaderInv,
     CompleteInv, RetryInv, PublishInv, QuarantineInv, ArriveInv, TickInv
  DEF Next, Engine

-----------------------------------------------------------------------------
(* The engine's and the store's state keeps its type. *)
THEOREM AcquisitionTypeCorrect == Spec => []TypeOK
<1>1. IInv => TypeOK
  BY DEF IInv
<1> QED BY InitInv, NextInv, <1>1, PTL DEF Spec

(* No published snapshot holds a block that another request was answered with,
   however many blocks, retries and cycles there are, as long as a response is
   late by less than the quarantine. *)
THEOREM SnapshotsPure == Spec => []SnapshotPure
<1>1. IInv => SnapshotPure
  BY DEF IInv
<1> QED BY InitInv, NextInv, <1>1, PTL DEF Spec

(* Between two cycles nothing is on the line and nothing is still to come. *)
THEOREM CyclesStartQuiet == Spec => []CycleStartsQuiet
<1>1. IInv => CycleStartsQuiet
  BY DEF IInv
<1> QED BY InitInv, NextInv, <1>1, PTL DEF Spec

-----------------------------------------------------------------------------
(* The status of the store.  The counter of cycles without a response is the
   length of the series of such cycles that the history ends with: that is what
   makes the alarm, which is computed from the counter alone, true. *)

NoneOk == \A i \in DOMAIN results : results[i] # "ok"

SilentSeries ==
    /\ noResponse <= Len(results)
    /\ \A i \in 1 .. Len(results) : i > Len(results) - noResponse => results[i] = "no_response"
    /\ noResponse < Len(results) => results[Len(results) - noResponse] # "no_response"

LastOk == Len(results) >= 1 /\ results[Len(results)] = "ok"

StatusInv ==
    /\ availability = "fresh" <=> LastOk
    /\ availability = "invalid" <=> NoneOk
    /\ latest = None <=> NoneOk
    /\ SilentSeries
    /\ alarm <=> noResponse >= 3

LEMMA InitStatus == Init => StatusInv
<1> SUFFICES ASSUME Init PROVE StatusInv
  OBVIOUS
<1>1. /\ results = <<>> /\ Len(results) = 0 /\ DOMAIN results = {} /\ noResponse = 0
      /\ availability = "invalid" /\ latest = None /\ alarm = FALSE
  BY DEF Init
<1> QED BY <1>1 DEF StatusInv, LastOk, NoneOk, SilentSeries

(* What Append does to the history *)
LEMMA AppendResult ==
    ASSUME results \in Seq({"ok", "no_response", "other"}),
           NEW r \in {"ok", "no_response", "other"}, results' = Append(results, r)
    PROVE  /\ results' \in Seq({"ok", "no_response", "other"})
           /\ Len(results) \in Nat /\ Len(results') = Len(results) + 1
           /\ DOMAIN results = 1 .. Len(results) /\ DOMAIN results' = 1 .. Len(results')
           /\ \A i \in 1 .. Len(results) : results'[i] = results[i]
           /\ results'[Len(results')] = r
  OBVIOUS

LEMMA PublishStatus ==
    ASSUME TypeOK, StatusInv, Publish
    PROVE  StatusInv'
<1>1. /\ latest' = [generation |-> Generation + 1, cycle |-> cycle, registers |-> registers]
      /\ availability' = "fresh" /\ noResponse' = 0 /\ alarm' = FALSE
      /\ results' = Append(results, "ok")
  BY DEF Publish
<1>2. results \in Seq({"ok", "no_response", "other"})
  BY DEF TypeOK
<1>3. /\ Len(results) \in Nat /\ Len(results') = Len(results) + 1
      /\ DOMAIN results' = 1 .. Len(results')
      /\ results'[Len(results')] = "ok"
  BY <1>1, <1>2, AppendResult
<1>4. LastOk' /\ ~NoneOk'
  BY <1>3 DEF LastOk, NoneOk
<1>5. latest' # None
  <2>1. Generation \in Nat
    BY DEF TypeOK, Generation, Snapshot
  <2>2. latest' \in Snapshot
    BY <1>1, <2>1 DEF TypeOK, Snapshot
  <2> QED BY <2>2, SnapshotAssumption
<1>6. SilentSeries'
  BY <1>1, <1>3 DEF SilentSeries
<1>7. alarm' <=> noResponse' >= 3
  BY <1>1
<1> QED BY <1>1, <1>4, <1>5, <1>6, <1>7 DEF StatusInv

LEMMA FailureStatus ==
    ASSUME TypeOK, StatusInv, NEW r \in {"no_response", "other"}, RecordFailure(r)
    PROVE  StatusInv'
<1>1. /\ latest' = latest
      /\ availability' = IF latest = None THEN "invalid" ELSE "stale"
      /\ noResponse' = IF r = "no_response" THEN noResponse + 1 ELSE 0
      /\ results' = Append(results, r)
  BY DEF RecordFailure
<1>2. results \in Seq({"ok", "no_response", "other"}) /\ noResponse \in Nat
  BY DEF TypeOK
<1>3. /\ Len(results) \in Nat /\ Len(results') = Len(results) + 1
      /\ DOMAIN results = 1 .. Len(results) /\ DOMAIN results' = 1 .. Len(results')
      /\ \A i \in 1 .. Len(results) : results'[i] = results[i]
      /\ results'[Len(results')] = r
  BY <1>1, <1>2, AppendResult
<1>4. ~LastOk'
  BY <1>3 DEF LastOk
<1>5. NoneOk' <=> NoneOk
  BY <1>3 DEF NoneOk
<1>6. SilentSeries'
  <2>1. SilentSeries
    BY DEF StatusInv
  <2> DEFINE n == Len(results)
  <2>2. CASE r = "no_response"
    <3>1. noResponse' = noResponse + 1
      BY <2>2, <1>1
    <3>2. \A i \in 1 .. n + 1 : i > n - noResponse => results'[i] = "no_response"
      <4> SUFFICES ASSUME NEW i \in 1 .. n + 1, i > n - noResponse
                   PROVE  results'[i] = "no_response"
        OBVIOUS
      <4>1. CASE i \in 1 .. n
        BY <4>1, <2>1, <1>3 DEF SilentSeries
      <4>2. CASE i = n + 1
        BY <4>2, <2>2, <1>3
      <4> QED BY <4>1, <4>2, <1>3
    <3>3. noResponse < n => /\ n - noResponse \in 1 .. n
                            /\ results'[n - noResponse] # "no_response"
      BY <2>1, <1>2, <1>3 DEF SilentSeries
    <3>4. noResponse <= n
      BY <2>1 DEF SilentSeries
    <3>5. (n + 1) - (noResponse + 1) = n - noResponse
      BY <1>2, <1>3
    <3> QED BY <3>1, <3>2, <3>3, <3>4, <3>5, <1>2, <1>3 DEF SilentSeries
  <2>3. CASE r # "no_response"
    <3>1. noResponse' = 0
      BY <2>3, <1>1
    <3> QED BY <3>1, <2>3, <1>3 DEF SilentSeries
  <2> QED BY <2>2, <2>3
<1>7. alarm' <=> noResponse' >= 3
  BY DEF RecordFailure
<1> QED BY <1>1, <1>4, <1>5, <1>6, <1>7 DEF StatusInv

(* Every step publishes, records a failure or leaves the store alone. *)
LEMMA NextStatus == TypeOK /\ StatusInv /\ [Next]_vars => StatusInv'
<1> SUFFICES ASSUME TypeOK, StatusInv, [Next]_vars PROVE StatusInv'
  OBVIOUS
<1>1. \/ Publish
      \/ \E r \in {"no_response", "other"} : RecordFailure(r)
      \/ UNCHANGED store
  BY DEF Next, Engine, vars, ApplyConfiguration, StartCycle, Send, WriteFails,
     DeadlineBeforeRequest, ReadHeader, ReadForeign, NoResponse, Complete, Retry,
     RetriesExhausted, RestMissing, PublishSnapshot, DeadlineAfterResponse, Drain,
     QuarantineOver, Arrive, Tick, FailAndQuarantine
<1>2. CASE UNCHANGED store
  BY <1>2 DEF store, StatusInv, LastOk, NoneOk, SilentSeries
<1> QED BY <1>1, <1>2, PublishStatus, FailureStatus

LEMMA StatusTells == TypeOK /\ StatusInv => StatusTruthful
<1> SUFFICES ASSUME TypeOK, StatusInv PROVE StatusTruthful
  OBVIOUS
<1>1. noResponse \in Nat /\ Len(results) \in Nat /\ DOMAIN results = 1 .. Len(results)
  BY DEF TypeOK
<1>2. LastOk <=> LastAre(1, "ok")
  BY <1>1 DEF LastOk, LastAre
<1>3. alarm <=> LastAre(3, "no_response")
  <2>1. SilentSeries /\ (alarm <=> noResponse >= 3)
    BY DEF StatusInv
  <2>2. CASE noResponse >= 3
    <3>1. \A i \in Len(results) - 3 + 1 .. Len(results) :
              i \in 1 .. Len(results) /\ i > Len(results) - noResponse
      BY <2>1, <2>2, <1>1 DEF SilentSeries
    <3>2. Len(results) >= 3
      BY <2>1, <2>2, <1>1 DEF SilentSeries
    <3> QED BY <2>1, <2>2, <3>1, <3>2 DEF SilentSeries, LastAre
  <2>3. CASE ~(noResponse >= 3)
    <3>1. ASSUME LastAre(3, "no_response") PROVE FALSE
      <4>1. Len(results) >= 3 /\ noResponse < Len(results)
        BY <3>1, <2>3, <1>1 DEF LastAre
      <4>2. Len(results) - noResponse \in Len(results) - 3 + 1 .. Len(results)
        BY <2>3, <1>1
      <4> QED BY <3>1, <4>1, <4>2, <2>1 DEF LastAre, SilentSeries
    <3> QED BY <2>1, <2>3, <3>1
  <2> QED BY <2>2, <2>3
<1> QED BY <1>2, <1>3 DEF StatusInv, NoneOk, StatusTruthful

(* The availability tells how the latest cycle ended and the alarm that the last
   three cycles met no response, after any number of cycles: RecordFailure and
   publish keep the counter equal to the length of the series they close. *)
THEOREM StatusesTruthful == Spec => []StatusTruthful
<1>1. Init => TypeOK /\ StatusInv
  BY InitInv, InitStatus DEF IInv
<1>2. IInv => TypeOK
  BY DEF IInv
<1> QED BY InitInv, NextInv, <1>1, <1>2, NextStatus, StatusTells, PTL DEF Spec

-----------------------------------------------------------------------------
(* What is on the line when a request is sent.  A device none of whose responses
   is damaged into an exception leaves no remains, and Wire allows nothing else. *)

Whole(s) == \A i \in DOMAIN s : s[i].kind \notin {"misread", "remains"}

Clean == Whole(line) /\ Whole(flight)

LEMMA WholeTail ==
    ASSUME NEW s \in Seq(Part), s # <<>>, Whole(s)
    PROVE  Whole(Tail(s)) /\ Head(s).kind \notin {"misread", "remains"}
<1>1. /\ Len(Tail(s)) = Len(s) - 1 /\ Len(s) \in Nat \ {0} /\ Head(s) = s[1]
      /\ DOMAIN Tail(s) = 1 .. Len(Tail(s)) /\ DOMAIN s = 1 .. Len(s)
      /\ \A i \in 1 .. Len(Tail(s)) : Tail(s)[i] = s[i + 1]
  OBVIOUS
<1> QED BY <1>1 DEF Whole

LEMMA WholeConcat ==
    ASSUME NEW s \in Seq(Part), NEW t \in Seq(Part), Whole(s), Whole(t)
    PROVE  Whole(s \o t)
<1>1. /\ Len(s \o t) = Len(s) + Len(t) /\ Len(s) \in Nat /\ Len(t) \in Nat
      /\ DOMAIN (s \o t) = 1 .. Len(s \o t) /\ DOMAIN s = 1 .. Len(s) /\ DOMAIN t = 1 .. Len(t)
      /\ \A i \in 1 .. Len(s \o t) : (s \o t)[i] = IF i <= Len(s) THEN s[i] ELSE t[i - Len(s)]
  OBVIOUS
<1>2. ASSUME NEW i \in 1 .. Len(s \o t) PROVE (s \o t)[i].kind \notin {"misread", "remains"}
  <2>1. CASE i <= Len(s)
    BY <1>1, <2>1 DEF Whole
  <2>2. CASE i > Len(s)
    <3>1. i - Len(s) \in DOMAIN t /\ (s \o t)[i] = t[i - Len(s)]
      BY <1>1, <2>2
    <3> QED BY <3>1 DEF Whole
  <2> QED BY <1>1, <2>1, <2>2
<1> QED BY <1>1, <1>2 DEF Whole

LEMMA SendClean ==
    ASSUME "misread" \notin Replies, IInv, Clean, NEW k \in Replies, Send(k)
    PROVE  Clean'
<1>1. flight' = flight \o Answer(k) /\ line' = line /\ flight \in Seq(Part)
  BY DEF Send, IInv, TypeOK
<1>2. k # "misread" /\ (k # "none" => k \in Kinds /\ k # "remains")
  BY PlanAssumption DEF Kinds
<1>3. Current \in Request /\ now \in Nat
  BY DEF IInv, TypeOK, Current, Request, Plan
<1>4. \A h \in BOOLEAN : k # "none" => PartOf(k, h) \in Part /\ PartOf(k, h).kind = k
  BY <1>2, <1>3, PlanAssumption DEF PartOf, Part
<1> DEFINE a == PartOf(k, TRUE)
           b == PartOf(k, FALSE)
<1>5. k # "none" => a \in Part /\ b \in Part /\ a.kind = k /\ b.kind = k
  BY <1>4
<1>6. Answer(k) = <<>> \/ (k # "none" /\ (Answer(k) = <<a>> \/ Answer(k) = <<a, b>>))
  BY DEF Answer
<1> HIDE DEF a, b
<1>7. Answer(k) \in Seq(Part) /\ Whole(Answer(k))
  <2>1. CASE Answer(k) = <<>>
    BY <2>1 DEF Whole
  <2>2. CASE k # "none" /\ Answer(k) = <<a>>
    <3>1. <<a>> \in Seq(Part) /\ DOMAIN <<a>> = {1} /\ <<a>>[1] = a
      BY <1>5, <2>2
    <3> QED BY <1>2, <1>5, <2>2, <3>1 DEF Whole
  <2>3. CASE k # "none" /\ Answer(k) = <<a, b>>
    <3>1. <<a, b>> \in Seq(Part) /\ DOMAIN <<a, b>> = {1, 2} /\ <<a, b>>[1] = a /\ <<a, b>>[2] = b
      BY <1>5, <2>3
    <3> QED BY <1>2, <1>5, <2>3, <3>1 DEF Whole
  <2> QED BY <1>6, <2>1, <2>2, <2>3
<1> QED BY <1>1, <1>7, WholeConcat DEF Clean

LEMMA NextClean ==
    ASSUME "misread" \notin Replies
    PROVE  IInv /\ Clean /\ [Next]_vars => Clean'
<1> SUFFICES ASSUME IInv, Clean, [Next]_vars PROVE Clean'
  OBVIOUS
<1>1. line \in Seq(Part) /\ flight \in Seq(Part)
  BY DEF IInv, TypeOK
<1>2. ASSUME NEW k \in Replies, Send(k) PROVE Clean'
  BY <1>2, SendClean
<1>3. CASE Arrive
  <2>1. flight # <<>> /\ line' = Append(line, Head(flight)) /\ flight' = Tail(flight)
    BY <1>3 DEF Arrive
  <2>2. Whole(Tail(flight)) /\ Head(flight).kind \notin {"misread", "remains"}
    BY <1>1, <2>1, WholeTail DEF Clean
  <2> DEFINE h == Head(flight)
  <2>3. h \in Part
    BY <1>1, <2>1
  <2> HIDE DEF h
  <2>4. Whole(<<h>>) /\ <<h>> \in Seq(Part) /\ Append(line, h) = line \o <<h>>
    BY <1>1, <2>2, <2>3 DEF Whole, h
  <2>5. Whole(line \o <<h>>)
    BY <1>1, <2>4, WholeConcat DEF Clean
  <2> QED BY <2>1, <2>2, <2>4, <2>5 DEF Clean, h
<1>4. CASE ReadHeader \/ ReadForeign \/ Complete \/ Retry \/ RetriesExhausted
  <2>1. line # <<>> /\ flight' = flight
    BY <1>4 DEF ReadHeader, ReadForeign, Complete, Retry, RetriesExhausted, Retryable, Readable
  <2>2. Whole(Tail(line)) /\ Head(line).kind # "misread"
    BY <1>1, <2>1, WholeTail DEF Clean
  <2>3. line' = Tail(line)
    BY <1>4, <2>2 DEF ReadHeader, ReadForeign, Complete, Retry, RetriesExhausted, Retryable
  <2> QED BY <2>1, <2>2, <2>3 DEF Clean
<1>5. CASE Drain
  BY <1>5 DEF Drain, Clean, Whole
<1>6. CASE UNCHANGED serial
  BY <1>6 DEF serial, Clean
<1>7. \/ \E k \in Replies : Send(k)
      \/ Arrive \/ Drain \/ UNCHANGED serial
      \/ ReadHeader \/ ReadForeign \/ Complete \/ Retry \/ RetriesExhausted
  BY DEF Next, Engine, ApplyConfiguration, StartCycle, WriteFails, DeadlineBeforeRequest,
     NoResponse, RestMissing, PublishSnapshot, DeadlineAfterResponse, QuarantineOver, Tick, vars,
     serial
<1> QED BY <1>2, <1>3, <1>4, <1>5, <1>6, <1>7

LEMMA CleanSends == IInv /\ Clean => SendsOnQuietLine
<1> SUFFICES ASSUME IInv, Clean, pc = "send" PROVE line = <<>> /\ flight = <<>>
  BY DEF SendsOnQuietLine
<1>1. line \in Seq(Part) /\ flight \in Seq(Part) /\ Leftover(line) /\ Leftover(flight)
  BY DEF IInv, TypeOK, Wire
<1>2. DOMAIN line = {} /\ DOMAIN flight = {}
  BY <1>1 DEF Clean, Whole, Leftover
<1> QED BY <1>1, <1>2

(* Every request, a retry too, goes out on a line on which no earlier response is
   left or still to come, as long as no response is damaged into an exception:
   poll_once retries only responses that read_response has read to the end, and
   ends the cycle in quarantine on every other failure. *)
THEOREM RequestsOnQuietLine ==
    ASSUME "misread" \notin Replies
    PROVE  Spec => []SendsOnQuietLine
<1>1. Init => Clean
  BY DEF Init, Clean, Whole
<1>2. IInv /\ Clean /\ [Next]_vars => Clean'
  BY NextClean
<1> QED BY InitInv, NextInv, <1>1, <1>2, CleanSends, PTL DEF Spec

=============================================================================
