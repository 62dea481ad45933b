------------------------ MODULE EventDetectorProofs ------------------------
(***************************************************************************)
(* The type of the detector's state, that a reason belongs to one bundle   *)
(* and that no bundle is dropped, for every set of peaks, of options and   *)
(* of bounds.  The invariant carries, beside the three, that a bundle has  *)
(* a reason and that the queue is empty between two iterations.            *)
(*                                                                         *)
(* Then what the bundles hold, compared with the record of all             *)
(* observations: their frames have no gap (FramesInv), what the detector   *)
(* remembers is what the reference reads from the record (Memory), and     *)
(* every trigger of the reference is counted once (Exact).                 *)
(***************************************************************************)
EXTENDS EventDetector, FiniteSetTheorems, TLAPS

(* A bundle exists because of a reason. *)
Reasoned(slots) == \A s \in Slots : slots[s] # None => slots[s].reasons # {}

Exclusive(slots) ==
    \A s, t \in Slots : s # t /\ slots[s] # None /\ slots[t] # None
                          => slots[s].reasons \cap slots[t].reasons = {}

SlotsOK(slots) ==
    /\ slots \in [Slots -> Bundle \cup {None}]
    /\ Reasoned(slots)
    /\ Exclusive(slots)

(* The queue holds what the first half of an iteration has completed. *)
QueueShort ==
    /\ Len(completed) <= 2
    /\ phase = "observe" => completed = <<>>

IInv == TypeOK /\ SlotsOK(active) /\ NothingDropped /\ QueueShort

-----------------------------------------------------------------------------
(* A sequence is its own longest suffix, and a shorter suffix has its length. *)
LEMMA SuffixLemma ==
    ASSUME NEW S, NEW q \in Seq(S), NEW n \in Nat, n <= Len(q)
    PROVE  /\ Suffix(q, n) \in Seq(S)
           /\ Len(Suffix(q, n)) = n
           /\ n = Len(q) => Suffix(q, n) = q
BY DEF Suffix

(* expire keeps the type, the reasons and the exclusiveness of the slots. *)
LEMMA ExpireLemma ==
    ASSUME TypeOK, SlotsOK(active), NEW t \in Nat
    PROVE  /\ SlotsOK(ActiveAfter(t))
           /\ \A s \in Slots : CompletedAt(s, t) \in Seq(Bundle) /\ Len(CompletedAt(s, t)) <= 1
<1>1. ASSUME NEW b \in Bundle
      PROVE  Close(b, t) \in Bundle /\ Close(b, t).reasons = b.reasons
  <2>1. \A x \in BOOLEAN : LET c == [b EXCEPT !.closed = TRUE, !.partial = x]
                          IN c \in Bundle /\ c.reasons = b.reasons
    BY DEF Bundle
  <2>2. b.post \in Nat
    BY DEF Bundle
  <2>3. (b.post < PostFrames) \in BOOLEAN
    BY <2>2, BoundAssumption
  <2> QED BY <2>1, <2>3, Zenon DEF Close
<1>2. \A s \in Slots : active[s] # None => active[s] \in Bundle
  BY DEF SlotsOK
<1>3. SlotsOK(ActiveAfter(t))
  BY <1>1, <1>2 DEF SlotsOK, Reasoned, Exclusive, ActiveAfter
<1>4. \A s \in Slots : CompletedAt(s, t) \in Seq(Bundle) /\ Len(CompletedAt(s, t)) <= 1
  BY <1>1, <1>2 DEF CompletedAt, Over
<1> QED BY <1>3, <1>4

(* An iteration completes too little to fill the queue. *)
LEMMA EnqueueLemma ==
    ASSUME IInv, NEW t \in Nat
    PROVE  /\ Enqueue(t) = Queue(t)
           /\ Queue(t) \in Seq(Bundle)
           /\ Len(Queue(t)) <= Len(completed) + 2
           /\ DroppedBy(t) = dropped
<1>1. /\ CompletedAt(1, t) \in Seq(Bundle) /\ Len(CompletedAt(1, t)) <= 1
      /\ CompletedAt(2, t) \in Seq(Bundle) /\ Len(CompletedAt(2, t)) <= 1
  BY ExpireLemma DEF IInv, Slots
<1>2. completed \in Seq(Bundle) /\ Len(completed) <= 2
  BY DEF IInv, TypeOK, QueueShort
<1>3. /\ Queue(t) \in Seq(Bundle)
      /\ Len(Queue(t)) = Len(completed) + Len(CompletedAt(1, t)) + Len(CompletedAt(2, t))
  BY <1>1, <1>2 DEF Queue
<1>4. Kept(t) = Len(Queue(t))
  BY <1>1, <1>2, <1>3, BoundAssumption DEF Kept, Least
<1>5. Enqueue(t) = Queue(t)
  BY <1>3, <1>4, SuffixLemma DEF Enqueue
<1> QED BY <1>1, <1>2, <1>3, <1>4, <1>5 DEF DroppedBy, IInv, TypeOK

(* append_post_frame keeps the type and the reasons. *)
LEMMA CollectLemma ==
    ASSUME NEW slots, SlotsOK(slots), NEW g \in Nat
    PROVE  SlotsOK(Collect(slots, g))
<1>1. ASSUME NEW b \in Bundle
      PROVE  AppendPostFrame(b, g) \in Bundle /\ AppendPostFrame(b, g).reasons = b.reasons
  <2>1. \A f \in Seq(Nat), n \in Nat, x \in BOOLEAN :
            LET c == [b EXCEPT !.frames = f, !.post = n, !.closed = x]
            IN c \in Bundle /\ c.reasons = b.reasons
    BY DEF Bundle
  <2>2. b.post \in Nat /\ b.frames \in Seq(Nat)
    BY DEF Bundle
  <2>3. /\ Append(b.frames, g) \in Seq(Nat)
        /\ b.post + 1 \in Nat
        /\ (b.post + 1 >= PostFrames) \in BOOLEAN
    BY <2>2, BoundAssumption
  <2> QED BY <2>1, <2>3, Zenon DEF AppendPostFrame
<1> QED BY <1>1 DEF SlotsOK, Reasoned, Exclusive, Collect

(* A trigger goes where its reason is, so the reasons of the bundles stay apart;
   and when no bundle holds it, two exclusive bundles cannot fill both slots. *)
LEMMA RecordLemma ==
    ASSUME NEW slots, SlotsOK(slots), NEW rs \in SUBSET Reasons, NEW g \in Nat,
           now \in Nat, history \in Seq(Nat)
    PROVE  SlotsOK(Record(slots, rs, g))
<1> DEFINE held == {r \in rs : Holding(slots, r) # {}}
           slot(r) == CHOOSE s \in Holding(slots, r) : TRUE
           target(r) == IF r \in held THEN slot(r) ELSE slot(CHOOSE q \in held : TRUE)
           given(s) == {r \in rs : target(r) = s}
           attached == [s \in Slots |-> IF slots[s] = None \/ given(s) = {} THEN slots[s]
                                        ELSE Attach(slots[s], given(s))]
<1>1. CASE rs = {}
  BY <1>1 DEF Record
<1>2. CASE rs # {} /\ held = {}
  <2>1. NewBundle(rs, g) \in Bundle /\ NewBundle(rs, g).reasons = rs
    BY DEF NewBundle, Bundle
  <2>2. \A s \in Slots : slots[s] # None => slots[s].reasons \cap rs = {}
    BY <1>2 DEF Holding
  <2>3. SlotsOK(Create(slots, rs, g))
    <3>1. CASE \A s \in Slots : slots[s] # None
      BY <3>1 DEF Create
    <3>2. CASE ~ \A s \in Slots : slots[s] # None
      <4>1. FirstFree(slots) \in Slots
        BY DEF FirstFree, Slots
      <4>2. Create(slots, rs, g) = [slots EXCEPT ![FirstFree(slots)] = NewBundle(rs, g)]
        BY <3>2 DEF Create
      <4> QED BY <1>2, <2>1, <2>2, <4>1, <4>2 DEF SlotsOK, Reasoned, Exclusive
    <3> QED BY <3>1, <3>2
  <2> QED BY <1>2, <2>3 DEF Record
<1>3. CASE rs # {} /\ held # {}
  <2>1. Record(slots, rs, g) = attached
    BY <1>3 DEF Record
  <2>2. ASSUME NEW b \in Bundle, NEW q \in SUBSET Reasons
        PROVE  Attach(b, q) \in Bundle /\ Attach(b, q).reasons = b.reasons \cup q
    <3>1. \A u \in SUBSET Reasons, n \in [Reasons -> Nat] :
              LET c == [b EXCEPT !.reasons = u, !.count = n]
              IN c \in Bundle /\ c.reasons = u
      BY DEF Bundle
    <3>2. b.reasons \in SUBSET Reasons /\ b.count \in [Reasons -> Nat]
      BY DEF Bundle
    <3>3. [r \in Reasons |-> b.count[r] + IF r \in q THEN 1 ELSE 0] \in [Reasons -> Nat]
      BY <3>2
    <3> QED BY <3>1, <3>2, <3>3, Zenon DEF Attach
  <2>3. \A r \in held : slot(r) \in Holding(slots, r)
    OBVIOUS
  <2>4. \A s \in Slots : given(s) \in SUBSET Reasons
    OBVIOUS
  <2>5. attached \in [Slots -> Bundle \cup {None}]
    BY <2>2, <2>4 DEF SlotsOK
  <2>6. \A s \in Slots : slots[s] # None =>
            /\ slots[s] \in Bundle
            /\ attached[s].reasons = slots[s].reasons \cup given(s)
    BY <2>2, <2>4 DEF SlotsOK
  <2>7. \A s \in Slots : slots[s] = None => attached[s] = None
    OBVIOUS
  <2>8. \A s, t \in Slots : s # t /\ slots[s] # None /\ slots[t] # None
            => (slots[s].reasons \cup given(s)) \cap (slots[t].reasons \cup given(t)) = {}
    <3> SUFFICES ASSUME NEW s \in Slots, NEW t \in Slots, s # t,
                        slots[s] # None, slots[t] # None,
                        NEW r \in slots[s].reasons \cup given(s),
                        r \in slots[t].reasons \cup given(t)
                 PROVE  FALSE
      OBVIOUS
    <3> HIDE DEF slot
    <3>1. ~(r \in slots[s].reasons /\ r \in slots[t].reasons)
      BY DEF SlotsOK, Exclusive
    <3>2. ~(r \in given(s) /\ r \in given(t))
      OBVIOUS
    <3>3. \A u, v \in Slots : u # v /\ slots[u] # None /\ r \in slots[u].reasons
                                => r \notin given(v)
      BY <2>3 DEF SlotsOK, Exclusive, Holding
    <3> QED BY <3>1, <3>2, <3>3
  <2>9. Reasoned(attached) /\ Exclusive(attached)
    <3> HIDE DEF attached, given
    <3> QED BY <2>6, <2>7, <2>8 DEF Reasoned, Exclusive, SlotsOK
  <2> QED BY <2>1, <2>5, <2>9 DEF SlotsOK
<1> QED BY <1>1, <1>2, <1>3

-----------------------------------------------------------------------------
LEMMA InitInv == Init => IInv
BY BoundAssumption, OptionAssumption
   DEF Init, IInv, TypeOK, SlotsOK, Reasoned, Exclusive, NothingDropped, QueueShort, Slots

LEMMA NextInv == IInv /\ [Next]_vars => IInv'
<1> SUFFICES ASSUME IInv, [Next]_vars PROVE IInv'
  OBVIOUS
<1> now \in Nat /\ TypeOK /\ SlotsOK(active) /\ NothingDropped /\ QueueShort
  BY DEF IInv, TypeOK
<1>1. /\ SlotsOK(ActiveAfter(now))
      /\ Enqueue(now) \in Seq(Bundle) /\ Len(Enqueue(now)) <= Len(completed) + 2
      /\ DroppedBy(now) = 0
  BY ExpireLemma, EnqueueLemma DEF NothingDropped
<1>2. ASSUME NEW g \in Generations, NEW p \in Peaks \cup {NoPeak}, Observe(g, p)
      PROVE  IInv'
  <2>1. g \in Nat
    BY BoundAssumption DEF Generations
  <2>2. SlotsOK(active)'
    <3>1. Triggers(p) \in SUBSET Reasons
      BY DEF Triggers, Reasons
    <3>2. SlotsOK(Collect(ActiveAfter(now), g))
      BY <1>1, <2>1, CollectLemma
    <3>3. history \in Seq(Nat)
      BY DEF TypeOK
    <3>4. SlotsOK(Record(Collect(ActiveAfter(now), g), Triggers(p), g))
      BY <2>1, <3>1, <3>2, <3>3, RecordLemma
    <3>5. active' = Record(Collect(ActiveAfter(now), g), Triggers(p), g)
      BY <1>2 DEF Observe
    <3> QED BY <3>4, <3>5 DEF SlotsOK, Reasoned, Exclusive
  <2>3. QueueShort' /\ NothingDropped' /\ completed' \in Seq(Bundle)
    BY <1>1, <1>2 DEF Observe, QueueShort, NothingDropped
  <2>4. history' \in Seq(Nat) /\ Len(history') <= HistoryFrames
    <3>1. Append(history, g) \in Seq(Nat)
      BY <2>1 DEF TypeOK
    <3>2. LET n == Least(Len(Append(history, g)), HistoryFrames)
          IN n \in Nat /\ n <= Len(Append(history, g)) /\ n <= HistoryFrames
      BY <3>1, BoundAssumption DEF Least
    <3> QED BY <1>2, <3>1, <3>2, SuffixLemma DEF Observe, Remember
  <2>5. armed' \in BOOLEAN
    BY <1>2, Zenon DEF Observe, TypeOK, Rearmed, Strong
  <2>6. previousPeak' \in Peaks \cup {NoPeak}
    BY <1>2 DEF Observe, TypeOK
  <2>7. observed' \in Seq(Observation)
    BY <1>2, <2>1 DEF Observe, TypeOK, Observation
  <2> QED BY <1>2, <2>1, <2>2, <2>3, <2>4, <2>5, <2>6, <2>7
          DEF IInv, TypeOK, Observe, NothingDropped, SlotsOK
<1>3. ASSUME NEW g \in Generations \cup {0}, ObserveOld(g)
      PROVE  IInv'
  BY <1>1, <1>3 DEF ObserveOld, IInv, TypeOK, SlotsOK, Reasoned, Exclusive, QueueShort,
     NothingDropped
<1>4. CASE NothingNew
  BY <1>4 DEF NothingNew, detector, IInv, TypeOK, SlotsOK, Reasoned, Exclusive, QueueShort,
     NothingDropped
<1>5. CASE Advance
  <2>1. delivered' \in Seq(Bundle)
    BY <1>1, <1>5 DEF Advance, TypeOK
  <2>2. SlotsOK(active)'
    BY <1>1, <1>5 DEF Advance, SlotsOK, Reasoned, Exclusive
  <2>3. QueueShort' /\ NothingDropped' /\ completed' \in Seq(Bundle)
    BY <1>1, <1>5 DEF Advance, QueueShort, NothingDropped
  <2> QED BY <1>5, <2>1, <2>2, <2>3 DEF Advance, IInv, TypeOK, SlotsOK, NothingDropped
<1>6. ASSUME NEW o \in OptionSets, UpdateOptions(o)
      PROVE  IInv'
  BY <1>6 DEF UpdateOptions, IInv, TypeOK, SlotsOK, Reasoned, Exclusive, QueueShort,
     NothingDropped
<1>7. CASE Tick
  BY <1>7 DEF Tick, detector, IInv, TypeOK, SlotsOK, Reasoned, Exclusive, QueueShort,
     NothingDropped
<1>8. CASE UNCHANGED vars
  BY <1>8 DEF vars, detector, IInv, TypeOK, SlotsOK, Reasoned, Exclusive, QueueShort,
     NothingDropped
<1> QED BY <1>2, <1>3, <1>4, <1>5, <1>6, <1>7, <1>8 DEF Next, Iteration

-----------------------------------------------------------------------------
(* The detector's state keeps its type and its history ring its size, for every
   configuration and every sequence of snapshots. *)
THEOREM DetectorTypeCorrect == Spec => []TypeOK
<1>1. IInv => TypeOK
  BY DEF IInv
<1> QED BY InitInv, NextInv, <1>1, PTL DEF Spec

(* No reason belongs to two open bundles, whatever the peaks, the options and the
   times: create_bundle is never refused a slot. *)
THEOREM ReasonsExclusive == Spec => []OneBundlePerReason
<1>1. IInv => OneBundlePerReason
  BY DEF IInv, SlotsOK, Exclusive, OneBundlePerReason, Occupied
<1> QED BY InitInv, NextInv, <1>1, PTL DEF Spec

(* No completed bundle is dropped when the queue holds four or more, as the
   shipped eight do. *)
THEOREM QueueSuffices == Spec => []NothingDropped
<1>1. IInv => NothingDropped
  BY DEF IInv
<1> QED BY InitInv, NextInv, <1>1, PTL DEF Spec

-----------------------------------------------------------------------------
(* The frames of a bundle.  They are a window of what observe has accepted, which
   append_post_frame extends and every other step leaves alone; that a new bundle
   starts with the window before it needs the history ring to hold exactly the
   newest generations, and that a frame is not taken for one the bundle already
   has needs the generations to grow. *)

(* Collected, for any record of observations *)
CollectedIn(obs, b, open) ==
    \E i \in DOMAIN obs :
        LET start == IF i > HistoryFrames THEN i - HistoryFrames ELSE 1
            end == i + b.post
        IN /\ obs[i].at = b.first
           /\ b.post <= PostFrames
           /\ end <= Len(obs)
           /\ b.frames = [k \in 1 .. end - start + 1 |-> obs[start + k - 1].generation]
           /\ \A k \in i + 1 .. end : obs[k].at < b.first + PostTimeout
           /\ open => end = Len(obs)

(* A bundle that still collects misses a frame and does not call itself partial. *)
Marked(b) ==
    IF b.closed THEN b.partial = (b.post < PostFrames)
    ELSE b.partial = FALSE /\ b.post < PostFrames

Tracked(obs, b) == Marked(b) /\ CollectedIn(obs, b, ~b.closed)

Stored(obs, b) == Marked(b) /\ CollectedIn(obs, b, FALSE)

RingExact ==
    /\ Len(history) = Least(Len(observed), HistoryFrames)
    /\ \A k \in 1 .. Len(history) :
          history[k] = observed[Len(observed) - Len(history) + k].generation

Growing == \A i \in DOMAIN observed : observed[i].generation <= lastGeneration

AllTracked(slots, obs) == \A s \in Slots : slots[s] # None => Tracked(obs, slots[s])

FramesInv ==
    /\ AllTracked(active, observed)
    /\ \A i \in DOMAIN completed : Stored(observed, completed[i])
    /\ \A i \in DOMAIN delivered : Stored(observed, delivered[i])
    /\ RingExact
    /\ Growing

LEMMA CollectedWeaker ==
    ASSUME NEW obs, NEW b, NEW x, CollectedIn(obs, b, x)
    PROVE  CollectedIn(obs, b, FALSE)
BY DEF CollectedIn

(* What is collected depends on three fields of a bundle. *)
LEMMA CollectedSame ==
    ASSUME NEW obs, NEW b, NEW c, NEW x, CollectedIn(obs, b, x),
           c.first = b.first, c.post = b.post, c.frames = b.frames
    PROVE  CollectedIn(obs, c, x)
BY DEF CollectedIn

LEMMA TrackedStored ==
    ASSUME NEW obs, NEW b, Tracked(obs, b)
    PROVE  Stored(obs, b)
BY CollectedWeaker DEF Tracked, Stored

(* A later observation does not change what was collected. *)
LEMMA CollectedGrows ==
    ASSUME NEW obs \in Seq(Observation), NEW o \in Observation,
           NEW b \in Bundle, CollectedIn(obs, b, FALSE)
    PROVE  CollectedIn(Append(obs, o), b, FALSE)
<1> DEFINE next == Append(obs, o)
<1>1. /\ Len(obs) \in Nat /\ Len(next) = Len(obs) + 1
      /\ DOMAIN obs = 1 .. Len(obs) /\ DOMAIN next = 1 .. Len(next)
      /\ \A k \in 1 .. Len(obs) : next[k] = obs[k]
  OBVIOUS
<1>2. b.post \in Nat /\ HistoryFrames \in Nat
  BY BoundAssumption DEF Bundle
<1>3. PICK i \in DOMAIN obs :
        LET start == IF i > HistoryFrames THEN i - HistoryFrames ELSE 1
            end == i + b.post
        IN /\ obs[i].at = b.first
           /\ b.post <= PostFrames
           /\ end <= Len(obs)
           /\ b.frames = [k \in 1 .. end - start + 1 |-> obs[start + k - 1].generation]
           /\ \A k \in i + 1 .. end : obs[k].at < b.first + PostTimeout
  BY DEF CollectedIn
<1> DEFINE start == IF i > HistoryFrames THEN i - HistoryFrames ELSE 1
           end == i + b.post
<1>4. i \in 1 .. Len(obs) /\ start \in Nat /\ start >= 1 /\ start <= i /\ end \in Nat
      /\ end <= Len(obs)
  BY <1>1, <1>2, <1>3
<1>5. \A k \in 1 .. (end - start) + 1 : start + k - 1 \in 1 .. Len(obs)
  <2> HIDE DEF start, end
  <2> QED BY <1>1, <1>4
<1>6. b.frames = [k \in 1 .. end - start + 1 |-> next[start + k - 1].generation]
  <2>1. b.frames = [k \in 1 .. end - start + 1 |-> obs[start + k - 1].generation]
    BY <1>3
  <2>2. end - start + 1 = (end - start) + 1
    <3> HIDE DEF start, end
    <3> QED BY <1>4
  <2>3. \A k \in 1 .. end - start + 1 : next[start + k - 1].generation = obs[start + k - 1].generation
    <3> HIDE DEF start, end, next
    <3> QED BY <1>1, <1>5, <2>2
  <2> HIDE DEF start, end, next
  <2> QED BY <2>1, <2>3
<1>7. \A k \in i + 1 .. end : next[k].at < b.first + PostTimeout
  <2>1. \A k \in i + 1 .. end : k \in 1 .. Len(obs) /\ obs[k].at < b.first + PostTimeout
    BY <1>3, <1>4
  <2> HIDE DEF end, next
  <2> QED BY <2>1, <1>1
<1>8. i \in DOMAIN next /\ next[i].at = b.first /\ b.post <= PostFrames /\ end <= Len(next)
  BY <1>1, <1>3, <1>4
<1> HIDE DEF next
<1>9. CollectedIn(next, b, FALSE)
  BY <1>6, <1>7, <1>8 DEF CollectedIn
<1> QED BY <1>9 DEF next

(* expire marks what it closes, and closes everything that is too old. *)
LEMMA CloseTracked ==
    ASSUME NEW obs, NEW b \in Bundle, NEW t \in Nat, Tracked(obs, b)
    PROVE  /\ Close(b, t) \in Bundle
           /\ Tracked(obs, Close(b, t))
           /\ Close(b, t).first = b.first
           /\ Close(b, t).closed = FALSE => t < b.first + PostTimeout
<1>1. b.first \in Nat /\ b.post \in Nat /\ b.closed \in BOOLEAN /\ PostTimeout \in Nat
  BY BoundAssumption DEF Bundle
<1>2. CASE ~b.closed /\ t >= b.first + PostTimeout
  <2> DEFINE late == b.post < PostFrames
             c == [b EXCEPT !.closed = TRUE, !.partial = late]
  <2>1. late \in BOOLEAN
    BY <1>1, BoundAssumption
  <2>2. \A x \in BOOLEAN : LET d == [b EXCEPT !.closed = TRUE, !.partial = x]
                          IN /\ d \in Bundle /\ d.closed = TRUE /\ d.partial = x
                             /\ d.first = b.first /\ d.post = b.post /\ d.frames = b.frames
    BY DEF Bundle
  <2>3. Close(b, t) = c
    BY <1>2 DEF Close
  <2>4. /\ c \in Bundle /\ c.closed = TRUE /\ c.partial = late
        /\ c.first = b.first /\ c.post = b.post /\ c.frames = b.frames
    BY <2>1, <2>2
  <2>5. CollectedIn(obs, b, FALSE)
    BY CollectedWeaker DEF Tracked
  <2>6. Marked(c)
    <3>1. (c.post < PostFrames) = late
      BY <2>4
    <3> HIDE DEF c
    <3> QED BY <2>4, <3>1, Zenon DEF Marked
  <2> HIDE DEF c
  <2>7. CollectedIn(obs, c, FALSE)
    BY <2>4, <2>5, CollectedSame
  <2>8. Tracked(obs, c)
    <3>1. CollectedIn(obs, c, ~c.closed)
      BY <2>4, <2>7, Zenon DEF CollectedIn
    <3> QED BY <2>6, <3>1 DEF Tracked
  <2> QED BY <2>3, <2>4, <2>8
<1>3. CASE ~(~b.closed /\ t >= b.first + PostTimeout)
  <2>1. Close(b, t) = b
    BY <1>3 DEF Close
  <2>2. b.closed = FALSE => t < b.first + PostTimeout
    BY <1>1, <1>3
  <2> QED BY <2>1, <2>2
<1> QED BY <1>2, <1>3

(* append_post_frame extends the window by the frame observe has just accepted. *)
LEMMA AppendTracked ==
    ASSUME NEW obs \in Seq(Observation), NEW o \in Observation, NEW b \in Bundle,
           Tracked(obs, b),
           b.closed = FALSE => o.at < b.first + PostTimeout,
           \A j \in DOMAIN obs : obs[j].generation < o.generation
    PROVE  Tracked(Append(obs, o), AppendPostFrame(b, o.generation))
<1> DEFINE next == Append(obs, o)
           g == o.generation
<1>1. /\ Len(obs) \in Nat /\ Len(next) = Len(obs) + 1
      /\ DOMAIN obs = 1 .. Len(obs) /\ DOMAIN next = 1 .. Len(next)
      /\ \A k \in 1 .. Len(obs) : next[k] = obs[k]
      /\ next[Len(next)] = o
  OBVIOUS
<1>2. /\ b.post \in Nat /\ b.first \in Nat /\ b.closed \in BOOLEAN /\ b.frames \in Seq(Nat)
      /\ HistoryFrames \in Nat /\ PostFrames \in Nat /\ PostTimeout \in Nat
      /\ g \in Nat /\ \A j \in DOMAIN obs : obs[j].generation \in Nat
  <2>1. \A j \in DOMAIN obs : obs[j] \in Observation
    OBVIOUS
  <2> QED BY <2>1, BoundAssumption DEF Bundle, Observation
<1>3. CASE b.closed = TRUE
  <2>1. AppendPostFrame(b, g) = b
    BY <1>3 DEF AppendPostFrame
  <2>2. CollectedIn(obs, b, FALSE) /\ Marked(b)
    BY CollectedWeaker DEF Tracked
  <2>3. CollectedIn(next, b, FALSE)
    BY <2>2, CollectedGrows
  <2> HIDE DEF next
  <2>4. CollectedIn(next, b, ~b.closed)
    BY <1>3, <2>3 DEF CollectedIn
  <2>5. Tracked(next, b)
    BY <2>2, <2>4 DEF Tracked
  <2> QED BY <2>1, <2>5 DEF next
<1>4. CASE b.closed = FALSE
  <2>1. Marked(b) /\ b.partial = FALSE /\ b.post < PostFrames /\ CollectedIn(obs, b, TRUE)
    <3>1. Marked(b) /\ CollectedIn(obs, b, ~b.closed)
      BY DEF Tracked
    <3> QED BY <3>1, <1>4 DEF Marked, CollectedIn
  <2>2. PICK i \in DOMAIN obs :
          LET start == IF i > HistoryFrames THEN i - HistoryFrames ELSE 1
              end == i + b.post
          IN /\ obs[i].at = b.first
             /\ b.post <= PostFrames
             /\ end <= Len(obs)
             /\ b.frames = [k \in 1 .. end - start + 1 |-> obs[start + k - 1].generation]
             /\ \A k \in i + 1 .. end : obs[k].at < b.first + PostTimeout
             /\ end = Len(obs)
    BY <2>1 DEF CollectedIn
  <2> DEFINE start == IF i > HistoryFrames THEN i - HistoryFrames ELSE 1
             end == i + b.post
             n == (end - start) + 1
  <2>3. /\ i \in 1 .. Len(obs) /\ i \in Nat /\ start \in Nat /\ start >= 1 /\ start <= i
        /\ end \in Nat /\ i <= end /\ end = Len(obs)
        /\ end - start + 1 = n /\ n \in Nat /\ n >= 1
    <3>1. i \in 1 .. Len(obs) /\ i \in Nat /\ i >= 1
      BY <1>1
    <3>2. start \in Nat /\ start >= 1 /\ start <= i
      BY <1>2, <3>1
    <3>3. end \in Nat /\ i <= end /\ end = Len(obs)
      BY <1>2, <2>2, <3>1
    <3> HIDE DEF start, end
    <3>4. end - start + 1 = n /\ n \in Nat /\ n >= 1
      BY <3>1, <3>2, <3>3
    <3> QED BY <3>1, <3>2, <3>3, <3>4
  <2>4. b.frames = [k \in 1 .. n |-> obs[start + k - 1].generation]
    BY <2>2, <2>3
  <2>5. Len(b.frames) = n /\ DOMAIN b.frames = 1 .. n
    <3> HIDE DEF start, end, n
    <3> QED BY <1>2, <2>3, <2>4
  <2>6. \A k \in 1 .. n : start + k - 1 \in DOMAIN obs
    <3> HIDE DEF start
    <3> QED BY <1>1, <2>3
  <2>7. \A k \in DOMAIN b.frames : b.frames[k] # g
    <3> SUFFICES ASSUME NEW k \in 1 .. n PROVE b.frames[k] # g
      BY <2>5
    <3>1. b.frames[k] = obs[start + k - 1].generation
      BY <2>4
    <3> HIDE DEF start, end, n
    <3> QED BY <3>1, <2>6, <1>2
  <2> DEFINE full == b.post + 1 >= PostFrames
             c == [b EXCEPT !.frames = Append(b.frames, g), !.post = b.post + 1,
                            !.closed = full]
  <2>8. AppendPostFrame(b, g) = c
    BY <1>4, <2>7 DEF AppendPostFrame
  <2>9. full \in BOOLEAN
    BY <1>2
  <2>10. /\ c.first = b.first /\ c.post = b.post + 1 /\ c.frames = Append(b.frames, g)
         /\ c.closed = full /\ c.partial = b.partial
    <3>1. \A f \in Seq(Nat), m \in Nat, x \in BOOLEAN :
                       LET d == [b EXCEPT !.frames = f, !.post = m, !.closed = x]
                       IN /\ d.first = b.first /\ d.post = m /\ d.frames = f
                          /\ d.closed = x /\ d.partial = b.partial
      BY DEF Bundle
    <3> DEFINE fs == Append(b.frames, g)
               m == b.post + 1
    <3>2. fs \in Seq(Nat) /\ m \in Nat
      BY <1>2
    <3>3. c = [b EXCEPT !.frames = fs, !.post = m, !.closed = full]
      OBVIOUS
    <3> HIDE DEF full, fs, m, c
    <3>4. /\ c.first = b.first /\ c.post = m /\ c.frames = fs
          /\ c.closed = full /\ c.partial = b.partial
      BY <3>1, <3>2, <3>3, <2>9
    <3> QED BY <3>4 DEF fs, m
  <2>11. Marked(c)
    <3> HIDE DEF c
    <3>1. CASE full
      <4>1. c.closed = TRUE /\ c.partial = FALSE
        <5> HIDE DEF full
        <5> QED BY <2>1, <2>9, <2>10, <3>1, Zenon
      <4>2. (c.post < PostFrames) = FALSE
        BY <3>1, <2>10, <1>2
      <4> QED BY <4>1, <4>2, Zenon DEF Marked
    <3>2. CASE ~full
      <4>1. c.closed = FALSE /\ c.partial = FALSE
        <5> HIDE DEF full
        <5> QED BY <2>1, <2>9, <2>10, <3>2, Zenon
      <4>2. c.post < PostFrames
        BY <3>2, <2>10, <1>2
      <4> QED BY <4>1, <4>2 DEF Marked
    <3> QED BY <3>1, <3>2
  <2>12. CollectedIn(next, c, TRUE)
    <3>1. i \in DOMAIN next /\ next[i].at = c.first
      BY <1>1, <2>2, <2>10
    <3>2. c.post <= PostFrames
      BY <1>2, <2>1, <2>10
    <3>3. i + c.post = Len(next) /\ i + c.post = end + 1
      <4>1. c.post = b.post + 1
        BY <2>10
      <4> HIDE DEF c, next
      <4>2. i + c.post = end + 1 /\ Len(next) = Len(obs) + 1
        BY <4>1, <1>1, <1>2, <2>3
      <4> HIDE DEF end
      <4> QED BY <4>2, <2>3
    <3>4. c.frames = [k \in 1 .. (i + c.post) - start + 1 |-> next[start + k - 1].generation]
      <4>1. (i + c.post) - start + 1 = n + 1
        <5> HIDE DEF c, next, start
        <5> QED BY <3>3, <2>3, <1>1
      <4>2. \A k \in 1 .. n : next[start + k - 1].generation = obs[start + k - 1].generation
        <5> HIDE DEF next, start, n
        <5> QED BY <2>6, <1>1
      <4>3. start + (n + 1) - 1 = Len(next)
        <5> HIDE DEF next, start
        <5> QED BY <2>3, <1>1
      <4>4. next[start + (n + 1) - 1].generation = g
        BY <4>3, <1>1
      <4> HIDE DEF next, start, n, c
      <4>5. /\ DOMAIN Append(b.frames, g) = 1 .. n + 1
            /\ \A k \in 1 .. n : Append(b.frames, g)[k] = b.frames[k]
            /\ Append(b.frames, g)[n + 1] = g
        BY SMTT(30), <2>5, <1>2
      <4>6. \A k \in 1 .. n + 1 : Append(b.frames, g)[k] = next[start + k - 1].generation
        <5> SUFFICES ASSUME NEW k \in 1 .. n + 1
                     PROVE  Append(b.frames, g)[k] = next[start + k - 1].generation
          OBVIOUS
        <5>1. CASE k \in 1 .. n
          BY <5>1, <2>4, <4>2, <4>5
        <5>2. CASE k = n + 1
          BY <5>2, <4>4, <4>5
        <5>3. n \in Nat
          BY <2>3
        <5>4. k \in 1 .. n \/ k = n + 1
          BY <5>3
        <5> QED BY <5>1, <5>2, <5>4
      <4>7. Append(b.frames, g) = [k \in 1 .. n + 1 |-> next[start + k - 1].generation]
        <5> DEFINE f == Append(b.frames, g)
        <5>1. f \in Seq(Nat)
          BY <1>2
        <5> HIDE DEF f
        <5>2. f = [k \in DOMAIN f |-> f[k]]
          BY <5>1
        <5>3. DOMAIN f = 1 .. n + 1
          BY <4>5 DEF f
        <5>4. \A k \in 1 .. n + 1 : f[k] = next[start + k - 1].generation
          BY <4>6 DEF f
        <5>5. f = [k \in 1 .. n + 1 |-> next[start + k - 1].generation]
          BY <5>2, <5>3, <5>4
        <5> QED BY <5>5 DEF f
      <4> QED BY <4>1, <4>7, <2>10
    <3>5. \A k \in i + 1 .. i + c.post : next[k].at < c.first + PostTimeout
      <4> SUFFICES ASSUME NEW k \in i + 1 .. i + c.post
                   PROVE  next[k].at < c.first + PostTimeout
        OBVIOUS
      <4> HIDE DEF c, next
      <4>1. CASE k = Len(next)
        BY <4>1, <1>1, <1>4, <2>10
      <4>2. CASE k # Len(next)
        <5>1. k \in i + 1 .. end /\ k \in 1 .. Len(obs)
          BY <4>2, <3>3, <2>3, <1>1
        <5> QED BY <5>1, <1>1, <2>2, <2>10
      <4> QED BY <4>1, <4>2
    <3> HIDE DEF c, next
    <3>6. i + c.post <= Len(next)
      BY <3>3, <1>1
    <3> QED BY <3>1, <3>2, <3>3, <3>4, <3>5, <3>6 DEF CollectedIn
  <2> HIDE DEF c, next
  <2>13. CollectedIn(next, c, ~c.closed)
    BY <2>12 DEF CollectedIn
  <2>14. Tracked(next, c)
    BY <2>11, <2>13 DEF Tracked
  <2> QED BY <2>8, <2>14 DEF next
<1> QED BY <1>2, <1>3, <1>4

LEMMA AttachTracked ==
    ASSUME NEW obs, NEW b \in Bundle, NEW rs \in SUBSET Reasons, Tracked(obs, b)
    PROVE  Tracked(obs, Attach(b, rs))
<1> DEFINE u == b.reasons \cup rs
           n == [r \in Reasons |-> b.count[r] + IF r \in rs THEN 1 ELSE 0]
           c == [b EXCEPT !.reasons = u, !.count = n]
<1>1. Attach(b, rs) = c
  BY DEF Attach, Bundle
<1> HIDE DEF u, n
<1>2. /\ c.first = b.first /\ c.post = b.post /\ c.frames = b.frames
      /\ c.closed = b.closed /\ c.partial = b.partial
  BY DEF Bundle
<1> HIDE DEF c
<1>3. CollectedIn(obs, c, ~b.closed)
  BY <1>2, CollectedSame DEF Tracked
<1>4. Marked(c)
  BY <1>2, Zenon DEF Tracked, Marked
<1>5. Tracked(obs, c)
  BY <1>2, <1>3, <1>4, Zenon DEF Tracked
<1> QED BY <1>1, <1>5

(* create_bundle starts with the frames the history ring holds and the triggering
   one. *)
LEMMA NewTracked ==
    ASSUME observed \in Seq(Observation), history \in Seq(Nat), RingExact,
           NEW o \in Observation, o.at = now, NEW rs
    PROVE  Tracked(Append(observed, o), NewBundle(rs, o.generation))
<1> DEFINE next == Append(observed, o)
           g == o.generation
           b == NewBundle(rs, g)
           i == Len(next)
           start == IF i > HistoryFrames THEN i - HistoryFrames ELSE 1
           h == Len(history)
<1>1. /\ Len(observed) \in Nat /\ i = Len(observed) + 1 /\ i \in Nat
      /\ DOMAIN observed = 1 .. Len(observed) /\ DOMAIN next = 1 .. i
      /\ \A k \in 1 .. Len(observed) : next[k] = observed[k]
      /\ next[i] = o
  OBVIOUS
<1>2. /\ b.first = now /\ b.post = 0 /\ b.frames = Append(history, g)
      /\ b.closed = FALSE /\ b.partial = FALSE
  BY DEF NewBundle
<1>3. h \in Nat /\ HistoryFrames \in Nat /\ PostFrames \in Nat /\ PostFrames > 0 /\ g \in Nat
  BY BoundAssumption DEF Observation
<1>4. h = Least(Len(observed), HistoryFrames)
  BY DEF RingExact
<1>5. start = i - h /\ start \in Nat /\ start >= 1 /\ i - start = h /\ h <= Len(observed)
  <2> DEFINE n == Len(observed)
  <2>1. n \in Nat /\ i = n + 1 /\ h \in Nat /\ HistoryFrames \in Nat
        /\ h = IF n < HistoryFrames THEN n ELSE HistoryFrames
    BY <1>1, <1>3, <1>4 DEF Least
  <2> HIDE DEF h, i, n
  <2>2. h <= n /\ start = i - h /\ start \in Nat /\ start >= 1 /\ i - start = h
    BY <2>1
  <2> QED BY <2>2 DEF n
<1>6. Append(history, g) = [k \in 1 .. h + 1 |-> next[start + k - 1].generation]
  <2> DEFINE f == Append(history, g)
  <2>1. f \in Seq(Nat) /\ DOMAIN f = 1 .. h + 1 /\ f[h + 1] = g
        /\ \A k \in 1 .. h : f[k] = history[k]
    BY <1>3
  <2>2. \A k \in 1 .. h : start + k - 1 = Len(observed) - h + k
                         /\ start + k - 1 \in 1 .. Len(observed)
    <3> HIDE DEF h, next, start
    <3> QED BY <1>1, <1>3, <1>5
  <2>3. \A k \in 1 .. h : f[k] = next[start + k - 1].generation
    <3>1. \A k \in 1 .. h : history[k] = observed[Len(observed) - h + k].generation
      BY DEF RingExact
    <3> HIDE DEF h, next, start, f
    <3> QED BY <1>1, <2>1, <2>2, <3>1
  <2>4. start + (h + 1) - 1 = i
    <3> HIDE DEF h, start
    <3> QED BY <1>1, <1>3, <1>5
  <2>5. f[h + 1] = next[start + (h + 1) - 1].generation
    BY <1>1, <2>1, <2>4
  <2> HIDE DEF f, h, start, next
  <2>6. \A k \in 1 .. h + 1 : k \in 1 .. h \/ k = h + 1
    BY <1>3
  <2>7. \A k \in 1 .. h + 1 : f[k] = next[start + k - 1].generation
    BY <2>3, <2>5, <2>6
  <2>8. f = [k \in DOMAIN f |-> f[k]]
    BY <2>1
  <2>9. f = [k \in 1 .. h + 1 |-> next[start + k - 1].generation]
    BY <2>1, <2>7, <2>8
  <2> QED BY <2>9 DEF f
<1>7. CollectedIn(next, b, TRUE)
  <2>1. i \in DOMAIN next /\ next[i].at = b.first /\ b.post <= PostFrames
    BY <1>1, <1>2, <1>3
  <2>2. i + b.post = i
    BY <1>1, <1>2
  <2>3. (i + b.post) - start + 1 = h + 1
    BY <2>2, <1>5
  <2>4. b.frames = [k \in 1 .. (i + b.post) - start + 1 |-> next[start + k - 1].generation]
    BY <1>2, <1>6, <2>3
  <2> HIDE DEF b, next, h
  <2>5. \A k \in i + 1 .. i + b.post : next[k].at < b.first + PostTimeout
    BY <2>2, <1>1
  <2>6. i + b.post <= Len(next) /\ i + b.post = Len(next)
    BY <2>2, <1>1
  <2> QED BY <2>1, <2>4, <2>5, <2>6 DEF CollectedIn
<1>8. Marked(b)
  <2> HIDE DEF b
  <2> QED BY <1>2, <1>3 DEF Marked
<1> HIDE DEF b, next
<1>9. CollectedIn(next, b, ~b.closed)
  BY <1>2, <1>7
<1>10. Tracked(next, b)
  BY <1>8, <1>9 DEF Tracked
<1> QED BY <1>10 DEF b, next

(* What happens to the bundles when triggers are recorded *)
LEMMA RecordTracked ==
    ASSUME NEW obs, NEW slots, SlotsOK(slots), AllTracked(slots, obs),
           NEW rs \in SUBSET Reasons, NEW g, Tracked(obs, NewBundle(rs, g))
    PROVE  AllTracked(Record(slots, rs, g), obs)
<1> DEFINE held == {r \in rs : Holding(slots, r) # {}}
           slot(r) == CHOOSE s \in Holding(slots, r) : TRUE
           target(r) == IF r \in held THEN slot(r) ELSE slot(CHOOSE q \in held : TRUE)
           given(s) == {r \in rs : target(r) = s}
           attached == [s \in Slots |-> IF slots[s] = None \/ given(s) = {} THEN slots[s]
                                        ELSE Attach(slots[s], given(s))]
<1>1. CASE rs = {}
  BY <1>1 DEF Record
<1>2. CASE rs # {} /\ held = {}
  <2>1. Record(slots, rs, g) = Create(slots, rs, g)
    BY <1>2 DEF Record
  <2>2. FirstFree(slots) \in Slots
    BY DEF FirstFree, Slots
  <2> DEFINE b == NewBundle(rs, g)
  <2> HIDE DEF b
  <2>3. AllTracked([slots EXCEPT ![FirstFree(slots)] = b], obs)
    BY <2>2 DEF AllTracked, SlotsOK, b
  <2> QED BY <2>1, <2>3 DEF Create, b
<1>3. CASE rs # {} /\ held # {}
  <2>1. Record(slots, rs, g) = attached
    BY <1>3 DEF Record
  <2>2. ASSUME NEW s \in Slots, attached[s] # None
        PROVE  Tracked(obs, attached[s])
    <3>1. given(s) \in SUBSET Reasons
      OBVIOUS
    <3>2. attached[s] = IF slots[s] = None \/ given(s) = {} THEN slots[s]
                        ELSE Attach(slots[s], given(s))
      OBVIOUS
    <3> HIDE DEF given, attached
    <3>3. CASE slots[s] = None \/ given(s) = {}
      BY <2>2, <3>2, <3>3 DEF AllTracked
    <3>4. CASE slots[s] # None /\ given(s) # {}
      <4>1. slots[s] \in Bundle /\ Tracked(obs, slots[s])
        BY <3>4 DEF SlotsOK, AllTracked
      <4> QED BY <3>1, <3>2, <3>4, <4>1, AttachTracked
    <3> QED BY <3>3, <3>4
  <2> QED BY <2>1, <2>2 DEF AllTracked
<1> QED BY <1>1, <1>2, <1>3

LEMMA ConcatStored ==
    ASSUME NEW obs, NEW a \in Seq(Bundle), NEW b \in Seq(Bundle),
           \A i \in DOMAIN a : Stored(obs, a[i]),
           \A i \in DOMAIN b : Stored(obs, b[i])
    PROVE  /\ a \o b \in Seq(Bundle)
           /\ \A i \in DOMAIN (a \o b) : Stored(obs, (a \o b)[i])
<1>1. /\ a \o b \in Seq(Bundle) /\ Len(a \o b) = Len(a) + Len(b)
      /\ Len(a) \in Nat /\ Len(b) \in Nat /\ DOMAIN (a \o b) = 1 .. Len(a) + Len(b)
      /\ DOMAIN a = 1 .. Len(a) /\ DOMAIN b = 1 .. Len(b)
  OBVIOUS
<1>2. ASSUME NEW i \in 1 .. Len(a) + Len(b) PROVE Stored(obs, (a \o b)[i])
  <2>1. CASE i \in 1 .. Len(a)
    <3>1. (a \o b)[i] = a[i]
      BY <2>1
    <3> QED BY <2>1, <3>1, <1>1
  <2>2. CASE i \notin 1 .. Len(a)
    <3>1. i - Len(a) \in 1 .. Len(b) /\ (a \o b)[i] = b[i - Len(a)]
      BY <2>2, <1>1
    <3> QED BY <3>1, <1>1
  <2> QED BY <2>1, <2>2
<1> QED BY <1>1, <1>2

(* What expire does to the open bundles and hands over *)
LEMMA ExpireTracked ==
    ASSUME IInv, AllTracked(active, observed),
           \A i \in DOMAIN completed : Stored(observed, completed[i])
    PROVE  /\ AllTracked(ActiveAfter(now), observed)
           /\ \A s \in Slots : ActiveAfter(now)[s] # None /\ ActiveAfter(now)[s].closed = FALSE
                                 => now < ActiveAfter(now)[s].first + PostTimeout
           /\ \A i \in DOMAIN Enqueue(now) : Stored(observed, Enqueue(now)[i])
<1>1. now \in Nat /\ completed \in Seq(Bundle) /\ \A s \in Slots : active[s] # None => active[s] \in Bundle
  BY DEF IInv, TypeOK
<1>2. \A s \in Slots : active[s] # None =>
          /\ Tracked(observed, Close(active[s], now))
          /\ Close(active[s], now).closed = FALSE
               => now < Close(active[s], now).first + PostTimeout
  BY <1>1, CloseTracked DEF AllTracked
<1>3. \A s \in Slots : ActiveAfter(now)[s] # None =>
          active[s] # None /\ ActiveAfter(now)[s] = Close(active[s], now)
  BY DEF ActiveAfter
<1>4. \A s \in Slots : /\ CompletedAt(s, now) \in Seq(Bundle)
                       /\ \A i \in DOMAIN CompletedAt(s, now) : Stored(observed, CompletedAt(s, now)[i])
  <2>1. \A s \in Slots : CompletedAt(s, now) \in Seq(Bundle)
    BY <1>1, ExpireLemma DEF IInv
  <2>2. ASSUME NEW s \in Slots, NEW i \in DOMAIN CompletedAt(s, now)
        PROVE  Stored(observed, CompletedAt(s, now)[i])
    <3>1. CASE Over(s, now)
      <4>1. active[s] # None
        BY <3>1 DEF Over
      <4>2. Stored(observed, Close(active[s], now))
        BY <4>1, <1>2, TrackedStored
      <4>3. CompletedAt(s, now) = <<Close(active[s], now)>>
        BY <3>1 DEF CompletedAt
      <4> DEFINE c == Close(active[s], now)
      <4> HIDE DEF c
      <4>4. CompletedAt(s, now) = <<c>> /\ Stored(observed, c)
        BY <4>2, <4>3 DEF c
      <4>5. \A j \in DOMAIN <<c>> : <<c>>[j] = c
        OBVIOUS
      <4> QED BY <4>4, <4>5
    <3>2. CASE ~Over(s, now)
      <4>1. CompletedAt(s, now) = <<>>
        BY <3>2 DEF CompletedAt
      <4> QED BY <4>1
    <3> QED BY <3>1, <3>2
  <2> QED BY <2>1, <2>2
<1>5. \A i \in DOMAIN Enqueue(now) : Stored(observed, Enqueue(now)[i])
  <2>1. Enqueue(now) = Queue(now)
    BY <1>1, EnqueueLemma
  <2> DEFINE a == CompletedAt(1, now)
             b == CompletedAt(2, now)
  <2>2. /\ a \in Seq(Bundle) /\ b \in Seq(Bundle)
        /\ \A i \in DOMAIN a : Stored(observed, a[i])
        /\ \A i \in DOMAIN b : Stored(observed, b[i])
    BY <1>4 DEF Slots
  <2>3. Queue(now) = completed \o a \o b
    BY DEF Queue
  <2> HIDE DEF a, b
  <2>4. /\ completed \o a \in Seq(Bundle)
        /\ \A i \in DOMAIN (completed \o a) : Stored(observed, (completed \o a)[i])
    BY <1>1, <2>2, ConcatStored
  <2>5. \A i \in DOMAIN (completed \o a \o b) : Stored(observed, (completed \o a \o b)[i])
    BY <2>2, <2>4, ConcatStored
  <2> QED BY <2>1, <2>3, <2>5
<1> QED BY <1>2, <1>3, <1>5 DEF AllTracked

LEMMA SuffixElement ==
    ASSUME NEW S, NEW q \in Seq(S), NEW n \in Nat, n <= Len(q), NEW k \in 1 .. n
    PROVE  Suffix(q, n)[k] = q[(Len(q) - n) + k]
<1> DEFINE a == (Len(q) - n) + 1
<1>1. Len(q) \in Nat /\ a \in Nat /\ a >= 1 /\ a <= Len(q)
  OBVIOUS
<1>2. Suffix(q, n) = SubSeq(q, a, Len(q))
  BY DEF Suffix
<1> HIDE DEF a
<1>3. k \in 1 .. (Len(q) - a) + 1
  BY <1>1 DEF a
<1>4. SubSeq(q, a, Len(q))[k] = q[(a + k) - 1]
  BY <1>1, <1>3
<1>5. (a + k) - 1 = (Len(q) - n) + k
  BY <1>1 DEF a
<1> QED BY <1>2, <1>4, <1>5

(* The history ring goes on holding the newest generations. *)
LEMMA RingStep ==
    ASSUME observed \in Seq(Observation), history \in Seq(Nat), RingExact,
           NEW o \in Observation, observed' = Append(observed, o),
           history' = Remember(o.generation)
    PROVE  RingExact'
<1> DEFINE g == o.generation
           all == Append(history, g)
           h == Len(history)
           n == Len(observed)
           m == Least(Len(all), HistoryFrames)
<1>1. g \in Nat /\ HistoryFrames \in Nat
  BY BoundAssumption DEF Observation
<1>2. /\ all \in Seq(Nat) /\ Len(all) = h + 1 /\ h \in Nat /\ n \in Nat /\ all[h + 1] = g
      /\ \A k \in 1 .. h : all[k] = history[k]
      /\ Len(observed') = n + 1 /\ observed'[n + 1] = o
      /\ \A k \in 1 .. n : observed'[k] = observed[k]
  BY <1>1
<1>3. /\ h = (IF n < HistoryFrames THEN n ELSE HistoryFrames)
      /\ \A k \in 1 .. h : history[k] = observed[n - h + k].generation
  BY DEF RingExact, Least
<1>4. m = (IF h + 1 < HistoryFrames THEN h + 1 ELSE HistoryFrames)
  BY <1>2 DEF Least
<1>5. m \in Nat /\ m <= h + 1 /\ m = Least(n + 1, HistoryFrames)
  <2> HIDE DEF h, n, m
  <2> QED BY <1>1, <1>2, <1>3, <1>4 DEF Least
<1>6. history' = Suffix(all, m)
  BY DEF Remember
<1>7. Len(history') = m /\ \A k \in 1 .. m : history'[k] = all[((h + 1) - m) + k]
  <2> HIDE DEF all, m, h
  <2>1. all \in Seq(Nat) /\ Len(all) = h + 1 /\ m \in Nat /\ m <= Len(all)
    BY <1>2, <1>5
  <2>2. Len(Suffix(all, m)) = m
    BY <2>1, SuffixLemma
  <2>3. \A k \in 1 .. m : Suffix(all, m)[k] = all[(Len(all) - m) + k]
    BY <2>1, SuffixElement
  <2> QED BY <1>6, <2>1, <2>2, <2>3
<1>8. h \in Nat /\ n \in Nat /\ m \in Nat /\ m <= h + 1 /\ h <= n
  BY <1>1, <1>2, <1>3, <1>5
<1>9. ASSUME NEW k \in 1 .. m
      PROVE  history'[k] = observed'[((n + 1) - m) + k].generation
  <2> HIDE DEF all, h, n, m, g
  <2>1. CASE k = m
    <3>1. ((h + 1) - m) + k = h + 1 /\ ((n + 1) - m) + k = n + 1
      BY <2>1, <1>8
    <3> QED BY <3>1, <1>2, <1>7 DEF g
  <2>2. CASE k # m
    <3> DEFINE j == ((h + 1) - m) + k
    <3>1. j \in 1 .. h
      BY <2>2, <1>8
    <3>2. n - h + j = ((n + 1) - m) + k /\ n - h + j \in 1 .. n
      BY <2>2, <1>8
    <3> HIDE DEF j
    <3>3. history'[k] = all[j]
      BY <1>7 DEF j
    <3>4. all[j] = observed[n - h + j].generation
      BY <3>1, <1>2, <1>3
    <3> QED BY <3>2, <3>3, <3>4, <1>2
  <2> QED BY <2>1, <2>2
<1>10. \A k \in 1 .. m : (n + 1) - m + k = ((n + 1) - m) + k
  BY <1>8
<1> QED
  <2> HIDE DEF all, h, n, m, g
  <2> QED BY <1>2, <1>5, <1>7, <1>9, <1>10 DEF RingExact

LEMMA InitFrames == Init => FramesInv
<1> SUFFICES ASSUME Init PROVE FramesInv
  OBVIOUS
<1>1. /\ \A s \in Slots : active[s] = None
      /\ completed = <<>> /\ delivered = <<>> /\ observed = <<>> /\ history = <<>>
  BY DEF Init
<1>2. RingExact
  BY <1>1, BoundAssumption DEF RingExact, Least
<1> QED BY <1>1, <1>2 DEF FramesInv, AllTracked, Growing

LEMMA ObserveFrames ==
    ASSUME IInv, FramesInv, NEW g \in Generations, NEW p \in Peaks \cup {NoPeak}, Observe(g, p)
    PROVE  FramesInv'
<1> DEFINE o == [generation |-> g, at |-> now, peak |-> p, options |-> options]
<1>1. /\ g > lastGeneration /\ g \in Nat /\ lastGeneration \in Nat /\ now \in Nat
      /\ active' = Record(Collect(ActiveAfter(now), g), Triggers(p), g)
      /\ completed' = Enqueue(now) /\ delivered' = delivered
      /\ history' = Remember(g) /\ lastGeneration' = g
      /\ observed' = Append(observed, o)
  BY BoundAssumption DEF Observe, Generations, IInv, TypeOK
<1>2. o \in Observation /\ o.generation = g /\ o.at = now
  BY <1>1 DEF Observation, IInv, TypeOK
<1>3. observed \in Seq(Observation) /\ history \in Seq(Nat) /\ completed \in Seq(Bundle)
      /\ delivered \in Seq(Bundle)
  BY DEF IInv, TypeOK
<1> HIDE DEF o
<1>4. /\ AllTracked(ActiveAfter(now), observed)
      /\ \A s \in Slots : ActiveAfter(now)[s] # None /\ ActiveAfter(now)[s].closed = FALSE
                            => now < ActiveAfter(now)[s].first + PostTimeout
      /\ \A i \in DOMAIN Enqueue(now) : Stored(observed, Enqueue(now)[i])
  BY ExpireTracked DEF FramesInv
<1>5. SlotsOK(ActiveAfter(now)) /\ SlotsOK(Collect(ActiveAfter(now), g))
  BY <1>1, ExpireLemma, CollectLemma DEF IInv
<1>6. \A j \in DOMAIN observed : observed[j].generation < g
  <2>1. \A j \in DOMAIN observed : observed[j] \in Observation
    BY <1>3
  <2>2. \A j \in DOMAIN observed : observed[j].generation \in Nat
    BY <2>1 DEF Observation
  <2> QED BY <1>1, <2>2 DEF FramesInv, Growing
<1>7. AllTracked(Collect(ActiveAfter(now), g), observed')
  <2> SUFFICES ASSUME NEW s \in Slots, Collect(ActiveAfter(now), g)[s] # None
               PROVE  Tracked(Append(observed, o), Collect(ActiveAfter(now), g)[s])
    BY <1>1 DEF AllTracked
  <2> DEFINE b == ActiveAfter(now)[s]
  <2>1. b # None /\ Collect(ActiveAfter(now), g)[s] = AppendPostFrame(b, g)
    BY DEF Collect
  <2>2. b \in Bundle /\ Tracked(observed, b)
        /\ (b.closed = FALSE => o.at < b.first + PostTimeout)
    BY <2>1, <1>2, <1>4, <1>5 DEF SlotsOK, AllTracked
  <2> HIDE DEF b
  <2>3. Tracked(Append(observed, o), AppendPostFrame(b, o.generation))
    BY <2>2, <1>2, <1>3, <1>6, AppendTracked
  <2> QED BY <2>1, <2>3, <1>2
<1>8. AllTracked(active', observed')
  <2>1. Triggers(p) \in SUBSET Reasons
    BY DEF Triggers, Reasons
  <2>2. Tracked(Append(observed, o), NewBundle(Triggers(p), o.generation))
    BY <1>2, <1>3, NewTracked DEF FramesInv
  <2>3. Tracked(observed', NewBundle(Triggers(p), g))
    BY <2>2, <1>1, <1>2
  <2> QED BY <1>1, <1>5, <1>7, <2>1, <2>3, RecordTracked
<1>9. ASSUME NEW b \in Bundle, Stored(observed, b)
      PROVE  Stored(observed', b)
  <2>1. CollectedIn(Append(observed, o), b, FALSE)
    BY <1>2, <1>3, <1>9, CollectedGrows DEF Stored
  <2> QED BY <1>1, <1>9, <2>1 DEF Stored
<1>10. \A i \in DOMAIN completed' : Stored(observed', completed'[i])
  <2>1. Enqueue(now) \in Seq(Bundle)
    BY <1>1, EnqueueLemma
  <2>2. \A i \in DOMAIN Enqueue(now) : Enqueue(now)[i] \in Bundle
    BY <2>1
  <2> QED BY <1>1, <1>4, <1>9, <2>2
<1>11. \A i \in DOMAIN delivered' : Stored(observed', delivered'[i])
  <2>1. \A i \in DOMAIN delivered : delivered[i] \in Bundle
    BY <1>3
  <2> QED BY <1>1, <1>9, <2>1 DEF FramesInv
<1>12. RingExact'
  BY <1>1, <1>2, <1>3, RingStep DEF FramesInv
<1>13. Growing'
  <2>1. /\ DOMAIN observed' = 1 .. Len(observed) + 1 /\ Len(observed) \in Nat
        /\ DOMAIN observed = 1 .. Len(observed)
        /\ \A k \in 1 .. Len(observed) : observed'[k] = observed[k]
        /\ observed'[Len(observed) + 1] = o
    BY <1>1, <1>2, <1>3
  <2> SUFFICES ASSUME NEW i \in 1 .. Len(observed) + 1
               PROVE  observed'[i].generation <= g
    BY <1>1, <2>1 DEF Growing
  <2>2. CASE i = Len(observed) + 1
    BY <2>1, <2>2, <1>1, <1>2
  <2>3. CASE i # Len(observed) + 1
    <3>1. i \in DOMAIN observed /\ observed'[i] = observed[i]
      BY <2>1, <2>3
    <3>2. observed[i] \in Observation
      BY <3>1, <1>3
    <3>3. observed[i].generation \in Nat
      BY <3>2 DEF Observation
    <3> QED BY <3>1, <3>3, <1>1, <1>6
  <2> QED BY <2>2, <2>3
<1> QED BY <1>8, <1>10, <1>11, <1>12, <1>13 DEF FramesInv, AllTracked

LEMMA NextFrames == IInv /\ FramesInv /\ [Next]_vars => FramesInv'
<1> SUFFICES ASSUME IInv, FramesInv, [Next]_vars PROVE FramesInv'
  OBVIOUS
<1>1. /\ AllTracked(ActiveAfter(now), observed)
      /\ \A i \in DOMAIN Enqueue(now) : Stored(observed, Enqueue(now)[i])
  BY ExpireTracked DEF FramesInv
<1>2. CASE \E g \in Generations, p \in Peaks \cup {NoPeak} : Observe(g, p)
  BY <1>2, ObserveFrames
<1>3. CASE \E g \in Generations \cup {0} : ObserveOld(g)
  BY <1>1, <1>3 DEF ObserveOld, FramesInv, AllTracked, RingExact, Growing
<1>4. CASE Advance
  <2>1. /\ active' = ActiveAfter(now) /\ completed' = <<>>
        /\ delivered' = delivered \o Enqueue(now)
        /\ UNCHANGED <<observed, history, lastGeneration>>
    BY <1>4 DEF Advance
  <2>2. delivered \in Seq(Bundle) /\ Enqueue(now) \in Seq(Bundle)
    BY EnqueueLemma DEF IInv, TypeOK
  <2>3. \A i \in DOMAIN delivered' : Stored(observed, delivered'[i])
    BY <1>1, <2>1, <2>2, ConcatStored DEF FramesInv
  <2> QED BY <1>1, <2>1, <2>3 DEF FramesInv, AllTracked, RingExact, Growing
<1>5. CASE \/ NothingNew \/ Tick \/ UNCHANGED vars
           \/ \E o \in OptionSets : UpdateOptions(o)
  <2>1. UNCHANGED <<active, completed, delivered, observed, history, lastGeneration>>
    BY <1>5 DEF NothingNew, Tick, UpdateOptions, vars, detector
  <2> QED BY <2>1 DEF FramesInv, AllTracked, RingExact, Growing
<1> QED BY <1>2, <1>3, <1>4, <1>5 DEF Next, Iteration

LEMMA FramesAlways == Spec => [](IInv /\ FramesInv)
<1>1. Init => IInv /\ FramesInv
  BY InitInv, InitFrames
<1>2. IInv /\ FramesInv /\ [Next]_vars => (IInv /\ FramesInv)'
  BY NextInv, NextFrames
<1> QED BY <1>1, <1>2, PTL DEF Spec

(* Every bundle, open, completed or handed over, holds the frames before, at and
   after its first trigger without a gap or a duplicate, whatever the sizes of the
   history and of the collection and however the observations are spaced. *)
THEOREM FramesGapless == Spec => []FramesContiguous
<1>1. \A b, x : CollectedIn(observed, b, x) <=> Collected(b, x)
  BY DEF CollectedIn, Collected
<1>2. IInv /\ FramesInv => FramesContiguous
  BY <1>1 DEF FramesInv, AllTracked, Tracked, Stored, FramesContiguous, Occupied
<1> QED BY <1>2, FramesAlways, PTL

(* A bundle that is handed over with its collection closed calls itself partial
   exactly when frames after the trigger are missing: expire marks what it closes
   too early, append_post_frame closes only what is complete. *)
THEOREM PartialsMarked == Spec => []PartialMarked
<1>1. IInv /\ FramesInv => PartialMarked
  <2> SUFFICES ASSUME IInv, FramesInv, NEW i \in DOMAIN delivered, delivered[i].closed
               PROVE  delivered[i].partial <=> delivered[i].post < PostFrames
    BY DEF PartialMarked
  <2> DEFINE b == delivered[i]
  <2>1. Marked(b)
    BY DEF FramesInv, Stored
  <2> QED BY <2>1 DEF Marked
<1> QED BY <1>1, FramesAlways, PTL

-----------------------------------------------------------------------------
(* The triggers.  What the detector remembers of the past, one flag and one peak,
   is what the reference reads from the whole record. *)

Silenced == \E j \in 1 .. Len(observed) : High(j) /\ \A k \in j + 1 .. Len(observed) : ~Low(k)

Recalled ==
    /\ previousPeak = NoPeak => \A j \in 1 .. Len(observed) : observed[j].peak = NoPeak
    /\ previousPeak # NoPeak =>
          \E j \in 1 .. Len(observed) :
              /\ observed[j].peak = previousPeak
              /\ \A k \in j + 1 .. Len(observed) : observed[k].peak = NoPeak

Memory == (armed <=> ~Silenced) /\ Recalled

(* How often a reason has been counted in a slot *)
CountIn(slots, s, r) == IF slots[s] = None THEN 0 ELSE slots[s].count[r]

(* From one state of the slots to the next a reason in rs is counted once more, in
   slot s, and nothing else changes of its counts. *)
CountedOnce(before, after, r, rs, s) ==
    \A t \in Slots : CountIn(after, t, r)
                        = CountIn(before, t, r) + (IF t = s /\ r \in rs THEN 1 ELSE 0)

(* What observe appends to the record *)
LEMMA ObserveRecord ==
    ASSUME IInv, NEW g \in Generations, NEW p \in Peaks \cup {NoPeak}, Observe(g, p)
    PROVE  /\ Len(observed) \in Nat /\ Len(observed') = Len(observed) + 1
           /\ DOMAIN observed' = 1 .. Len(observed) + 1
           /\ \A k \in 1 .. Len(observed) :
                  /\ observed'[k] = observed[k]
                  /\ observed[k].peak \in Peaks \cup {NoPeak}
                  /\ High(k)' <=> High(k)
                  /\ Low(k)' <=> Low(k)
           /\ observed'[Len(observed) + 1].peak = p
           /\ observed'[Len(observed) + 1].options = options
<1> DEFINE o == [generation |-> g, at |-> now, peak |-> p, options |-> options]
<1>1. observed' = Append(observed, o) /\ observed \in Seq(Observation)
  BY DEF Observe, IInv, TypeOK
<1>2. o.peak = p /\ o.options = options
  OBVIOUS
<1> HIDE DEF o
<1>3. /\ Len(observed) \in Nat /\ Len(observed') = Len(observed) + 1
      /\ DOMAIN observed' = 1 .. Len(observed) + 1
      /\ \A k \in 1 .. Len(observed) : observed'[k] = observed[k] /\ observed[k] \in Observation
      /\ observed'[Len(observed) + 1] = o
  BY <1>1
<1> QED BY <1>2, <1>3 DEF High, Low, Observation

LEMMA ObserveMemory ==
    ASSUME IInv, Memory, NEW g \in Generations, NEW p \in Peaks \cup {NoPeak}, Observe(g, p),
           NEW n, n = Len(observed)
    PROVE  /\ Memory'
           /\ Strong(p) <=> StrongAt(n + 1)'
           /\ Sudden(p) <=> SuddenAt(n + 1)'
<1>1. /\ n \in Nat /\ Len(observed') = n + 1
      /\ \A k \in 1 .. n : /\ observed'[k] = observed[k]
                           /\ High(k)' <=> High(k)
                           /\ Low(k)' <=> Low(k)
      /\ observed'[n + 1].peak = p /\ observed'[n + 1].options = options
  BY ObserveRecord
<1>2. /\ options \in OptionSets /\ options.rearm \in Int /\ options.trigger \in Int
      /\ options.rearm < options.trigger
      /\ p # NoPeak => p \in Int
  BY OptionAssumption DEF IInv, TypeOK, Options
<1>3. /\ armed' = IF p = NoPeak THEN armed ELSE Rearmed(p) /\ ~Strong(p)
      /\ previousPeak' = IF p = NoPeak THEN previousPeak ELSE p
  BY DEF Observe
<1>4. /\ High(n + 1)' <=> p # NoPeak /\ p >= options.trigger
      /\ Low(n + 1)' <=> p # NoPeak /\ p < options.rearm
  BY <1>1 DEF High, Low
<1>5. ~(High(n + 1)' /\ Low(n + 1)')
  BY <1>2, <1>4
<1>6. \A j \in 1 .. n + 1 : j \in 1 .. n \/ j = n + 1
  BY <1>1
<1>7. Silenced <=> \E j \in 1 .. n : High(j)' /\ \A k \in j + 1 .. n : ~Low(k)'
  <2>1. \A j \in 1 .. n : \A k \in j + 1 .. n : k \in 1 .. n
    BY <1>1
  <2> QED BY <1>1, <2>1 DEF Silenced
<1>8. Silenced' <=> High(n + 1)' \/ (Silenced /\ ~Low(n + 1)')
  <2>1. Silenced' <=> \E j \in 1 .. n + 1 : High(j)' /\ \A k \in j + 1 .. n + 1 : ~Low(k)'
    BY <1>1 DEF Silenced
  <2>2. \A k \in n + 1 + 1 .. n + 1 : FALSE
    BY <1>1
  <2>3. \A j \in 1 .. n : \A k : k \in j + 1 .. n + 1 <=> k \in j + 1 .. n \/ k = n + 1
    BY <1>1
  <2>4. n + 1 \in 1 .. n + 1 /\ \A j \in 1 .. n : j \in 1 .. n + 1
    BY <1>1
  <2>5. ASSUME High(n + 1)' PROVE Silenced'
    BY <2>1, <2>2, <2>4, <2>5
  <2>6. ASSUME Silenced, ~Low(n + 1)' PROVE Silenced'
    <3>1. PICK j \in 1 .. n : High(j)' /\ \A k \in j + 1 .. n : ~Low(k)'
      BY <1>7, <2>6
    <3>2. \A k \in j + 1 .. n + 1 : ~Low(k)'
      BY <2>3, <2>6, <3>1
    <3> QED BY <2>1, <2>4, <3>1, <3>2
  <2>7. ASSUME Silenced', ~High(n + 1)' PROVE Silenced /\ ~Low(n + 1)'
    <3>1. PICK j \in 1 .. n + 1 : High(j)' /\ \A k \in j + 1 .. n + 1 : ~Low(k)'
      BY <2>1, <2>7
    <3>2. j \in 1 .. n
      BY <1>6, <2>7, <3>1
    <3>3. \A k \in j + 1 .. n : ~Low(k)'
      BY <2>3, <3>1, <3>2
    <3>4. n + 1 \in j + 1 .. n + 1
      BY <1>1, <3>2
    <3> QED BY <1>7, <3>1, <3>2, <3>3, <3>4
  <2> QED BY <2>5, <2>6, <2>7
<1>9. armed' <=> ~Silenced'
  <2>1. armed <=> ~Silenced
    BY DEF Memory
  <2>2. armed \in BOOLEAN
    BY DEF IInv, TypeOK
  <2>3. CASE p = NoPeak
    BY <1>3, <1>4, <1>8, <2>1, <2>3
  <2>4. CASE p # NoPeak
    <3>1. Rearmed(p) <=> armed \/ Low(n + 1)'
      BY <1>4, <2>4 DEF Rearmed
    <3>2. Strong(p) <=> Rearmed(p) /\ High(n + 1)'
      BY <1>4, <2>4 DEF Strong
    <3>3. armed' <=> Rearmed(p) /\ ~Strong(p)
      BY <1>3, <2>4
    <3> QED BY <1>5, <1>8, <2>1, <3>1, <3>2, <3>3
  <2> QED BY <2>3, <2>4
<1>10. Recalled'
  <2>1. Recalled
    BY DEF Memory
  <2>2. CASE p = NoPeak
    <3>1. CASE previousPeak = NoPeak
      BY <1>1, <1>3, <1>6, <2>1, <2>2, <3>1 DEF Recalled
    <3>2. CASE previousPeak # NoPeak
      <4>1. PICK j \in 1 .. n : /\ observed[j].peak = previousPeak
                                /\ \A k \in j + 1 .. n : observed[k].peak = NoPeak
        BY <2>1, <3>2 DEF Recalled
      <4>2. \A k \in j + 1 .. n + 1 : k = n + 1 \/ (k \in j + 1 .. n /\ k \in 1 .. n)
        BY <1>1
      <4>3. \A k \in j + 1 .. n + 1 : observed'[k].peak = NoPeak
        BY <1>1, <2>2, <4>1, <4>2
      <4>4. j \in 1 .. n + 1 /\ observed'[j].peak = previousPeak
        BY <1>1, <4>1
      <4> QED BY <1>1, <1>3, <2>2, <3>2, <4>3, <4>4 DEF Recalled
    <3> QED BY <3>1, <3>2
  <2>3. CASE p # NoPeak
    <3>1. n + 1 \in 1 .. n + 1 /\ \A k \in n + 1 + 1 .. n + 1 : FALSE
      BY <1>1
    <3> QED BY <1>1, <1>3, <2>3, <3>1 DEF Recalled
  <2> QED BY <2>2, <2>3
<1>11. Strong(p) <=> StrongAt(n + 1)'
  <2>1. StrongAt(n + 1)' <=>
            High(n + 1)' /\ \A j \in 1 .. n : High(j)' => \E k \in j + 1 .. n + 1 : Low(k)'
    <3>1. n + 1 - 1 = n
      BY <1>1
    <3> QED BY <3>1 DEF StrongAt
  <2>2. ASSUME High(n + 1)'
        PROVE  (\A j \in 1 .. n : High(j)' => \E k \in j + 1 .. n + 1 : Low(k)') <=> ~Silenced
    <3>1. \A j \in 1 .. n : \A k : k \in j + 1 .. n + 1 <=> k \in j + 1 .. n \/ k = n + 1
      BY <1>1
    <3>2. ~Low(n + 1)'
      BY <1>5, <2>2
    <3> QED BY <1>7, <3>1, <3>2
  <2>3. Strong(p) <=> High(n + 1)' /\ ~Silenced
    <3>1. Strong(p) <=> High(n + 1)' /\ (armed \/ p < options.rearm)
      BY <1>4 DEF Strong, Rearmed
    <3>2. High(n + 1)' => ~(p < options.rearm)
      BY <1>2, <1>4
    <3> QED BY <3>1, <3>2 DEF Memory
  <2> QED BY <2>1, <2>2, <2>3
<1>12. Sudden(p) <=> SuddenAt(n + 1)'
  <2>1. SuddenAt(n + 1)' <=>
          /\ p # NoPeak
          /\ \E j \in 1 .. n :
                /\ observed[j].peak # NoPeak
                /\ \A k \in j + 1 .. n : observed[k].peak = NoPeak
                /\ Distance(p, observed[j].peak) >= options.delta
    <3>1. n + 1 - 1 = n /\ \A j \in 1 .. n : \A k \in j + 1 .. n : k \in 1 .. n
      BY <1>1
    <3> QED BY <1>1, <3>1 DEF SuddenAt, Distance
  <2>2. Recalled
    BY DEF Memory
  <2>3. CASE previousPeak = NoPeak
    BY <2>1, <2>2, <2>3 DEF Recalled, Sudden
  <2>4. CASE previousPeak # NoPeak
    <3>1. PICK j \in 1 .. n : /\ observed[j].peak = previousPeak
                              /\ \A k \in j + 1 .. n : observed[k].peak = NoPeak
      BY <2>2, <2>4 DEF Recalled
    <3>2. ASSUME NEW i \in 1 .. n, observed[i].peak # NoPeak,
                 \A k \in i + 1 .. n : observed[k].peak = NoPeak
          PROVE  i = j
      <4>1. ~(i < j) /\ ~(j < i)
        <5>1. i < j => j \in i + 1 .. n
          BY <1>1
        <5>2. j < i => i \in j + 1 .. n
          BY <1>1
        <5> QED BY <5>1, <5>2, <3>1, <3>2, <2>4
      <4> QED BY <4>1, <1>1
    <3>3. SuddenAt(n + 1)' <=> p # NoPeak /\ Distance(p, previousPeak) >= options.delta
      BY <2>1, <2>4, <3>1, <3>2
    <3> QED BY <2>4, <3>3 DEF Sudden
  <2> QED BY <2>3, <2>4
<1> QED BY <1>9, <1>10, <1>11, <1>12 DEF Memory

(* append_post_frame and expire leave the counts of the bundles they keep alone. *)
LEMMA CollectCounts ==
    ASSUME NEW slots, SlotsOK(slots), NEW g \in Nat, NEW t \in Slots, NEW r \in Reasons
    PROVE  CountIn(Collect(slots, g), t, r) = CountIn(slots, t, r)
<1>1. CASE slots[t] = None
  BY <1>1 DEF Collect, CountIn
<1>2. CASE slots[t] # None
  <2> DEFINE b == slots[t]
  <2>1. b \in Bundle
    BY <1>2 DEF SlotsOK
  <2>2. Collect(slots, g)[t] = AppendPostFrame(b, g)
    BY <1>2 DEF Collect
  <2> HIDE DEF b
  <2>3. AppendPostFrame(b, g) \in Bundle /\ AppendPostFrame(b, g).count = b.count
    <3>1. \A f \in Seq(Nat), n \in Nat, x \in BOOLEAN :
              LET c == [b EXCEPT !.frames = f, !.post = n, !.closed = x]
              IN c \in Bundle /\ c.count = b.count
      BY <2>1 DEF Bundle
    <3>2. b.post \in Nat /\ b.frames \in Seq(Nat)
      BY <2>1 DEF Bundle
    <3>3. /\ Append(b.frames, g) \in Seq(Nat)
          /\ b.post + 1 \in Nat
          /\ (b.post + 1 >= PostFrames) \in BOOLEAN
      BY <3>2, BoundAssumption
    <3> QED BY <2>1, <3>1, <3>3, Zenon DEF AppendPostFrame
  <2> QED BY <1>2, <2>2, <2>3, SlotAssumption DEF CountIn, b
<1> QED BY <1>1, <1>2

(* A trigger that no bundle holds finds a free slot, because two bundles would hold
   both reasons between them; one that a bundle holds finds it there. *)
LEMMA RecordCounts ==
    ASSUME NEW slots, SlotsOK(slots), NEW rs \in SUBSET Reasons, NEW g \in Nat,
           now \in Nat, history \in Seq(Nat), NEW r \in Reasons
    PROVE  \E s \in Slots : CountedOnce(slots, Record(slots, rs, g), r, rs, s)
<1> DEFINE held == {q \in rs : Holding(slots, q) # {}}
           slot(q) == CHOOSE s \in Holding(slots, q) : TRUE
           target(q) == IF q \in held THEN slot(q) ELSE slot(CHOOSE x \in held : TRUE)
           given(s) == {q \in rs : target(q) = s}
           attached == [s \in Slots |-> IF slots[s] = None \/ given(s) = {} THEN slots[s]
                                        ELSE Attach(slots[s], given(s))]
           Done == \E s \in Slots : \A t \in Slots :
                       CountIn(Record(slots, rs, g), t, r)
                           = CountIn(slots, t, r) + (IF t = s /\ r \in rs THEN 1 ELSE 0)
<1> SUFFICES Done
  BY DEF CountedOnce
<1>0. \A t \in Slots : CountIn(slots, t, r) \in Nat
  BY DEF CountIn, SlotsOK, Bundle
<1>1. CASE rs = {}
  <2>1. Record(slots, rs, g) = slots
    BY <1>1 DEF Record
  <2>2. 1 \in Slots /\ r \notin rs
    BY <1>1 DEF Slots
  <2>3. \A t \in Slots : CountIn(slots, t, r) + 0 = CountIn(slots, t, r)
    BY <1>0
  <2> QED BY <2>1, <2>2, <2>3
<1>2. CASE rs # {} /\ held = {}
  <2>1. ~ \A s \in Slots : slots[s] # None
    <3> SUFFICES ASSUME \A s \in Slots : slots[s] # None PROVE FALSE
      OBVIOUS
    <3>1. PICK q \in rs : TRUE
      BY <1>2
    <3>2. \A s \in Slots : q \notin slots[s].reasons
      BY <1>2, <3>1 DEF Holding
    <3>3. 1 \in Slots /\ 2 \in Slots /\ 1 # 2
      BY DEF Slots
    <3>4. /\ slots[1].reasons # {} /\ slots[2].reasons # {}
          /\ slots[1].reasons \subseteq Reasons /\ slots[2].reasons \subseteq Reasons
          /\ slots[1].reasons \cap slots[2].reasons = {}
      BY <3>3 DEF SlotsOK, Reasoned, Exclusive, Bundle
    <3> QED BY <3>1, <3>2, <3>3, <3>4 DEF Reasons
  <2> DEFINE f == FirstFree(slots)
             b == NewBundle(rs, g)
  <2>2. f \in Slots /\ slots[f] = None
    BY <2>1 DEF FirstFree, Slots
  <2>3. Record(slots, rs, g) = [slots EXCEPT ![f] = b]
    BY <1>2, <2>1 DEF Record, Create
  <2>4. b \in Bundle /\ b.count[r] = (IF r \in rs THEN 1 ELSE 0)
    BY DEF NewBundle, Bundle
  <2>5. b # None
    BY <2>4, SlotAssumption
  <2> HIDE DEF b, f
  <2>6. \A t \in Slots : [slots EXCEPT ![f] = b][t] = IF t = f THEN b ELSE slots[t]
    BY <2>2 DEF SlotsOK
  <2>7. ASSUME NEW t \in Slots
        PROVE  CountIn(Record(slots, rs, g), t, r)
                   = CountIn(slots, t, r) + (IF t = f /\ r \in rs THEN 1 ELSE 0)
    <3>1. CASE t = f
      BY <3>1, <2>2, <2>3, <2>4, <2>5, <2>6 DEF CountIn
    <3>2. CASE t # f
      <4>1. CountIn(Record(slots, rs, g), t, r) = CountIn(slots, t, r)
        BY <3>2, <2>3, <2>6 DEF CountIn
      <4> QED BY <1>0, <3>2, <4>1
    <3> QED BY <3>1, <3>2
  <2> QED BY <2>2, <2>7
<1>3. CASE rs # {} /\ held # {}
  <2>1. Record(slots, rs, g) = attached
    BY <1>3 DEF Record
  <2>2. \A q \in held : slot(q) \in Slots /\ slots[slot(q)] # None
    BY DEF Holding
  <2>3. target(r) \in Slots /\ slots[target(r)] # None
    <3>1. (CHOOSE x \in held : TRUE) \in held
      BY <1>3
    <3> HIDE DEF slot, held
    <3> QED BY <2>2, <3>1
  <2> DEFINE u == target(r)
  <2>4. \A t \in Slots : r \in given(t) <=> r \in rs /\ t = u
    OBVIOUS
  <2>5. \A t \in Slots : given(t) \in SUBSET Reasons
    OBVIOUS
  <2>6. \A t \in Slots : attached[t] = IF slots[t] = None \/ given(t) = {} THEN slots[t]
                                       ELSE Attach(slots[t], given(t))
    OBVIOUS
  <2>7. u \in Slots /\ slots[u] # None
    BY <2>3
  <2> HIDE DEF u, given, attached
  <2>8. ASSUME NEW b \in Bundle, NEW q \in SUBSET Reasons
        PROVE  Attach(b, q) \in Bundle
               /\ Attach(b, q).count[r] = b.count[r] + (IF r \in q THEN 1 ELSE 0)
    <3> DEFINE v == b.reasons \cup q
               n == [x \in Reasons |-> b.count[x] + IF x \in q THEN 1 ELSE 0]
               c == [b EXCEPT !.reasons = v, !.count = n]
    <3>1. Attach(b, q) = c
      BY DEF Attach, Bundle
    <3>2. b.reasons \in SUBSET Reasons /\ b.count \in [Reasons -> Nat]
      BY DEF Bundle
    <3>3. v \in SUBSET Reasons /\ n \in [Reasons -> Nat]
          /\ n[r] = b.count[r] + (IF r \in q THEN 1 ELSE 0)
      BY <3>2
    <3> HIDE DEF v, n
    <3>4. c \in Bundle /\ c.count = n
      BY <3>3 DEF Bundle
    <3> QED BY <3>1, <3>3, <3>4
  <2>9. ASSUME NEW t \in Slots
        PROVE  CountIn(attached, t, r)
                   = CountIn(slots, t, r) + (IF t = u /\ r \in rs THEN 1 ELSE 0)
    <3>1. CASE slots[t] = None
      <4>1. attached[t] = None /\ t # u
        BY <2>6, <2>7, <3>1
      <4> QED BY <3>1, <4>1 DEF CountIn
    <3>2. CASE slots[t] # None /\ given(t) = {}
      <4>1. attached[t] = slots[t] /\ ~(t = u /\ r \in rs)
        BY <2>4, <2>6, <3>2
      <4>2. CountIn(attached, t, r) = CountIn(slots, t, r)
        BY <4>1 DEF CountIn
      <4> QED BY <1>0, <4>1, <4>2
    <3>3. CASE slots[t] # None /\ given(t) # {}
      <4>1. attached[t] = Attach(slots[t], given(t)) /\ slots[t] \in Bundle
        BY <2>6, <3>3 DEF SlotsOK
      <4>2. /\ attached[t] # None
            /\ attached[t].count[r] = slots[t].count[r] + (IF r \in given(t) THEN 1 ELSE 0)
        BY <2>5, <2>8, <4>1, SlotAssumption
      <4> QED BY <2>4, <3>3, <4>2 DEF CountIn
    <3> QED BY <3>1, <3>2, <3>3
  <2> QED BY <2>1, <2>7, <2>9
<1> QED BY <1>1, <1>2, <1>3

LEMMA NextMemory == IInv /\ Memory /\ [Next]_vars => Memory'
<1> SUFFICES ASSUME IInv, Memory, [Next]_vars PROVE Memory'
  OBVIOUS
<1>1. CASE \E g \in Generations, p \in Peaks \cup {NoPeak} : Observe(g, p)
  BY <1>1, ObserveMemory
<1>2. CASE \/ \E g \in Generations \cup {0} : ObserveOld(g)
           \/ NothingNew \/ Advance \/ Tick \/ UNCHANGED vars
           \/ \E o \in OptionSets : UpdateOptions(o)
  <2>1. UNCHANGED <<armed, previousPeak, observed>>
    BY <1>2 DEF ObserveOld, NothingNew, Advance, Tick, UpdateOptions, vars, detector
  <2> QED BY <2>1 DEF Memory, Silenced, Recalled, High, Low
<1> QED BY <1>1, <1>2 DEF Next, Iteration

LEMMA MemoryAlways == Spec => [](IInv /\ Memory)
<1>1. Init => IInv /\ Memory
  <2>1. Init => Memory
    BY DEF Init, Memory, Silenced, Recalled
  <2> QED BY <2>1, InitInv
<1>2. IInv /\ Memory /\ [Next]_vars => (IInv /\ Memory)'
  BY NextInv, NextMemory
<1> QED BY <1>1, <1>2, PTL DEF Spec

(* The strong_armed_ flag and previous_valid_peak_ are all the detector needs: at
   every observation it raises the triggers that a reader of the whole record,
   with the configuration that was in force at each of its entries, would raise. *)
LEMMA TriggersOfReference ==
    ASSUME IInv, Memory, NEW g \in Generations, NEW p \in Peaks \cup {NoPeak}, Observe(g, p),
           NEW r \in Reasons, NEW n, n = Len(observed)
    PROVE  (IF r = "strong" THEN StrongAt(n + 1)' ELSE SuddenAt(n + 1)') <=> r \in Triggers(p)
<1>1. (Strong(p) <=> StrongAt(n + 1)') /\ (Sudden(p) <=> SuddenAt(n + 1)')
  BY ObserveMemory
<1> QED BY <1>1 DEF Triggers, Reasons

(* A trigger is counted once, in a bundle that holds its reason or in the slot that
   is then free: record loses none and counts none twice. *)
LEMMA TriggersRecordedOnce ==
    ASSUME IInv, NEW g \in Generations, NEW p \in Peaks \cup {NoPeak}, Observe(g, p),
           NEW r \in Reasons
    PROVE  \E s \in Slots : CountedOnce(ActiveAfter(now), active', r, Triggers(p), s)
<1>1. now \in Nat /\ g \in Nat /\ history \in Seq(Nat) /\ Triggers(p) \in SUBSET Reasons
  BY BoundAssumption DEF IInv, TypeOK, Generations, Triggers, Reasons
<1>2. SlotsOK(ActiveAfter(now))
  BY <1>1, ExpireLemma DEF IInv
<1>3. SlotsOK(Collect(ActiveAfter(now), g))
  BY <1>1, <1>2, CollectLemma
<1>4. \A t \in Slots :
          CountIn(Collect(ActiveAfter(now), g), t, r) = CountIn(ActiveAfter(now), t, r)
  BY <1>1, <1>2, CollectCounts
<1> DEFINE slots == Collect(ActiveAfter(now), g)
           rs == Triggers(p)
<1> HIDE DEF slots, rs
<1>5. PICK s \in Slots : CountedOnce(slots, Record(slots, rs, g), r, rs, s)
  <2>1. SlotsOK(slots) /\ rs \in SUBSET Reasons
    BY <1>1, <1>3 DEF slots, rs
  <2>2. now \in Nat /\ g \in Nat /\ history \in Seq(Nat)
    BY <1>1
  <2> QED BY <2>1, <2>2, RecordCounts
<1>6. active' = Record(Collect(ActiveAfter(now), g), Triggers(p), g)
  BY DEF Observe
<1> QED BY <1>4, <1>5, <1>6 DEF slots, rs, CountedOnce

-----------------------------------------------------------------------------
(* What is counted in slots and queues, as numbers *)

CountOf(r, q) == Cardinality(Counted(r, q, DOMAIN q))

CountInSlots(slots, r) == CountIn(slots, 1, r) + CountIn(slots, 2, r)

LEMMA CountedElements ==
    ASSUME NEW r, NEW b, NEW I
    PROVE  \A x : x \in Counted(r, b, I)
                    <=> \E i \in I : \E n \in 1 .. b[i].count[r] : x = <<i, n>>
BY DEF Counted

LEMMA CountedFinite ==
    ASSUME NEW r, NEW b, NEW I, IsFiniteSet(I), \A i \in I : b[i].count[r] \in Nat
    PROVE  IsFiniteSet(Counted(r, b, I)) /\ Cardinality(Counted(r, b, I)) \in Nat
<1> DEFINE part(i) == {i} \X (1 .. b[i].count[r])
           f == [i \in I |-> part(i)]
           Parts == {part(i) : i \in I}
<1>1. \A i \in I : IsFiniteSet(part(i))
  <2> SUFFICES ASSUME NEW i \in I PROVE IsFiniteSet(part(i))
    OBVIOUS
  <2>1. IsFiniteSet({i})
    BY FS_Singleton
  <2>2. IsFiniteSet(1 .. b[i].count[r])
    <3> DEFINE n == b[i].count[r]
    <3>1. 1 \in Int /\ n \in Int
      OBVIOUS
    <3> HIDE DEF n
    <3>2. IsFiniteSet(1 .. n)
      BY <3>1, FS_Interval
    <3> QED BY <3>2 DEF n
  <2> QED BY <2>1, <2>2, FS_Product
<1>2. f \in Surjection(I, Parts)
  <2> HIDE DEF part
  <2> QED BY DEF Surjection
<1>3. IsFiniteSet(Parts)
  <2> HIDE DEF f, Parts
  <2> QED BY <1>2, FS_Surjection
<1>4. \A T \in Parts : IsFiniteSet(T)
  BY <1>1
<1>5. IsFiniteSet(UNION Parts)
  <2> HIDE DEF Parts
  <2> QED BY <1>3, <1>4, FS_UNION
<1>6. Counted(r, b, I) = UNION Parts
  BY DEF Counted
<1>7. IsFiniteSet(Counted(r, b, I))
  BY <1>5, <1>6
<1> QED BY <1>7, FS_CardinalityType

(* One bundle is counted as often as it says. *)
LEMMA CountedAlone ==
    ASSUME NEW r, NEW b, NEW i, b[i].count[r] \in Nat
    PROVE  Cardinality(Counted(r, b, {i})) = b[i].count[r]
<1> DEFINE n == b[i].count[r]
<1>1. Counted(r, b, {i}) = {i} \X (1 .. n)
  BY DEF Counted
<1>2. n \in Nat
  OBVIOUS
<1> HIDE DEF n
<1>3. IsFiniteSet({i}) /\ Cardinality({i}) = 1
  BY FS_Singleton
<1>4. IsFiniteSet(1 .. n) /\ Cardinality(1 .. n) = n
  <2>1. 1 \in Int /\ n \in Int
    BY <1>2
  <2>2. IsFiniteSet(1 .. n) /\ Cardinality(1 .. n) = IF 1 > n THEN 0 ELSE n-1+1
    BY <2>1, FS_Interval
  <2>3. (IF 1 > n THEN 0 ELSE n-1+1) = n
    BY <1>2
  <2> QED BY <2>2, <2>3
<1>5. Cardinality({i} \X (1 .. n)) = Cardinality({i}) * Cardinality(1 .. n)
  BY <1>3, <1>4, FS_Product
<1>6. Cardinality({i} \X (1 .. n)) = 1 * n
  BY <1>3, <1>4, <1>5
<1>7. 1 * n = n
  BY <1>2
<1>8. Cardinality(Counted(r, b, {i})) = n
  BY <1>1, <1>6, <1>7
<1> QED BY <1>8 DEF n

(* Two parts of an index set are counted each on its own. *)
LEMMA CountedApart ==
    ASSUME NEW r, NEW b, NEW I, NEW J, IsFiniteSet(I), IsFiniteSet(J), I \cap J = {},
           \A i \in I \cup J : b[i].count[r] \in Nat
    PROVE  Cardinality(Counted(r, b, I \cup J))
               = Cardinality(Counted(r, b, I)) + Cardinality(Counted(r, b, J))
<1> DEFINE A == Counted(r, b, I)
           B == Counted(r, b, J)
<1>1. IsFiniteSet(A) /\ Cardinality(A) \in Nat /\ IsFiniteSet(B) /\ Cardinality(B) \in Nat
  BY CountedFinite
<1>2. Counted(r, b, I \cup J) = A \cup B
  BY DEF Counted
<1>3. A \cap B = {}
  BY CountedElements
<1> HIDE DEF A, B
<1>4. Cardinality(A \cup B) = Cardinality(A) + Cardinality(B) - Cardinality(A \cap B)
  BY <1>1, FS_Union
<1>5. Cardinality(A \cap B) = 0
  BY <1>3, FS_EmptySet
<1>6. Cardinality(A \cup B) = Cardinality(A) + Cardinality(B)
  BY <1>1, <1>4, <1>5
<1> QED BY <1>2, <1>6 DEF A, B

(* The bundles of two queues, one behind the other *)
LEMMA CountOfJoined ==
    ASSUME NEW r \in Reasons, NEW s \in Seq(Bundle), NEW t \in Seq(Bundle)
    PROVE  /\ CountOf(r, s \o t) = CountOf(r, s) + CountOf(r, t)
           /\ CountOf(r, s) \in Nat /\ CountOf(r, t) \in Nat
<1> DEFINE u == s \o t
           k == Len(s)
           m == Len(t)
           I == 1 .. k
           J == k + 1 .. k + m
           M == 1 .. m
           A == Counted(r, t, M)
           B == Counted(r, u, J)
           h == [x \in A |-> <<x[1] + k, x[2]>>]
<1>1. k \in Nat /\ m \in Nat /\ DOMAIN s = I /\ DOMAIN t = M /\ DOMAIN u = 1 .. k + m
  OBVIOUS
<1>2. /\ \A i \in I : u[i] = s[i] /\ s[i] \in Bundle
      /\ \A i \in M : u[i + k] = t[i] /\ t[i] \in Bundle
      /\ \A i \in J : u[i] = t[i - k] /\ i - k \in M
  OBVIOUS
<1> HIDE DEF u, k, m
<1>3. I \cup J = 1 .. k + m /\ I \cap J = {}
  BY <1>1
<1>4. IsFiniteSet(I) /\ IsFiniteSet(J) /\ IsFiniteSet(M)
  <2>1. 1 \in Int /\ k \in Int /\ m \in Int /\ k + 1 \in Int /\ k + m \in Int
    BY <1>1
  <2> QED BY <2>1, FS_Interval
<1>5. \A c \in Bundle : c.count[r] \in Nat
  BY DEF Bundle
<1>6. /\ \A i \in I : u[i].count[r] \in Nat /\ s[i].count[r] \in Nat
      /\ \A i \in J : u[i].count[r] \in Nat
      /\ \A i \in M : t[i].count[r] \in Nat
  BY <1>2, <1>5
<1> HIDE DEF I, J, M
<1>7. Cardinality(Counted(r, u, I \cup J)) = Cardinality(Counted(r, u, I)) + Cardinality(B)
  BY <1>3, <1>4, <1>6, CountedApart
<1>8. Counted(r, u, I) = Counted(r, s, I)
  BY <1>2 DEF Counted
<1>9. h \in Bijection(A, B)
  <2>1. ASSUME NEW x \in A
        PROVE  x = <<x[1], x[2]>> /\ x[1] \in M /\ x[2] \in 1 .. t[x[1]].count[r]
    BY CountedElements
  <2>2. ASSUME NEW x \in A PROVE h[x] = <<x[1] + k, x[2]>> /\ h[x] \in B
    <3>1. x[1] + k \in J
      BY <1>1, <2>1 DEF J, M
    <3>2. u[x[1] + k] = t[x[1]]
      BY <1>2, <2>1
    <3>3. <<x[1] + k, x[2]>> \in B
      BY <2>1, <3>1, <3>2, CountedElements
    <3> QED BY <3>3
  <2>3. ASSUME NEW y \in B PROVE \E x \in A : h[x] = y
    <3>0. PICK i \in J : \E n \in 1 .. u[i].count[r] : y = <<i, n>>
      BY CountedElements
    <3>1. PICK n \in 1 .. u[i].count[r] : y = <<i, n>>
      BY <3>0
    <3>2. i - k \in M /\ u[i] = t[i - k] /\ (i - k) + k = i
      BY <1>1, <1>2 DEF J
    <3>3. <<i - k, n>> \in A
      BY <3>1, <3>2, CountedElements
    <3> QED BY <2>2, <3>1, <3>2, <3>3
  <2>4. h \in [A -> B]
    <3> HIDE DEF A, B
    <3> QED BY <2>2
  <2>5. ASSUME NEW x \in A, NEW y \in A, h[x] = h[y] PROVE x = y
    <3>1. x[1] + k = y[1] + k /\ x[2] = y[2]
      BY <2>2, <2>5
    <3>2. x[1] \in Int /\ y[1] \in Int
      BY <1>1, <2>1 DEF M
    <3>3. x[1] = y[1]
      BY <1>1, <3>1, <3>2
    <3> QED BY <2>1, <3>1, <3>3
  <2> HIDE DEF A, B, h
  <2>6. h \in Injection(A, B)
    BY <2>4, <2>5 DEF Injection, IsInjective
  <2>7. h \in Surjection(A, B)
    BY <2>3, <2>4 DEF Surjection
  <2> QED BY <2>6, <2>7 DEF Bijection
<1>10. IsFiniteSet(A) /\ Cardinality(A) \in Nat
  BY <1>4, <1>6, CountedFinite
<1>11. Cardinality(Counted(r, s, I)) \in Nat
  BY <1>4, <1>6, CountedFinite
<1> HIDE DEF h, A, B
<1>12. Cardinality(B) = Cardinality(A)
  <2>1. ExistsBijection(A, B)
    BY <1>9 DEF ExistsBijection
  <2> QED BY <1>10, <2>1, FS_Bijection
<1> QED BY <1>1, <1>3, <1>7, <1>8, <1>10, <1>11, <1>12 DEF CountOf, A, u

LEMMA CountOfNone ==
    ASSUME NEW r
    PROVE  CountOf(r, <<>>) = 0
<1>1. DOMAIN <<>> = {} /\ Counted(r, <<>>, {}) = {}
  BY DEF Counted
<1> QED BY <1>1, FS_EmptySet DEF CountOf

LEMMA CountOfOne ==
    ASSUME NEW r \in Reasons, NEW b \in Bundle
    PROVE  CountOf(r, <<b>>) = b.count[r]
<1> DEFINE q == <<b>>
<1>1. DOMAIN q = {1} /\ q[1] = b /\ b.count[r] \in Nat
  BY DEF Bundle
<1> HIDE DEF q
<1>2. q[1].count[r] \in Nat
  BY <1>1
<1>3. Cardinality(Counted(r, q, {1})) = q[1].count[r]
  BY <1>2, CountedAlone
<1> QED BY <1>1, <1>3 DEF CountOf, q

(* The bundles in the slots are counted as the slots are. *)
LEMMA SlotsCounted ==
    ASSUME NEW slots, SlotsOK(slots), NEW r \in Reasons
    PROVE  /\ Cardinality(Counted(r, slots, {s \in Slots : slots[s] # None}))
                  = CountInSlots(slots, r)
           /\ \A s \in Slots : CountIn(slots, s, r) \in Nat
<1> DEFINE At(s) == {t \in {s} : slots[t] # None}
<1>1. \A s \in Slots : slots[s] # None => slots[s].count[r] \in Nat
  BY DEF SlotsOK, Bundle
<1>2. \A s \in Slots : CountIn(slots, s, r) \in Nat
  BY <1>1 DEF CountIn
<1>3. ASSUME NEW s \in Slots
      PROVE  IsFiniteSet(At(s)) /\ Cardinality(Counted(r, slots, At(s))) = CountIn(slots, s, r)
  <2>1. CASE slots[s] = None
    <3>1. At(s) = {}
      BY <2>1
    <3>2. Counted(r, slots, {}) = {}
      BY DEF Counted
    <3> QED BY <2>1, <3>1, <3>2, FS_EmptySet DEF CountIn
  <2>2. CASE slots[s] # None
    <3>1. At(s) = {s}
      BY <2>2
    <3>2. Cardinality(Counted(r, slots, {s})) = slots[s].count[r]
      BY <1>1, <2>2, CountedAlone
    <3> QED BY <2>2, <3>1, <3>2, FS_Singleton DEF CountIn
  <2> QED BY <2>1, <2>2
<1>4. {s \in Slots : slots[s] # None} = At(1) \cup At(2) /\ At(1) \cap At(2) = {}
  BY DEF Slots
<1>5. 1 \in Slots /\ 2 \in Slots /\ \A s \in At(1) \cup At(2) : s \in Slots /\ slots[s] # None
  BY DEF Slots
<1> HIDE DEF At
<1>6. Cardinality(Counted(r, slots, At(1) \cup At(2)))
          = Cardinality(Counted(r, slots, At(1))) + Cardinality(Counted(r, slots, At(2)))
  BY <1>1, <1>3, <1>4, <1>5, CountedApart
<1> QED BY <1>2, <1>3, <1>4, <1>5, <1>6 DEF CountInSlots

(* expire takes counts from the slots to the queue. *)
LEMMA ExpireCounted ==
    ASSUME IInv, NEW t \in Nat, NEW r \in Reasons
    PROVE  /\ CountInSlots(ActiveAfter(t), r) + CountOf(r, Queue(t))
                  = CountInSlots(active, r) + CountOf(r, completed)
           /\ CountOf(r, Queue(t)) \in Nat /\ CountOf(r, completed) \in Nat
           /\ \A s \in Slots : /\ CountIn(active, s, r) \in Nat
                               /\ CountIn(ActiveAfter(t), s, r) \in Nat
<1>1. /\ SlotsOK(active) /\ SlotsOK(ActiveAfter(t)) /\ completed \in Seq(Bundle)
      /\ \A s \in Slots : CompletedAt(s, t) \in Seq(Bundle)
  BY ExpireLemma DEF IInv, TypeOK
<1>2. \A s \in Slots : CountIn(active, s, r) \in Nat /\ CountIn(ActiveAfter(t), s, r) \in Nat
  BY <1>1, SlotsCounted
<1>3. ASSUME NEW s \in Slots
      PROVE  CountOf(r, CompletedAt(s, t)) + CountIn(ActiveAfter(t), s, r) = CountIn(active, s, r)
  <2> DEFINE b == active[s]
             c == Close(b, t)
  <2>1. CASE b = None
    <3>1. CompletedAt(s, t) = <<>> /\ ActiveAfter(t)[s] = None
      BY <2>1 DEF CompletedAt, Over, ActiveAfter
    <3>2. CountOf(r, <<>>) = 0
      BY CountOfNone
    <3> QED BY <2>1, <3>1, <3>2 DEF CountIn
  <2>2. CASE b # None
    <3>1. b \in Bundle
      BY <1>1, <2>2 DEF SlotsOK
    <3>2. c \in Bundle /\ c.count = b.count /\ b.count[r] \in Nat
      <4> HIDE DEF b
      <4>1. \A x \in BOOLEAN : LET d == [b EXCEPT !.closed = TRUE, !.partial = x]
                              IN d \in Bundle /\ d.count = b.count
        BY <3>1 DEF Bundle
      <4>2. b.post \in Nat /\ b.count[r] \in Nat
        BY <3>1 DEF Bundle
      <4>3. (b.post < PostFrames) \in BOOLEAN
        BY <4>2, BoundAssumption
      <4> QED BY <3>1, <4>1, <4>2, <4>3, Zenon DEF Close
    <3>3. CASE Over(s, t)
      <4>1. CompletedAt(s, t) = <<c>> /\ ActiveAfter(t)[s] = None
        BY <3>3 DEF CompletedAt, ActiveAfter
      <4> HIDE DEF c
      <4>2. CountOf(r, <<c>>) = b.count[r]
        BY <3>2, CountOfOne
      <4> QED BY <2>2, <3>2, <4>1, <4>2 DEF CountIn
    <3>4. CASE ~Over(s, t)
      <4>1. CompletedAt(s, t) = <<>> /\ ActiveAfter(t)[s] = c
        BY <2>2, <3>4 DEF CompletedAt, ActiveAfter
      <4> HIDE DEF c
      <4>2. CountOf(r, <<>>) = 0 /\ c # None
        BY <3>2, CountOfNone, SlotAssumption
      <4> QED BY <2>2, <3>2, <4>1, <4>2 DEF CountIn
    <3> QED BY <3>3, <3>4
  <2> QED BY <2>1, <2>2
<1> DEFINE first == CompletedAt(1, t)
           second == CompletedAt(2, t)
           both == completed \o first
<1>4. first \in Seq(Bundle) /\ second \in Seq(Bundle)
  BY <1>1 DEF Slots
<1>5. Queue(t) = both \o second
  BY DEF Queue
<1>6. /\ CountOf(r, first) + CountIn(ActiveAfter(t), 1, r) = CountIn(active, 1, r)
      /\ CountOf(r, second) + CountIn(ActiveAfter(t), 2, r) = CountIn(active, 2, r)
      /\ CountIn(ActiveAfter(t), 1, r) \in Nat /\ CountIn(ActiveAfter(t), 2, r) \in Nat
      /\ CountIn(active, 1, r) \in Nat /\ CountIn(active, 2, r) \in Nat
  BY <1>2, <1>3 DEF Slots
<1> HIDE DEF first, second
<1>7. /\ CountOf(r, both) = CountOf(r, completed) + CountOf(r, first)
      /\ CountOf(r, completed) \in Nat /\ CountOf(r, first) \in Nat
  BY <1>1, <1>4, CountOfJoined
<1>8. both \in Seq(Bundle)
  BY <1>1, <1>4
<1> HIDE DEF both
<1>9. /\ CountOf(r, both \o second) = CountOf(r, both) + CountOf(r, second)
      /\ CountOf(r, second) \in Nat /\ CountOf(r, both) \in Nat
  BY <1>4, <1>8, CountOfJoined
<1>10. CountOf(r, Queue(t)) = CountOf(r, both) + CountOf(r, second)
  BY <1>5, <1>9
<1>11. CountInSlots(ActiveAfter(t), r) + CountOf(r, Queue(t))
           = CountInSlots(active, r) + CountOf(r, completed)
  BY <1>6, <1>7, <1>9, <1>10 DEF CountInSlots
<1> QED BY <1>2, <1>7, <1>9, <1>10, <1>11

(* An observation adds itself to the reference if it raises a trigger. *)
LEMMA RaisedStep ==
    ASSUME IInv, Memory, NEW g \in Generations, NEW p \in Peaks \cup {NoPeak}, Observe(g, p),
           NEW r \in Reasons
    PROVE  /\ Cardinality(Raised(r)')
                  = Cardinality(Raised(r)) + (IF r \in Triggers(p) THEN 1 ELSE 0)
           /\ Cardinality(Raised(r)) \in Nat
<1>1. PICK n : n = Len(observed)
  OBVIOUS
<1>2. /\ n \in Nat /\ DOMAIN observed = 1 .. n /\ DOMAIN observed' = 1 .. n + 1
      /\ \A k \in 1 .. n : observed'[k] = observed[k] /\ (High(k)' <=> High(k)) /\ (Low(k)' <=> Low(k))
  <2>1. DOMAIN observed = 1 .. Len(observed)
    BY DEF IInv, TypeOK
  <2> QED BY <1>1, <2>1, ObserveRecord
<1>3. ASSUME NEW i \in 1 .. n PROVE (StrongAt(i)' <=> StrongAt(i)) /\ (SuddenAt(i)' <=> SuddenAt(i))
  <2>1. \A j \in 1 .. i - 1 : j \in 1 .. n /\ \A k \in j + 1 .. i : k \in 1 .. n
    BY <1>2
  <2>2. \A j \in 1 .. i - 1 : j \in 1 .. n /\ \A k \in j + 1 .. i - 1 : k \in 1 .. n
    BY <1>2
  <2>3. StrongAt(i)' <=> StrongAt(i)
    <3>1. StrongAt(i)' <=> High(i)' /\ \A j \in 1 .. i - 1 : High(j)' => \E k \in j + 1 .. i : Low(k)'
      BY DEF StrongAt
    <3> QED BY <1>2, <2>1, <3>1 DEF StrongAt
  <2>4. SuddenAt(i)' <=> SuddenAt(i)
    BY <1>2, <2>2 DEF SuddenAt
  <2> QED BY <2>3, <2>4
<1>4. (IF r = "strong" THEN StrongAt(n + 1)' ELSE SuddenAt(n + 1)') <=> r \in Triggers(p)
  BY <1>1, TriggersOfReference
<1> DEFINE R == {i \in 1 .. n : IF r = "strong" THEN StrongAt(i) ELSE SuddenAt(i)}
           S == {i \in 1 .. n + 1 : IF r = "strong" THEN StrongAt(i)' ELSE SuddenAt(i)'}
<1>5. Raised(r) = R /\ Raised(r)' = S
  BY <1>2 DEF Raised
<1>6. \A i : i \in 1 .. n + 1 <=> i \in 1 .. n \/ i = n + 1
  BY <1>2
<1>7. S = IF r \in Triggers(p) THEN R \cup {n + 1} ELSE R
  BY <1>3, <1>4, <1>6
<1>8. R \subseteq 1 .. n /\ n + 1 \notin R
  BY <1>2
<1> HIDE DEF R, S
<1>9. IsFiniteSet(R) /\ Cardinality(R) \in Nat
  <2>1. IsFiniteSet(1 .. n)
    BY <1>2, FS_Interval
  <2>2. IsFiniteSet(R)
    BY <1>8, <2>1, FS_Subset
  <2> QED BY <2>2, FS_CardinalityType
<1>10. Cardinality(R \cup {n + 1}) = Cardinality(R) + 1
  BY <1>8, <1>9, FS_AddElement
<1> QED BY <1>5, <1>7, <1>9, <1>10

(* Slots, queue and what was handed over count what the reference has raised. *)
Exact ==
    \A r \in Reasons :
        Cardinality(Raised(r)) = CountInSlots(active, r) + CountOf(r, completed) + CountOf(r, delivered)

LEMMA ObserveExact ==
    ASSUME IInv, Memory, Exact, NEW g \in Generations, NEW p \in Peaks \cup {NoPeak}, Observe(g, p)
    PROVE  Exact'
<1> SUFFICES ASSUME NEW r \in Reasons
             PROVE  Cardinality(Raised(r)') = CountInSlots(active', r) + CountOf(r, completed')
                                                + CountOf(r, delivered')
  BY DEF Exact
<1> DEFINE one == IF r \in Triggers(p) THEN 1 ELSE 0
           raised == Cardinality(Raised(r))
           slots == ActiveAfter(now)
<1>1. now \in Nat /\ delivered \in Seq(Bundle)
  BY DEF IInv, TypeOK
<1>2. completed' = Queue(now) /\ delivered' = delivered
  BY <1>1, EnqueueLemma DEF Observe
<1>3. /\ CountInSlots(slots, r) + CountOf(r, Queue(now)) = CountInSlots(active, r) + CountOf(r, completed)
      /\ CountOf(r, Queue(now)) \in Nat /\ CountOf(r, completed) \in Nat
      /\ CountIn(slots, 1, r) \in Nat /\ CountIn(slots, 2, r) \in Nat
      /\ CountIn(active, 1, r) \in Nat /\ CountIn(active, 2, r) \in Nat
  BY <1>1, ExpireCounted DEF Slots
<1>4. Cardinality(Raised(r)') = raised + one /\ raised \in Nat /\ one \in Nat
  BY RaisedStep
<1>5. raised = CountInSlots(active, r) + CountOf(r, completed) + CountOf(r, delivered)
  BY DEF Exact
<1>6. CountOf(r, delivered) \in Nat
  BY <1>1, CountOfJoined
<1>7. PICK s \in Slots : CountedOnce(slots, active', r, Triggers(p), s)
  BY TriggersRecordedOnce
<1>8. s \in {1, 2}
      /\ CountIn(active', 1, r) = CountIn(slots, 1, r) + (IF s = 1 THEN one ELSE 0)
      /\ CountIn(active', 2, r) = CountIn(slots, 2, r) + (IF s = 2 THEN one ELSE 0)
  BY <1>7 DEF CountedOnce, Slots
<1> HIDE DEF one, raised, slots
<1>9. CountInSlots(active', r) = CountInSlots(slots, r) + one
  BY <1>3, <1>4, <1>8 DEF CountInSlots
<1>10. CountInSlots(slots, r) \in Nat /\ CountInSlots(active, r) \in Nat
  BY <1>3 DEF CountInSlots
<1>11. raised + one = CountInSlots(active', r) + CountOf(r, Queue(now)) + CountOf(r, delivered)
  BY <1>3, <1>4, <1>5, <1>6, <1>9, <1>10
<1> QED BY <1>2, <1>4, <1>11

LEMMA NextExact == IInv /\ Memory /\ Exact /\ [Next]_vars => Exact'
<1> SUFFICES ASSUME IInv, Memory, Exact, [Next]_vars PROVE Exact'
  OBVIOUS
<1>1. CASE \E g \in Generations, p \in Peaks \cup {NoPeak} : Observe(g, p)
  BY <1>1, ObserveExact
<1>2. ASSUME UNCHANGED observed, NEW r \in Reasons PROVE Raised(r)' = Raised(r)
  BY <1>2 DEF Raised, StrongAt, SuddenAt, High, Low
<1>3. now \in Nat /\ delivered \in Seq(Bundle) /\ completed \in Seq(Bundle)
  BY DEF IInv, TypeOK
<1>4. Queue(now) \in Seq(Bundle) /\ Enqueue(now) = Queue(now)
  BY <1>3, EnqueueLemma
<1>5. ASSUME NEW r \in Reasons
      PROVE  /\ CountInSlots(ActiveAfter(now), r) + CountOf(r, Queue(now))
                    = CountInSlots(active, r) + CountOf(r, completed)
             /\ CountOf(r, Queue(now)) \in Nat /\ CountOf(r, completed) \in Nat
             /\ CountInSlots(ActiveAfter(now), r) \in Nat /\ CountInSlots(active, r) \in Nat
             /\ CountOf(r, delivered) \in Nat
             /\ Cardinality(Raised(r)) = CountInSlots(active, r) + CountOf(r, completed)
                                           + CountOf(r, delivered)
  <2>1. /\ CountInSlots(ActiveAfter(now), r) + CountOf(r, Queue(now))
               = CountInSlots(active, r) + CountOf(r, completed)
        /\ CountOf(r, Queue(now)) \in Nat /\ CountOf(r, completed) \in Nat
        /\ \A s \in Slots : CountIn(active, s, r) \in Nat /\ CountIn(ActiveAfter(now), s, r) \in Nat
    BY <1>3, ExpireCounted
  <2>2. CountInSlots(ActiveAfter(now), r) \in Nat /\ CountInSlots(active, r) \in Nat
    BY <2>1 DEF CountInSlots, Slots
  <2>3. CountOf(r, delivered) \in Nat
    BY <1>3, CountOfJoined
  <2> QED BY <2>1, <2>2, <2>3 DEF Exact
<1>6. CASE \E g \in Generations \cup {0} : ObserveOld(g)
  <2>1. /\ active' = ActiveAfter(now) /\ completed' = Queue(now)
        /\ UNCHANGED <<observed, delivered>>
    BY <1>4, <1>6 DEF ObserveOld
  <2> QED BY <1>2, <1>5, <2>1 DEF Exact
<1>7. CASE Advance
  <2>1. /\ active' = ActiveAfter(now) /\ completed' = <<>> /\ delivered' = delivered \o Queue(now)
        /\ UNCHANGED observed
    BY <1>4, <1>7 DEF Advance
  <2>2. ASSUME NEW r \in Reasons
        PROVE  CountOf(r, delivered') = CountOf(r, delivered) + CountOf(r, Queue(now))
               /\ CountOf(r, completed') = 0
    BY <1>3, <1>4, <2>1, CountOfJoined, CountOfNone
  <2>3. ASSUME NEW r \in Reasons
        PROVE  Cardinality(Raised(r)) = CountInSlots(active', r) + CountOf(r, completed')
                                          + CountOf(r, delivered')
    BY <1>5, <2>1, <2>2
  <2> QED BY <1>2, <2>1, <2>3 DEF Exact
<1>8. CASE NothingNew \/ Tick \/ UNCHANGED vars \/ \E o \in OptionSets : UpdateOptions(o)
  <2>1. UNCHANGED <<active, completed, delivered, observed>>
    BY <1>8 DEF NothingNew, Tick, UpdateOptions, vars, detector
  <2> QED BY <1>2, <2>1 DEF Exact
<1> QED BY <1>1, <1>6, <1>7, <1>8 DEF Next, Iteration

(* Every trigger that the reference finds in the whole record is counted exactly
   once, in a bundle that is open, completed or handed over (observe, expire,
   take_completed). *)
THEOREM EveryTriggerCounted == Spec => []TriggersExact
<1>1. Init => Exact
  <2> SUFFICES ASSUME Init, NEW r \in Reasons
               PROVE  Cardinality(Raised(r)) = CountInSlots(active, r) + CountOf(r, completed)
                                                 + CountOf(r, delivered)
    BY DEF Exact
  <2>1. observed = <<>> /\ completed = <<>> /\ delivered = <<>> /\ \A s \in Slots : active[s] = None
    BY DEF Init
  <2>2. Raised(r) = {}
    BY <2>1 DEF Raised
  <2>3. Cardinality(Raised(r)) = 0
    BY <2>2, FS_EmptySet
  <2>4. CountInSlots(active, r) = 0
    BY <2>1 DEF CountInSlots, CountIn, Slots
  <2>5. CountOf(r, completed) = 0 /\ CountOf(r, delivered) = 0
    BY <2>1, CountOfNone
  <2> QED BY <2>3, <2>4, <2>5
<1>2. IInv /\ Exact => TriggersExact
  <2> SUFFICES ASSUME IInv, Exact, NEW r \in Reasons
               PROVE  Cardinality(Raised(r)) = Cardinality(Counted(r, active, Occupied))
                                                 + CountOf(r, completed) + CountOf(r, delivered)
    BY DEF TriggersExact, CountOf
  <2>1. Cardinality(Counted(r, active, Occupied)) = CountInSlots(active, r)
    BY SlotsCounted DEF IInv, Occupied
  <2> QED BY <2>1 DEF Exact
<1> QED BY <1>1, <1>2, MemoryAlways, NextExact, PTL DEF Spec

=============================================================================
