--------------------------- MODULE EventDetector ---------------------------
(***************************************************************************)
(* The event detector of the storage subsystem, as the persistence worker  *)
(* drives it.  One iteration of the worker takes the time once, applies a  *)
(* changed configuration, shows the detector the served snapshot when its  *)
(* generation is new, and then collects the bundles whose merge window is  *)
(* over.  The detector raises a strong trigger when an armed peak reaches  *)
(* the threshold, a sudden trigger when two consecutive valid peaks differ *)
(* enough, and merges the triggers of one kind into one bundle.            *)
(*                                                                         *)
(* Measurements other than the peak, the identifiers of bundles and the    *)
(* maxima of their statistics are left out; a frame is its generation.     *)
(***************************************************************************)
EXTENDS Integers, Sequences, FiniteSets

CONSTANTS Peaks,         \* the valid peaks, in dBm
          NoPeak,        \* a peak that is stale, not refreshed or invalid
          OptionSets,    \* the configurations the operator may store
          PostTimeout,   \* post_collection_timeout
          MaxPending,    \* max_pending_bundles
          HistoryFrames, \* kHistoryFrameCount
          PostFrames,    \* kPostFrameCount
          None,          \* an empty slot
          MaxNow,        \* bound on the steady clock
          MaxGeneration  \* bound on the generations

Options == [trigger : Int, rearm : Int, delta : Nat, merge : Nat]

(* What ConfigStore::validate guarantees of a stored configuration *)
ASSUME OptionAssumption ==
    /\ OptionSets \subseteq Options
    /\ \A o \in OptionSets : o.rearm < o.trigger /\ o.delta > 0
    /\ Peaks \subseteq Int
    /\ NoPeak \notin Peaks

(* An iteration completes at most two bundles twice, less than the queue holds. *)
ASSUME BoundAssumption ==
    /\ PostTimeout \in Nat
    /\ HistoryFrames \in Nat
    /\ PostFrames \in Nat \ {0}
    /\ MaxPending \in Nat /\ MaxPending >= 4
    /\ MaxNow \in Nat
    /\ MaxGeneration \in Nat

VARIABLES
    options,       \* options_
    armed,         \* strong_armed_
    previousPeak,  \* previous_valid_peak_
    lastGeneration,\* last_generation_, 0 before the first
    history,       \* history_
    active,        \* active_
    completed,     \* completed_
    dropped,       \* dropped_bundle_count_
    now,           \* the time the worker's iteration has taken
    phase,         \* what the iteration does next
    observed,      \* history: what observe has accepted, and when
    delivered      \* history: the bundles advance has returned

detector == <<options, armed, previousPeak, lastGeneration, history, active,
              completed, dropped>>
vars == <<detector, now, phase, observed, delivered>>

-----------------------------------------------------------------------------
(* Values *)

Reasons == {"strong", "sudden"}

(* kActiveBundleSlots *)
Slots == {1, 2}

Bundle == [first : Nat, reasons : SUBSET Reasons, partial : BOOLEAN,
           count : [Reasons -> Nat], frames : Seq(Nat),
           post : Nat, closed : BOOLEAN]

ASSUME SlotAssumption == None \notin Bundle

Observation == [generation : Nat, at : Nat, peak : Peaks \cup {NoPeak},
                options : OptionSets]

Occupied == {s \in Slots : active[s] # None}

Suffix(seq, n) == SubSeq(seq, Len(seq) - n + 1, Len(seq))

Least(m, n) == IF m < n THEN m ELSE n

-----------------------------------------------------------------------------
(* expire: closes the collection of old bundles and completes the ones whose
   merge window is over.  Its results are functions of the time. *)

(* Mutant: a collection that times out is not marked. *)
CloseUnmarked(b, t) ==
    IF ~b.closed /\ t >= b.first + PostTimeout THEN [b EXCEPT !.closed = TRUE] ELSE b

Close(b, t) ==
    IF ~b.closed /\ t >= b.first + PostTimeout
    THEN [b EXCEPT !.closed = TRUE, !.partial = b.post < PostFrames]
    ELSE b

(* Mutant: only the first slot is looked at. *)
OverFirstSlot(s, t) == s = 1 /\ active[s] # None /\ t >= active[s].first + options.merge

Over(s, t) == active[s] # None /\ t >= active[s].first + options.merge

ActiveAfter(t) ==
    [s \in Slots |-> IF active[s] = None \/ Over(s, t) THEN None
                     ELSE Close(active[s], t)]

CompletedAt(s, t) == IF Over(s, t) THEN <<Close(active[s], t)>> ELSE <<>>

(* enqueue, once per completed bundle: the oldest bundles make room. *)
Queue(t) == completed \o CompletedAt(1, t) \o CompletedAt(2, t)

(* Mutant: one completed bundle is kept, as if one frame could end only one. *)
KeptOne(t) == Least(Len(Queue(t)), 1)

Kept(t) == Least(Len(Queue(t)), MaxPending)

Enqueue(t) == Suffix(Queue(t), Kept(t))

DroppedBy(t) == dropped + Len(Queue(t)) - Kept(t)

-----------------------------------------------------------------------------
(* observe *)

(* append_post_frame *)
AppendPostFrame(b, g) ==
    IF b.closed \/ \E i \in DOMAIN b.frames : b.frames[i] = g THEN b
    ELSE [b EXCEPT !.frames = Append(b.frames, g),
                   !.post = b.post + 1,
                   !.closed = b.post + 1 >= PostFrames]

Collect(slots, g) ==
    [s \in Slots |-> IF slots[s] = None THEN None ELSE AppendPostFrame(slots[s], g)]

Rearmed(p) == armed \/ p < options.rearm

Distance(p, q) == IF p < q THEN q - p ELSE p - q

(* Mutant: the trigger does not wait for the peak to fall again. *)
StrongUnarmed(p) == p # NoPeak /\ p >= options.trigger

Strong(p) == p # NoPeak /\ Rearmed(p) /\ p >= options.trigger

Sudden(p) ==
    /\ p # NoPeak
    /\ previousPeak # NoPeak
    /\ Distance(p, previousPeak) >= options.delta

Triggers(p) ==
    (IF Strong(p) THEN {"strong"} ELSE {}) \cup (IF Sudden(p) THEN {"sudden"} ELSE {})

(* find_active *)
Holding(slots, r) == {s \in Slots : slots[s] # None /\ r \in slots[s].reasons}

(* attach_reason *)
Attach(b, rs) ==
    [b EXCEPT !.reasons = @ \cup rs,
              !.count = [r \in Reasons |-> b.count[r] + IF r \in rs THEN 1 ELSE 0]]

(* Mutant: the history holds the triggering snapshot already. *)
NewBundleLate(rs, g) ==
    [first |-> now, reasons |-> rs, partial |-> FALSE,
     count |-> [r \in Reasons |-> IF r \in rs THEN 1 ELSE 0],
     frames |-> Append(Append(history, g), g), post |-> 0, closed |-> FALSE]

(* create_bundle *)
NewBundle(rs, g) ==
    [first |-> now, reasons |-> rs, partial |-> FALSE,
     count |-> [r \in Reasons |-> IF r \in rs THEN 1 ELSE 0],
     frames |-> Append(history, g), post |-> 0, closed |-> FALSE]

FirstFree(slots) == IF slots[1] = None THEN 1 ELSE 2

Create(slots, rs, g) ==
    IF \A s \in Slots : slots[s] # None THEN slots
    ELSE [slots EXCEPT ![FirstFree(slots)] = NewBundle(rs, g)]

(* A reason goes to the bundle that holds it; a reason no bundle holds goes
   with the other one of the same observation, or opens a bundle. *)
Record(slots, rs, g) ==
    LET held == {r \in rs : Holding(slots, r) # {}}
        slot(r) == CHOOSE s \in Holding(slots, r) : TRUE
        target(r) == IF r \in held THEN slot(r) ELSE slot(CHOOSE q \in held : TRUE)
        given(s) == {r \in rs : target(r) = s}
    IN IF rs = {} THEN slots
       ELSE IF held = {} THEN Create(slots, rs, g)
       ELSE [s \in Slots |-> IF slots[s] = None \/ given(s) = {} THEN slots[s]
                             ELSE Attach(slots[s], given(s))]

Remember(g) ==
    LET all == Append(history, g)
    IN Suffix(all, Least(Len(all), HistoryFrames))

(* A time at which a new bundle's whole window still fits the bounded clock *)
Foreseeable == now + PostTimeout <= MaxNow /\ \A o \in OptionSets : now + o.merge <= MaxNow

Observe(g, p) ==
    /\ phase = "observe" /\ Foreseeable
    /\ g > lastGeneration
    /\ active' = Record(Collect(ActiveAfter(now), g), Triggers(p), g)
    /\ completed' = Enqueue(now)
    /\ dropped' = DroppedBy(now)
    /\ armed' = IF p = NoPeak THEN armed ELSE Rearmed(p) /\ ~Strong(p)
    /\ previousPeak' = IF p = NoPeak THEN previousPeak ELSE p
    /\ history' = Remember(g)
    /\ lastGeneration' = g
    /\ observed' = Append(observed, [generation |-> g, at |-> now, peak |-> p,
                                     options |-> options])
    /\ phase' = "advance"
    /\ UNCHANGED <<options, now, delivered>>

(* A snapshot the detector has seen already, or an older one *)
ObserveOld(g) ==
    /\ phase = "observe"
    /\ g <= lastGeneration
    /\ active' = ActiveAfter(now)
    /\ completed' = Enqueue(now)
    /\ dropped' = DroppedBy(now)
    /\ phase' = "advance"
    /\ UNCHANGED <<options, armed, previousPeak, lastGeneration, history, now,
                   observed, delivered>>

-----------------------------------------------------------------------------
(* The rest of the worker's iteration *)

(* The store serves no snapshot whose generation is new to the worker. *)
NothingNew ==
    /\ phase = "observe"
    /\ phase' = "advance"
    /\ UNCHANGED <<detector, now, observed, delivered>>

(* advance and take_completed *)
Advance ==
    /\ phase = "advance"
    /\ active' = ActiveAfter(now)
    /\ dropped' = DroppedBy(now)
    /\ delivered' = delivered \o Enqueue(now)
    /\ completed' = <<>>
    /\ phase' = "observe"
    /\ UNCHANGED <<options, armed, previousPeak, lastGeneration, history, now, observed>>

(* apply_runtime_configuration *)
UpdateOptions(o) ==
    /\ phase = "observe"
    /\ options' = o
    /\ UNCHANGED <<armed, previousPeak, lastGeneration, history, active, completed,
                   dropped, now, phase, observed, delivered>>

(* The next iteration takes a later time. *)
Tick ==
    /\ phase = "observe"
    /\ now < MaxNow
    /\ now' = now + 1
    /\ UNCHANGED <<detector, phase, observed, delivered>>

-----------------------------------------------------------------------------
Init ==
    /\ options \in OptionSets
    /\ armed = TRUE
    /\ previousPeak = NoPeak
    /\ lastGeneration = 0
    /\ history = <<>>
    /\ active = [s \in Slots |-> None]
    /\ completed = <<>>
    /\ dropped = 0
    /\ now = 0
    /\ phase = "observe"
    /\ observed = <<>>
    /\ delivered = <<>>

Generations == 1 .. MaxGeneration

Iteration ==
    \/ \E g \in Generations, p \in Peaks \cup {NoPeak} : Observe(g, p)
    \/ \E g \in Generations \cup {0} : ObserveOld(g)
    \/ NothingNew
    \/ Advance

Next ==
    \/ Iteration
    \/ \E o \in OptionSets : UpdateOptions(o)
    \/ Tick

Spec == Init /\ [][Next]_vars

(* The worker's thread keeps iterating and time passes between iterations. *)
FairSpec == Spec /\ WF_vars(Iteration) /\ SF_vars(Tick)

-----------------------------------------------------------------------------
(* What is checked *)

(* The type of the state; the history ring and the frames of a bundle stay within
   the sizes that bound the memory of the worker. *)
TypeOK ==
    /\ options \in OptionSets
    /\ armed \in BOOLEAN
    /\ previousPeak \in Peaks \cup {NoPeak}
    /\ lastGeneration \in Nat
    /\ history \in Seq(Nat) /\ Len(history) <= HistoryFrames
    /\ active \in [Slots -> Bundle \cup {None}]
    /\ completed \in Seq(Bundle)
    /\ dropped \in Nat
    /\ now \in Nat
    /\ phase \in {"observe", "advance"}
    /\ observed \in Seq(Observation)
    /\ delivered \in Seq(Bundle)

(* A reason never belongs to two open bundles.  find_active may therefore stop at
   the first bundle it finds, and create_bundle, which is called only for reasons
   no bundle holds, always finds a free slot among two. *)
OneBundlePerReason ==
    \A s, t \in Occupied : s # t => active[s].reasons \cap active[t].reasons = {}

(* The queue of completed bundles never overflows, whatever the configuration and
   however late the worker: enqueue drops nothing. *)
NothingDropped == dropped = 0

(* The reference for the triggers: what a reader of the whole record of
   observations would report. *)
High(i) == observed[i].peak # NoPeak /\ observed[i].peak >= observed[i].options.trigger

Low(i) == observed[i].peak # NoPeak /\ observed[i].peak < observed[i].options.rearm

StrongAt(i) ==
    /\ High(i)
    /\ \A j \in 1 .. i - 1 : High(j) => \E k \in j + 1 .. i : Low(k)

SuddenAt(i) ==
    /\ observed[i].peak # NoPeak
    /\ \E j \in 1 .. i - 1 :
          /\ observed[j].peak # NoPeak
          /\ \A k \in j + 1 .. i - 1 : observed[k].peak = NoPeak
          /\ Distance(observed[i].peak, observed[j].peak) >= observed[i].options.delta

Raised(r) == {i \in DOMAIN observed : IF r = "strong" THEN StrongAt(i) ELSE SuddenAt(i)}

(* What the bundles with the given indices count of a reason, one by one *)
Counted(r, bundles, indices) == UNION {{i} \X (1 .. bundles[i].count[r]) : i \in indices}

(* Every trigger of the reference is counted exactly once, in a bundle that is
   open, completed or handed over: none is lost when bundles overlap, expire or
   merge, when the configuration changes in between, or when a slot is taken. *)
TriggersExact ==
    \A r \in Reasons :
        Cardinality(Raised(r)) = Cardinality(Counted(r, active, Occupied))
                                   + Cardinality(Counted(r, completed, DOMAIN completed))
                                   + Cardinality(Counted(r, delivered, DOMAIN delivered))

(* A bundle holds, without a gap or a duplicate, the frames the detector saw from
   two before its first trigger to at most three after it, each of those within
   the collection timeout; while it collects, it has the newest one. *)
Collected(b, open) ==
    \E i \in DOMAIN observed :
        LET start == IF i > HistoryFrames THEN i - HistoryFrames ELSE 1
            end == i + b.post
        IN /\ observed[i].at = b.first
           /\ b.post <= PostFrames
           /\ end <= Len(observed)
           /\ b.frames = [k \in 1 .. end - start + 1 |-> observed[start + k - 1].generation]
           /\ \A k \in i + 1 .. end : observed[k].at < b.first + PostTimeout
           /\ open => end = Len(observed)

FramesContiguous ==
    /\ \A s \in Occupied : Collected(active[s], ~active[s].closed)
    /\ \A i \in DOMAIN completed : Collected(completed[i], FALSE)
    /\ \A i \in DOMAIN delivered : Collected(delivered[i], FALSE)

(* A bundle whose collection was closed before it was handed over says it is partial
   exactly when frames after the trigger are missing. *)
PartialMarked ==
    \A i \in DOMAIN delivered :
        delivered[i].closed => (delivered[i].partial <=> delivered[i].post < PostFrames)

(* The snapshot whose trigger opened a bundle: no two bundles share it. *)
Opener(b) == b.frames[Len(b.frames) - b.post]

(* Every bundle is handed over to be stored, also when no new snapshot arrives:
   the collection and the merge window end by the clock alone. *)
BundlesDelivered ==
    \A g \in Generations :
        (\E s \in Occupied : Opener(active[s]) = g)
            ~> (\E i \in DOMAIN delivered : Opener(delivered[i]) = g)

=============================================================================
