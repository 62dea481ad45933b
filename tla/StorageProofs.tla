--------------------------- MODULE StorageProofs ---------------------------
(***************************************************************************)
(* Theorems about Storage, for every clock, size of the file system, level *)
(* and use of space, and every number of failures and losses of power.     *)
(***************************************************************************)
EXTENDS Storage, FiniteSetTheorems, TLAPS

-----------------------------------------------------------------------------
(* Minima *)

LEMMA Smallest ==
    ASSUME NEW S \in SUBSET Nat, S # {}
    PROVE  \E x \in S : \A y \in S : x <= y
<1> DEFINE less == {ss \in Nat \X Nat : ss[1] < ss[2]}
<1>1. IsWellFoundedOn(less, Nat)
    BY NatLessThanWellFounded DEF OpToRel
<1>2. \E x \in S : \A y \in S : ~(<<y, x>> \in less)
    <2> HIDE DEF less
    <2> QED BY <1>1, WFMin
<1>3. PICK x \in S : \A y \in S : ~(<<y, x>> \in less)
    BY <1>2
<1>4. ASSUME NEW y \in S PROVE x <= y
    <2>1. y < x => <<y, x>> \in less
        OBVIOUS
    <2>2. ~(y < x)
        BY <1>3, <2>1
    <2> QED BY <2>2
<1> QED
    BY <1>4

LEMMA MinIn ==
    ASSUME NEW S \in SUBSET Nat, S # {}
    PROVE  Min(S) \in S /\ \A y \in S : Min(S) <= y
BY Smallest DEF Min

LEMMA GreatestTime ==
    ASSUME NEW S \in SUBSET (1..MaxTime), S # {}
    PROVE  \E x \in S : \A y \in S : y <= x
<1> DEFINE U == {MaxTime - y : y \in S}
<1>0. MaxTime \in Nat
    BY StorageBounds
<1>1. U \in SUBSET Nat /\ U # {}
    <2>1. \A y \in S : MaxTime - y \in Nat
        BY <1>0
    <2> QED BY <2>1
<1>2. PICK u \in U : \A v \in U : u <= v
    BY <1>1, Smallest
<1>3. PICK x \in S : u = MaxTime - x
    BY <1>2
<1>4. \A y \in S : MaxTime - y \in U
    OBVIOUS
<1> HIDE DEF U
<1>5. \A y \in S : y <= x
    <2>1. \A y \in S : MaxTime - x <= MaxTime - y
        BY <1>2, <1>3, <1>4
    <2> QED BY <1>0, <2>1
<1> QED
    BY <1>5

(* scan_candidates has a first entry. *)
LEMMA OldestIn ==
    ASSUME NEW S \in SUBSET File, S # {}
    PROVE  Oldest(S) \in S /\ \A g \in S : Oldest(S).time <= g.time
<1> DEFINE times == {g.time : g \in S}
<1>1. times \in SUBSET Nat /\ times # {}
    BY StorageBounds DEF File
<1>2. PICK t \in times : \A u \in times : t <= u
    BY <1>1, Smallest
<1>3. \A g \in S : g.time \in Nat /\ t <= g.time
    BY <1>1, <1>2
<1>4. \E f \in S : \A g \in S \ {f} : Before(f, g)
    <2>1. CASE \E f \in S : f.time = t /\ f.kind = "event"
        <3>1. PICK f \in S : f.time = t /\ f.kind = "event"
            BY <2>1
        <3>2. ASSUME NEW g \in S \ {f} PROVE Before(f, g)
            <4>1. g.time # t \/ g.kind # "event"
                BY <3>1, <3>2 DEF File
            <4> QED BY <1>3, <3>1, <3>2, <4>1 DEF Before, File, Kinds
        <3> QED BY <3>2
    <2>2. CASE \A f \in S : f.time = t => f.kind = "frame"
        <3>1. PICK f \in S : f.time = t
            BY <1>2
        <3>2. ASSUME NEW g \in S \ {f} PROVE Before(f, g)
            <4>1. g.time # t
                BY <2>2, <3>1, <3>2 DEF File
            <4> QED BY <1>3, <3>1, <3>2, <4>1 DEF Before
        <3> QED BY <3>2
    <2> QED BY <2>1, <2>2 DEF File, Kinds
<1>5. Oldest(S) \in S /\ \A g \in S \ {Oldest(S)} : Before(Oldest(S), g)
    BY <1>4 DEF Oldest
<1> QED
    BY <1>3, <1>5 DEF Before

(* The newest of the frames; no two have the same time. *)
LEMMA NewestFrameIn ==
    ASSUME NEW S \in SUBSET File, NEW f \in S, f.kind = "frame"
    PROVE  /\ NewestFrame(S) \in S /\ NewestFrame(S).kind = "frame"
           /\ \A g \in S : g.kind = "frame" => g.time <= NewestFrame(S).time
<1> DEFINE frames == {g \in S : g.kind = "frame"}
           times == {g.time : g \in frames}
<1>1. times \in SUBSET (1..MaxTime) /\ times # {} /\ frames # {}
    BY DEF File
<1>2. PICK t \in times : \A u \in times : u <= t
    BY <1>1, GreatestTime
<1>3. PICK x \in frames : x.time = t
    BY <1>2
<1>4. \A g \in frames : g.time <= x.time
    BY <1>2, <1>3
<1>5. NewestFrame(S) = CHOOSE x_1 \in frames : \A g \in frames : g.time <= x_1.time
    BY <1>1 DEF NewestFrame
<1>6. NewestFrame(S) \in frames /\ \A g \in frames : g.time <= NewestFrame(S).time
    BY <1>4, <1>5
<1> QED
    BY <1>6

-----------------------------------------------------------------------------
(* Types *)

Plan ==
    plan \in [left : SUBSET File, newest : File \cup {NoFile}, cutoff : Nat, expired : BOOLEAN,
              available : {plan.available}, failed : BOOLEAN]

Types ==
    /\ TypeOK /\ Plan /\ fresh \in BOOLEAN /\ request \subseteq File
    /\ stats \in [savedEvents : Nat, droppedEvents : Nat]
    /\ budget \in [faults : Nat, crashes : Nat, triggers : Nat]
    /\ pc # "remove" => plan = Idle
    /\ ~up => pc = "top" /\ open = {} /\ bundles = {} /\ stats = NoStats

LEMMA TypesInit == Init => Types
<1> SUFFICES ASSUME Init PROVE Types
    OBVIOUS
<1>1. Plan /\ plan.left = {} /\ plan = Idle
    BY DEF Init, Plan, Idle
<1>2. TypeOK
    <2>1. /\ dir \in [File -> {"absent", "tmp", "bin"}] /\ disk \in [File -> {"absent", "tmp", "bin"}]
          /\ data \in [File -> {"partial", "flushed"}]
        BY DEF Init
    <2>2. up \in BOOLEAN /\ paused \in BOOLEAN /\ due \in BOOLEAN
        BY DEF Init
    <2> QED
        BY <1>1, <2>1, <2>2, StorageBounds DEF Init, TypeOK
<1>3. /\ stats \in [savedEvents : Nat, droppedEvents : Nat]
      /\ budget \in [faults : Nat, crashes : Nat, triggers : Nat]
    BY DEF Init, NoStats
<1> QED
    BY <1>1, <1>2, <1>3 DEF Init, Types

LEMMA FaultType ==
    ASSUME Types, Fault
    PROVE  budget' \in [faults : Nat, crashes : Nat, triggers : Nat] /\ budget'.triggers = budget.triggers
BY DEF Types, Fault

(* Parts of the types that most steps leave alone *)
LEMMA IdlePlan == Plan /\ plan' = Idle => Plan' /\ plan'.left = {}
BY NoFileAssumption DEF Plan, Idle

(* What save's caller does *)
LEMMA SavedTypes ==
    ASSUME Types, NEW ok \in BOOLEAN, Saved(ok), job # NoFile
    PROVE  /\ job' = NoFile /\ pc' \in {"advance", "events"} /\ due' \in BOOLEAN
           /\ reported' \subseteq File
           /\ stats' \in [savedEvents : Nat, droppedEvents : Nat]
<1>1. job \in File /\ job.kind \in Kinds
    BY DEF Types, TypeOK, File
<1>2. due' \in BOOLEAN
    BY DEF Saved, Types, TypeOK
<1>3. /\ [stats EXCEPT !.savedEvents = @ + 1] \in [savedEvents : Nat, droppedEvents : Nat]
      /\ [stats EXCEPT !.droppedEvents = @ + 1] \in [savedEvents : Nat, droppedEvents : Nat]
    BY DEF Types
<1>4. stats' \in [savedEvents : Nat, droppedEvents : Nat]
    BY <1>3 DEF Saved, Types
<1> QED
    BY <1>1, <1>2, <1>4 DEF Saved, Types, TypeOK

LEMMA CleanerTypes ==
    ASSUME Types, Clean \/ BeginPass
    PROVE  Types'
<1> USE DEF files
<1>1. CASE BeginPass \/ BeginCleaning
    BY <1>1 DEF BeginPass, BeginCleaning, Types, TypeOK, Plan, Closed
<1>2. ASSUME UNCHANGED <<files, other, utc, minFree, up, job, fresh, due, open, bundles, stats, request, reported>>,
             up, pc \in {"probe", "remove"}, NEW isPaused \in BOOLEAN, Cleaned(isPaused),
             budget' \in [faults : Nat, crashes : Nat, triggers : Nat]
      PROVE  Types'
    BY <1>2, IdlePlan DEF Types, TypeOK, Cleaned, Closed
<1>3. CASE Probe
    <2>1. CASE Cleaned(TRUE) /\ Fault
        BY <1>2, <1>3, <2>1, FaultType DEF Probe
    <2>2. CASE Cleaned(FALSE) /\ NoFault
        BY <1>2, <1>3, <2>2 DEF Probe, NoFault, Types
    <2>3. CASE /\ NoFault /\ pc' = "remove" /\ UNCHANGED paused
               /\ plan' = [left |-> Closed(dir), newest |-> NewestFrame(Closed(dir)),
                           cutoff |-> IF utc > Retention THEN utc - Retention ELSE 0,
                           expired |-> TRUE, available |-> Available(dir, other), failed |-> FALSE]
        <3>1. Closed(dir) \in SUBSET File
            BY DEF Closed
        <3>2. NewestFrame(Closed(dir)) \in File \cup {NoFile}
            BY <3>1, NewestFrameIn DEF NewestFrame
        <3>3. (IF utc > Retention THEN utc - Retention ELSE 0) \in Nat
            BY SpaceAssumption, StorageBounds DEF Types, TypeOK
        <3>4. Plan' /\ plan'.left = Closed(dir)
            BY <2>3, <3>1, <3>2, <3>3 DEF Plan
        <3>5. pc = "probe" /\ up /\ UNCHANGED <<files, other, utc, minFree, up, job, fresh, due, open, bundles,
                   stats, request, reported>>
            BY <1>3 DEF Probe
        <3>6. TypeOK'
            BY <2>3, <3>4, <3>5 DEF Types, TypeOK, Closed
        <3> QED
            BY <2>3, <3>4, <3>5, <3>6 DEF Types, NoFault
    <2> QED
        BY <1>3, <2>1, <2>2, <2>3 DEF Probe
<1>4. CASE FinishCleaning
    BY <1>2, <1>4 DEF FinishCleaning, Types
<1>5. CASE RemoveUnexpired
    <2>1. Plan' /\ plan'.left = plan.left
        BY <1>5 DEF RemoveUnexpired, Types, Plan
    <2> QED
        BY <1>5, <2>1 DEF RemoveUnexpired, Types, TypeOK, Closed
<1>6. CASE Remove
    <2> DEFINE f == Oldest(Removable(plan))
    <2>1. /\ UNCHANGED <<disk, data, other, utc, minFree, up, pc, job, paused, fresh, due,
                   open, bundles, stats, request>>
          /\ up /\ pc = "remove"
          /\ Fault \/ NoFault
          /\ \/ UNCHANGED <<dir, reported>> /\ plan' = [plan EXCEPT !.failed = TRUE]
             \/ /\ dir' = [dir EXCEPT ![f] = "absent"] /\ reported' = reported \ {f}
                /\ \/ plan' = [plan EXCEPT !.left = @ \ {f}, !.failed = TRUE]
                   \/ plan' = [plan EXCEPT !.left = @ \ {f}, !.available = Available(dir', other)]
        BY <1>6 DEF Remove
    <2>2. budget' \in [faults : Nat, crashes : Nat, triggers : Nat]
        BY <2>1, FaultType DEF NoFault, Types
    <2> HIDE DEF f
    <2>3. CASE UNCHANGED <<dir, reported>> /\ plan' = [plan EXCEPT !.failed = TRUE]
        <3>1. Plan' /\ plan'.left = plan.left
            BY <2>3 DEF Types, Plan
        <3> QED
            BY <2>1, <2>2, <2>3, <3>1 DEF Types, TypeOK, Closed
    <2>4. CASE /\ dir' = [dir EXCEPT ![f] = "absent"] /\ reported' = reported \ {f}
               /\ \/ plan' = [plan EXCEPT !.left = @ \ {f}, !.failed = TRUE]
                  \/ plan' = [plan EXCEPT !.left = @ \ {f}, !.available = Available(dir', other)]
        <3>1. Plan' /\ plan'.left = plan.left \ {f}
            BY <2>4 DEF Types, Plan
        <3>2. plan'.left \subseteq Closed(dir')
            BY <2>4, <3>1 DEF Types, TypeOK, Closed
        <3>3. TypeOK'
            BY <2>1, <2>4, <3>2 DEF Types, TypeOK
        <3> QED
            BY <2>1, <2>2, <3>1, <3>3 DEF Types
    <2> QED
        BY <2>1, <2>3, <2>4
<1> QED
    BY <1>1, <1>3, <1>4, <1>5, <1>6 DEF Clean

LEMMA WorkerTypes ==
    ASSUME Types, Observe \/ AdvanceDetector \/ SaveEvent \/ EventsDone
    PROVE  Types'
<1> USE DEF files
<1>1. CASE Observe
    <2>1. [kind |-> "frame", time |-> utc] \in File
        BY DEF Types, TypeOK, File, Kinds
    <2>2. budget' \in [faults : Nat, crashes : Nat, triggers : Nat]
        BY <1>1 DEF Observe, Types
    <2>3. /\ (pc' = "open" /\ job' \in File) \/ (pc' = "advance" /\ job' = job)
          /\ open' \subseteq 1..MaxTime /\ fresh' = FALSE
        BY <1>1, <2>1 DEF Observe, SaveFrame, Save, Types, TypeOK
    <2>4. /\ UNCHANGED <<files, other, utc, minFree, up, plan, paused, due, bundles, stats,
                         request, reported>>
          /\ up /\ pc = "observe"
        BY <1>1 DEF Observe
    <2>5. TypeOK'
        BY <2>3, <2>4, NoFileAssumption DEF Types, TypeOK, Closed
    <2> QED
        BY <2>2, <2>3, <2>4, <2>5 DEF Types, Plan
<1>2. CASE AdvanceDetector
    <2>1. open' \subseteq open /\ bundles' \subseteq open
        BY <1>2 DEF AdvanceDetector
    <2> QED
        BY <1>2, <2>1 DEF AdvanceDetector, Types, TypeOK, Plan, Closed
<1>3. CASE SaveEvent
    <2>1. Min(bundles) \in 1..MaxTime
        <3>1. bundles \in SUBSET Nat /\ bundles # {} /\ bundles \subseteq 1..MaxTime
            BY <1>3 DEF SaveEvent, Types, TypeOK
        <3> QED BY <3>1, MinIn
    <2>2. [kind |-> "event", time |-> Min(bundles)] \in File
        BY <2>1 DEF File, Kinds
    <2>3. /\ \/ pc' = "open" /\ job' \in File /\ UNCHANGED stats
             \/ UNCHANGED <<pc, job>> /\ stats' = [stats EXCEPT !.droppedEvents = @ + 1]
          /\ bundles' \subseteq bundles
        BY <1>3, <2>2 DEF SaveEvent, SaveBundle, Save
    <2>4. stats' \in [savedEvents : Nat, droppedEvents : Nat]
        BY <2>3 DEF Types
    <2>5. /\ UNCHANGED <<files, other, utc, minFree, up, plan, paused, fresh, due, open,
                         request, reported, budget>>
          /\ up /\ pc = "events"
        BY <1>3 DEF SaveEvent
    <2>6. TypeOK'
        BY <2>3, <2>5, NoFileAssumption DEF Types, TypeOK, Closed
    <2> QED
        BY <2>3, <2>4, <2>5, <2>6 DEF Types, Plan
<1>4. CASE EventsDone
    BY <1>4 DEF EventsDone, Types, TypeOK, Plan, Closed
<1> QED
    BY <1>1, <1>2, <1>3, <1>4

LEMMA WriteTypes ==
    ASSUME Types, Write
    PROVE  Types'
<1> DEFINE Dir == [File -> {"absent", "tmp", "bin"}]
<1>1. /\ UNCHANGED <<other, utc, minFree, up, plan, paused, fresh, open, bundles, request>>
      /\ pc \in {"open", "write", "rename", "sync"} /\ up
    BY DEF Write, OpenTemporary, WriteAndSync, Rename, SyncDirectory
<1>2. job \in File /\ job # NoFile /\ dir \in Dir /\ disk \in Dir /\ plan.left = {}
    BY <1>1 DEF Types, TypeOK, Idle
<1>3. dir' \in Dir
    <2>1. /\ Unlinked \in Dir /\ [dir EXCEPT ![job] = "tmp"] \in Dir
          /\ [dir EXCEPT ![job] = "bin"] \in Dir
        BY <1>2 DEF Unlinked
    <2> QED BY <1>2, <2>1 DEF Write, OpenTemporary, WriteAndSync, Rename, SyncDirectory
<1>4. disk' \in Dir
    BY <1>2 DEF Write, OpenTemporary, WriteAndSync, Rename, SyncDirectory
<1>5. data' \in [File -> {"partial", "flushed"}]
    BY <1>2 DEF Write, OpenTemporary, WriteAndSync, Rename, SyncDirectory, Types, TypeOK
<1>6. Fault \/ NoFault
    BY DEF Write, OpenTemporary, WriteAndSync, Rename, SyncDirectory
<1>7. budget' \in [faults : Nat, crashes : Nat, triggers : Nat]
    BY <1>6, FaultType DEF NoFault, Types
<1>8. CASE Saved(TRUE) \/ Saved(FALSE)
    <2>1. /\ job' = NoFile /\ pc' \in {"advance", "events"} /\ due' \in BOOLEAN
          /\ reported' \subseteq File /\ stats' \in [savedEvents : Nat, droppedEvents : Nat]
        BY <1>2, <1>8, SavedTypes
    <2>2. TypeOK'
        BY <1>1, <1>2, <1>3, <1>4, <1>5, <2>1 DEF Types, TypeOK
    <2> QED
        BY <1>1, <1>7, <2>1, <2>2 DEF Types, Plan
<1>9. CASE UNCHANGED <<job, due, stats, reported>> /\ pc' \in {"write", "rename", "sync"}
    <2>1. TypeOK'
        BY <1>1, <1>2, <1>3, <1>4, <1>5, <1>9 DEF Types, TypeOK
    <2> QED
        BY <1>1, <1>7, <1>9, <2>1 DEF Types, Plan
<1> QED
    BY <1>8, <1>9 DEF Write, OpenTemporary, WriteAndSync, Rename, SyncDirectory

LEMMA OtherTypes ==
    ASSUME Types, Web \/ Environment \/ Restart \/ UNCHANGED vars
    PROVE  Types'
<1> USE DEF files, worker
<1>1. CASE UNCHANGED vars
    BY <1>1 DEF vars, Types, TypeOK, Plan, Closed
<1>2. CASE OpenEventStore
    <2>1. request' \subseteq File /\ UNCHANGED <<files, other, utc, minFree, up, worker, reported, budget>>
        BY <1>2 DEF OpenEventStore, Temporary
    <2> QED
        BY <2>1 DEF Types, TypeOK, Plan, Closed
<1>3. CASE CleanupIncomplete
    <2>1. PICK f : /\ dir' = dir \/ (dir' = [dir EXCEPT ![f] = "absent"] /\ dir[f] = "tmp")
                   /\ request' \subseteq request
        BY <1>3 DEF CleanupIncomplete
    <2>2. dir' \in [File -> {"absent", "tmp", "bin"}] /\ Closed(dir) \subseteq Closed(dir')
        BY <2>1 DEF Types, TypeOK, Closed
    <2>3. UNCHANGED <<disk, data, other, utc, minFree, up, worker, reported, budget>>
        BY <1>3 DEF CleanupIncomplete
    <2>4. TypeOK'
        BY <2>2, <2>3 DEF Types, TypeOK
    <2> QED
        BY <2>1, <2>3, <2>4 DEF Types, Plan
<1>4. CASE Publish \/ PeriodElapses
    BY <1>4 DEF Publish, PeriodElapses, Types, TypeOK, Plan, Closed
<1>5. CASE ClockTicks \/ ClockStepsBack
    <2>1. utc' \in 1..MaxTime
        BY <1>5, StorageBounds DEF ClockTicks, ClockStepsBack, Types, TypeOK
    <2> QED
        BY <1>5, <2>1 DEF ClockTicks, ClockStepsBack, Types, TypeOK, Plan, Closed
<1>6. CASE OthersUse \/ ApplyConfiguration
    BY <1>6 DEF OthersUse, ApplyConfiguration, Types, TypeOK, Plan, Closed
<1>7. ASSUME NEW d \in [File -> {"absent", "tmp", "bin"}], NEW e \in [File -> {"absent", "tmp", "bin"}],
             NEW contents \in [File -> {"partial", "flushed"}], Lost(d, e, contents)
      PROVE  Types'
    <2>1. Plan' /\ plan'.left = {} /\ plan' = Idle
        BY <1>7, IdlePlan DEF Lost, Types
    <2>2. budget' \in [faults : Nat, crashes : Nat, triggers : Nat]
        BY <1>7 DEF Lost, Types
    <2>3. TypeOK'
        BY <1>7, <2>1 DEF Lost, Types, TypeOK
    <2> QED
        BY <1>7, <2>1, <2>2, <2>3 DEF Lost, Types, NoStats
<1>8. CASE Killed
    BY <1>7, <1>8 DEF Killed, Types, TypeOK
<1>9. CASE PowerLoss
    <2>1. PICK kept \in SUBSET {f \in File : dir[f] # disk[f]} :
            Lost([f \in File |-> IF f \in kept THEN dir[f] ELSE disk[f]],
                 [f \in File |-> IF f \in kept THEN dir[f] ELSE disk[f]],
                 [f \in File |-> IF data[f] = "flushed" THEN "flushed" ELSE "partial"])
        BY <1>9 DEF PowerLoss
    <2>2. /\ [f \in File |-> IF f \in kept THEN dir[f] ELSE disk[f]] \in [File -> {"absent", "tmp", "bin"}]
          /\ [f \in File |-> IF data[f] = "flushed" THEN "flushed" ELSE "partial"]
                \in [File -> {"partial", "flushed"}]
        BY DEF Types, TypeOK
    <2> QED
        BY <1>7, <2>1, <2>2
<1>10. CASE Restart
    <2>1. plan.left = {}
        BY <1>10 DEF Restart, Types, Idle
    <2>2. dir' \in [File -> {"absent", "tmp", "bin"}] /\ budget' \in [faults : Nat, crashes : Nat, triggers : Nat]
        BY <1>10 DEF Restart, Types, TypeOK
    <2>3. TypeOK'
        BY <1>10, <2>1, <2>2 DEF Restart, Types, TypeOK
    <2> QED
        BY <1>10, <2>2, <2>3 DEF Restart, Types, Plan
<1> QED
    BY <1>1, <1>2, <1>3, <1>4, <1>5, <1>6, <1>8, <1>9, <1>10 DEF Web, Environment

LEMMA TypesKept == Types /\ [Next]_vars => Types'
BY CleanerTypes, WorkerTypes, WriteTypes, OtherTypes DEF Next, Worker

-----------------------------------------------------------------------------
(* Names and durability *)

Event(t) == [kind |-> "event", time |-> t]

(* No file that is still there gets a second content: the time of a new
   snapshot is that of no file, and an open bundle has no file before its
   save. *)
Names ==
    /\ fresh => pc \in {"top", "probe", "remove", "observe"} /\ Unused(utc)
    /\ \A t \in open \cup bundles : dir[Event(t)] = "absent"
    /\ open \cap bundles = {}
    /\ job # NoFile /\ job.kind = "event" => job.time \notin open \cup bundles
    /\ pc \in {"open", "write", "rename"} => dir[job] # "bin"
    /\ pc = "sync" => dir[job] = "bin"
    /\ pc \in {"rename", "sync"} => data[job] = "flushed"

(* What was reported as saved would also survive a loss of power. *)
Durable ==
    \A f \in reported : dir[f] = "bin" /\ disk[f] = "bin" /\ data[f] = "flushed"

StoreInv == Types /\ Names /\ Durable

LEMMA EventFile ==
    ASSUME NEW t \in 1..MaxTime
    PROVE  /\ Event(t) \in File /\ Event(t).kind = "event" /\ Event(t).time = t
           /\ \A f \in File : f.kind = "event" /\ f.time = t => f = Event(t)
           /\ [kind |-> "frame", time |-> t] \in File
BY DEF Event, File, Kinds

LEMMA StoreInit == Init => Names /\ Durable
BY DEF Init, Names, Durable

(* Files may go, and others may come to nobody's notice, as long as the names
   in use are left alone. *)
LEMMA FilesGo ==
    ASSUME StoreInv, UNCHANGED <<disk, data, utc, fresh, open, bundles, job, pc>>,
           dir' \in [File -> {"absent", "tmp", "bin"}],
           reported' \subseteq reported,
           \A f \in File : dir'[f] = dir[f]
                           \/ (dir'[f] = "absent" /\ f \notin reported' /\ (f # job \/ dir[f] = "tmp"))
    PROVE  Names' /\ Durable'
<1>1. dir \in [File -> {"absent", "tmp", "bin"}] /\ utc \in 1..MaxTime /\ open \cup bundles \subseteq 1..MaxTime
      /\ reported \subseteq File
      /\ (pc \in {"open", "write", "rename", "sync"} => job \in File)
    BY DEF StoreInv, Types, TypeOK
<1>2. ASSUME Unused(utc) PROVE Unused(utc)'
    <2>1. \A kind \in Kinds : [kind |-> kind, time |-> utc] \in File
        BY <1>1 DEF File
    <2> QED BY <1>2, <2>1 DEF Unused
<1>3. \A t \in open \cup bundles : Event(t) \in File
    BY <1>1, EventFile
<1>4. Names'
    BY <1>1, <1>2, <1>3 DEF StoreInv, Names
<1>5. Durable'
    BY <1>1 DEF StoreInv, Durable
<1> QED
    BY <1>4, <1>5

LEMMA CleanerStore ==
    ASSUME StoreInv, Clean \/ BeginPass
    PROVE  Names' /\ Durable'
<1> USE DEF files
<1>1. CASE Remove
    <2>1. PICK f : /\ dir' = dir \/ dir' = [dir EXCEPT ![f] = "absent"]
                   /\ (dir' = dir /\ reported' = reported) \/ reported' = reported \ {f}
                   /\ UNCHANGED <<disk, data, utc, fresh, open, bundles, job, pc>>
                   /\ pc = "remove"
        BY <1>1 DEF Remove
    <2>2. job = NoFile
        BY <2>1 DEF StoreInv, Types, TypeOK
    <2>3. dir' \in [File -> {"absent", "tmp", "bin"}] /\ reported' \subseteq reported
        BY <2>1 DEF StoreInv, Types, TypeOK
    <2>4. \A g \in File : dir'[g] = dir[g] \/ (dir'[g] = "absent" /\ g \notin reported' /\ g # job)
        BY <2>1, <2>2, NoFileAssumption DEF StoreInv, Types, TypeOK
    <2> QED
        BY <2>1, <2>3, <2>4, FilesGo
<1>2. CASE BeginPass \/ BeginCleaning \/ Probe \/ RemoveUnexpired \/ FinishCleaning
    <2>1. /\ UNCHANGED <<dir, disk, data, utc, fresh, open, bundles, job, reported>>
          /\ pc \in {"top", "probe", "remove"} /\ pc' \in {"probe", "remove", "observe"}
        BY <1>2 DEF BeginPass, BeginCleaning, Probe, RemoveUnexpired, FinishCleaning, Cleaned
    <2>2. Unused(utc) => Unused(utc)'
        BY <2>1 DEF Unused
    <2> QED
        BY <2>1, <2>2 DEF StoreInv, Names, Durable
<1> QED
    BY <1>1, <1>2 DEF Clean

LEMMA WorkerStore ==
    ASSUME StoreInv, Observe \/ AdvanceDetector \/ SaveEvent \/ EventsDone
    PROVE  Names' /\ Durable'
<1> USE DEF files
<1>1. /\ UNCHANGED <<dir, disk, data, utc, reported>>
      /\ pc \in {"observe", "advance", "events"}
    BY DEF Observe, AdvanceDetector, SaveEvent, EventsDone
<1>2. Durable'
    BY <1>1 DEF StoreInv, Durable
<1>3. utc \in 1..MaxTime /\ open \cup bundles \subseteq 1..MaxTime /\ job = NoFile
    BY <1>1 DEF StoreInv, Types, TypeOK
<1>4. CASE Observe
    <2>1. /\ \/ open' = open
             \/ fresh /\ open' = open \cup {utc}
          /\ \/ fresh /\ pc' = "open" /\ job' = [kind |-> "frame", time |-> utc]
             \/ pc' = "advance" /\ job' = job
          /\ fresh' = FALSE /\ UNCHANGED bundles
        BY <1>4 DEF Observe, SaveFrame, Save
    <2>2. fresh => /\ utc \notin open \cup bundles /\ dir[Event(utc)] = "absent"
                   /\ dir[[kind |-> "frame", time |-> utc]] = "absent"
        BY DEF StoreInv, Names, Unused, Event, Kinds
    <2>3. \A t \in open' \cup bundles' : dir'[Event(t)] = "absent"
        BY <1>1, <2>1, <2>2 DEF StoreInv, Names
    <2>4. open' \cap bundles' = {}
        BY <2>1, <2>2 DEF StoreInv, Names
    <2>5. pc' = "open" => dir'[job'] # "bin" /\ job'.kind = "frame"
        BY <1>1, <2>1, <2>2
    <2> QED
        BY <1>2, <1>3, <2>1, <2>3, <2>4, <2>5 DEF Names
<1>5. CASE AdvanceDetector
    <2>1. PICK over \in SUBSET open : bundles' = over /\ open' = open \ over
        BY <1>5 DEF AdvanceDetector
    <2> QED
        BY <1>1, <1>2, <1>3, <1>5, <2>1 DEF AdvanceDetector, StoreInv, Names
<1>6. CASE SaveEvent
    <2>1. bundles # {} /\ bundles \in SUBSET Nat /\ bundles \subseteq 1..MaxTime
        BY <1>3, <1>6 DEF SaveEvent
    <2>2. Min(bundles) \in bundles /\ Min(bundles) \in 1..MaxTime
        BY <2>1, MinIn
    <2>3. /\ bundles' = bundles \ {Min(bundles)} /\ UNCHANGED <<fresh, open>> /\ pc = "events"
          /\ \/ pc' = pc /\ job' = job
             \/ pc' = "open" /\ job' = Event(Min(bundles))
        BY <1>6 DEF SaveEvent, SaveBundle, Save, Event
    <2>4. ~fresh
        BY <2>3 DEF StoreInv, Names
    <2>5. Min(bundles) \notin open' \cup bundles' /\ dir'[Event(Min(bundles))] = "absent"
        BY <1>1, <2>2, <2>3 DEF StoreInv, Names
    <2>6. Event(Min(bundles)).time = Min(bundles)
        BY DEF Event
    <2> QED
        BY <1>1, <1>2, <1>3, <2>3, <2>4, <2>5, <2>6 DEF StoreInv, Names
<1>7. CASE EventsDone
    BY <1>1, <1>2, <1>3, <1>7 DEF EventsDone, StoreInv, Names
<1> QED
    BY <1>4, <1>5, <1>6, <1>7

LEMMA WriteStore ==
    ASSUME StoreInv, Write
    PROVE  Names' /\ Durable'
<1>1. /\ UNCHANGED <<utc, fresh, open, bundles>> /\ pc \in {"open", "write", "rename", "sync"}
    BY DEF Write, OpenTemporary, WriteAndSync, Rename, SyncDirectory
<1>2. /\ job \in File /\ job # NoFile /\ ~fresh /\ open \cup bundles \subseteq 1..MaxTime
      /\ dir \in [File -> {"absent", "tmp", "bin"}] /\ disk \in [File -> {"absent", "tmp", "bin"}]
      /\ data \in [File -> {"partial", "flushed"}] /\ reported \subseteq File
    BY <1>1 DEF StoreInv, Types, TypeOK, Names
<1>3. \A f \in File : f # job => dir'[f] = dir[f] /\ data'[f] = data[f]
    BY <1>2 DEF Write, OpenTemporary, WriteAndSync, Rename, SyncDirectory, Unlinked
<1>4. \A t \in open' \cup bundles' : dir'[Event(t)] = "absent"
    <2>1. \A t \in open \cup bundles : Event(t) \in File /\ Event(t) # job
        <3> TAKE t \in open \cup bundles
        <3>1. Event(t) \in File /\ Event(t).kind = "event" /\ Event(t).time = t
            BY <1>2, EventFile
        <3> QED
            BY <1>2, <3>1 DEF StoreInv, Names
    <2> QED
        BY <1>1, <1>3, <2>1 DEF StoreInv, Names
<1>5. \/ job' = NoFile /\ pc' \in {"advance", "events"}
      \/ job' = job /\ pc' \in {"write", "rename", "sync"}
    BY DEF Write, OpenTemporary, WriteAndSync, Rename, SyncDirectory, Saved
<1>6. /\ pc' \in {"write", "rename"} => dir'[job] # "bin"
      /\ pc' = "sync" => dir'[job] = "bin"
      /\ pc' \in {"rename", "sync"} => data'[job] = "flushed"
    BY <1>2 DEF Write, OpenTemporary, WriteAndSync, Rename, SyncDirectory, Saved, StoreInv, Names
<1>7. Names'
    BY <1>1, <1>2, <1>4, <1>5, <1>6 DEF StoreInv, Names
<1>8. CASE SyncDirectory
    <2>1. dir' = dir /\ data' = data /\ dir[job] = "bin" /\ data[job] = "flushed"
        BY <1>8 DEF SyncDirectory, StoreInv, Names
    <2>2. CASE UNCHANGED disk /\ Saved(FALSE)
        BY <1>7, <2>1, <2>2 DEF Saved, StoreInv, Durable
    <2>3. CASE disk' = [f \in File |-> IF f.kind = job.kind THEN dir[f] ELSE disk[f]] /\ Saved(TRUE)
        <3>1. reported' = reported \cup {job}
            BY <2>3 DEF Saved
        <3>2. \A f \in File : disk'[f] = "bin" \/ ~(dir[f] = "bin" /\ (disk[f] = "bin" \/ f = job))
            BY <2>3
        <3> QED
            BY <1>2, <1>7, <2>1, <3>1, <3>2 DEF StoreInv, Durable
    <2> QED
        BY <1>8, <2>2, <2>3 DEF SyncDirectory
<1>9. CASE OpenTemporary \/ WriteAndSync \/ Rename
    <2>1. reported' = reported /\ disk' = disk /\ dir[job] # "bin"
        BY <1>9 DEF OpenTemporary, WriteAndSync, Rename, Saved, StoreInv, Names
    <2>2. job \notin reported
        BY <2>1 DEF StoreInv, Durable
    <2> QED
        BY <1>2, <1>3, <1>7, <2>1, <2>2 DEF StoreInv, Durable
<1> QED
    BY <1>7, <1>8, <1>9 DEF Write

LEMMA OtherStore ==
    ASSUME StoreInv, Web \/ Environment \/ Restart \/ UNCHANGED vars
    PROVE  Names' /\ Durable'
<1> USE DEF files, worker
<1>1. CASE UNCHANGED vars
    BY <1>1 DEF vars, StoreInv, Names, Durable, Unused
<1>2. CASE OpenEventStore \/ PeriodElapses \/ OthersUse \/ ApplyConfiguration
    BY <1>2 DEF OpenEventStore, PeriodElapses, OthersUse, ApplyConfiguration, StoreInv, Names,
        Durable, Unused
<1>3. CASE CleanupIncomplete
    <2>1. PICK f : /\ dir' = dir \/ (dir' = [dir EXCEPT ![f] = "absent"] /\ dir[f] = "tmp")
                   /\ UNCHANGED <<disk, data, utc, fresh, open, bundles, job, pc, reported>>
        BY <1>3 DEF CleanupIncomplete
    <2>2. dir' \in [File -> {"absent", "tmp", "bin"}] /\ reported' \subseteq reported
        BY <2>1 DEF StoreInv, Types, TypeOK
    <2>3. \A g \in File : dir'[g] = dir[g]
                          \/ (dir'[g] = "absent" /\ g \notin reported' /\ (g # job \/ dir[g] = "tmp"))
        BY <2>1 DEF StoreInv, Types, TypeOK, Durable
    <2> QED
        BY <2>1, <2>2, <2>3, FilesGo
<1>4. CASE Publish
    BY <1>4 DEF Publish, StoreInv, Names, Durable, Unused
<1>5. CASE ClockTicks \/ ClockStepsBack
    <2>1. PICK t : utc' = t /\ Unused(t) /\ pc = "top"
                   /\ UNCHANGED <<dir, disk, data, fresh, open, bundles, job, pc, reported>>
        BY <1>5 DEF ClockTicks, ClockStepsBack
    <2> QED
        BY <2>1 DEF StoreInv, Names, Durable, Unused
<1>6. ASSUME NEW d, NEW e, NEW contents, Lost(d, e, contents),
             \A f \in reported : d[f] = "bin" /\ e[f] = "bin" /\ contents[f] = "flushed"
      PROVE  Names' /\ Durable'
    BY <1>6 DEF Lost, Names, Durable
<1>7. CASE Killed
    BY <1>6, <1>7 DEF Killed, StoreInv, Durable
<1>8. CASE PowerLoss
    <2>1. PICK kept \in SUBSET {f \in File : dir[f] # disk[f]} :
            Lost([f \in File |-> IF f \in kept THEN dir[f] ELSE disk[f]],
                 [f \in File |-> IF f \in kept THEN dir[f] ELSE disk[f]],
                 [f \in File |-> IF data[f] = "flushed" THEN "flushed" ELSE "partial"])
        BY <1>8 DEF PowerLoss
    <2>2. \A f \in reported :
            /\ [g \in File |-> IF g \in kept THEN dir[g] ELSE disk[g]][f] = "bin"
            /\ [g \in File |-> IF data[g] = "flushed" THEN "flushed" ELSE "partial"][f] = "flushed"
        BY DEF StoreInv, Types, TypeOK, Durable
    <2> QED
        BY <1>6, <2>1, <2>2
<1>9. CASE Restart
    <2>1. /\ dir' \in [File -> {"absent", "tmp", "bin"}]
          /\ \A f \in File : dir'[f] = dir[f] \/ (dir'[f] = "absent" /\ dir[f] = "tmp")
        BY <1>9 DEF Restart, StoreInv, Types, TypeOK
    <2>2. UNCHANGED <<disk, data, utc, fresh, open, bundles, job, pc, reported>>
        BY <1>9 DEF Restart
    <2>3. \A f \in File : dir'[f] = dir[f]
                          \/ (dir'[f] = "absent" /\ f \notin reported' /\ (f # job \/ dir[f] = "tmp"))
        BY <2>1, <2>2 DEF StoreInv, Durable
    <2> QED
        BY <2>1, <2>2, <2>3, FilesGo
<1> QED
    BY <1>1, <1>2, <1>3, <1>4, <1>5, <1>7, <1>8, <1>9 DEF Web, Environment

LEMMA StoreKept == StoreInv /\ [Next]_vars => StoreInv'
<1> SUFFICES ASSUME StoreInv, [Next]_vars PROVE StoreInv'
    OBVIOUS
<1>1. Types'
    BY TypesKept DEF StoreInv
<1>2. Names' /\ Durable'
    BY CleanerStore, WorkerStore, WriteStore, OtherStore DEF Next, Worker
<1> QED
    BY <1>1, <1>2 DEF StoreInv

LEMMA StoreAlways == Spec => []StoreInv
<1>1. Init => StoreInv
    BY TypesInit, StoreInit DEF StoreInv
<1> QED
    BY <1>1, StoreKept, PTL DEF Spec

(* Every variable of the worker, the stores and the cleaner has its type. *)
THEOREM StorageTypeCorrect == Spec => []TypeOK
BY StoreAlways, PTL DEF StoreInv, Types

(* What write_atomic reported as saved is there, whole, until the cleaner
   removes it: no loss of power and no later save takes it away. *)
THEOREM ReportedIsDurable == Spec => []ReportedDurable
<1>1. StoreInv => ReportedDurable
    BY DEF StoreInv, Durable, ReportedDurable, Readable
<1> QED
    BY <1>1, StoreAlways, PTL

-----------------------------------------------------------------------------
(* The order of removals *)

IsNewest(n, S) ==
    /\ (\E g \in S : g.kind = "frame") =>
          n \in S /\ n.kind = "frame" /\ \A g \in S : g.kind = "frame" => g.time <= n.time
    /\ (\A g \in S : g.kind # "frame") => n = NoFile

(* The cleaner's list is what the directories show. *)
Cleaning ==
    pc = "remove" => plan.left = Closed(dir) /\ IsNewest(plan.newest, Closed(dir))

LEMMA NewestIsNewest ==
    ASSUME NEW S \in SUBSET File
    PROVE  IsNewest(NewestFrame(S), S)
<1>1. CASE \E g \in S : g.kind = "frame"
    <2>1. PICK f \in S : f.kind = "frame"
        BY <1>1
    <2> QED BY <2>1, NewestFrameIn DEF IsNewest
<1>2. CASE \A g \in S : g.kind # "frame"
    <2>1. {f \in S : f.kind = "frame"} = {}
        BY <1>2
    <2> QED BY <1>2, <2>1 DEF NewestFrame, IsNewest
<1> QED BY <1>1, <1>2

LEMMA NewestUnique ==
    ASSUME NEW S \in SUBSET File, NEW n \in S, IsNewest(n, S)
    PROVE  n.kind = "frame" /\ n = NewestFrame(S)
<1>1. n.kind = "frame"
    BY NoFileAssumption DEF IsNewest
<1>2. /\ NewestFrame(S) \in S /\ NewestFrame(S).kind = "frame"
      /\ \A g \in S : g.kind = "frame" => g.time <= NewestFrame(S).time
    BY <1>1, NewestFrameIn
<1>3. n.time = NewestFrame(S).time
    <2>1. n.time <= NewestFrame(S).time /\ NewestFrame(S).time <= n.time
        BY <1>1, <1>2 DEF IsNewest
    <2>2. n.time \in Nat /\ NewestFrame(S).time \in Nat
        BY <1>2, StorageBounds DEF File
    <2> QED BY <2>1, <2>2
<1> QED
    BY <1>1, <1>2, <1>3 DEF File

(* A file the cleaner removes is the oldest it may remove, never the newest
   frame. *)
LEMMA RemovedByCleaner ==
    ASSUME StoreInv, Cleaning, Remove, NEW f \in File, dir[f] = "bin", dir'[f] # "bin"
    PROVE  /\ f \in Removable(plan) /\ f # plan.newest
           /\ \A g \in Removable(plan) : f.time <= g.time
           /\ plan.left = Closed(dir) /\ IsNewest(plan.newest, Closed(dir))
           /\ dir' = [dir EXCEPT ![f] = "absent"] /\ Closed(dir') = Closed(dir) \ {f}
<1>1. plan.left = Closed(dir) /\ IsNewest(plan.newest, Closed(dir)) /\ Removable(plan) # {}
    BY DEF Cleaning, Remove
<1>2. Removable(plan) \in SUBSET File
    BY <1>1 DEF Removable, Closed
<1>3. dir' = [dir EXCEPT ![Oldest(Removable(plan))] = "absent"]
    BY DEF Remove
<1>4. f = Oldest(Removable(plan))
    BY <1>3 DEF StoreInv, Types, TypeOK
<1>5. f \in Removable(plan) /\ \A g \in Removable(plan) : f.time <= g.time
    BY <1>1, <1>2, <1>4, OldestIn
<1>6. Closed(dir') = Closed(dir) \ {f}
    BY <1>3, <1>4 DEF Closed, StoreInv, Types, TypeOK
<1> QED
    BY <1>1, <1>3, <1>4, <1>5, <1>6 DEF Removable

LEMMA CleaningKept == StoreInv /\ Cleaning /\ [Next]_vars => Cleaning'
<1> SUFFICES ASSUME StoreInv, Cleaning, [Next]_vars, pc' = "remove" PROVE Cleaning'
    BY DEF Cleaning
<1> USE DEF files, worker
<1>1. CASE Probe
    <2>1. /\ plan'.left = Closed(dir) /\ plan'.newest = NewestFrame(Closed(dir)) /\ dir' = dir
        BY <1>1 DEF Probe, Cleaned
    <2>2. Closed(dir) \in SUBSET File
        BY DEF Closed
    <2> QED
        BY <2>1, <2>2, NewestIsNewest DEF Cleaning
<1>2. CASE RemoveUnexpired
    <2>1. plan'.left = plan.left /\ plan'.newest = plan.newest /\ dir' = dir /\ pc = "remove"
        BY <1>2 DEF RemoveUnexpired, StoreInv, Types, Plan
    <2> QED
        BY <2>1 DEF Cleaning
<1>3. CASE Remove
    <2> DEFINE f == Oldest(Removable(plan))
    <2>1. plan.left = Closed(dir) /\ IsNewest(plan.newest, Closed(dir)) /\ Removable(plan) # {}
        BY <1>3 DEF Cleaning, Remove
    <2>2. Removable(plan) \in SUBSET File /\ f \in Removable(plan)
        BY <2>1, OldestIn DEF Removable, Closed
    <2>3. f \in Closed(dir) /\ f # plan.newest /\ f \in File
        BY <2>1, <2>2 DEF Removable
    <2> HIDE DEF f
    <2>4. CASE dir' = dir /\ plan' = [plan EXCEPT !.failed = TRUE]
        <3>1. plan'.left = plan.left /\ plan'.newest = plan.newest
            BY <2>4 DEF StoreInv, Types, Plan
        <3> QED
            BY <2>1, <2>4, <3>1 DEF Cleaning
    <2>5. CASE /\ dir' = [dir EXCEPT ![f] = "absent"]
               /\ \/ plan' = [plan EXCEPT !.left = @ \ {f}, !.failed = TRUE]
                  \/ plan' = [plan EXCEPT !.left = @ \ {f}, !.available = Available(dir', other)]
        <3>1. plan'.left = plan.left \ {f} /\ plan'.newest = plan.newest
            BY <2>5 DEF StoreInv, Types, Plan
        <3>2. Closed(dir') = Closed(dir) \ {f}
            BY <2>3, <2>5 DEF Closed, StoreInv, Types, TypeOK
        <3>3. IsNewest(plan.newest, Closed(dir) \ {f})
            BY <2>1, <2>3 DEF IsNewest
        <3> QED
            BY <2>1, <3>1, <3>2, <3>3 DEF Cleaning
    <2> QED
        BY <1>3, <2>4, <2>5 DEF Remove, f
<1>4. CASE CleanupIncomplete
    <2>1. PICK f : dir' = dir \/ (dir' = [dir EXCEPT ![f] = "absent"] /\ dir[f] = "tmp")
        BY <1>4 DEF CleanupIncomplete
    <2>2. Closed(dir') = Closed(dir)
        BY <2>1 DEF Closed, StoreInv, Types, TypeOK
    <2>3. UNCHANGED <<plan, pc>>
        BY <1>4 DEF CleanupIncomplete
    <2> QED
        BY <2>2, <2>3 DEF Cleaning
<1>5. CASE OpenEventStore \/ OthersUse \/ UNCHANGED vars
    BY <1>5 DEF OpenEventStore, OthersUse, vars, Cleaning
<1>6. CASE BeginPass \/ BeginCleaning \/ FinishCleaning \/ Observe \/ AdvanceDetector \/ SaveEvent \/ EventsDone
    BY <1>6 DEF BeginPass, BeginCleaning, FinishCleaning, Cleaned, Observe, AdvanceDetector, SaveEvent,
        EventsDone, SaveFrame, SaveBundle, Save
<1>7. CASE Write
    BY <1>7 DEF Write, OpenTemporary, WriteAndSync, Rename, SyncDirectory, Saved
<1>8. CASE Publish \/ PeriodElapses \/ ClockTicks \/ ClockStepsBack \/ ApplyConfiguration
    BY <1>8 DEF Publish, PeriodElapses, ClockTicks, ClockStepsBack, ApplyConfiguration
<1>9. CASE Killed \/ PowerLoss
    BY <1>9 DEF Killed, PowerLoss, Lost
<1>10. CASE Restart
    BY <1>10 DEF Restart, StoreInv, Types
<1> QED
    BY <1>1, <1>2, <1>3, <1>4, <1>5, <1>6, <1>7, <1>8, <1>9, <1>10
    DEF Next, Worker, Clean, Web, Environment

(* Nothing but the cleaner takes a closed file away while the process runs. *)
LEMMA OnlyCleanerRemoves ==
    ASSUME StoreInv, Next, NEW f \in File, Removed(f)
    PROVE  Remove
<1> USE DEF files
<1>1. up /\ up' /\ dir[f] = "bin" /\ dir'[f] # "bin" /\ dir \in [File -> {"absent", "tmp", "bin"}]
    BY DEF Removed, StoreInv, Types, TypeOK
<1>2. CASE Worker
    <2>1. CASE Write
        <3>1. job \in File /\ (pc \in {"open", "write", "rename"} => dir[job] # "bin")
            BY <2>1 DEF Write, OpenTemporary, WriteAndSync, Rename, SyncDirectory, StoreInv, Types, TypeOK, Names
        <3> QED
            BY <1>1, <2>1, <3>1 DEF Write, OpenTemporary, WriteAndSync, Rename, SyncDirectory, Unlinked
    <2>2. CASE BeginPass \/ BeginCleaning \/ Probe \/ RemoveUnexpired \/ FinishCleaning \/ Observe
               \/ AdvanceDetector \/ SaveEvent \/ EventsDone
        BY <1>1, <2>2 DEF BeginPass, BeginCleaning, Probe, RemoveUnexpired, FinishCleaning, Observe,
            AdvanceDetector, SaveEvent, EventsDone
    <2> QED
        BY <1>2, <2>1, <2>2 DEF Worker, Clean
<1>3. CASE Web
    BY <1>1, <1>3 DEF Web, OpenEventStore, CleanupIncomplete
<1>4. CASE Environment
    BY <1>1, <1>4 DEF Environment, Publish, PeriodElapses, ClockTicks, ClockStepsBack, OthersUse,
        ApplyConfiguration, Killed, PowerLoss, Lost
<1>5. CASE Restart
    BY <1>1, <1>5 DEF Restart
<1> QED
    BY <1>2, <1>3, <1>4, <1>5 DEF Next

(* StorageCleaner::run never removes the newest frame, removes expired files
   first and the older before the younger. *)
THEOREM RemovedInOrder == Spec => RemovalsInOrder
<1> DEFINE Ordered == \A f \in File : Removed(f)
                => /\ f.kind = "frame" => \E g \in Closed(dir') : g.kind = "frame" /\ g.time > f.time
                   /\ \A g \in Closed(dir') :
                         \/ g = NewestFrame(Closed(dir))
                         \/ /\ f.time <= g.time
                            /\ g.time < plan.cutoff => f.time < plan.cutoff
<1>1. StoreInv /\ Cleaning /\ [Next]_vars => [Ordered]_vars
    <2> SUFFICES ASSUME StoreInv, Cleaning, Next, NEW f \in File, Removed(f)
                 PROVE  /\ f.kind = "frame" => \E g \in Closed(dir') : g.kind = "frame" /\ g.time > f.time
                        /\ \A g \in Closed(dir') :
                              \/ g = NewestFrame(Closed(dir))
                              \/ /\ f.time <= g.time
                                 /\ g.time < plan.cutoff => f.time < plan.cutoff
        OBVIOUS
    <2>1. Remove /\ dir[f] = "bin" /\ dir'[f] # "bin"
        BY OnlyCleanerRemoves DEF Removed
    <2>2. /\ f \in Removable(plan) /\ f # plan.newest
          /\ \A g \in Removable(plan) : f.time <= g.time
          /\ plan.left = Closed(dir) /\ IsNewest(plan.newest, Closed(dir))
          /\ Closed(dir') = Closed(dir) \ {f}
        BY <2>1, RemovedByCleaner
    <2>3. Closed(dir) \in SUBSET File /\ plan.cutoff \in Nat /\ plan.expired \in BOOLEAN
          /\ \A g \in File : g.time \in Nat
        BY StorageBounds DEF Closed, File, StoreInv, Types, Plan
    <2>4. ASSUME f.kind = "frame" PROVE \E g \in Closed(dir') : g.kind = "frame" /\ g.time > f.time
        <3>1. f \in Closed(dir) /\ plan.newest \in Closed(dir) /\ plan.newest.kind = "frame"
              /\ f.time <= plan.newest.time
            BY <2>2, <2>4 DEF Removable, IsNewest
        <3>2. f.time # plan.newest.time
            BY <2>2, <2>3, <2>4, <3>1 DEF File
        <3>3. plan.newest.time > f.time /\ plan.newest \in Closed(dir')
            BY <2>2, <2>3, <3>1, <3>2
        <3> QED BY <3>1, <3>3
    <2>5. ASSUME NEW g \in Closed(dir'), g # NewestFrame(Closed(dir))
          PROVE  f.time <= g.time /\ (g.time < plan.cutoff => f.time < plan.cutoff)
        <3>1. g \in Closed(dir) /\ g # plan.newest /\ g \in File
            BY <2>2, <2>3, <2>5, NewestUnique
        <3>2. CASE g \in Removable(plan)
            BY <2>2, <2>3, <3>1, <3>2
        <3>3. CASE g \notin Removable(plan)
            <4>1. plan.expired /\ ~(g.time < plan.cutoff)
                BY <2>2, <3>1, <3>3 DEF Removable
            <4>2. f.time < plan.cutoff
                BY <2>2, <4>1 DEF Removable
            <4> QED BY <2>3, <3>1, <4>1, <4>2
        <3> QED BY <3>2, <3>3
    <2> QED
        BY <2>4, <2>5
<1>2. Init => Cleaning
    BY DEF Init, Cleaning
<1> QED
    BY <1>1, <1>2, StoreAlways, CleaningKept, PTL DEF Spec, RemovalsInOrder

-----------------------------------------------------------------------------
(* Bundles are accounted for *)

(* Completed bundles wait only while the worker saves them. *)
Waiting ==
    bundles # {} => pc = "events" \/ (job # NoFile /\ job.kind = "event")

CountInv == Waiting /\ BundlesAccounted

LEMMA Finite ==
    ASSUME Types
    PROVE  /\ \A S \in SUBSET open : IsFiniteSet(S) /\ Cardinality(S) \in Nat
           /\ \A S \in SUBSET bundles : IsFiniteSet(S) /\ Cardinality(S) \in Nat
<1>1. IsFiniteSet(1..MaxTime)
    BY FS_Interval, StorageBounds
<1>2. \A S \in SUBSET (1..MaxTime) : IsFiniteSet(S)
    BY <1>1, FS_Subset
<1>3. open \subseteq 1..MaxTime /\ bundles \subseteq 1..MaxTime
    BY DEF Types, TypeOK
<1> QED
    BY <1>2, <1>3, FS_CardinalityType

LEMMA CountInit == Init => CountInv
<1> SUFFICES ASSUME Init PROVE CountInv
    OBVIOUS
<1>1. Cardinality(open) = 0 /\ Cardinality(bundles) = 0
    BY FS_EmptySet DEF Init
<1> QED
    BY <1>1 DEF Init, CountInv, Waiting, BundlesAccounted, NoStats

(* Steps that leave the bundles alone *)
LEMMA CountAlone ==
    ASSUME CountInv, UNCHANGED <<open, bundles, job, stats>>, budget'.triggers = budget.triggers,
           up' => up, bundles # {} => pc' = pc
    PROVE  CountInv'
BY DEF CountInv, Waiting, BundlesAccounted

LEMMA CountKept == StoreInv /\ CountInv /\ [Next]_vars => CountInv'
<1> SUFFICES ASSUME StoreInv, CountInv, [Next]_vars PROVE CountInv'
    OBVIOUS
<1> USE DEF files, worker
<1>1. Types /\ (Fault => budget'.triggers = budget.triggers) /\ (NoFault => budget'.triggers = budget.triggers)
    BY FaultType DEF StoreInv, NoFault
<1>2. /\ \A S \in SUBSET open : IsFiniteSet(S) /\ Cardinality(S) \in Nat
      /\ \A S \in SUBSET bundles : IsFiniteSet(S) /\ Cardinality(S) \in Nat
    BY <1>1, Finite
<1>3. /\ stats.savedEvents \in Nat /\ stats.droppedEvents \in Nat /\ budget.triggers \in Nat
      /\ pc \in {"top", "probe", "remove", "observe", "advance"} => job = NoFile /\ bundles = {}
    BY <1>1 DEF Types, TypeOK, CountInv, Waiting
<1>4. CASE BeginPass \/ Clean
    <2>1. /\ UNCHANGED <<open, bundles, job, stats, up>> /\ pc \in {"top", "probe", "remove"}
          /\ Fault \/ NoFault
        BY <1>4 DEF BeginPass, Clean, BeginCleaning, Probe, Remove, RemoveUnexpired, FinishCleaning, NoFault
    <2> QED
        BY <1>1, <1>3, <2>1, CountAlone
<1>5. CASE Observe
    <2>1. /\ bundles = {} /\ bundles' = {} /\ stats' = stats /\ up' = up
          /\ job = NoFile /\ (job' = NoFile \/ job' = [kind |-> "frame", time |-> utc])
        BY <1>3, <1>5 DEF Observe, SaveFrame, Save
    <2>2. \/ open' = open /\ budget'.triggers = budget.triggers
          \/ fresh /\ open' = open \cup {utc} /\ budget'.triggers = budget.triggers + 1
        BY <1>1, <1>5 DEF Observe, Types
    <2>3. Cardinality(open') - Cardinality(open) = budget'.triggers - budget.triggers
          /\ Cardinality(open') \in Nat
        <3>1. CASE open' = open /\ budget'.triggers = budget.triggers
            BY <1>2, <1>3, <3>1
        <3>2. CASE fresh /\ open' = open \cup {utc} /\ budget'.triggers = budget.triggers + 1
            <4>1. utc \notin open /\ IsFiniteSet(open)
                BY <1>2, <3>2 DEF StoreInv, Names, Unused
            <4>2. Cardinality(open \cup {utc}) = Cardinality(open) + 1
                BY <4>1, FS_AddElement
            <4> QED BY <1>2, <1>3, <3>2, <4>2
        <3> QED BY <2>2, <3>1, <3>2
    <2>4. budget'.triggers \in Nat
        BY <1>3, <2>2
    <2>5. ~(job' # NoFile /\ job'.kind = "event")
        BY <2>1
    <2> QED
        BY <1>2, <1>3, <2>1, <2>3, <2>4, <2>5 DEF CountInv, Waiting, BundlesAccounted
<1>6. CASE AdvanceDetector
    <2>1. PICK over \in SUBSET open : bundles' = over /\ open' = open \ over
        BY <1>6 DEF AdvanceDetector
    <2>2. /\ bundles = {} /\ UNCHANGED <<stats, up, job, budget>> /\ job = NoFile /\ pc' = "events"
        BY <1>3, <1>6 DEF AdvanceDetector
    <2>3. Cardinality(open) = Cardinality(over) + Cardinality(open \ over)
        <3>1. over \cup (open \ over) = open /\ over \cap (open \ over) = {}
            BY <2>1
        <3>2. IsFiniteSet(over) /\ IsFiniteSet(open \ over)
              /\ Cardinality(over) \in Nat /\ Cardinality(open \ over) \in Nat
            BY <1>2
        <3>3. Cardinality(open) = Cardinality(over) + Cardinality(open \ over) - Cardinality({})
            BY <3>1, <3>2, FS_Union
        <3> QED BY <3>2, <3>3, FS_EmptySet
    <2>4. Cardinality(bundles) = 0
        BY <2>2, FS_EmptySet
    <2>5. Cardinality(over) \in Nat /\ Cardinality(open \ over) \in Nat /\ Cardinality(open) \in Nat
        BY <1>2
    <2> QED
        BY <1>3, <2>1, <2>2, <2>3, <2>4, <2>5 DEF CountInv, Waiting, BundlesAccounted
<1>7. CASE SaveEvent
    <2>1. bundles # {} /\ bundles \in SUBSET Nat /\ pc = "events" /\ job = NoFile /\ up
        BY <1>1, <1>7 DEF SaveEvent, Types, TypeOK
    <2>2. Min(bundles) \in bundles /\ IsFiniteSet(bundles)
        BY <1>2, <2>1, MinIn
    <2>3. Cardinality(bundles \ {Min(bundles)}) = Cardinality(bundles) - 1
        BY <2>2, FS_RemoveElement
    <2>4. /\ bundles' = bundles \ {Min(bundles)} /\ UNCHANGED <<open, up, budget>>
          /\ \/ UNCHANGED <<pc, job>> /\ stats' = [stats EXCEPT !.droppedEvents = @ + 1]
             \/ pc' = "open" /\ job' = Event(Min(bundles)) /\ UNCHANGED stats
        BY <1>7 DEF SaveEvent, SaveBundle, Save, Event
    <2>5. Min(bundles) \in 1..MaxTime
        BY <1>1, <2>2 DEF Types, TypeOK
    <2>6. Event(Min(bundles)) # NoFile /\ Event(Min(bundles)).kind = "event"
        BY <2>5, EventFile, NoFileAssumption
    <2>7. Cardinality(bundles) \in Nat /\ Cardinality(open) \in Nat
        BY <1>2
    <2>8. CASE UNCHANGED <<pc, job>> /\ stats' = [stats EXCEPT !.droppedEvents = @ + 1]
        <3>1. stats'.droppedEvents = stats.droppedEvents + 1 /\ stats'.savedEvents = stats.savedEvents
            BY <1>1, <2>8 DEF Types
        <3> QED
            BY <1>3, <2>1, <2>3, <2>4, <2>7, <2>8, <3>1 DEF CountInv, Waiting, BundlesAccounted
    <2>9. CASE pc' = "open" /\ job' = Event(Min(bundles)) /\ UNCHANGED stats
        BY <1>3, <2>1, <2>3, <2>4, <2>6, <2>7, <2>9 DEF CountInv, Waiting, BundlesAccounted
    <2> QED
        BY <2>4, <2>8, <2>9
<1>8. CASE EventsDone
    BY <1>8, CountAlone DEF EventsDone
<1>9. CASE Write
    <2>1. /\ UNCHANGED <<open, bundles, up>> /\ pc \in {"open", "write", "rename", "sync"}
          /\ Fault \/ NoFault
        BY <1>9 DEF Write, OpenTemporary, WriteAndSync, Rename, SyncDirectory
    <2>2. job # NoFile /\ job.kind \in {"frame", "event"}
        BY <1>1, <2>1 DEF Types, TypeOK, File, Kinds
    <2>3. CASE UNCHANGED <<job, stats>>
        BY <1>1, <1>3, <2>1, <2>2, <2>3 DEF CountInv, Waiting, BundlesAccounted
    <2>4. ASSUME NEW ok \in BOOLEAN, Saved(ok) PROVE CountInv'
        <3>1. CASE job.kind = "frame"
            BY <1>1, <2>1, <2>4, <3>1 DEF Saved, CountInv, Waiting, BundlesAccounted
        <3>2. CASE job.kind = "event"
            <4>1. stats'.savedEvents + stats'.droppedEvents = stats.savedEvents + stats.droppedEvents + 1
                  /\ stats'.savedEvents \in Nat /\ stats'.droppedEvents \in Nat
                BY <1>1, <1>3, <2>4, <3>2 DEF Saved, Types
            <4>2. job' = NoFile /\ pc' = "events"
                BY <2>4, <3>2 DEF Saved
            <4>3. Cardinality(bundles) \in Nat /\ Cardinality(open) \in Nat
                BY <1>2
            <4> QED
                BY <1>1, <1>3, <2>1, <2>2, <3>2, <4>1, <4>2, <4>3 DEF CountInv, Waiting, BundlesAccounted
        <3> QED
            BY <2>2, <3>1, <3>2
    <2> QED
        BY <1>9, <2>3, <2>4 DEF Write, OpenTemporary, WriteAndSync, Rename, SyncDirectory
<1>10. CASE Web \/ UNCHANGED vars
    BY <1>10, CountAlone DEF Web, OpenEventStore, CleanupIncomplete, vars
<1>11. CASE Publish \/ PeriodElapses \/ ClockTicks \/ ClockStepsBack \/ OthersUse \/ ApplyConfiguration
    BY <1>11, CountAlone DEF Publish, PeriodElapses, ClockTicks, ClockStepsBack, OthersUse,
        ApplyConfiguration
<1>12. CASE Killed \/ PowerLoss
    BY <1>12 DEF Killed, PowerLoss, Lost, CountInv, Waiting, BundlesAccounted
<1>13. CASE Restart
    <2>1. /\ open = {} /\ bundles = {} /\ stats = NoStats /\ job = NoFile
          /\ UNCHANGED <<open, bundles, stats, job>> /\ budget'.triggers = 0
        BY <1>1, <1>13 DEF Restart, Types, TypeOK
    <2>2. Cardinality({}) = 0
        BY FS_EmptySet
    <2> QED
        BY <2>1, <2>2 DEF CountInv, Waiting, BundlesAccounted, NoStats
<1> QED
    BY <1>4, <1>5, <1>6, <1>7, <1>8, <1>9, <1>10, <1>11, <1>12, <1>13 DEF Next, Worker, Environment

(* save_completed_events neither loses a bundle nor counts one twice: each
   first trigger is open, waiting, being saved, saved or dropped. *)
THEOREM EveryBundleAccounted == Spec => []BundlesAccounted
<1>1. CountInv => BundlesAccounted
    BY DEF CountInv
<1> QED
    BY <1>1, StoreAlways, CountInit, CountKept, PTL DEF Spec
=============================================================================
