------------------------------ MODULE Storage ------------------------------
(***************************************************************************)
(* The persistence worker with its frame store, its event store and the    *)
(* storage cleaner, the web requests that open the event store, and the    *)
(* loss of the process.  A pass of the worker applies the configuration,   *)
(* runs the cleaner when its hour is over, saves a frame of a new          *)
(* generation when the period is over, and saves the completed bundles.    *)
(*                                                                         *)
(* A file is written under a temporary name, flushed, renamed and made     *)
(* durable with its directory.  A file is a kind and the wall-clock time   *)
(* in its name: the millisecond together with the generation or identifier *)
(* is taken to be new.  Registers, CSV and the contents of bundles are     *)
(* left out; every closed file takes one unit of space.                    *)
(***************************************************************************)
EXTENDS Naturals, FiniteSets, FiniteSetsExt

CONSTANTS MaxTime,         \* bound on the wall clock
          Retention,       \* retention
          Total,           \* the size of the file system
          Others,          \* space others may take of it
          MinFrees,        \* values of storage.min_free_bytes
          LowPercent,      \* low_watermark_percent
          RecoveryPercent, \* recovery_percent
          RecoveryExtra,   \* recovery_extra_bytes
          MaxBundles,      \* bound on the triggers of one process
          MaxFaults,       \* bound on failing system calls
          MaxCrashes,      \* bound on losses of the process
          NoFile

ASSUME SpaceAssumption ==
    /\ Total \in Nat
    /\ Others \subseteq 0..Total /\ Others # {}
    /\ MinFrees \subseteq Nat /\ MinFrees # {}
    /\ LowPercent \in Nat /\ RecoveryPercent \in Nat
    /\ RecoveryExtra \in Nat /\ Retention \in Nat

ASSUME StorageBounds ==
    /\ MaxTime \in Nat \ {0} /\ MaxBundles \in Nat
    /\ MaxFaults \in Nat /\ MaxCrashes \in Nat

Kinds == {"frame", "event"}
File == [kind : Kinds, time : 1..MaxTime]
ASSUME NoFileAssumption == NoFile \notin File

VARIABLES
    dir,        \* what the directories show: no such file, temporary or closed
    disk,       \* what of it would survive a power loss
    data,       \* contents: part of the bytes, all of them, or flushed too
    other,      \* space taken by others
    utc,        \* the wall clock
    minFree,    \* options_.cleaner_options.min_free_bytes
    up,         \* the process runs
    pc,         \* where the worker is
    job,        \* the file being saved
    plan,       \* the cleaner's run
    paused,     \* writes_paused_
    fresh,      \* the served generation is above last_generation
    due,        \* the period of frames is over
    open,       \* first triggers of the detector's open bundles
    bundles,    \* completed bundles not saved yet
    stats,      \* what stats_ counts of events
    request,    \* temporaries a web request is about to remove
    reported,   \* history: files reported as saved and not removed since
    budget      \* the bounded events that have happened

worker == <<pc, job, plan, paused, fresh, due, open, bundles, stats>>
files == <<dir, disk, data>>
vars == <<dir, disk, data, other, utc, minFree, up, worker,
          request, reported, budget>>

Closed(d) == {f \in File : d[f] = "bin"}
Temporary(d) == {f \in File : d[f] = "tmp"}

(* read accepts a closed file whose length and checksum are right. *)
Readable(f) == dir[f] = "bin" /\ data[f] = "flushed"

(* percent_of *)
PercentOf(total, percent) ==
    LET bounded == Min({percent, 100})
    IN (total \div 100) * bounded + ((total % 100) * bounded) \div 100

Low(free) == Max({free, PercentOf(Total, LowPercent)})

(* saturating_add: the sum is far below the width of uintmax_t here *)
Recovery(free) == Max({Low(free) + RecoveryExtra, PercentOf(Total, RecoveryPercent)})

Available(d, o) ==
    LET used == o + Cardinality(Closed(d))
    IN IF used > Total THEN 0 ELSE Total - used

Idle == [left |-> {}, newest |-> NoFile, cutoff |-> 0, expired |-> FALSE,
         available |-> 0, failed |-> FALSE]

NoStats == [savedEvents |-> 0, droppedEvents |-> 0]

Init ==
    /\ dir = [f \in File |-> "absent"]
    /\ disk = dir
    /\ data = [f \in File |-> "partial"]
    /\ other \in Others
    /\ utc = 1
    /\ minFree \in MinFrees
    /\ up = TRUE
    /\ pc = "top" /\ job = NoFile /\ plan = Idle /\ paused = FALSE
    /\ fresh = FALSE /\ due = TRUE /\ open = {} /\ bundles = {} /\ stats = NoStats
    /\ request = {}
    /\ reported = {}
    /\ budget = [faults |-> 0, crashes |-> 0, triggers |-> 0]

Fault == budget.faults < MaxFaults /\ budget' = [budget EXCEPT !.faults = @ + 1]
NoFault == UNCHANGED budget

----------------------------------------------------------------------------
(* The cleaner *)

(* Mutant: the youngest first *)
BeforeYoungest(f, g) == f.time > g.time \/ (f.time = g.time /\ f.kind = "event" /\ g.kind = "frame")

(* scan_candidates orders by time, then by path: events before frames. *)
Before(f, g) == f.time < g.time \/ (f.time = g.time /\ f.kind = "event" /\ g.kind = "frame")
Oldest(S) == CHOOSE f \in S : \A g \in S \ {f} : Before(f, g)

NewestFrame(S) ==
    LET frames == {f \in S : f.kind = "frame"}
    IN IF frames = {} THEN NoFile ELSE CHOOSE f \in frames : \A g \in frames : g.time <= f.time

(* Mutant: a pause is never left. *)
CleanedSticky(isPaused) ==
    /\ paused' = (paused \/ isPaused)
    /\ plan' = Idle
    /\ pc' = "observe"

(* The end of the cleaner's run *)
Cleaned(isPaused) ==
    /\ paused' = isPaused
    /\ plan' = Idle
    /\ pc' = "observe"

(* One iteration of run up to the cleaner; the hourly cleanup is not due. *)
BeginPass ==
    /\ up /\ pc = "top"
    /\ pc' = "observe"
    /\ UNCHANGED <<files, other, utc, minFree, up, job, plan, paused, fresh, due, open,
                   bundles, stats, request, reported, budget>>

BeginCleaning ==
    /\ up /\ pc = "top"
    /\ pc' = "probe"
    /\ UNCHANGED <<files, other, utc, minFree, up, job, plan, paused, fresh, due, open,
                   bundles, stats, request, reported, budget>>

(* Hysteresis: a pause ends at the recovery level, not at the low one. *)
Enough(available) == available >= IF paused THEN Recovery(minFree) ELSE Low(minFree)

(* StorageCleaner::run up to the removals *)
Probe ==
    /\ up /\ pc = "probe"
    /\ LET available == Available(dir, other)
           candidates == Closed(dir)
       IN \/ /\ Fault                                  \* statvfs fails
             /\ Cleaned(TRUE)
          \/ /\ NoFault
             /\ Enough(available)
             /\ Cleaned(FALSE)
          \/ /\ ~Enough(available)
             /\ \/ /\ Fault                            \* a directory cannot be read
                   /\ Cleaned(TRUE)
                \/ /\ NoFault
                   /\ plan' = [left |-> candidates, newest |-> NewestFrame(candidates),
                               cutoff |-> IF utc > Retention THEN utc - Retention ELSE 0,
                               expired |-> TRUE, available |-> available, failed |-> FALSE]
                   /\ pc' = "remove"
                   /\ UNCHANGED paused
    /\ UNCHANGED <<files, other, utc, minFree, up, job, fresh, due, open, bundles,
                   stats, request, reported>>

(* The candidates of the current loop: expired ones first, then any, but
   never the newest frame *)
Removable(p) ==
    {f \in p.left \ {p.newest} : p.expired => f.time < p.cutoff}

(* remove_candidate *)
Remove ==
    /\ up /\ pc = "remove" /\ ~plan.failed
    /\ plan.available < Recovery(minFree)
    /\ Removable(plan) # {}
    /\ LET f == Oldest(Removable(plan))
       IN \/ /\ Fault                                  \* remove fails
             /\ plan' = [plan EXCEPT !.failed = TRUE]
             /\ UNCHANGED <<dir, reported>>
          \/ /\ dir' = [dir EXCEPT ![f] = "absent"]
             /\ reported' = reported \ {f}
             /\ \/ /\ Fault                            \* statvfs fails
                   /\ plan' = [plan EXCEPT !.left = @ \ {f}, !.failed = TRUE]
                \/ /\ NoFault
                   /\ plan' = [plan EXCEPT !.left = @ \ {f}, !.available = Available(dir', other)]
    /\ UNCHANGED <<disk, data, other, utc, minFree, up, pc, job, paused, fresh, due,
                   open, bundles, stats, request>>

(* The first loop is over and the second begins. *)
RemoveUnexpired ==
    /\ up /\ pc = "remove" /\ ~plan.failed /\ plan.expired
    /\ plan.available < Recovery(minFree)
    /\ Removable(plan) = {}
    /\ plan' = [plan EXCEPT !.expired = FALSE]
    /\ UNCHANGED <<files, other, utc, minFree, up, pc, job, paused, fresh, due, open,
                   bundles, stats, request, reported, budget>>

FinishCleaning ==
    /\ up /\ pc = "remove"
    /\ \/ plan.failed
       \/ plan.available >= Recovery(minFree)
       \/ ~plan.expired /\ Removable(plan) = {}
    /\ Cleaned(plan.failed \/ plan.available < Recovery(minFree))
    /\ UNCHANGED <<files, other, utc, minFree, up, job, fresh, due, open, bundles,
                   stats, request, reported, budget>>

----------------------------------------------------------------------------
(* Saving *)

Save(f) == pc' = "open" /\ job' = f

(* FrameStore::save and EventBundleStore::save: the name carries the time of
   the pass, or that of the first trigger. *)
SaveFrame == Save([kind |-> "frame", time |-> utc])
SaveBundle(first) == Save([kind |-> "event", time |-> first])

(* The worker looks at the served snapshot: the detector may open a bundle,
   and a frame of a new generation is saved when the period is over. *)
Observe ==
    /\ up /\ pc = "observe"
    /\ fresh' = FALSE
    /\ IF fresh
       THEN /\ \/ open' = open /\ UNCHANGED budget
               \/ /\ budget.triggers < MaxBundles
                  /\ open' = open \cup {utc}
                  /\ budget' = [budget EXCEPT !.triggers = @ + 1]
            /\ IF due /\ ~paused
               THEN SaveFrame
               ELSE pc' = "advance" /\ UNCHANGED job
       ELSE pc' = "advance" /\ UNCHANGED <<open, budget, job>>
    /\ UNCHANGED <<files, other, utc, minFree, up, plan, paused, due, bundles,
                   stats, request, reported>>

(* event_detector_.advance hands over the bundles whose window is over. *)
AdvanceDetector ==
    /\ up /\ pc = "advance"
    /\ \E over \in SUBSET open :
          /\ bundles' = over
          /\ open' = open \ over
    /\ pc' = "events"
    /\ UNCHANGED <<files, other, utc, minFree, up, job, plan, paused, fresh, due,
                   stats, request, reported, budget>>

(* Mutant: a bundle dropped during a pause is not counted. *)
SaveEventUncounted ==
    /\ up /\ pc = "events" /\ bundles # {}
    /\ LET first == Min(bundles)
       IN /\ bundles' = bundles \ {first}
          /\ IF paused THEN UNCHANGED <<pc, job>> ELSE SaveBundle(first)
    /\ UNCHANGED <<files, other, utc, minFree, up, plan, paused, fresh, due, open, stats,
                   request, reported, budget>>

(* The next bundle of save_completed_events *)
SaveEvent ==
    /\ up /\ pc = "events" /\ bundles # {}
    /\ LET first == Min(bundles)
       IN /\ bundles' = bundles \ {first}
          /\ IF paused
             THEN /\ stats' = [stats EXCEPT !.droppedEvents = @ + 1]
                  /\ UNCHANGED <<pc, job>>
             ELSE SaveBundle(first) /\ UNCHANGED stats
    /\ UNCHANGED <<files, other, utc, minFree, up, plan, paused, fresh, due, open,
                   request, reported, budget>>

EventsDone ==
    /\ up /\ pc = "events" /\ bundles = {}
    /\ pc' = "top"
    /\ UNCHANGED <<files, other, utc, minFree, up, job, plan, paused, fresh, due, open,
                   bundles, stats, request, reported, budget>>

(* What save's caller does with its answer *)
Saved(ok) ==
    /\ job' = NoFile
    /\ IF job.kind = "frame"
       THEN /\ due' = IF ok THEN FALSE ELSE due
            /\ pc' = "advance"
            /\ UNCHANGED stats
       ELSE /\ stats' = IF ok THEN [stats EXCEPT !.savedEvents = @ + 1]
                              ELSE [stats EXCEPT !.droppedEvents = @ + 1]
            /\ pc' = "events"
            /\ UNCHANGED due
    /\ reported' = IF ok THEN reported \cup {job} ELSE reported

(* write_atomic, one action per system call that can be told apart *)
OpenTemporary ==
    /\ up /\ pc = "open"
    /\ \/ /\ Fault
          /\ Saved(FALSE)
          /\ UNCHANGED <<dir, data>>
       \/ /\ NoFault
          /\ dir' = [dir EXCEPT ![job] = "tmp"]
          /\ data' = [data EXCEPT ![job] = "partial"]
          /\ pc' = "write"
          /\ UNCHANGED <<job, due, stats, reported>>
    /\ UNCHANGED <<disk, other, utc, minFree, up, plan, paused, fresh, open, bundles,
                   request>>

(* unlink of the temporary, if it is still there *)
Unlinked == [dir EXCEPT ![job] = IF @ = "tmp" THEN "absent" ELSE @]

WriteAndSync ==
    /\ up /\ pc = "write"
    /\ \/ /\ Fault
          /\ dir' = Unlinked
          /\ Saved(FALSE)
          /\ UNCHANGED data
       \/ /\ NoFault
          /\ data' = [data EXCEPT ![job] = "flushed"]
          /\ pc' = "rename"
          /\ UNCHANGED <<dir, job, due, stats, reported>>
    /\ UNCHANGED <<disk, other, utc, minFree, up, plan, paused, fresh, open, bundles,
                   request>>

(* rename fails too when a web request has removed the temporary. *)
Rename ==
    /\ up /\ pc = "rename"
    /\ \/ /\ IF dir[job] = "tmp" THEN Fault ELSE NoFault
          /\ dir' = Unlinked
          /\ Saved(FALSE)
       \/ /\ dir[job] = "tmp"
          /\ NoFault
          /\ dir' = [dir EXCEPT ![job] = "bin"]
          /\ pc' = "sync"
          /\ UNCHANGED <<job, due, stats, reported>>
    /\ UNCHANGED <<disk, data, other, utc, minFree, up, plan, paused, fresh, open,
                   bundles, request>>

(* Mutant: the directory is not flushed. *)
SyncNothing ==
    /\ up /\ pc = "sync"
    /\ Saved(TRUE)
    /\ UNCHANGED <<files, other, utc, minFree, up, plan, paused, fresh, open, bundles, request,
                   budget>>

(* The directory is flushed; if that fails the closed file stays but is
   reported as not saved. *)
SyncDirectory ==
    /\ up /\ pc = "sync"
    /\ \/ /\ Fault
          /\ Saved(FALSE)
          /\ UNCHANGED disk
       \/ /\ NoFault
          /\ disk' = [f \in File |-> IF f.kind = job.kind THEN dir[f] ELSE disk[f]]
          /\ Saved(TRUE)
    /\ UNCHANGED <<dir, data, other, utc, minFree, up, plan, paused, fresh, open,
                   bundles, request>>

----------------------------------------------------------------------------
(* The web server, the rest of the system and power *)

(* events_json and latest_event_csv construct an event store, whose
   cleanup_incomplete looks for temporaries.  Listing and reading the closed
   files change nothing, nor does a request that finds no temporary. *)
OpenEventStore ==
    /\ up /\ request = {}
    /\ request' = {f \in Temporary(dir) : f.kind = "event"}
    /\ request' # {}
    /\ UNCHANGED <<files, other, utc, minFree, up, worker, reported, budget>>

(* It removes the next one; if that is gone, the constructor throws. *)
CleanupIncomplete ==
    /\ up /\ request # {}
    /\ LET f == Oldest(request)
       IN IF dir[f] = "tmp"
          THEN /\ dir' = [dir EXCEPT ![f] = "absent"]
               /\ request' = request \ {f}
          ELSE request' = {} /\ UNCHANGED dir
    /\ UNCHANGED <<disk, data, other, utc, minFree, up, worker, reported, budget>>

(* No file and no bundle has this time in its name. *)
Unused(t) ==
    /\ t \notin open \cup bundles
    /\ \A kind \in Kinds : dir[[kind |-> kind, time |-> t]] = "absent"

(* A snapshot the worker has not seen.  The worker looks once in a pass, so it
   is no restriction that snapshots come between passes. *)
Publish ==
    /\ up /\ pc = "top" /\ ~fresh
    /\ Unused(utc)
    /\ fresh' = TRUE
    /\ UNCHANGED <<files, other, utc, minFree, up, pc, job, plan, paused, due, open,
                   bundles, stats, request, reported, budget>>

PeriodElapses ==
    /\ up /\ ~due /\ pc = "top"
    /\ due' = TRUE
    /\ UNCHANGED <<files, other, utc, minFree, up, pc, job, plan, paused, fresh, open,
                   bundles, stats, request, reported, budget>>

(* The worker reads the clock once, at the top of a pass. *)
ClockTicks ==
    /\ pc = "top"
    /\ \E t \in (utc + 1)..MaxTime : Unused(t) /\ utc' = t
    /\ UNCHANGED <<files, other, minFree, up, worker, request, reported, budget>>

ClockStepsBack ==
    /\ pc = "top"
    /\ \E t \in 1..(utc - 1) : Unused(t) /\ utc' = t
    /\ UNCHANGED <<files, other, minFree, up, worker, request, reported, budget>>

(* The cleaner alone looks at the space, when it begins and after a removal. *)
OthersUse ==
    /\ pc \in {"top", "remove"}
    /\ other' \in Others \ {other}
    /\ UNCHANGED <<files, utc, minFree, up, worker, request, reported, budget>>

(* apply_runtime_configuration: the options change at the top of a pass. *)
ApplyConfiguration ==
    /\ up /\ pc = "top"
    /\ minFree' \in MinFrees \ {minFree}
    /\ UNCHANGED <<files, other, utc, up, worker, request, reported, budget>>

(* The process is gone: killed, or with the power; with the power every directory operation that was not
   flushed, and every byte that was not, may be too. *)
Lost(d, durable, contents) ==
    /\ up /\ budget.crashes < MaxCrashes
    /\ budget' = [budget EXCEPT !.crashes = @ + 1]
    /\ up' = FALSE
    /\ dir' = d /\ disk' = durable /\ data' = contents
    /\ pc' = "top" /\ job' = NoFile /\ plan' = Idle /\ paused' = FALSE /\ fresh' = FALSE
    /\ due' = TRUE /\ open' = {} /\ bundles' = {} /\ stats' = NoStats
    /\ request' = {}
    /\ UNCHANGED <<other, utc, minFree, reported>>

Killed == Lost(dir, disk, data)

PowerLoss ==
    \E kept \in SUBSET {f \in File : dir[f] # disk[f]} :
        LET left == [f \in File |-> IF f \in kept THEN dir[f] ELSE disk[f]]
        IN Lost(left, left, [f \in File |-> IF data[f] = "flushed" THEN "flushed" ELSE "partial"])

(* The stores are constructed before the worker and the web server run;
   only the event store removes temporaries. *)
Restart ==
    /\ ~up
    /\ up' = TRUE
    /\ dir' = [f \in File |-> IF f.kind = "event" /\ dir[f] = "tmp" THEN "absent" ELSE dir[f]]
    /\ budget' = [budget EXCEPT !.triggers = 0]
    /\ UNCHANGED <<disk, data, other, utc, minFree, worker, request, reported>>

Clean == BeginCleaning \/ Probe \/ Remove \/ RemoveUnexpired \/ FinishCleaning
Write == OpenTemporary \/ WriteAndSync \/ Rename \/ SyncDirectory
Worker == BeginPass \/ Clean \/ Observe \/ AdvanceDetector \/ SaveEvent \/ EventsDone \/ Write
Web == OpenEventStore \/ CleanupIncomplete
Environment ==
    \/ Publish \/ PeriodElapses \/ ClockTicks \/ ClockStepsBack \/ OthersUse
    \/ ApplyConfiguration \/ Killed \/ PowerLoss

Next == Worker \/ Web \/ Environment \/ Restart

Spec == Init /\ [][Next]_vars

(* The worker's thread runs, its cleanup comes due every hour and the service
   manager restarts the process. *)
FairSpec ==
    Spec /\ WF_vars(Worker) /\ SF_vars(BeginCleaning) /\ WF_vars(Restart)

----------------------------------------------------------------------------
(* Properties *)

TypeOK ==
    /\ dir \in [File -> {"absent", "tmp", "bin"}]
    /\ disk \in [File -> {"absent", "tmp", "bin"}]
    /\ data \in [File -> {"partial", "flushed"}]
    /\ other \in Others
    /\ utc \in 1..MaxTime
    /\ minFree \in MinFrees
    /\ up \in BOOLEAN /\ paused \in BOOLEAN /\ due \in BOOLEAN
    /\ pc \in {"top", "probe", "remove", "observe", "open", "write", "rename", "sync",
               "advance", "events"}
    /\ job \in File \cup {NoFile}
    /\ pc \in {"open", "write", "rename", "sync"} <=> job # NoFile
    /\ plan.left \subseteq Closed(dir)
    /\ open \subseteq 1..MaxTime /\ bundles \subseteq 1..MaxTime
    /\ reported \subseteq File

(* A frame or bundle that was counted as saved is on the disk, whole, until
   the cleaner removes it, whatever is lost with the process or the power. *)
ReportedDurable ==
    \A f \in reported : Readable(f)

(* Every first trigger of this process is accounted for once: its bundle is
   open, being saved, saved or counted as dropped. *)
BundlesAccounted ==
    up => budget.triggers =
              Cardinality(open) + Cardinality(bundles) + stats.savedEvents
              + stats.droppedEvents
              + (IF job # NoFile /\ job.kind = "event" THEN 1 ELSE 0)

Removed(f) == up /\ up' /\ dir[f] = "bin" /\ dir'[f] # "bin"

(* The cleaner never removes the newest closed frame: a younger one remains.
   A file within its retention goes only when every expired one is gone, that
   frame apart, and the older goes before the younger. *)
RemovalsInOrder ==
    [][\A f \in File : Removed(f)
          => /\ f.kind = "frame" => \E g \in Closed(dir') : g.kind = "frame" /\ g.time > f.time
             /\ \A g \in Closed(dir') :
                   \/ g = NewestFrame(Closed(dir))
                   \/ /\ f.time <= g.time
                      /\ g.time < plan.cutoff => f.time < plan.cutoff]_vars

(* When the others leave room for good, writing is resumed. *)
WritingResumes ==
    <>[](other = Min(Others)) => []<>~paused

(* The cleaner and the event store never remove a temporary that is being
   written. *)
WrittenTemporaryKept ==
    [][up' /\ job # NoFile /\ job' = job /\ dir[job] = "tmp" => dir'[job] # "absent"]_vars
=============================================================================
