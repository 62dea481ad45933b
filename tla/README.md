# Specifications of the UHF partial-discharge gateway

TLA+ models of the parts of the gateway in which several processes, a slow serial
device, timeouts, failing steps and losses of power meet. Paths are relative to the
repository (`src/...` is its source directory, `docs/...` its documentation).

## 1. Inventory

| Component | State | Operations | Talks to | Hard behaviour | Correct when |
|---|---|---|---|---|---|
| Network transaction (`src/platform/network/network_transaction.cpp`, `linux_backend.cpp`, `dhcp_client.cpp`) | journal file, `network.json`, vendor files, three lease files, addresses and routes in the kernel, dhclient | stage, confirm, rollback, rollback_if_needed, start_runtime, refresh_runtime | kernel, DHCP server, file system | crash between any two writes, two processes, a deadline, steps of which one fails | the configuration in force is the old one or the confirmed one, and every trial ends |
| Privileged service (`src/platform/privileged/network_service.cpp`, `src/privileged_main.cpp`) | mutex, monitor thread | network commands, recovery at start, monitor every 250 ms | web server over a Unix socket | dies and is restarted; finds the lock taken | it comes back and finishes what was open |
| Recovery (`src/network_recovery_main.cpp`) | none | rollback_if_needed at boot and every five seconds | journal lock | races the service | same |
| Privileged socket, maintenance (`src/platform/privileged/unix_socket.cpp`, `maintenance.cpp`) | one connection at a time | request, answer | web server | I/O limit of 2 s against a 15 s operation | an answer is the answer to its request |
| Network configuration and status | none | validation, read-only status | - | - | pure |
| Acquisition engine and snapshot store (`src/acquisition/acquisition.cpp`) | options, deadline, registers read so far; latest snapshot, availability, alarm | poll_once, quarantine, publish, record_failure | PD1000 over RS-485, every server | late, damaged and missing responses that carry no address | a snapshot is one cycle's answers; the status is truthful; cycles end |
| Event detector (`src/storage/event_detector.cpp`) | armed flag, previous peak, two-frame history, two active bundles, queue | observe, advance, update_options | persistence worker | two overlapping windows, reload in between | every trigger in exactly one bundle, the right frames, truthful marks |
| Persistence worker and stores (`src/storage/persistence_runtime.cpp`, `frame_store.cpp`, `event_store.cpp`, `storage_cleaner.cpp`) | frame and event files, temporaries, paused flag | save, list, clean | file system | crash between write and rename, full disk, clock steps | no torn file is listed, the newest frame survives, writing resumes |
| Configuration store (`src/config/config_store.cpp`) | file, values, version | update, snapshot | all threads | lost update, file and memory apart | version identifies values |
| Gateway runtime (`src/app/gateway_runtime.cpp`) | the servers it owns | start, reload of options and ICD | all servers | reload that fails half way | the old server keeps running or the new one does |
| Web server (`src/web/http_server.cpp`) | sessions, failed logins, WebSocket clients | login, API, live telemetry | everything | slow clients, shared mutex, eviction | slots are given back, the newest state reaches every WebSocket, guessing is limited |
| TLS store (`src/web/tls_context.cpp`) | key and certificate files, context | replace, ensure | web server | crash between two files | key and certificate match |
| ICD store (`src/web/icd_store.cpp`) | current and previous file | replace, restore | IEC server | rebuild fails | file and running model are the same |
| Accounts (`src/web/auth_store.cpp`) | one file, the password in memory, `initial-password` | create, change password | web server | a write that fails after its rename | a confirmed password survives, sessions end with the old one |
| FTP server (`src/ftp/server.cpp`) | connections and their threads, files, temporaries, storage mutex | STOR, RETR, LIST, stop | clients | shutdown or timeout during an upload | the quota holds, uploads are whole, nobody waits for ever, stop returns and leaves nothing behind |
| Modbus TCP and RTU (`src/modbus`) | connections, input buffer | read registers, reload | clients | framing of a byte stream, reload | answers come from one snapshot |
| IEC 61850 server (`src/iec61850`) | model, server | start, stop, update loop | vendored library | reload while running | values and quality belong together |
| Health, logging, watchdog | counters, throttle table | log, recovered | journald | eviction from a bounded table | suppressed entries are counted |

`third_party/libiec61850`, `web/` (browser code), `packaging/` and `tools/` are left aside.
Everything above that can go wrong and that a test would hardly reach is listed, at its
line, under `hazards` in `PROJECT.json`.

## 2. Plan

Order of work, most important behaviour first. What is done:

1. **NetworkTransaction** with the abstract **NetworkPromise**: a mistake here makes a remote
   board unreachable.
2. **EventDetector** and **Acquisition**: what is measured and what is kept.
3. **IecModel**: ICD store, configuration store and the two reloads of the IEC server.
4. **Storage**: worker, stores and cleaner across failing calls and a loss of power.
5. **TlsStore** composed into **WebAdmin**: sessions, passwords, configuration, TLS pair.
6. **ServingView**, **WebSocket** and **ModbusServers** composed into **Serving**: the servers
   that show the newest snapshot.
7. **Ftp**: uploads against quota, disconnection and stop.

What is left: the privileged socket with its two second limit against operations that take
longer; the update loop of the IEC server (values and quality of one snapshot); and the order
of the runtime's shutdown. Every safety property of the runs that hold has a proof (section 5).

## 3. Modules

| Module | Stands for |
|---|---|
| `NetworkPromise` | what an operator may rely on: propose, accept, commit or withdraw |
| `NetworkTransaction` | TransactionManager, LinuxNetworkBackend, NetworkService, recovery process, boot |
| `EventDetector` | EventDetector and the iteration of the persistence worker around it |
| `Acquisition` | AcquisitionEngine, SnapshotStore, the serial line and the device on it |
| `IecModel` | ICD store, ConfigStore, both reloads of the IEC server, its start and stop |
| `Storage` | PersistenceWorker, FrameStore, EventBundleStore, StorageCleaner, the web requests that open the event store, power |
| `TlsStore` | TlsContext and the connections that take its context |
| `WebAdmin` | sessions, login limits, AuthStore, ConfigStore with several editors; extends `TlsStore` |
| `Ftp` | ftp::Server, its listener, one thread per connection, stop |
| `ServingView` | SnapshotStore as its readers see it |
| `WebSocket` | connections of HttpServer, upgrades, run_websocket, the listener's reload |
| `ModbusServers` | ModbusTcpServer and ModbusRtuServer with their peers |
| `Serving` | the composition of the last two over one `ServingView` |
| `MC...` | constants for TLC |
| `...Proofs` | the theorems, one module per component |

### NetworkTransaction

Variables are the files (`journal`, `conf` = network.json, `vendor`, `leases`,
`stagedLeases`, `previousLeases`), the kernel (`addr`, `client`, `boot`, `now`) and the
processes (`svc`, `backendStaged`, and the operation under the journal's flock: `op`, `pc`,
`tx`, `pl`, `cl`, `saved`, `result`). An operation is a sequence of steps; a step ends where
something that survives a crash has changed, so `ServiceCrash`, `RecoveryCrash` and `Reboot`
may come between any two. A step may `Fail`; `write_atomic` may report failure after its
rename, so a failed write leaves the old or the new content. The lock is `op # "none"`; the
service that finds it taken goes on (`StartService`), as `busy` does in the code.

Left out: a second interface (eth0 and eth1 are handled in the same loop), routes apart
from their address, a journal that cannot be read or parsed, the import of the vendor files
at the first start, and the pid and probe files of dhclient. The DHCP server, the board's
boot scripts and systemd are external: a server may answer with any lease or not at all.

### EventDetector

A frame is its generation; peaks are integers or `NoPeak`. `Observe`, `ObserveOld` and
`NothingNew` are the cases of the middle of the worker's iteration, `Advance` its end, with
one time for both as in the code. `expire` is a function of the time (`ActiveAfter`,
`Enqueue`, `DroppedBy`) that `Observe` and `Advance` share. `observed` and `delivered` are
history variables for the reference definitions. `ObserveOld` is reachable only for direct
callers of `observe` (the tests), because the worker checks the generation first.

### Acquisition

A response is two parts, the three-byte header that `read_response` reads first and the
rest. The device answers a request with any kind of reply, each part at most `MaxLate`
later; parts arrive in order. A register block is represented by the request it answers, so
"whose data is this" can be asked of a snapshot. `Tick` lets time pass only when `poll()`
would not have woken the reader, and the acquisition thread is at most one tick late.
`LatenessAssumption` (`MaxLate < Quarantine`) is what the hardware acceptance of the PD1000
has to show; without it the design cannot work, and `SnapshotsPure` makes that explicit.
Left out: delays between frames (any length is allowed), the poll period, saturation of the
32-bit counter, the time a write takes.

### IecModel

`override`, `previous` and `confFile` are the files, `conf`, `server` and `current` the memory
of the process, `pc`, `def` and `nm` the two threads. The web server handles one request at a
time (its state mutex), so `Begin` needs an idle web thread; a request goes on with
`SavePrevious`, `WriteOverride`, `SetName` and the reload (`Load`, `ReadName`, `Install`), or
back with `UndoFiles` and `UndoName`. The acquisition thread takes a `Snapshot` of the
configuration, does `Compare` the names, may reload, and ends with `Endpoint`. `Install` and
`Endpoint` are atomic because iec_mutex_ is held. A write that fails leaves the old or the new
content; `Restart` starts a new process from the files at any moment.

Left out: files that do not pass validation or cannot be read (they change nothing, or the
packaged file is used), requests with an old version of the configuration (refused), bind
addresses (they are all interfaces unless given on the command line), and a process that
cannot start its server at all. The way back of the files is one step; what it leaves behind
when it fails is all that its two writes can leave.

### Storage

`dir` is what the directories show, `disk` what of it would survive a loss of power, `data`
how much of a file's contents has been written and flushed. `pc` is where the worker is in its
pass: `BeginPass` or `BeginCleaning`; `Probe`, `Remove`, `RemoveUnexpired` and
`FinishCleaning` are `StorageCleaner::run`, one removal at a time; `Observe` and `SaveEvent`
start a save, which is `OpenTemporary`, `WriteAndSync`, `Rename` and `SyncDirectory` of
`write_atomic`; any of them may fail. `OpenEventStore` and `CleanupIncomplete` are the web
requests that construct an event store. `PowerLoss` keeps any part of what was not flushed;
`Killed` keeps everything. The clock may step either way, and others may take space at any
time. A file is its kind and the time in its name, and takes one unit; what the detector
decides is a choice here and is modelled in `EventDetector`.

### TlsStore and WebAdmin

`certificate`, `privateKey` and `previous` are the files, `context` what is served, `step` the
place in `TlsContext::replace`, with one action per file; a failing write leaves the old or
the new content. `setup` is a connection between `native()` and `SSL_new`, which runs without
`state_mutex_`: `Swap` frees the context under it, and then everything may happen, the death
of the process included.

In `WebAdmin` a request is one action because `handle_client` holds `state_mutex_`, except
where it writes files. `seen` is the configuration each session's holder has read, so that a
PUT carries the version of what was edited. Requests that change nothing but the expiry of
their session are `Renew` under the name of their handler; those that renew nothing are
`Refused`. `tries` (when wrong passwords came from an address since its record was opened),
`acknowledged` and `doubtful` are history. The tables are unordered maps:
which record a full one loses is a choice.

### Ftp

`conn` is the thread of each connection, `workers` the threads not joined, `lock` the storage
mutex, `files` and `temps` the directory. `STOR` is `Stor`, `Reserve` (quota and temporary,
under the mutex), the reply before the transfer (`Opened` when the peer has taken it),
`DataAccepted` or `DataRefused`, `Receive` for each piece, the end of the transfer in one of
four ways, `Persist` and the last reply (`Answered`), which is sent before the mutex is
released. `RequestStop`, `ShutDown` and `ReapAll` are `stop()`. The waits for a data connection
and for its bytes have deadlines; the wait for the mutex and the replies on the control
connection have none, because `SO_SNDTIMEO` is set on data connections only
(`ftp/server.cpp:185`). `RETR` and `LIST` are one action, `Send`, as they only read; names are
opened through the same check.

### ServingView, WebSocket, ModbusServers, Serving

The servers share nothing but the snapshot store, which they read under its mutex, so
`Serving` lets the peers talk to one of them in a behaviour (`front`): their product says no
more and is too large. The availability changes only for the web server, which alone reads it. A WebSocket's thread is `input` (`WsQuiet`, `WsInput`, `WsBroken`)
followed by `send` (`WsSendAll`, `WsSendPart`, `WsSendFails`), which first replaces `output`
when there is something new (`Updated`). A Modbus TCP connection moves whole requests, one
receive taking any number of them; `MaxOutput` answers fill the output. The RTU server takes
groups of eight bytes from a stream, here of `FrameBytes`, and `FrameOf` keeps the bytes of
different requests apart. The contents of an answer are the generation they come from.

## 4. Runs

| Run | Result | Shows |
|---|---|---|
| `NetSafety` | holds | `SettledConfig`, `ImplementsPromise` with one fault, one crash and one reboot; `LeaseKept`, `AddressMatches`, `MakeBeforeBreak` while nothing fails |
| `NetLiveness` | holds | `PendingResolved`, `ServiceReturns`, `AddressAfterPowerLoss` for static configurations |
| `NetNoDhcpServer` | violated | without a DHCP server the transaction is never closed |
| `Event` | holds | frames, marks of closed bundles and queue; triggers against a reference definition; every bundle, named by the snapshot that opened it, is handed over |
| `Acq` | holds | snapshots of one cycle, cycles that start on a quiet line, truthful status and alarm, cycles end |
| `IecSafety` | holds | the server follows the configuration, survives one failure, and a rejected request is undone |
| `StorageSafety` | holds | what is reported as saved survives, bundles are saved or counted, the cleaner removes expired files and then the oldest but never the newest frame, writing resumes |
| `StorageTemporary` | violated | a web request removes the temporary that is being written |
| `WebAdmin` | holds | sessions end with their password, a confirmed password survives, guessing is limited, no update is lost, the TLS pair is whole |
| `FtpServer` | holds | quota, nothing left behind, waiting uploads are served unless a reply is never taken, stop returns |
| `Serving` | holds | slots, order and completeness of Modbus answers, delivery of the newest state, endpoints |
| `WholeFrames` | violated | a WebSocket frame sent in part is replaced by another |

Bounds. Network: two static configurations are enough for "old, candidate, third", with one
DHCP configuration and two leases for every combination of modes; one tick of window and
three of clock give before, at and after the deadline; one fault, one crash and one reboot
reach every pair of adjacent steps (the theorems remove these bounds for safety). Static
configurations and leases are only compared, so they are symmetric; the liveness run uses no
symmetry. It has no DHCP configuration because of what `NetNoDhcpServer` shows. Detector: a snapshot is
observed only while the collection and the merge window of a bundle it may open still end
within the clock (`Foreseeable`). With a timeout of one, a window of two and a clock of four,
snapshots come at the times 0 to 2: before and at the collection timeout of a bundle opened at
0, after it, at the end of its merge window, and for a second bundle opened later. Three
snapshots are one before the trigger, the trigger and one after it, or one more than the one
frame after it that a bundle takes, or two bundles open at once and a frame for both; the
theorems of section 5 have any number.
Acquisition: two blocks distinguish "this block" from "another", four cycles the alarm of three
with one around it.
IEC model: two files with different names and two ports; two requests let one change what the
other's reload has read, the second failure stands for the server that cannot be started
again, and one restart separates files from memory. Storage: two times and two kinds are four
files, enough for an expired one, the newest frame and one in between; the usages of others
lie below, between and above the two levels. Web: one record of failures and two sessions make
both tables overflow with two addresses and three tokens; a window of four, a block of two and
a lifetime of three within five ticks give every order of their ends; five requests let two
editors read, write and meet a third change. FTP: two clients are an upload and one that waits
for it, three names with room for two files and two units reach both quotas. Serving: one slot
and two web clients contend for it, and the endpoints change twice, so that one may be
configured while the one before cannot be opened; three requests and an output of two answers
let answers wait behind each other and the output overflow (one Modbus client is enough, as
the order is that of one connection); frames of three bytes, reads of four and an input of six give
every offset between reads and requests. Deadlock is not checked where a bounded clock or
counter ends every behaviour.

Fairness. Network: an operation under way takes its next step (a running thread), systemd
restarts the service and the monitor thread polls (weak), the recovery timer fires again and
again although the lock may be taken in between (strong), time passes. The operator is free.
Detector and acquisition: their threads loop for ever, what has been sent arrives, time
passes. Storage: the worker's thread goes on, the supervisor restarts the process (weak); the
hourly cleaning is reached again and again between other passes (strong). FTP: every wait
with a deadline ends, `stop()` runs (weak), and the mutex is handed to each waiting thread in
the end (strong), which POSIX does not promise but the kernel's scheduling gives. A reply is
not fair: a client may never take it, and the mutex stays with it; only when `stop()` has shut
the connection down does it end for certain. `UploadsServed` therefore has the exception of an
unread reply. Serving: every thread loops (weak), and new Modbus options are looked for before
each poll (strong). That a WebSocket which stays connected takes what is pending again and
again (strong, `WsSendAll`) is an assumption about its peer, which the code does not enforce:
there is no send timeout (`http_server.cpp:1833`), and `TelemetryDelivered` is about peers that
keep reading. Apart from that no peer, operator or power is fair.

Disagreements with the documentation are the `findings` of `PROJECT.json`. More were met and
have no run of their own.

- A merge window shorter than the collection timeout stores an incomplete bundle that is not
  marked partial (`event_detector.cpp:156`), where `docs/architecture.md:229` marks every
  incomplete one; `PartialMarked` is stated for bundles whose collection was closed.
- A server that the configuration disabled is not started when it is enabled again
  (`gateway_runtime.cpp:403`), where `docs/implementation-plan.md:191` restarts it; that is
  why `ServerSurvives` excludes a server once disabled.
- The acquisition thread can install an ICD whose upload was rejected, because it reads file
  and name before it takes `iec_mutex_` (`gateway_runtime.cpp:237`): it reads the uploaded file,
  the web thread's reload fails and is undone, and then it reads the old name. The names agree,
  so nothing corrects it, and `docs/architecture.md:138` says the old model is restored.
  `RejectionUndone` speaks of file and name only.
- The deadline of a trial is fixed before the candidate is applied
  (`network_transaction.cpp:447`), where `docs/implementation-plan.md:103` starts it afterwards.
- `confirm` leaves `network.json.previous-leases` behind (`linux_backend.cpp:613`): if the next
  stage dies before it clears the file, the rollback restores the leases of the earlier
  transaction. That is why `LeaseKept` speaks of undisturbed behaviours.
- When the recovery process rolls back, `staged_` of the service stays set
  (`linux_backend.cpp:495`) and its next stage is refused until it restarts.
- When the service dies after `confirm` removed the previous address and the recovery process
  rolls back, nobody adds that address again before the next boot (`linux_backend.cpp:657`).
- A journal that cannot be parsed stops the service at every start
  (`network_transaction.cpp:546`), and a renewed lease with another address is only applied
  after a rollback (`network_service.cpp:219`).
- A data response whose function byte is damaged into an exception is retried after five
  bytes while the rest is still arriving (`acquisition.cpp:273`), against
  `docs/requirements-baseline.md:56`. Such replies are among those of the run `Acq`: nothing of
  them enters a snapshot or a later cycle. `SendsOnQuietLine`, which they violate, is no property
  of the run; it is proved for the case that there are none.
- A loss of the process between the key and the certificate leaves files that do not match, and
  the next start fails although the backups hold a whole pair (`tls_context.cpp:571`;
  `docs/architecture.md:163` calls the replacement atomic). At the first start a failing flush
  leaves one file without the other, with the same effect (`tls_context.cpp:429`). After a success
  the backups are removed (`tls_context.cpp:581`), where `docs/architecture.md:175` keeps the old
  certificate.
- A change of the password whose directory flush fails is answered with an error and counts
  after a restart (`auth_store.cpp:437`); `PasswordAcknowledged` allows it.
- A record evicted from a full table of failures forgets its address's failures
  (`http_server.cpp:2672`).
- An upload that `stop()` interrupts can be renamed and reported as if complete
  (`ftp/server.cpp:703`), where `docs/luna-implementation-brief.md:71` says that a failed upload
  is removed. No property covers it.
- The replies of an upload are sent with the storage mutex held and without a deadline
  (`ftp/server.cpp:678`, `694`, `762`): a client that does not read them keeps every other upload
  waiting. After a rename that fails, the temporary's descriptor is closed a second time
  (`ftp/server.cpp:759`).
- One stray byte on the line shifts the groups of the RTU server for good
  (`rtu_server.cpp:133`), and a pong replaces a telemetry frame that was never sent
  (`http_server.cpp:496`); `RtuAnswered` and `TelemetryDelivered` exclude the two.

## 5. Proofs

All are for every value of the constants under the named assumptions of the modules. Those
assumptions say what types and relations the constants have; the ones that are more than that
are `LatenessAssumption` (section 3), `BlockAssumption` (a block is not longer than the window
of failures: 30 s and 60 s, `http_server.cpp:56`), `ModbusAssumption` (less than a frame and one
read fit the input of the RTU server) and `SlotAssumption` and `SnapshotAssumption` (an empty
slot or optional is not a value).

`NetworkTransactionProofs`: `TypeCorrect`, `ConfigurationSettled`, `Refinement`, `LeasesKept`,
`AddressesMatch`, `MadeBeforeBroken`. The inductive invariant `IInv` adds to `TypeOK` and
`SettledConfig` what each step knows of the transaction it works on: `Named` (a transaction on
record names two configurations), `Working` (the transaction of the operation under way is the
one in the journal), `Progress` (which of network.json and the vendor files have been written at
which step) and `Leased` (a step that hands an address to the kernel has a lease if it needs
one). `SettledConfig` alone is not inductive: that the files agree when the journal says
`rolled_back` depends on the steps before. `Refinement` shows that every initial state maps to
one of `NetworkPromise` and every step to a step of it or a stutter, from the same invariant.
The last three are about undisturbed behaviours and rest on `Orderly`: which process may run
which operation (`Roles`), and for a settled state and each step of a stage, a confirmation and
a rollback which addresses the interface has and what the three lease files hold.

`EventDetectorProofs`: `DetectorTypeCorrect`, `ReasonsExclusive`, `QueueSuffices`,
`FramesGapless`, `PartialsMarked`, `EveryTriggerCounted`. The invariant of the first three adds
that occupied slots have reasons of their own and that the queue is empty when an iteration
starts and holds at most two bundles in the middle of it (`QueueShort`), which is why four
places are enough. The frames need `RingExact` (the history ring is the end of the record of
observations), `Growing` (no generation comes twice, so `append_post_frame` skips none) and
`Marked`. The triggers need `Memory`: `strong_armed_` and `previous_valid_peak_` are all that
the reference reads from the whole record. `EveryTriggerCounted` then follows the counts from
`observe` through `expire` to what was handed over (`Exact`): a trigger that no bundle holds
finds a free slot, because two bundles would hold both reasons between them.

`AcquisitionProofs`: `AcquisitionTypeCorrect`, `SnapshotsPure`, `CyclesStartQuiet`,
`RequestsOnQuietLine`, `StatusesTruthful`. The invariant says what may be on the line at each
point (`Wire`, `Arrivals`): in a cycle only parts of requests of that cycle, and during a
quarantine nothing that is due later than its end. `Read` says which blocks hold the current
cycle's answers. The status needs that `noResponse` is the length of the series of silent cycles
at the end of the record (`SilentSeries`). `RequestsOnQuietLine` assumes that no response is
damaged into an exception and needs `Clean`: then no part of such a response is ever on the
line, and a reply that is retried has been read to its end.

`IecModelProofs`: `IecTypeCorrect`, `ServerStaysUp`, `RejectionsUndone`,
`ConfigurationsFollowed`. `ServerSurvives` is inductive with the types. `RejectionUndone` needs
`Undoing`: a request is answered when the web thread is idle again, its way back is taken only
after a failure, and once the files are back without a second failure they are what they were.
`ConfigurationFollowed` needs `Following`: a thread that is about to install an older name
applies an older version of the configuration, so its work does not count as applied and is
done again. The two about the configuration say nothing of the server's model: section 4 says
how it can be another one than the file's.

`StorageProofs`: `StorageTypeCorrect`, `ReportedIsDurable`, `RemovedInOrder`,
`EveryBundleAccounted`. `ReportedDurable` needs `Durable` (what is reported has its entry and
its contents on the disk already) and `Names`: no file that is there gets a second content,
because the time of a new snapshot is that of no file and a bundle has none before its save.
`RemovalsInOrder` needs `Cleaning`: the cleaner's list is what the directories show, and the
frame it spares is their newest. `Waiting` says that completed bundles exist only while the
worker saves them, so none is there when the next pass collects.

`WebAdminProofs`: `WebTypeCorrect` (with the limits of both tables), `FilesAreServed`,
`WholePairOnDisk`, `NoSessionOutlivesPassword`, `ConfirmedPasswordCounts`,
`UpdatesBuildOnEachOther`, `AttemptsAreLimited`. The parts have invariants of their own. `TlsInv`
says for each step of a replacement what the files and backups hold: `Replacement` as long as one
call has failed and the process lives, when the way back cannot fail again, and `Faultless`
through any losses of the process, when files that do not match have both backups. `AccountInv`
says that the new password of a change under way is among the doubtful ones and that no session
exists while the process starts. `ConfigInv` says that the file is the configuration in memory
or, after a write reported as failed, its successor, and that a version identifies what was read.
`Limits` relates a record of failures to the times of the wrong passwords (`Tracked`): the last
`count` of them are the current run; a run that was completed blocks the address, and of those
before the current run at most `Limit - 1`, left by a window that ended, are less than a block's
time older than its beginning. That is why the bound is twice the limit and not the limit.

`FtpProofs`: `FtpTypeCorrect`, `NothingIsLeft`, `QuotaRespected`. `Holder` says that exactly the
upload with the mutex is past its reservation and only it has a temporary, `Uploads` that
only an upload waits for the mutex or has a file to persist, `Quiet` that nothing is left of the threads afterwards. `Quota` says of the upload with the mutex
that its limit leaves room for the other visible files (`Within`): nobody adds one before it is
through. The sum of the sizes is a fold over a finite set, and what it does when a file is
replaced is proved first, by induction over the subsets of a finite set (`SubsetInduction`,
which is stated for a set of subsets and derived from the well-foundedness of inclusion).

`ServingProofs`: `ServingTypeCorrect` (with the limits of all tables and buffers),
`SlotsAreExact`, `AnswersAreInOrder`, `RtuRequestsAnswered`. Exact slots need `Handing`: a
connection is not yet a WebSocket while its request is served, so no thread gives one slot back
twice. The order of answers is proved for each part of a connection (`Ordered`): output, input
and wire continue each other's numbers, and every answer waiting is at most as new as the
snapshot. The RTU server needs `Aligned`: input and wire together are whole frames from the
first byte on, no request occurs twice among them, and those without an answer are the ones
still there; a read cannot exceed `max_frame_bytes`, so it never throws input away.

Type correctness, `OneBundlePerReason` (`ReasonsExclusive`) and `SendsOnQuietLine`
(`RequestsOnQuietLine`, under its assumption) are proved and not repeated by the runs.

Only model-checked: the liveness properties under fairness (`PendingResolved`,
`ServiceReturns`, `AddressAfterPowerLoss`, `BundlesDelivered`, `CyclesEnd`, `WritingResumes`,
`UploadsServed`, `StopReturns`, `TelemetryDelivered`, `EndpointsFollowed`), which need ENABLED and
are out of the prover's reach, and the three runs that show a disagreement.

## 6. Not modelled

See `components` in `PROJECT.json`: each part has its status and the reason. Formatting of
JSON, pages and files, cryptography, decoding of registers and the protocol stack of
libiec61850 are outside what these models speak about. `scl_model.cpp` and
`network_config.cpp` parse and validate without keeping state; `dhcp_client.cpp` runs the
board's dhclient, whose lease file is all the transaction sees of it.
