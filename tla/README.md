# A TLA+ verification of TeamX

TeamX manages a fleet of terminals: an agent on every device keeps one gRPC
stream to a server, admins list devices, send commands, kick and block, and a
web console follows the fleet live. This directory holds TLA+ models of its
concurrent parts, the TLC runs that check them on small instances, and TLAPS
proofs about nine of them for every value of the constants.

    tlc -workers 2 -config PipelineSafety.cfg MCCommandPipeline.tla
    tlapm CommandPipeline_proofs.tla

`PROJECT.json` lists the runs, the lines of code every definition stands for, a
plausible bug (mutant) that breaks each property, the hazards of the code and
the theorems.

## 1. Inventory

| Part | State it keeps | Operations | What makes it correct |
|---|---|---|---|
| Command delivery (`internal/server/command.go`, `store/command.go`, `client/executor.go`) | `command_logs` rows; per session a `CmdQueue`, a consumer goroutine and timeout watchers | `SendCommand`, consumer, results, timeouts | order and at-most-once per session, a refused command never runs, rows never lie, a command settles |
| Session registry and blocklist (`server.go`, `connection.go`, `store/terminal.go`) | `ConnectionManager` (map of `ClientConn`), `terminals` rows | `Register`, `Channel`, heartbeat, sweep, kick, block, unblock, stop | both online flags tell the truth, the limit holds, kicks and blocks take effect, a stop ends |
| Client agent (`client/client.go`, `executor.go`, `cmd/client/main.go`) | the Run loop, attempt counter, restart and shutdown flags, session context, two goroutines | connect, reconnect, restart, shutdown, signal | sessions never overlap, failures back off, stop requests stop |
| Hardware reports (`client/report.go`, `collector/cache.go`, `store/hardware.go`) | `ReportCache`, `hardware_reports` and its part tables, the pool of connections | report loop, COLLECT_NOW, transaction of a save, reads of one report or all | no duplicates, nothing suppressed that the store lacks, whole reports, no deadlock on the pool |
| Web gateway (`cmd/admin/gateway.go`) | last snapshot, set of sockets | poll, compare, broadcast, RPC proxies | each change told once |
| Web console (`web/src`) | the list shown, requests under way | load, patch, reload | converges to the table |
| Terminal queries (`store/terminal.go`, `server.go`) | the `terminals` rows; a reader's page | count, page, latest session of a device | the newest session is found, pages fit together, the summary adds up |
| Admin command line (`cmd/admin/commands.go`, `output.go`) and the handlers behind it (`server.go`, `store/command.go`, `store/hardware.go`) | none of its own: one RPC per subcommand | show, history, kick, block, unblock, cmd, cmdlog, and the same through the gateway | the answer is the newest there is, a check mark means what it says |
| JSON columns (`store.go`, `store/command.go`, `store/hardware.go`) | two TEXT columns | hand-written encoders and decoders | what is read was written |
| Hardware collection (`client/collector`, `client/sysinfo*.go`) | none; files and system calls | CPU, memory, disks, network, BIOS, board, for a report and for Register | each figure belongs to the part it is told of, sizes add up and can be printed |
| Device fingerprint (`client/fingerprint*.go`) | `~/.teamx/device_id` | read, derive, store | the clients of a machine give one id, those of two machines two |
| Tools, generated code | none | stand-alone scripts, messages | - |

How they interact. The agent calls `Register`, then opens `Channel` with the
session id; commands go down that stream, heartbeats, reports and results go
up. On the server a `Channel` handler runs a receive goroutine, a select loop
and a command consumer; admin RPCs reach it only through shared memory
(`CmdQueue`, `DisconnectCh`, the `Online` flag) and the database. The heartbeat
checker writes the same flag and row. The gateway knows the server only through
`ListTerminals`, the page knows the gateway through two connections (HTTP
answers and WebSocket events) with no order between them.

What is hard here: several goroutines write one row or flag in separate steps;
check and use are apart (`IsFull`/`Add`, blocklist/`Add`, `Online`/enqueue,
`IsChanged`/`MarkSent`); the stream loses a suffix when it breaks; queues and
watchers die with the server; a kick, a restart and a signal may meet; answers
and events cross; a load, a call or an answer is lost; a script leaves a process
that outlives it. `PROJECT.json` "hazards" lists each at its line.

## 2. Modules

**`CommandDelivery`**: the abstract promise. Every session has an order of
accepted commands; they begin in that order, at most once; one that was refused
never begins; the record may lag but only claims what happened.

**`CommandPipeline`** (instances: `MCCommandPipeline`, proofs:
`CommandPipeline_proofs`): the path of a command to one device and back.

- `SendCommand` is `SendOffline`, `SendSave`, then `SendEnqueue` or `SendFull`
  (save and enqueue are apart, as in the code). The consumer is `Dequeue`,
  `SendOK`/`SendFails`, `MarkSent`, `ConsumerExit`; `Timeout` is the watcher.
- The `Channel` handler is `OpenChannel`, `HandleResult`, `Heartbeat`,
  `ChannelLoopEnds`, `ChannelReturns`; `HeartbeatExpires` is the checker.
- The client is `Register`, `Receive`, `FinishWork`, `FinishExit`, `Teardown`,
  `ClientKicked`, `ClientBroken`. A script that is over, or killed at its timeout,
  may leave a process that holds its output (`OutputHeld`): the client is then
  "hung", since `Output()` waits for that process, which may end (`FinishWork`) or not.
- `down` and `up` are what the stream carries; `NetworkLoss`, `ClientCrash` and
  `ServerCrash` cut it and lose a suffix of each.
- `WriteStatus` is every update of a row: unconditional, and it may fail, which
  the code only logs. `accepted`, `started`, `outcome`, `refused` are history.
- Abstractions: sessions are numbered in the order of Register; the `Online`
  check and the save are one step; starting the watcher is one step with the
  write of Sent; flow control never blocks a Send; a device's latest session is
  the last registered (ties are in `TerminalQueries`); the store part of a heartbeat
  is left to `Sessions`.

**`Sessions`** (`Sessions_proofs`): `Register` in its four steps
`RegisterAdmit`/`RegisterFull`, `RegisterCheck`, `RegisterAdd`,
`RegisterUpsert`; the handler with memory and store written in two steps
(`Heartbeat`, `HeartbeatPersist`; `HandlerClears`, `HandlerCloses`); `Sweep`;
kick, block (mark, then kick) and unblock. The process dies (`ServerRestart`),
or is told to stop: after `GracefulStop` it takes no more calls and
`ServeReturns` when those under way, the streams included, are done; either way
it starts again (`Starts`) on the table it left. Time is abstracted: any session
may be found stale at any moment. A failing store call is what the code makes of
it: the block check lets the device through, the upsert leaves no row, an update
leaves the row as it was. `overlap` counts the Register calls that were once
between their check and their Add; `slipped` holds the sessions that a block
could not see.

**`ClientAgent`** (proofs: `Client_proofs`): the agent's control. `run` is the program
counter of the one goroutine that executes Run, connect, recvLoop and the command
handlers; `task` are its heartbeat and report goroutines; `stream` and `inbox` are what
the server and the network do to it. A stream that ended still hands over the
commands received before, and it ended with an error or without (io.EOF, "closed"):
`IsNil` says when connect returns nil, after which Run goes without a backoff. A
script whose output is held is `OutputHeld` and, if ever, `OutputLetGo`. That a Shutdown handler never returns to Run (it
calls `os.Exit` on that goroutine) follows from the model: Run's own check of
`shutdownRequested` is never what stops it.

**`Reports`** (proofs: `Client_proofs`, which extends both modules of the client, so
that the specification is `ReportsSpec` here): the two senders in the steps collect,
check, send, mark; the shared cache; the streams of successive sessions, whose
handlers may overlap; the insert. The snapshot stands for its hash. Rows of the same second are told
apart by `GetLatestHardware` here, which the store does not promise.

**`Gateway`** (`Gateway_proofs`): the table (a row per device, that of its latest session), the
hub's poll in two steps, the socket as a FIFO, the page with requests asked,
answers under way in the order they were read and applied in any order. The
history flags `missed` and `overtaken` say when the design cannot keep up: a
row changed twice between polls or first appeared online, an event found no
open socket, an answer was applied after something newer. A load may fail
(`LoadFails`), at the gateway or behind it: the page shows a message and does not
try again; `failed` is up until a list read after that is on the page. The list
fits on one page and has no filter.

**`TerminalQueries`** (`MCTerminalQueries`, proofs: `TerminalQueries_proofs`): the rows with their one-second
times, a reader that walks the pages of the list (each page a count query and a
page query, with registrations possible in between) and the poll of the hub.
What SQL leaves open is nondeterministic: which of tied rows is the latest
(`Heads`), and their order (`Orders`). `summary` is the last line that `admin list`
prints under a page. `before`, `moved`, `flipped` and `torn` are history.

**`AdminCalls`** (`MCAdminCalls`, proofs: `AdminCalls_proofs`): one admin and the calls of the command line
(`ShowCmd` ... `CmdCmd`), or what a browser may send through the gateway's proxies
(`ProxySendCommand`, `ProxyGetCommandLog`); each handler in as many steps as it has
accesses to the store or the manager (`GetTerminalRow`, `GetTerminalHardware`;
`DisconnectCheck`, `Kick`; `BlockTerminal`, `kickDeviceSessions`;
`SendCommandFinds`, `SendCommandSaves`, `SendCommandQueues`), with terminals that
register, come, go and report in between. `ORDER BY ... LIMIT` is `NewestOf`,
nondeterministic among rows of one second. The `params` column is the sequence of
characters that `marshalJSONMap` writes, for one pair at most without a backslash.
Any call may fail to reach its handler (`CallLost`), and any answer the admin
(`Answers`, which prints the answer or an error): a handler whose answer was lost has
gone to its end, but before the admin's next call. Of a command that was queued,
`UpdateCommandResult` writes whatever the consumer, the watcher or the client may,
Failed included. `Output` is what of an answer reaches the admin.
A limit stands for the code's as 1 and 2 for 50 and 200, or 100 and 500.

**`HardwareInfo`** (`MCHardwareInfo`): one report, or one start of a client,
section by section in the order of the code: files are contents chosen from small
sets, mounts and interfaces are listed first (`readMounts`, `listInterfaces`) and
asked about one at a time (`collectDisk`, `collectNetInfo`, `collectSysNet`) while
the machine changes under them; a list that cannot be read leaves its section empty. Then the columns (`SaveHardwareReport`, with
`Int64`), the loaders (`LoadHardware`), and the printed block. Sizes are `Width`
bits wide and wrap; a kilobyte is `2^UnitBits`. With a width of 13 and a unit of
4 there are seven units, as there are with 64 bits and 1024.

**`ReportStore`** (proofs: `ReportStore_proofs`): goroutines that call the store,
each with its place in the call (`pc`). A save is `Begin`, `InsertMain` (which
takes SQLite's write lock), `InsertPart` for each part, `Commit` or `SaveFails`;
a read is `QueryLatest`, or `QueryHistory` and `ScanHistory`, then `QueryPart`
and `ReadPart` for every part of every report. `busy` are the callers that keep a
connection of the pool. `Reports` sees the same tables as one atomic insert: this
module is why it may.

**`Fingerprint`** (`MCFingerprint`, proofs: `Fingerprint_proofs`): client processes in the steps read,
collect, open (which truncates), write; machines whose hardware, name and kernel
change and that reboot. A client runs in an account, a user of a machine with the
home directory of its environment: the file belongs to the account, and what can be
read of the machine's sources is chosen anew each time (`seen`), for `product_uuid`
is root's. An id is the sequence of strings that is hashed. The file is missing,
truncated or an id; a place that cannot be written and the temporary directory are
where `deviceIDCachePath` may lead. Users who share a temporary directory are one
account.

Modules that hold mutants define each right before the definition it distorts,
with a comment `Mutant:`; no action uses them.

## 3. Runs

| Run | Instance | Shows |
|---|---|---|
| PipelineSafety | 2 commands (work, restart), queue of 1, 2 sessions, 1 server crash | `TypeOK`, `NothingLostWhileUp`, `InOrder`, and that the pipeline implements `CommandDelivery`: a command begins at most once, and never after it was refused |
| PipelineLive | 2 commands (work, shutdown), 1 session, 1 failing write, fairness | `RecordTruthful`, `QueuedBegins`, `QueuedSettles` |
| Sessions | 1 device, 2 sessions, limit 1, 1 crash, signal or failing store call, fairness | `OvershootBounded`, `OnlineIsAttached`, `RowOnlineIsAttached`, `BlockHolds`, `KickCloses`, `GoneShownOffline`, `PresentShownOnline`, `StopEnds` |
| ClientAgent | any number of sessions, each ended in any of three ways, attempts saturating at 2, 2 unread commands, scripts held for good or not, fairness | `OneSession`, `NoHotReconnect`, `DeniedStops`, `RestartReconnects`, `SignalStops` |
| Reports | 2 snapshots, 2 changes, 2 sessions, 1 client restart, 1 failing save, fairness | `CachedWasSent`, `NoRepeat`, `StoreCatchesUp` |
| ReportStore | 3 callers, 3 calls, 2 reports of 2 parts, 2 connections, 1 failing statement, fairness | `TypeOK`, `NoHoldAndWait`, `SnapshotWhole`, `EveryCallReturns` |
| Gateway | 2 devices, 2 sessions each, 2 changes of an online column, any load may fail, fairness | `EventsTellChanges`, `PageCatchesUp` |
| Queries | 3 devices, 4 rows, 4 seconds, pages of 1 or 2, 1 change of an online column | `WalkComplete`, `WalkSkipsNone`, `SummaryCounts` |
| Fingerprint | 2 clients of 1 or 2 accounts, on one machine or two, 1 source, 1 change, 1 reboot or failing write | `StoredIdIsKept`, `SharedIdHasReason` |
| AdminCalls | 2 devices, 2 sessions, 2 commands, 2 reports, 2 seconds, limits 0, 2 and 3, 6 ranges, 1 failing statement, any call or answer lost, 5 changes | `AnswersRight`, `LogTruthful`, `MarkTold` |
| HardwareInfo | 7 contents of cpuinfo, 6 of meminfo, 4 tables of mounts, 3 sets of interfaces, 1 change of the machine, 1 failing call | `CollectedIsOwn`, `MemoryAddsUp`, `ShownIsCollected` |

One run is expected to fail, showing a difference between the code and what the
repository says:

| Run | What happens | What is said |
|---|---|---|
| ResultOverwritten | the consumer writes Sent after the send and replaces the Completed already reported | `docs/protocol.md:207`: Completed, Failed, Timeout are final |

Other differences met while modelling, without a run of their own. Where a
property would fail because of one, its premise excludes it by name.

- A command still queued when its session ends has no watcher and stays Pending
  (`command.go:139`; `docs/protocol.md:208`: without a final response, Timeout).
- A late result replaces Timeout, and a late Executing may be the last word of a
  session that breaks (`store/command.go:41`).
- `CmdQueue` does not fill behind a running command (`command.go:118`,
  `docs/phase5-verification.md:375`).
- A kick that meets a restart is never read, and the client registers again
  (`client.go:229`; `TerminalList.tsx:140`: the client will exit permanently).
- Sessions that ended stay in the manager and count against the limit: nothing
  calls `Remove` (`connection.go:76`; `docs/phase3-verification.md:382`: after
  client 1 is closed client 2 connects). Overlapping Register calls exceed the
  limit (`server.go:36`, bounded by `OvershootBounded`).
- A session that was past the blocklist check and not marked online when a block
  kicked the others is served on (`server.go:340`, in `slipped`;
  `TerminalList.tsx:164`: all active sessions will be kicked). Its new row is not
  marked blocked either, and the list shows it so.
- An id that names no device, such as the 16 characters the list prints of it, is
  blocked with a check mark (`cmd/admin/commands.go:190`, `output.go:53`).
- A session that ends between the two looks of `DisconnectTerminal` was "kicked"
  (`server.go:311`; `MarkTold` allows it in `gone`).
- The bounds of a history are compared as texts: those of another zone, which
  "RFC3339" allows, are wrong (`store/hardware.go:188`,
  `cmd/admin/commands.go:149`; excluded from `HistoryIsRange`).
- A report whose query failed is shown as "(no report yet)" (`server.go:274`).
- `used` of a machine without MemTotal wraps (`hardware_linux.go:118`; excluded from
  `MemoryAddsUp`).
- Rows of sessions alive at a crash stay online (`cmd/server/main.go:59`).
- A device that registers again within a second has two latest rows, and a
  command may find the ended one (`store/terminal.go:80`, `store/store.go:35`;
  excluded by `Apart`, allowed by `ShowFresh`).
- The hub asks for no page size and compares the first 50 devices
  (`cmd/admin/gateway.go:209`, against line 22; excluded by `Covers`). `admin list`
  subtracts the online terminals of one page from the total of all
  (`cmd/admin/output.go:70`; excluded from `SummaryCounts`).
- A report of an older snapshot may be stored last while the cache names the
  newer one (`executor.go:72`; excluded from `StoreCatchesUp`). A part whose query
  fails is returned as if the device had none (`store/hardware.go:254`; excluded
  from `SnapshotWhole`).
- Two users of a machine read different sources and keep an id each in their home
  directories (`fingerprint.go:69`; `docs/phase4a-verification.md:36`: never changes on the
  same machine; `StoredIdIsKept` speaks of one account).
- An id that could not be stored is computed anew from changed hardware
  (`docs/phase4a-verification.md:36`: never changes on the same machine; excluded
  from `StoredIdIsKept`).
- A script that leaves a process which holds its stdout outlives its timeout: that
  kills the shell, and `Output()` waits on (`executor.go:130`; `docs/protocol.md:277`: a
  client must finish (or timeout) command N before N+1; `docs/phase5-verification.md:271`:
  after 3 seconds). A kick or a signal waits for as long as that is so (excluded from
  `DeniedStops` and `SignalStops`, as commands behind it are from `QueuedBegins` and
  `QueuedSettles`).
- A stream that a server closes without an error is followed by a Register without a
  backoff (`client.go:278`, `:138`; allowed by `NoHotReconnect`). The `Channel` of this
  server closes so only after a CloseSend, which the client never makes.
- A load of the list that fails is not tried again (`TerminalList.tsx:94`; excluded from
  `PageCatchesUp` until a later load succeeds).
- An admin whose reply is lost reads an error though the command may be queued; a retry
  is then a second command (`cmd/admin/commands.go:260`; `MarkTold` says what may be).
- Command parameters are always read back empty, or, with a key that ends in a quote, as
  another pair (`store/command.go:237` stops at the colon that `marshalJSONMap` writes; line
  220: handles the format produced by marshalJSONMap; no property speaks of them).
- A list element that ends in a backslash runs into the next (`store/hardware.go:345`). `seq` numbers may leave the client
  out of order (`client.go:258`, `docs/protocol.md:275`).

**Bounds.** Two sessions let a command meet the restart of its session and a
queue left behind; a queue of one fills with one command waiting. Two commands
can only be swapped or lost one by one: order among more of them, and with longer
queues, rests on the theorems of section 4. Two overlapping Register calls exceed
a limit of one, and one of two sessions can slip past a block of the other; that
the excess does not grow with more, and that the block holds for any number of
devices and sessions, are theorems. A failure is a crash, a signal or a failing
store call, one in a behaviour: each of the premises that exclude one is then met
in the behaviours with another. Two unread
commands give a command behind a restart. Two changes of the hardware return it
to where it was. Two connections and three callers let two calls use up the pool
while a third waits; three calls are a save, its replay and a read. Four rows and
pages of one or two give three pages, a row pushed from one to the next, and a
last page that is full; the sizes 1 and 2 stand for 50 and 500. Two reports or
commands within a second or not, with a limit of one, of two and one beyond the
maximum, meet every case of an order and a limit; five changes are a session that
comes and goes while a command is saved and another registers. The contents of
`MCHardwareInfo` hold each order of fields, an unreadable number, a missing file, a
mount covered by another and a total in the upper half of the width. Two accounts may be of one machine or of two, and
one change makes a second value. One crash, one
fault is enough to reach each error path, from every state.

`MaxSession`, `MaxCrash`, `MaxRestart`, `MaxStoreFault`, `MaxFailure`,
`MaxAttempt`, `MaxInbox`, `MaxChange`, `MaxGen`, `MaxFlip`, `MaxFetch`,
`MaxRefresh`, `MaxRow`, `MaxEntry`, `MaxSecond`, `MaxCall`, `MaxFault` and the guard
`Watched` are bounds of the models, not of the code. Deadlock is not checked: with
the bounded events spent and the client stopped, every model may come to rest.
That nobody waits for ever is a property where it matters (`NoHoldAndWait`,
`EveryCallReturns`, `StopEnds`).

**Fairness.** Weak fairness for steps of goroutines, for timers and tickers, and
for calls that return (the shell of a RUN_SCRIPT is killed at its timeout; a cut stream is
noticed by both ends; a load is answered or fails). Never for a command in which a
process holds the output of a script: `Output()` without a WaitDelay waits for it, and
the properties that would need an end of it name the case. Strong fairness where Go's `select` picks at random among
ready cases: the handler's return after a kick (`HandlerClears`), a ticking
goroutine that sees its context cancelled, and recvLoop's notice of the end. The
return of `Serve` is weakly fair: it waits for nothing but the streams.
Callers of the store go on when they can
(weak, per caller): calls are bounded, so nobody is overtaken for ever. Never for
admins, devices, users, crashes or the network. Symmetry is used only
in safety runs.

## 4. Proofs

All for every set of commands or sessions, every capacity and every bound.

**`CommandPipeline_proofs`**
- `PipelineTypeOK`: `Spec => []TypeOK`.
- `PipelineInOrder`: in every session the commands begun are a prefix of those
  accepted. This is not inductive: a cut drops what is in flight, and what was
  begun must still be a prefix. The invariant `OrderInv` says that in each
  session accepted = delivered, then a rest, and that while the link is up the
  rest is exactly what is in flight, in hand and queued; that a session not yet
  registered is empty. TLC checked it before it was proved.
- `PipelineNothingLost`: `NothingLostWhileUp`, from the same invariant.
- `PipelineRecordTruthful`: `RecordTruthful`. A row is written by the consumer, the
  watcher, the handler and SendCommand, each from what it holds, so the invariant
  must say where a command can be: `AcceptedOnce` (what a session accepted are the
  commands queued for it, each once), `WaitsOnce` (a command waits in one place of
  one session, and what is unsent there is on no stream), `GivenUp` (what was given up
  on is on no stream and has no watcher) and `ResultsTruthful` (results under way tell
  what happened). `PipelineInv` is their conjunction with `OrderInv`.
- `PipelineImplements`: the refinement of `CommandDelivery`, step by step, from
  `PipelineInv`: `SendEnqueue` accepts, `Receive` begins, `SendFails` and
  `SendFull` refuse, every write of a row records something that happened, and the
  rest are stutters.

**`Sessions_proofs`**
- `SessionsTypeOK`, with the clause that only accepted ids are in the manager
  and the table.
- `OnlineAttached` and `RowOnlineAttached`: the flag in memory, and without a
  crash or a failed update the row, belong to a handler that has not returned; so
  a process that stops by a signal, which waits for its handlers, leaves no row
  online.
- `BlockTakesHold`: `BlockHolds`. It is not inductive: a handler opens later than
  the block. The invariant `BlockInv` says of every session of a blocked device
  that is past its check that it has been kicked or has slipped, unless the kicks
  of the block are still to come, and that only rows that exist are blocked.
- `CapacityBound`: the manager exceeds the limit by at most the number of
  Register calls that have overlapped less one. The invariant counts the sessions
  in the manager together with the calls past the check; the proof uses the
  library's theorems about cardinality.

**`Client_proofs`**, about `ClientAgent`
- `SessionsDoNotOverlap`: `OneSession`, with the types of the two goroutines. A
  goroutine that runs shows that Run is in a session, since between sessions all
  are off; connect waits for them before it returns.
- `BackoffUnlessAsked`: `NoHotReconnect`. The invariant says that the restart flag
  is up only between the handler of a restart and the return of connect, which
  that handler caused, and that every other return counts an attempt, but that of a
  stream closed without an error.

and about `Reports`
- `CacheVouchesForSent`: `CachedWasSent`; what a sender is about to mark it has sent.
- `TurnsDoNotRepeat`: `NoRepeat`. It is not inductive: between the check and the
  report the cache could change. The invariant says that as long as no sender
  began while the other was at work, one works at most, the cache is what was sent
  last (or about to be), and what will be sent differs from it.

**`ReportStore_proofs`**: one invariant, `ReportStoreInv`, kept by each of the 17
actions (a lemma each): a stored report has each part once; a save holds the write
lock from its first insert, has written the parts before the next one, and its
report is in the tables only if it was a replay; a reader's report is stored and
the parts before the next one have been read; a connection is kept only at five
places. From it:

- `ReportStoreTypeOK`, where the rows of a part are at most one.
- `PoolNoHoldAndWait`: for every pool size, so also for the pool of one that the
  comment at `store/hardware.go:202` speaks of.
- `ReadersSeeWhole`: `SnapshotWhole`. It is not inductive: what has been read says
  nothing of a table that may change between two queries, unless a stored report
  never changes again, which in turn needs the lock and the check of replays.

**`Gateway_proofs`**: `GatewayEventsTellChanges`. `EventsTellChanges` says of the
events on a socket what the hub's baseline was when each was sent, and a poll may
compare with a snapshot that is old when it arrives. The invariant adds that the
sessions of a device only become newer, from the baseline to the snapshot read and
from there to the table (`Monotone`), and that no event tells of a session the
baseline has not seen (`EventsKnown`).

**`Fingerprint_proofs`**, with the invariant `FingerprintInv`:

- `FingerprintKeepsId`: `StoredIdIsKept`. It is not inductive: a client about to
  write could change the file under an id in use. The part `Kept` says that in an
  account without overlap and loss who generates is alone, finds no id in the file
  and is the first to register, so that what it truncates was nobody's; and that an
  id in use is the one in the file. It speaks of an account, not of a machine, of which
  it is false.
- `FingerprintSharesWithReason`: `SharedIdHasReason`. The part `Reasons` says that
  every id in use, stored or about to be stored begins with a value its machine has
  or had; the lemma `DerivedId` that `GenerateDeviceID` makes such an id, from whichever
  sources are valid.

**`TerminalQueries_proofs`**, for any rows, pages and page size. The rank of a wanted
row is the number of wanted rows that are newer; the lemmas `HeadsAreNewest`,
`OrdersByRank` and `PageHas` say that a page shows the rows whose ranks follow its offset.

- `WalkShowsAll`: `WalkComplete`, from `CountRight` and `Prefix`: while nothing has
  changed, what was shown are the rows of the first ranks, up to the offset.
- `WalkDoesNotSkip`: `WalkSkipsNone`, from `Ahead`: a device that has not moved has been
  shown or has a rank not below the offset; a registration takes one row away and
  puts one in front, so that no rank of another device falls (`RegisterStep`).
- `SummaryIsRight`: `SummaryCounts`, from the same and the cardinality of a difference.

**`AdminCalls_proofs`**, for any devices, limits, ranges and texts, with the invariant
`AdminInv`. None of the three properties is inductive: they speak of a call that has
been answered, and say nothing of one under way. `HandlerInv` says of every stage of a
handler what it has found and done so far, while terminals come, go, register and
report: the session found is of the device asked for and no older than what there was
when the call came in (`FoundForShow`); the last row of the log is the command's and in
no queue (`SavedForCmd`, `NotQueuedYet`); who was online when looked up is online or
left during the call (`FoundForKick`, `KnownBefore`). `LogRows` says of every row of the
log that it encodes the command given and belongs to a session of its device. All that
the terminals do is one action, `OutsideStep`; a lemma for each handler's step follows.

- `QueriesAnswerRight`: `AnswersRight`. Its core are the lemmas about `NewestOf`: what is
  newest depends only on the rows asked for and their times (`NewestAgrees`), so that an
  answer stays right while rows are added and commands end; one row of which none is
  newer is found if there is any (`NewestOne`); and bounds in UTC, read as texts, are
  bounds on the time.
- `LogTellsTruth`: `LogTruthful`. A row in no queue is Pending or Failed, since only a row
  in a queue is written by anyone but the call that could not queue it.
- `MarkTellsTruth`: `MarkTold`. Before a command is queued no later one is (`NotQueuedYet`),
  so an answer that was lost leaves none but its own. That a kick, or the kicks of a block, reach every session
  there was when the call came in needs `KnownBefore`: whoever is not online now is noted
  as gone.

TLC checked each of these invariants, on the instances of section 3, before it was
proved. The proofs rest on the named assumptions of the modules: the bounds are
numbers, `None` is no command, report, row number or caller, `NoDevice` no device, the
sets of session ids and of the gateway's devices are finite and there is a device,
placeholders and the marks of a file without an id are no hardware identifiers, the
default page size and limits are positive and no larger than the largest, and what is
asked for are whole numbers and times.

Only model-checked, and why:

- All liveness properties: fairness and ENABLED are out of the prover's reach.
- `HardwareInfo`. `CollectedIsOwn` (its part `CpuOfBlocks`) and `MemoryAddsUp` speak of a
  loop over the lines of a file, a fold; `ShownIsCollected` of the recursive loop of
  `formatBytes`, of lists that are encoded and decoded, and of `2 ^ Width`. What a fold,
  a recursive definition or a power is for every argument needs an induction over data,
  which the installed provers cannot do. `DisksOwn` and `AddressesOwn` need to know what
  `SelectSeq` leaves of a list, which takes an operator and is out of their reach too;
  `DisksOwn` besides holds only of tables that name no mount twice, as those of the run.
- For the same reason `Valid` of `Fingerprint` states by position which values a
  selection leaves, and the parameters of `CmdCmd`, which `SelectSeq` picks, are of no
  particular set in the proofs about `AdminCalls`. `@@` is a symbol the provers know
  nothing of: `CmdLogCmd` spells its record out.

## 5. Not modelled

- Flow control of a stream: planned as `StreamFlow`.
- `TransferFile`, a stub, and what the end of the gateway does to answers under way
  (`cmd/admin/serve.go:57`: the process ends as soon as `Shutdown` has begun).
- The delay that `backoff` computes: arithmetic on one number.
- An admin's next call that overlaps a handler whose answer was lost; several parameters,
  and backslashes in them.
- Escapes within other texts, widths and wording of what is printed, timestamps beyond
  their order; TerminalDetail, CORS, routing: no state of interest.
- What the driver makes of the DSN (`store/store.go:143`); a statement may fail in
  every model that has a store.
- `src/tools`: stand-alone scripts. Generated code.

## 6. Plan

In order of importance; each with its runs and, where possible, theorems.

1. `StreamFlow`: one stream with bounded windows, both receive loops, the two
   senders of each end. Question: can everyone wait on everyone?
2. `TeamX`: `Sessions` composed with `CommandPipeline` for two devices, with
   crash recovery stated across both.
