# A verification project for LANmessenger

TLA+ models of the relay (`internal/servercore`), the client engine
(`internal/clientcore`), the cloud tunnel (`internal/tunnel`), the self-update
(`internal/update`) and the desktop client (`cmd/lanmsg`), the TLC runs that
check them on small instances, and TLAPS proofs, for every size of system, of the
safety properties of eight of the ten parts modelled. Every definition is translated from the Go source;
`PROJECT.json` maps each one to the lines it stands for.

## 1. The system

LANmessenger is a household messenger: devices connect to one relay over
WebSockets, and the relay passes on end-to-end encrypted messages.

| Component | State | Operations | Talks to |
|---|---|---|---|
| Relay connections (`servercore/conn.go`, `enroll.go`, `server.go`) | `Server.conns`, per connection its device, entry, `ready`, `admin`, status | handshake, enrol, resume, markReady, afterReady, addConn, removeConn, heartbeat, close | its client; the devices table; other connections (broadcasts, promotion by an admin) |
| Relay handlers (`handlers.go`) | none of their own | msg, msg_ack, presence_set, admin list, approve, deny | registry, tables, other connections |
| Offline queue (`store.go`) | table `queue` | enqueue, drain, ackQueued, purgeExpired | handlers, afterReady, purgeLoop |
| Devices and presence tables, `server.toml` | durable rows, admin list | upsert, set state, set presence, Save | handshake, handlers |
| Rate limiter (`ratelimit`) | hits per key | Allow, GC | handleWS, dispatch |
| Client run loop (`client.go`, `conn.go`) | connection, state, backoff | dial, handshake, serve, redial, Stop | relay |
| Client API (`api.go`) | outbox and messages tables | SendText, flushOutbox, SetStatus, ListPending, Approve, Deny | run loop's connection, tables |
| Client dispatch (`dispatch.go`) | peers table, presence cache, pending replies | one handler per frame | tables, events |
| File transfer (`files.go`) | open transfers, `.part` files | SendFile, offer, chunk, finish | client API and dispatch |
| Tunnel (`tunnel`, `servercore/tunnel.go`) | link, streams, preambles, read buffers | Hub accept, SessionListener, bufferedConn | relay, outside clients |
| Self-update (`update`) | highest sequence number seen, the binary | fetch manifest, download, verify, swap | relay's update endpoint |
| Desktop client (`cmd/lanmsg`) | open conversation, tray state, notifications | event pump, UI functions, window and click watchers | client engine, window manager, notification server |
| Command-line programs | none of their own | – | client engine |

What is hard in this code: every connection has its own goroutine, and they
meet in the registry and in tables whose reads and writes are separate
statements; an admin's goroutine finishes another connection's set-up; a
connection can be dead long before either end knows; both ends can be killed
at any moment with part of a message's journey done; the client's API calls run
beside its run loop; two downloads, two update checks or two backends use one
file, one binary, one link slot. The list of hazards, each at its line, is in
`PROJECT.json`.

What makes each part correct:

* registry: at most one open connection per device, and the registry names it;
  dead connections leave it; a decision about a device holds; somebody can
  always approve; admin rights are on disk;
* queue: cap, order, eviction of the oldest, no duplicates, expiry;
* delivery: no message vanishes unless the relay refuses it or a copy is lost on
  the way; "delivered" is true and final; the queue keeps a row until the recipient has dealt with it; what
  waits gets through when its owner connects;
* roster: once nothing is under way, who is shown online is online, who was
  approved is listed, and a user's status is the one the relay holds;
* file transfer: what shows as received is the file that was sent; a finished
  download stays; every transfer ends, and fails only for a reason;
* tunnel: one backend; announcements stay readable; a connection appears under
  its own client's address; every public client is served or closed; the link
  recovers;
* buffered connection: a byte stream, in order and once, whatever the deadlines;
* session: the limiter is a limit; clients come back through it; a rejected one
  stays away; Stop and ListPending return;
* update: only signed builds run, there is one to start, versions and sequence
  numbers do not go back, a release arrives;
* desktop: screen, store, window and badge agree at rest; clicks and events are
  answered.

## 2. The modules

| Module | Models |
|---|---|
| `OfflineQueue` | the queue table and its operations, `applyDefaults`, `purgeLoop` |
| `RelayRegistry` | connections, enrolment, registry, admin decisions, restart |
| `RelayProofs` | extends these two; the theorems of both |
| `Delivery`, `MCDelivery`, `DeliveryProofs` | a message's journey through client, relay and network; who sends to whom, for TLC; its theorems |
| `Roster`, `RosterProofs` | presence and the directory: how a device comes to be shown in another's roster; its theorems |
| `FileTransfer`, `MCFileTransfer`, `FileTransferProofs` | `SendFile`, the relayed frames, the receiver down to the inode; file names for TLC; its theorems |
| `Tunnel` | hub, dial loop of the relay, control stream, listener |
| `ByteStream` | abstract: what `net/http` and `crypto/tls` ask of a connection |
| `BufferedConn` | `bufferedConn`, shown to implement `ByteStream` |
| `TunnelProofs` | extends `Tunnel` and `BufferedConn`; the theorems of both |
| `RateLimiter` | `ratelimit.Limiter` for one key |
| `Session`, `SessionProofs` | extends `RateLimiter` with the run loops that pass it, `Stop` and `ListPending`; their theorems |
| `Updater`, `MCUpdater`, `UpdaterProofs` | signing, publishing, checking, downloading, swapping; versions for TLC; its theorems |
| `Desktop`, `DesktopProofs` | pump, UI goroutine, tray, notifications, pending panel; its theorems |

Operators whose name ends in `Mutant` are plausible wrong versions of the
definition below them; replacing the definition by one must break a property.

Several modules carry *history flags*: variables no guard reads, set when steps
happen in an order that the code does not prevent and that excuses a property.
A property of the form "at rest, A agrees with B unless `flag`" therefore says
two things: A agrees with B in every other order, and the flag names exactly
where the code is open. The excused orders are listed at the end of section 3.

### OfflineQueue

`queue` is a set of rows with the key columns and the two the code orders or
filters by; payloads are left out. `enqueue` is one transaction: count, trim,
`INSERT OR IGNORE`. The database is opened with one connection, so no statement
interleaves with it. `drained` is what the last drain returned. The clock counts
hours. `MaxRows` and `MaxHours` bound ids and time in TLC.

### RelayRegistry

`at[c]` is the program point of connection `c`'s goroutine, between two
accesses to shared state: SQL statements, one hold of `s.mu`, the atomic
`ready`, the admin list. The path is *resume → admit* or *enroll → counted →
(addAdmin →) admit*, then *add → added → (greet →) serve*, and for an admin's
request *decide → reload → promote → mark → welcome* or *decide → kick →
close*. `open[c]` goes false when the socket dies (`Drop`), when the connection
is replaced or when it is denied; the goroutine sees it when it next reads.
Connection slots are reused once nobody points to the connection. `Restart`
keeps the tables and the saved admin list and may change
`require_admin_approval`.

Assumed: SQL statements and `Config.Save` succeed (a failing statement ends the
handshake, which a drop followed by `AbortHandshake` stands for). The
passphrase proof and the signatures are taken as checked: a client that fails
them changes nothing.

### Delivery

For each device the run loop (`cli`), for each message its `SendText` call
(`app`), for each device the goroutine of its registered connection (`srv`).
`link` is the device's newest connection; `up` and `down` are its frames in
order. `Cut` takes a connection down with any suffix of the frames in flight,
and leaves both ends to find out; until then the relay's registry still holds
it. `KillClient` keeps the outbox and messages tables, `KillRelay` the queue. A
write to a connection that is down is either reported or swallowed. A handler
that has looked for the recipient and not yet enqueued is in `hold`, or in
`stray` when its own connection was replaced meanwhile. `lost` is a history
variable: the messages of which the network, a kill, the cap or the relay's own
refusal took a copy. The relay refuses a frame at the head of `dispatch` (frame
limit) and in `handleMsg` (size, recipient unknown or not active); which of the
reasons it is makes no difference to the message, so `RefuseMsg` may take any
frame, and the error frame reaches nobody. A refused ack is like one the network
took.

All devices are enrolled here (approval is in `RelayRegistry`), messages do not
expire (expiry is in `OfflineQueue`), and presence frames, which these properties
do not see, are in `Roster`.

### Roster

One device is the subject, another the viewer. The subject's client is its run
loop (`rl`) beside `SetStatus` (`user`); on the relay each of its connections
has a goroutine, and the admin who approves it another. An update is computed
(`upd`), the ready connections are listed (`to`), then the update is sent:
`Compute`, `ReadyConns` and `Tell`, between which any other goroutine runs. A
`presence_set` may be refused by the frame limiter (`RefusePresenceSet`), which
the device's messages and file chunks share; `refused` remembers that the last
one of a connection was. `Replaced` and `Notice` are the
two ways a connection ends; the teardown broadcasts and writes the presence row
after the successor may have connected. The viewer's goroutine reads the
directory and sends it in two steps. Left out: the recipient's pinned keys and
`MarkVerified`, and other viewers, who do not interact.

### FileTransfer

The relay and the network are reduced to what `Delivery` shows of them, with the
interleavings kept: a connection is registered (`AddConn`), then its queue is
read (`ReadQueue`) and sent row by row (`SendRow`), and live frames may be sent
to it at any point in between; a frame for which `lookupConn` found nobody is in
`hold` until it is enqueued, by when the recipient may have drained its queue.
Frames over the limit are refused. The queue is trimmed at its cap.

The receiver is modelled to the inode, because the hazard is there: `dir` is the
downloads directory, in which `.part` files and downloads have one name space,
`inode` the contents, and each open transfer has its write offset and its hasher.
`Copy` and `PartOf` are the names: in the instance one file is called `x` and the
other `x` or `x.part`. The name of a finished file is the first free `name (n)`,
looked up when the offer comes and renamed to after the last chunk; `uniquePath`
tries candidates without end, the model `MaxCopies` of them, and an offer for
which none is free is not taken (`HasFreeName`). A file may be edited while it is
sent, or not be opened or read after its offer (`SendFails`); the receiver may be
killed or its disk fail. The receiver knows the sender.

History: `hurt` has the transfers of which a frame was refused, lost, trimmed or
never sent, `overtaken` those of which a frame passed one queued before it or was
queued behind the drain, `shared` those whose `.part` file was open twice, `mixed`
the names that were a `.part` file's and a download's at once.

### Tunnel

`handleBackend` per dialled session (*hello → response → control → link →
close*), `handlePublic` per public connection (*open → header → body → pump*),
and on the relay the dial loop, `Accept` and `readControl`. A frame on the
control stream is written in two halves under `ctrlMu`, so a failure can leave
half a frame. Both ends notice a cut separately. `Literal` is the set of public
connections whose address `net.ParseIP` accepts. A session ends with its
connection; the multiplexer itself is external. The relay's handshake and its
wait for the control stream have no deadline of their own
(`tunnel/auth.go:28-35`, `servercore/server.go:113`), so that the relay notices a cut
there (`RelayNotices`) rests on TCP reporting it.

### BufferedConn and ByteStream

`fill` (read, then send on the channel), `Read` (enter, deliver from the
leftover, select) and `SetReadDeadline` are separate steps; a deadline is none,
future or past. Bytes are numbered, so that a lost, repeated or reordered byte
is visible. `ByteStream` is the abstract specification. `ImplementsStream` is
`Stream!Spec`, where `Stream` is an instance of it with the identity mapping on
the variables of that name: `armed`, `got`, `last` and `outcome` are history
variables kept for it. `fill` waits for room in the channel and for nothing else
(`bufferedconn.go:70`): when the server goes with the channel full, the goroutine
is left there for good. `FillEnds` allows exactly that, and `FillFollows` says
that `fill` ends whenever somebody goes on reading.

### RateLimiter and Session

Moments are kept as ages, so that time needs no bound, each under a number of its
event: `recent` filters and counts, and does not look at the order. A caller reads the clock
and only then takes the lock, up to `MaxStall` later: this is where a hit can be
recorded in the past. `Session` composes it with the run loops of clients
behind one address: dial, `Allow`, handshake outcome, serving, backoff (doubled
while not above `maxBackoff`), the codes that end the loop, `Stop`, and for the
admin `ListPending` with its correlation id, the error frame that is routed
nowhere, its timeout and a reply that comes late.

### Updater

The relay's updates directory is three files copied one at a time (`Copy`), so a
check can see a new manifest with an old signature or artifact. A check fetches
manifest and signature, compares the number with the one recorded (`LoadSeq`),
records it, downloads, verifies the hash and swaps: one rename on Unix, two on
Windows, where a kill can fall between them and putting the binary back can fail
(`stranded`). Checks run at once with their own process image (`image`), which is
what `CheckSelf` compares with; a watch whose re-exec fails keeps the old one.
Hashes and signatures are right or wrong, never computed. Builds have a release
key or not (`keyed`); at this commit `UpdatePubKey` is empty
(`update/client.go:28`), and every check ends in `FetchManifest`.

Recording is three steps, because `update_state.json.tmp` is one file for all
checks: it is opened and emptied, written, and renamed. `fd` is the file a check
has open: still the `.tmp` file, or the state file since another check renamed
it, or one that was replaced. A file can therefore hold a number, nothing
(`Empty`) or the end of a longer number behind a shorter one (`Torn`); the last
two do not parse, and then every later check fails. On Windows a file that is open
is not renamed (`TmpHeld`).

History: `held` is the last number the state file had, `shared` says that two
checks were between open and rename at once, `raced` are the checks that compared
their number with a mark which another check has moved since, `lateTmp` says that
such a check wrote the `.tmp` file that is there now, `lost` are releases that are
recorded and not installed, `stale` processes whose binary was replaced.

### Desktop

A UI function is the sequence of its steps on shared state (`ui`, `watcher`),
and the other goroutines run between two of them; clicks, window-manager events
and notification signals come at any time. The receive goroutine writes the store
and then emits the event (`recv` between the two), and so does `SendText` on the
UI goroutine (`Send`, `Insert`, `EmitSent`): an ack or a read of the history can
fall between. `events` drops when it is full, as `emit` does. The watcher of
clicks is started by the first notification and not waited for; it subscribes
later, or never when `AddMatchSignal` fails (`watching`). `ListPending` gives up
after its timeout, and the reply may still come (`late`) and makes the panel
reload. The synchronous D-Bus calls of a notification (`notify_linux.go:42`, `75`)
are assumed to return. One conversation, Linux. The window manager and the
notification server are external.

## 3. Runs

| Run | Instance | Properties | Shows |
|---|---|---|---|
| `queue` | 2 recipients, 3 messages, cap 2, 4 rows, 2 hours | `QueueWithinCap`, `QueueIsSound`, `EvictionIsOldestFirst`, `ExpiredAreEventuallyPurged` | cap, keys, drain order, eviction, expiry |
| `registry` | 2 devices, 2 connections, approval on | `OneLiveConnection`, `NoLockout`, `RegistryIsSound`, `NeverUndecided`, `ConnectionsAreServed` | registry exactness, no lockout, durable admin rights, decided stays decided; dead connections leave, ready ones are greeted, a registered pending one is promoted |
| `delivery` | 2 devices, 2 messages, cap 1, 1 fault | `NoSilentLoss`, `HistoryIsTrue`, `QueueKeepsUntilDealtWith`, `DeliveredIsFinal` | no loss but the ones named, delivered is true and final, the queue keeps its rows |
| `delivery_live` | 1 message, 2 faults | `QueuedReachReconnecting`, `OutboxIsFlushed` | queue and outbox empty when their owner connects and stays |
| `roster` | 2 connections of the subject, 2 of the viewer, 1 SetStatus, 1 break | `RosterIsRight`, `DirectoryIsRight`, `StatusIsRight` | at rest the roster, the peers table, the relay's status and its row are right |
| `transfer` | 2 files, `x` and `x` or `x.part`, 2 chunks, 5 frames per window, queue of 3, 3 copies, 1 fault | `DiskAgrees`, `FailsForAReason`, `NeverOverwritten`, `TransferEnds` | received files are the ones sent, failures have a cause, downloads stay |
| `tunnel` | 2 public connections (1 with a literal address), 1 fault | `StreamsInStep`, `Answered`, `Recovers` | one backend, whole announcements, right addresses, nobody hangs |
| `buffered` | 4 bytes, reads of 1-2, chunks of 1-3, channel of 2 | `BufferIsSound`, `ImplementsStream`, `ReadAndFillEnd` | the bytes held are the ones between, in order; the refinement; Read returns, fill ends or is leaked |
| `update` | 2 checks (1 of a watch), 2 releases, 1 fault, Unix and Windows | `BinaryIsSound`, `NoDowngrade`, `HighWaterMark`, `ReleaseArrives` | signed and runnable binaries, when there is a way back, when releases arrive |
| `desktop` | 1 message each way, event buffer of 2, 3 user or window actions | `TrayIsRight`, `ConversationIsRight`, `ClickIsAnswered`, `EventsAreHandled` | screen agrees with store and window at rest |
| `session` | 2 clients, 2 hits per 3 s, stall 1 s, 1 call, backoff to 3 s, 2 events | `SessionIsSound`, `RejectedStaysAway`, `Reconnects`, `CallsReturn` | the limit, reconnecting through it, Stop and ListPending return |
| `registry_wakeup` | 2 devices, 2 connections | `PendingHearsApproval` | *violated*, see below |

Some of these are conjunctions whose parts are named and commented in the
module: `QueueIsSound` (type, `NoDuplicateRows`, `DrainedOldestFirst`),
`RegistryIsSound` (type, `RegistryExact`, `AdminsRecorded`),
`ConnectionsAreServed` (`DeadLeaveRegistry`, `ReadyAreGreeted`,
`WaitingIsPromoted`), `HistoryIsTrue` (type, `DeliveredIsTrue`, `AcksAreEarned`),
`StatusIsRight` (type, `StatusIsPublished`, `StoredIsCurrent`), `DiskAgrees`
(type, `IntactUnlessShared`, `ReceivedFileExists`, `NoOrphanPart`),
`StreamsInStep` (type, `OneBackend`, `ControlInStep`, `AddressIsTheClients`, and
what makes them inductive: `LinkedAreBackends`, `ControlComesFirst`,
`LockedWhileWriting`, `FramesAreWhole`, `PendingIsTheClients`), `BufferIsSound`
(type, `BytesInOrder`, `WaitsForAReason`), `ReadAndFillEnd`
(`ReadReturns`, `FillEnds`, `FillFollows`), `BinaryIsSound` (type,
`ManifestsAreSound`, `InstalledIsSigned`, `AlwaysRunnable`, `ImagesAreCurrent`),
`TrayIsRight` (type, `HiddenAgrees`,
`BadgeAgrees`, `TrackedIsShown`), `ConversationIsRight`
(`ConversationIsCurrent`, `NoDoubleRow`), `SessionIsSound` (type, `LimitHolds`,
`EndsForAReason`), `CallsReturn` (`StopReturns`, `CallReturns`). The parts that
say something to a user of the code have mutants of their own.

Why the bounds are enough for the interesting cases: two connections of two
devices let a replaced connection meet its successor, or an approving admin meet
the connection it approves; the proofs of section 4 cover more of them. A queue
of two with three messages is trimmed and refilled; two messages with a cap of
one compete for every resource; two faults let a message be sent twice by its
sender, queued, and delivered over a replaced connection. Two transfers of three
frames exceed a window of five and a queue of three, and three candidate names let
a third copy be made. One fault in the tunnel leads to three sessions.
Four bytes fill the channel of two, leave a leftover and a chunk in `fill`'s
hand. Two releases let a check hold the first while the second is installed. The
limiter has room for both clients: with less, a client that the relay answers
with `not_found` redials for ever and can starve the other.

All runs except `queue` and `registry` do not check for deadlock: once the
messages have arrived and the fault budget is spent nothing is left to do.

Fairness: a goroutine that can take a step eventually does (Go's scheduler), so
timers fire, the purge ticker keeps firing and the run loops redial for ever. In
`Updater` a check that was started goes on and a release whose copying was begun
is copied whole; nobody has to start a check, and `ReleaseArrives` speaks of
behaviours in which checks are started again and again. In `Session` an operator
brings the relay back, in `BufferedConn` the peer speaks or goes. In
`FileTransfer` one condition serves for sender, relay and receiver, since none of
them has infinitely many steps between two faults. In `Desktop` the receive
goroutine's emit, the pump, the UI goroutine and the subscribed watcher of clicks
go on. Nothing is assumed of users, admins or the network; the fault bounds limit how
often it fails, and the liveness properties of `Delivery` excuse a connection
that goes down.

### Where the code does something else than is written about it

`registry_wakeup` has a run of its own (the quotation is in `findings`): an
approval between a pending client's handshake and `addConn` finds no connection
to promote, and the client waits for ever.

Seen while modelling; the runs above excuse them by name:

| Order | Written | Happens |
|---|---|---|
| a duplicate arrives at the cap | `servercore/store.go:218` "Duplicate (recipient, sender, msg_id) rows are ignored." | the trim runs first and takes the oldest row |
| two simultaneous first enrolments | `servercore/config.go:33` "The first device to enroll on a fresh server is added here automatically." | both become admin |
| flush and ack overtake `insertMessage` | `clientcore/store.go:28` StateQueued is "composed offline, in the outbox" | a delivered message is shown as queued for ever |
| recipient dead but registered | `README.md:13` "messages queue on the server for a machine that's asleep" | the message is written to the dead connection and not queued |
| the relay refuses a frame of `flushOutbox` or `SendText` | `clientcore/api.go:120` "resends every message that was composed while offline, in order" | the row is deleted after the write (`api.go:130-135`), the frame limit of `handlers.go:15` or a refusal of `handleMsg` discards the frame, and the message stays "sent" |
| recipient registers and drains between lookup and enqueue | `servercore/server.go:6` "when a recipient is offline, stores them until the recipient reconnects" | the row waits while its owner is online |
| a message overtakes the snapshot | `clientcore/conn.go:289` "so nothing is lost" | its sender is unknown: it is discarded and acked |
| `crossed`, `ghost` (Roster) | `proto/messages.go:239`, an invisible device is reported offline | with two updates under way, or a teardown after the next connection, the roster and the row can stay wrong |
| `missed`, `staleDir`, `outrun`, `refused` (Roster) | – | a device that left while the viewer was away stays online in its cache; a snapshot undoes an update; the run loop publishes a status that was just replaced; a change of status during a file transfer is refused and nobody sends it again |
| `shared` (FileTransfer) | `docs/DESIGN.md:294` "the receiver hashes what it reassembled" | two transfers of one name write into one `.part` file; each hash covers what its own transfer wrote and not the file |
| `mixed` (FileTransfer) | `clientcore/files.go:378` uniquePath "returns path if free" | `x` is free and `x.part` is not looked at: a finished download `x.part` is truncated by an offer of `x` and renamed to it (`files.go:216-217`, `309`) |
| `overtaken` (FileTransfer) | `servercore/enroll.go:176` "Deliver anything queued while this device was offline." | live chunks reach a registered connection before its queue does, and the transfer aborts; a chunk enqueued behind the drain waits, and the transfer shows as receiving |
| Close with a full channel (BufferedConn) | – | the `fill` goroutine waits for ever on the channel |
| the link after its session ended (Tunnel) | `hub.go:60` HasBackend, "currently live" | the slot is never cleared |
| `lost`, `stale`, `LateNumber` (Updater) | `docs/SETUP.md:597` "download, verify, and install it automatically" | the number is recorded before the download, so a failed download is not tried again until the next release; a check in an old process, also its own after a failed re-exec, can undo a newer install; two checks can put the number back, by renaming the `.tmp` file of one that was overtaken or by writing into one that has been renamed |
| `shared`, `stranded` (Updater) | `swap_windows.go:25` "put the original back rather than leave nothing runnable" | two checks leave a state file that does not parse, and no later check gets past it; on Windows they keep each other from renaming it; a kill between the renames, or a put-back that fails, leaves no executable |
| `overlap`, `early` (Desktop) | `cmd/lanmsg/app.go:48` "trayHidden is true while the window is hidden to the tray" | two goroutines set window and flag in opposite orders; a click before its id is recorded, or before the watcher has subscribed, does nothing, and with a failed `AddMatchSignal` none ever does |
| `astray`, `again` (Desktop) | `docs/DESIGN.md:628` a "·" (sent) or "…" (queued) mark, "because `SendText` emits `EventMessage`" | an ack between `insertMessage` and `emit` (`api.go:112`, `116`) is emitted first and the row stays "sent"; a dropped event is not made up for; a history read before the event is emitted or handled shows the message twice |

Smaller things: `applyDefaults` turns a limit of 0 into the default, although
the comments in `config.go` call 0 unlimited; a denial can miss a connection in
the same window as an approval; of two admin requests that both pass the "device
is not pending" check the second reverses the first (`NeverUndecided` is what
holds); the heartbeat gives up after one missed pong where `config.go` says two;
the backoff reaches 32 s over its maximum of 30 s and is never reset after a good
connection; an error frame does not end `ListPending`, its timeout does; an IPv6
address with a zone never parses (`listener.go:157`) and its connection
holds up the listener until its announcement times out; `.old` in use blocks a Windows swap; a release
signed without `-prev` restarts the numbers at 1.

## 4. Proofs

All theorems hold for every value of the constants, from the named assumption of
each module (`QueueAssumption`, `RegistryAssumption`, `DeliveryAssumption`,
`TransferAssumption`, `TunnelAssumption`, `BufferAssumption`,
`LimiterAssumption`, `SessionAssumption`, `UpdaterAssumption`, `RosterAssumption`,
`DesktopAssumption`). These say that
bounds and sizes are numbers, that tables such as `From`, `To` and `Name` are
functions, that no message goes to its own sender, that `None` is none of the values it is
compared with, and that reads,
chunks and channels have room for something. The bounds on faults, ids and time
are constants as well, so a theorem covers every number of them.

A property of a run is seldom inductive. Where it is not, the proof module
defines the invariant that is, and TLC checked that one on the run's instance
before it was proved.

| Theorem | States | Inductive invariant, and why it is needed |
|---|---|---|
| `TypeCorrect` | `RelayRegistry!TypeOK` | also says which locals a goroutine has at each label; without that an admin's step would act on no connection |
| `SingleConnection` | `OneLiveConnection`, `RegistryExact` | `RegistryExact` is inductive relative to the type; two open connections of a device would both be the registry's entry |
| `NeverLockedOut` | `NoLockout` | `Bootstrapped`: a goroutine that counted some devices is right for ever (rows are never deleted), an admin's row is active from its insertion, and a device about to be decided about is not an admin |
| `RegistrySound` | `RegistryIsSound` | the three above together: `AdminsRecorded` holds although table, list and flag are written in three steps, because what is recorded is never taken back and a connection keeps its device |
| `DecisionsStand` | `NeverUndecided` | action property; the upsert of an enrolment leaves the state of an existing row as it is |
| `QueueBounded` | `QueueWithinCap`, `NoDuplicateRows` | `QueueInv` adds that the table is finite and ids are below the counter. `TrimMakesRoom`: at the cap the trim removes a row, because a finite nonempty set of rows has one with the least id |
| `OldestEvicted` | `EvictionIsOldestFirst` | the same; `TrimTakesOldest`: of two rows, the one with fewer older rows is the older |
| `QueueSound` | `QueueIsSound` | adds `AgeFollowsId`, by which the order by time and id of `drain` is the order by id; see below for the existence of that listing |
| `HistoryTrue` | `HistoryIsTrue` | `DeliveryInv`: an ack, in flight or read, is of a message dealt with |
| `NothingIsLost` | `NoSilentLoss` | `DeliveryInv`: what a flush deletes from the outbox has been passed on (`DeletedIsBeyond`), and every composed message has a place (`Accounted`) or is in `lost`, as one the relay refused is |
| `DeliveredStays` | `DeliveredIsFinal` | action property, from `NotYetDelivered`: a row that waits for a flush, or that a flush has in hand, is not shown as delivered |
| `QueueKeeps` | `QueueKeepsUntilDealtWith` | action property; a row goes by an ack, which was earned, or by the trim |
| `DiskTrue` | `DiskAgrees` | `DiskInv`: an open transfer owns its inode, and its `.part` name leads to it, unless the name was `shared` or `mixed` (`OwnsItsPart`); every way in which a `.part` name and a download's can be one is marked (`NamesAreMarked`, `PartsAreMarked`); no transfer has a finished download open (`ReceivedIsKept`) |
| `FailureHasAReason` | `FailsForAReason` | `InOrder`: of a transfer on course, the frames in flight are the next ones, in order and once, and the rows still to be sent go on from there up to what the relay has passed on or holds (`Joined`); what was hashed so far is the file up to there |
| `DownloadsAreKept` | `NeverOverwritten` | action property, from `DiskInv`: the path of a transfer is not the name of a finished file when it is renamed, unless that is `mixed` |
| `InStep` | `StreamsInStep` | inductive as it stands; frames are whole because a writer has `ctrlMu` between its halves |
| `BufferSound` | `BufferIsSound` | inductive as it stands |
| `BufferImplementsStream` | `ImplementsStream` | from `BufferIsSound`: a step of `Read` that delivers is `Stream`'s, with the next bytes; every other step leaves its variables or is a peer's |
| `BinarySound` | `BinaryIsSound` | `ManifestsAreSound` (what a check verified is what was signed) and `ImagesAreCurrent` are its inductive parts. That there is a client to start is excused on Windows between the renames and when `stranded` |
| `NeverDowngraded` | `NoDowngrade` | action property; the order on versions is asymmetric, and a check that is not `stale` swaps in a build newer than the one on disk. It does not speak of a time when a `stale` one is under way |
| `MarkGrows` | `HighWaterMark` | action property and invariant, from `MarkIsBehind`: what `LoadSeq` compared still holds at the rename unless another check moved the mark; and `OneWriter`: unless `shared`, one check is between open and rename, and what it renames is what it wrote |
| `DirectoryRight` | `DirectoryIsRight` | `BaseInv`, where everyone is: after its snapshot a viewer lacks an approved device only while the approving admin is about to tell it (`ViewerOK`) |
| `StatusRight` | `StatusIsRight` | `BaseInv`; `PublishOK`: with nothing left to send, the last frame on the connection carries the status chosen, and once it is read the relay has that status or has `refused` it; `StoredOK`: the row is the last connection's unless an earlier ready one is still to leave |
| `RosterRight` | `RosterIsRight` | `BaseInv` and `Truthful`, see below |
| `SessionSound` | `SessionIsSound` | `HitsAreKept`: what was let through is still recorded, at most `MaxStall` too old, as long as it counts; so when `Allow` counts fewer than `max`, fewer than `max` count. `RejectedIsOver` for `EndsForAReason` |
| `TrayRight` | `TrayIsRight` | `TrayInv`: the steps a UI function can have left (`Shape`), what is tracked, and `TrayOK`, see below |
| `ConversationRight` | `ConversationIsRight` | `ConversationOK`: what is in the table and not in the rows is still coming; the last event of a message still under way, or yet to be emitted, has the mark of the store (`MarksOK`, `UnsentOK`) |
| `NeverBack` | `RejectedStaysAway` | action property, from `RejectedIsOver`: a rejection is in `err` from the handshake to the end of the loop |

TLC's share: `UpdaterInv` on 1,200,432 states, `DeliveryInv` on 3,269,204 and on
486,151, `TransferInv` on 2,055,522 (with the witness of `OnCourse` taken from the
frames of a file), `SessionInv` on 488,465, the invariants of `RosterProofs` on
2,052,974, `DesktopInv` on 1,867,618; the others are conjunctions that a run
checks anyway, or follow from the proof alone.

`RosterIsRight` speaks of rest, and its flags are set along the way, some of them
late: a connection that will be torn down after its successor's connect sets
`ghost` only then. So the proof first finds what makes an excuse inevitable
(`Doomed`: an earlier connection was ready and is not gone) and shows that it
does not go away (`ExcusedStays`). Without an excuse, present or inevitable,
whoever is ready and not gone is the last connection (`Alone`), and `Truthful`
is inductive: one update is told at a time; it is true, or the last connection
is leaving, or another goroutine will compute a newer one; the viewer's entry is
true or such an update is on its way. At rest nothing is on its way.

The properties of `Desktop` speak of rest as well, of sequences of functions and
of steps that wait. `Base` says what can be waiting: the steps left of a UI
function are the end of one of a few (`Shape`), and the event of a message is
under way once, be it in `events`, in the queue of the UI or in the function it
runs (`EventOnce`). For the conversation that is enough to say which label a row
will have in the end (`MarksOK`): the last event about the message in `events`,
if there is none the last in the queue, if there is none the one in the function
that runs, and otherwise the row itself, has the store's mark. What a goroutine
between its write and its emit has still to say comes before these (`UnsentOK`):
the receive goroutine's event has the store's mark, and a message that `SendText`
has inserted and not emitted is as it was inserted, or `astray` once the event of
its ack went ahead. For the tray,
`overlap` is set late, as `ghost` is: `Doomed` holds from the moment two functions
that move the window are pending, or the UI goroutine and the watcher are in each
other's way, and does not go away. Otherwise one at most is pending, and
`HiddenOK`, `IconOK`, `UnseenOK` and `WatcherOK` say, for every place of the two
goroutines, what flag, window and icon will be.

Two things the proofs brought out. `HighWaterMark` was first stated with `raced`
as its only excuse; that is true of two releases and false of three, where a
check renames the `.tmp` file of one that was overtaken, be it killed or not, and so
the model now has `lateTmp`. And `drain` needs that a finite set of rows has a
listing in the order of its ids: an induction, which the provers cannot do with
the library's theorem, but which follows from a minimal counterexample
(`RowsCanBeOrdered`): of the sizes without a listing there is a least, and a set
of that size has one after all, its row with the least id followed by the
listing of the others.

Every invariant and every action property that a run checks is proved. Only
model-checked: the liveness properties, because the prover does not do fairness.

## 5. What is left

Not modelled:

* cryptography and TLS: pure functions over bytes; a seal, a proof or a
  signature is right or wrong in the models;
* the JSON encoding of frames and the protocol gate (one of the rejections of
  `Session`);
* command-line programs, set-up and configuration prompts: sequential, without
  state of their own; database migrations and a torn `server.toml` (`Save`
  truncates before it writes): one sequence of file operations, no second actor;
* of the client: `Enroll`, once and before the run loop; `Approve` and `Deny`,
  one send each, whose effect is in `RelayRegistry`; a second `Start`;
* of the desktop client: wizard, settings, roster widget, functions queued after
  Quit, other systems than Linux;
* the limiter of the hub's handshakes, which is the one of `RateLimiter`; how long
  a window of frames lasts: in `Delivery`, `Roster` and `FileTransfer` a frame may
  be refused whenever the code could refuse one;
* files that the user puts into the downloads directory, named like a `.part` file
  or not.

Hazards that the code does not guard against are excused by name, and the
property then says that nothing else goes wrong; `PROJECT.json` says so in the
note of each such hazard.
