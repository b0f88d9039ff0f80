# DS10-TTL: specifications, model checking and proofs

DS10-TTL carries Modbus RTU frames over a transparent DS10 radio link and runs a
*three-hop relay* on top: the master asks slave 1, slave 1 answers and names the
station its answer is for, the master forwards the answer there. This directory
holds TLA+ specifications of the C++ code under `src/src/` and of the Python tools
under `src/test/` that talk to it, TLC configurations that check them on small
instances, and TLAPS proofs.

    tlc -config MCRelay.cfg MCRelay       # check an instance
    tlapm RelayProofs.tla                 # check the proofs of a module

Files are cited by name: C++ files are under `src/src/`, Python files under `src/test/`.

## 1. The system

    trigger ──> ds10_relay (relay)  ──/master/tx──>  ds10_driver (master) ──serial──> DS10 ┐
                        ^                                  │                               │ radio
                        └───────────/master/rx─────────────┘                               │
    ds10_relay (responder) <──/slaveN/rx── ds10_driver (slave N) <──serial── DS10 <────────┘
                        └────/slaveN/tx──>

| Component | State | Operations | Interacts through |
|---|---|---|---|
| Transaction header (`transaction.*`) | none | build, parse and strip the request header `F1 F1 txn` and the reply header `F1 F2 txn dst` | called by both roles |
| Relay role (`relay_node.cpp`) | under `mutex_`: `busy_`, `txn_`, `pending_txn_`, `attempt_`, `payload_`; outside it: `timeout_timer_`; atomic counters | trigger, auto timer, one-shot timeout timer, reply, forward, stats report | ROS topics; executor; timer |
| Responder role (`relay_node.cpp`) | routing table, counters | parse the table, answer a request | ROS topics |
| Frame codec (`modbus_frame_codec.*`) | `buffer_`, `resync_dropped_` | crc16, encode, feed, flush_partial | called by the driver's reader (feed, flush) and tx callback (encode) |
| Driver node and serial port (`ds10_node.*`, `serial_port.*`) | `running_`, `connected_`, `serial_` under `serial_mutex_`, codec, counters | reader thread, tx callback, station filter, diagnostics, destructor | ROS topics; `serial_mutex_`; the tty |
| Frame message (`Frame.msg`) | – | – | the record on every topic |
| Relay entry point (`main.cpp`) | – | executor, start-up | – |
| Relay script (`ds10_relay_master.py`) | under `_lock`: `_pending_txn`, `_reply`; `_txn`; the event `_done` | run_once, _attempt (main thread), _on_rx (spin thread) | topics; the lock and the event |
| File transfer (`ds10_send_file.py`, `ds10_recv_file.py`) | the dictionary of chunks, the flag that the last one came | send in chunks; receive, collect, write | a raw serial port |
| Responder scripts, measurement scripts | their own counters | – | topics or raw serial ports |
| Launch files, configuration, start scripts | – | choose parameters | – |

What is hard in it:

- **callbacks that interleave** – the relay tests `busy_` under one lock and sets it
  under another, cancels its timer outside the lock, and creates it after the
  publish; what saves it is that all callbacks of the node share rclcpp's default,
  mutually exclusive, group. The relay script has no such group: two threads, one
  lock taken and released several times for one reply, and an event set outside it;
- **time against the radio** – replies are late, repeated, foreign or belong to an
  earlier transaction, while a timer is armed, due or running;
- **a restart** – the relay's numbers start over while answers to its previous life
  are still on their way;
- **framing without boundaries** – reads cut and join frames anywhere, with noise in
  between, and the buffer must not grow;
- **a device that disappears, a line that hangs** – the reader closes and reopens the
  port while a tx callback writes to it or spins in front of it with the mutex in
  hand, half a frame may be buffered or written, and the destructor waits for the reader;
- **byte budgets** – a reply's header is a byte longer than a request's; a length
  byte in the file protocol holds less than a frame may.

What makes the components correct is stated in the properties (section 3).
`PROJECT.json` lists each hazard at its line with the properties about it.

## 2. Modules

| Module | Models | Builds on |
|---|---|---|
| `Transaction` | transaction.hpp, transaction.cpp, on byte strings | – |
| `TransactionFraming` | drives those operators: frames and unframes | Transaction |
| `Ds10Frame` | the message on every topic, as the parsers see it | Transaction |
| `OneOutcome` | *abstract*: what the relay promises for its transactions | – |
| `Relay` | the relay role | Ds10Frame; implements OneOutcome |
| `RelayInvariant` | the inductive invariant `IInv` of Relay | Relay |
| `Responder` | the responder role, as operators: it has no state | Ds10Frame |
| `Link` | what two drivers and the radio do to one frame: `on_tx`, `feed`, `publish_frame` | Ds10Frame |
| `RelaySystem` | relay, any number of responders, drivers, an unreliable link; the relay restarts | Relay, Responder, Link |
| `RelaySystemInvariant` | the inductive invariant `SystemInv` | RelaySystem, RelayInvariant |
| `Codec` | modbus_frame_codec: encode, feed, flush_partial | – |
| `Crc16` | CRC-16/MODBUS, bit by bit | – |
| `CodecStream` | the codec at the end of a byte stream, and a reference decoder | Codec |
| `Driver` | ds10_node.cpp and serial_port.cpp: threads, mutex, connection, adapter, line | – |
| `RelayMaster` | ds10_relay_master.py | – |
| `RelayMasterInvariant` | the inductive invariant `MasterInv` | RelayMaster |
| `FileTransfer` | ds10_send_file.py, ds10_recv_file.py | – |
| `MCRelay`, `MCRelaySystem`, `MCCodec` | the constants of instances TLC checks | |
| `NumberProofs` | lemmas on numbers that wrap; the least number of a set | – |
| `TransactionProofs`, `RelayProofs`, `RelaySystemProofs`, `CodecProofs`, `DriverProofs`, `RelayMasterProofs`, `FileTransferProofs` | TLAPS proofs | the module they are named after |

Operators introduced as "Mutant of X" stand next to X and are not used by any
specification. They are plausible bugs of X; put in its place, each one makes a
property fail (`PROJECT.json`, "mutants"), which shows that the property is about
that code.

### Relay

A callback (trigger, auto timer, timeout timer, rx) is a *handler* with a program
point `at[h]`, advanced one critical section or one side effect at a time:

| Code | Action |
|---|---|
| `on_trigger`, auto timer: first critical section | `TakeStart`, `StartRefused`, `StartAllowed` |
| `start_transaction`: size check, second critical section | `PayloadTooLong`, `StartTransaction` |
| `on_timeout`: critical section | `Attempt` (first or next attempt, or nothing if idle), `GiveUp` |
| `on_timeout`: build, publish, create the timer | `PublishRequest`, `ArmTimer` |
| the timer: elapses, is taken, cancels itself | `TimerExpires`, `TakeTimer`, `TimerCancels` |
| `handle_reply`: station and header tests | `IgnoreForeign`, `TakeReply` |
| `handle_reply`: critical section | `RejectReply`, `AcceptReply` |
| `handle_reply`: cancel, then the dst byte | `CancelTimer`, `BadDst`, `NoForward`, `ForwardReply` |

`CanTake` is the callback group: the node passes no group to `create_subscription`
and `create_wall_timer`, so rclcpp puts all callbacks in the node's default group,
which is mutually exclusive even under a MultiThreadedExecutor. The branches
that can only be reached if callbacks overlap (the early return of `on_timeout`)
are modelled all the same, so that replacing `CanTake` by a reentrant group shows
what depends on it: `StatsAddUp` and `TimerIffBusy` do.

A data field is abstracted to what the parsers of `Transaction` return for it
(`txn`, `dst`, the payload behind the header); a payload is a model value with a
size. A forwarded payload that itself begins like a request header is therefore not
told apart at this level; `TransactionFraming` treats such payloads as bytes. `started`
counts the transactions and each frame carries in `id` the transaction it was
made for: auxiliary, read by no guard of the code.

### Responder, Link, RelaySystem

`parse_route_map` and `respond` take a parameter to a table and a request to its
answer; both return a set, empty where the code throws or stays silent. A routing
table comes from a parameter already cut at its commas; entries are blank,
malformed or rules, and a payload is the set of keywords it contains. Restarting a
responder changes nothing, since it keeps nothing.

`Link` is the drivers' share: a slave's driver puts its own station on what it sends
(ds10_node.cpp:100), surfaces only what is addressed to it and shows station 0
(189-198), a master's driver surfaces everything; `encode` refuses what is longer than
a frame. Between the two lies `feed`, which takes the shortest prefix that verifies for the
frame (modbus_frame_codec.cpp:80-93, finding `truncated_frame`). `Codec` models its scan on
bytes; `Link` says what it makes of the frames of the three hops, whose bytes it does
not have: `Cuts` holds frames a proper prefix of which verifies, each with what is left of
it (the header intact and less payload, or no header at all); `Strays` holds frames with
what else may be found in their bytes, as the rest behind such a prefix or the
remains of a torn frame next to them. Both are functions of the frame's bytes, so
that every attempt is cut alike. A frame reaches the port whole or not at all, or
is a stray. `Frame.tx_seq` is not sent, as relay_node.cpp:540 and
transaction.hpp:50 say. (Frame.msg:25 says that it is carried to the peer; no code
relies on that. Its "about 4080 bytes" for the data field is 4091 in the code.)

In `RelaySystem` every frame published so far may arrive at any later moment, once,
many times or never, which covers the radio and the topics' queues (whose depth of 10
loses messages). All slaves hear the master. `Restart` kills the relay and
launches it again. `Fresh` is an assumption on the environment, not on the code: no
frame is under way while the number goes all the way round (65536 transactions).
Without it the number cannot tell two transactions apart.

### Codec, CodecStream

One iteration of the loop in `feed` is one step: `SkipIllegalStart`, `TakeFrame`,
`SlideNoise`, or, ending the call, `KeepPartial` and `ScanDone`. `fed` and `framed` are
auxiliary byte counts. `CodecStream` feeds a stream of frames and noise in chunks,
with flushes (burst-end timeout, reconnection) between the calls, and says which frames
a string contains when it is all there at once: `CoversAll(s, at_, e)` holds when the
places `at_` are frames, each of the shortest length that verifies, every byte between them
is noise, and what is behind `e` may still become a frame. `OneCovering` proves that a string
has one such covering, so the reference is a function though it is written as a relation.
`places` and `got` are auxiliary: where the codec found its frames, and which they were.

### Driver

Reader thread, tx callback and destructor have a program point each; the mutex has
an owner only while it is held for long (the pause after a failed open, the
write loop), any other critical section is one step. Bytes are told apart only by
the connection they came over (`buffered`), a frame by how much of it is written. The
adapter may be unplugged at any moment, which turns an open descriptor `dead`, and
the line may stop taking bytes (`line`), in front of which `write` spins on EAGAIN with
the mutex held (serial_port.cpp:146). What `read` returns for a dead descriptor is the
kernel's business and the constant `HungReads`. `Feed` has the codec's outcome at the
level "something is left in the buffer or not", for which `Codec` is the detailed model.

### RelayMaster

Main thread (`run_once`, `_attempt`) and spin thread (`_on_rx`), lock by lock:

| Code | Action |
|---|---|
| `run_once` called; the loop over attempts | `RunOnce`, `NextAttempt` (part of `TimeOut`, `Collect`) |
| `_attempt`: first critical section; clear the event; publish | `BeginAttempt`, `ClearDone`, `Publish` |
| `_done.wait` returns True, or False | `WaitSucceeds`, `WaitTimesOut` |
| the two critical sections behind it | `TimeOut`; `Collect`, or `Crash` when `_reply` is None |
| `_on_rx`: tests and first critical section | `TakeReply` |
| forward or not; second critical section; set the event | `Forward`, `StoreReply`, `SetDone` |

The slave is the environment: it may answer any request, any number of times, with
any dst byte, at any moment within `Fresh`. `overtaken` is auxiliary: an attempt timed
out under a reply being handled, or behind its back. A wait that times out and
finds the event set in the meantime is part of it.

### FileTransfer

A payload is the interval of the file it holds. `DataLen` and `Cut` are the length of a
frame's data field and what one byte leaves of it (ds10_send_file.py:39): a chunk of
248 bytes or more may make a frame the receiver can never cut out, and 247 is the largest
that always works (the default is 200). `Missing` and `Warns` are the receiver's own tests, over the numbers it has
seen; `Content` is what it writes, in the order of the numbers (`Sorted`). The sender may be killed and run again, with another chunk size; the receiving
thread may die of an index error on a read of six bytes (`MIN_FRAME` is 6,
`buf[6]` is read; ds10_recv_file.py:38), and main writes what there is.

## 3. Runs

| Run | What it shows | Bounds, and why they are enough |
|---|---|---|
| `framing` | headers, put on and taken off in any nesting, are read back exactly; caps exact | `kMaxData` = 12, so strings reach both caps and one beyond; typed strings up to 4 bytes over both marker bytes, a text byte and zero, so that payloads imitate headers; numbers with both bytes significant |
| `relay` (176,034 states) | the relay's safety properties and its inductive invariant, whose first part is its type correctness; every transaction ends; the relay implements `OneOutcome`, its fairness included | 3 transactions, 2 retries, 3 replies handled, numbers modulo 3: a reply can be the pending one, an earlier one, a duplicate, foreign, without header, without dst, with every kind of dst |
| `system` (488,398) | what is forwarded is this transaction's own payload, or what `feed` has left of it, to the station slave 1's table selects; what of that survives a restart of the relay; each life of the relay implements `OneOutcome`; slaves answer only what was asked of them; every answer is usable; the inductive invariant | slaves 1 and 2, the second with a rule of its own that must never decide; four tables for slave 1 (overlapping rules behind a blank, none of which the empty payload meets; an illegal station; slave 1 itself; malformed text); 3 transactions, 1 retry, 3 frames heard in each life, one restart; numbers modulo 2, so that a number is used again and `Fresh` is what tells the two apart; a foreign station that answers with the pending number; a request that becomes answerable by being cut short, an answer that loses its payload, one that loses its header; a stray reply behind an answer, a stray request in a forwarded frame: without its premises each of the four properties that have them fails here |
| `codec` | decoding does not depend on the cuts; every byte accounted for; buffer bounded; a clean stream arrives frame for frame | cap of 7 bytes; seven streams with frames of 4 to 7 bytes (the longest fills the cap), noise before, between and behind, a frame with its end lost, a frame whose head verifies; every cut, a flush at every point; real CRC |
| `driver` | port never changed under a write; `connected_` tells the truth; no splice over a reconnection; reconnection, a lost adapter noticed even under a stuck write, return of tx callbacks, end of the destructor | frames of two write calls, so that one can be torn; unplugging and stalling unbounded; reads of a dead descriptor report an error |
| `relay_master` (111,710) | each reply is forwarded once, `run_once` tells the truth and the script does not crash unless an attempt was overtaken; every run ends; the inductive invariant | 3 runs of 2 attempts, so 6 numbers modulo 3: late answers meet a number in use again; dst of all kinds: none to forward to, slave 1, a station, no legal station |
| `file_transfer` (831,939) | a file written without a warning is whole; the verdict on a lossless transfer is right | 500 bytes in 3, 3 or 5 chunks of 247, 248 and 100 bytes: the largest chunk that can be cut, the smallest that cannot, and one that wraps 4 numbers; 2 runs of the sender, 5 frames taken |

The properties of `system` state what they rest on. `NothingStray`: no frame on the air has a
frame of another content in its bytes. About one byte string in 65536 carries its own
checksum, and what such a string says is unlimited, so nothing can be promised
without it; `SystemInv`, `AnswersUsable` and `OneOutcomePerLife` do without. `Uncut(q)`: no proper
prefix of the request `q` or of an answer to it verifies. Only the equality of payloads
depends on it. Where a frame is cut, the properties say what is left of the promise: the number
and the addressee are right, the payload forwarded is a beginning of the one asked, the
station is the one selected for what slave 1 has read, and a payload of 4087 bytes, which no
reply can carry, may be answered after all.

`RunTellsTheTruth` and `CrashNeedsOvertaking` set aside the attempt that times out under its own
reply. Such an attempt can make `run_once` lie or the script crash (both listed as hazards);
the properties say that nothing else can, and `OncePerAttempt` needs no such premise.

`SilentOnlyIfWhole` has two premises that are limits of the scripts. The numbers must not
wrap (65536 chunks), or the last chunks replace the first ones' numbers in silence. And
all frames taken must be of one chunk size: mixed, they may make a file that is
neither run's, in silence (listed as a hazard without a property, since no line promises
otherwise).

Five runs check what a comment of the code says and find it violated
(`PROJECT.json`, "findings"):

| Run | The comment | What the code does |
|---|---|---|
| `deferred_timer` | the timeout timer "must be able to fire while an rx callback is in flight" (ds10_relay main.cpp:26-28) | both are in the default callback group, so the timer waits. The comment asks for what would break the code: with overlapping callbacks `StatsAddUp` fails |
| `waiting_frame` | feed extracts "every complete frame currently decodable" (modbus_frame_codec.hpp:74-75) | a noise byte in 1..247 hides the complete frames behind it until the cap is reached, or until a flush drops them |
| `truncated_frame` | what is published is a complete frame decoded from the stream (Frame.msg:5) | the shortest length that verifies wins, so a frame whose data begin with the checksum of its head is cut short there |
| `unplugged` | the node "Reconnects automatically on link loss" (ds10_node.hpp:38-39) | if `read` returns 0 for a hung-up tty, as Linux does, the loss is never noticed |
| `write_error` | `write` "Returns false on error (caller treats as link loss)" (serial_port.hpp:60) | `on_tx` logs it and leaves `connected_` set |

Symmetry is not used. Deadlock is checked in every run; where a system really may rest
(`Spin`, `Over`) the module has an explicit stuttering step whose guard says so.

## 4. Fairness

- **Relay.** `WF(HandlerStep)`: a callback that runs, runs on. `WF(TimerExpires)`: time
  passes. `SF(TakeTimer)`: a due timer is taken although replies may occupy the
  callback group again and again, because the executor looks at ready timers
  before subscriptions each time the group is free. Nothing is assumed of the
  radio, the slave or the triggers.
- **OneOutcome.** Weak fairness of "some outcome", and of no outcome in particular.
- **Driver.** `WF` of the reader's steps that need no lock. `SF` of those that do: a tx
  callback leaves the mutex for a whole round of the executor. `SF(OpenSucceeds)`: a
  device that stays lets itself be opened in the end. `WF(TxDropped \/ WriteStarts)`:
  the tx callback gets the mutex if it stays free for it. While the port is
  not connected that promises nothing, since its rival locks again as soon as it has
  unlocked (the pause of 500 ms after a failed open is inside the critical section,
  ds10_node.cpp:131-145), and `TxReturns` therefore speaks of the connected port. That a tx
  callback may wait as long as the port stays unconnected is listed as a hazard.
  `SF(WriteSome)`: a line that drains again and again takes the next piece in the end.
  `WF(fd_ = "dead" /\ WriteFails)`: a write to a descriptor whose device is gone fails.
  `WF(CloseNode)`. That the line does not hang for ever is no fairness but a premise
  (`LineDrains`) of the properties that need it: `Reconnects` and `TxReturns`.
  `LossNoticed` and `ShutdownEnds` do without it. `Stop` needs the tx callback to be idle,
  because the destructor runs once the executor has returned from `spin`: a destructor never
  coexists with a stuck write, and a node whose write is stuck does not get that far.
- **RelayMaster.** `WF` of both threads. A wait ends with the event or with its timeout.
- **FileTransfer, RelaySystem, Codec** are checked for safety only: the file protocol
  has no acknowledgement that anything could depend on, and the relay's liveness holds
  whatever the environment does, so composing adds nothing to it.

## 5. Proofs

All theorems hold for every value of the constants that satisfies the named
assumptions: `DataCap` (both headers fit a frame), `FrameParameters` (payloads have sizes,
numbers wrap somewhere), `RelayParameters`, `PayloadParameters`, `EnvironmentParameters`
(slave 1 is a station, retries are a number, the empty payload has size 0, a reply that
arrives fits a frame, which the driver's decoder ensures), `ResponderParameters`,
`LinkParameters` (the drivers' cap leaves room for `kMaxData`), `PrefixParameters` (a payload is a beginning of
itself, a beginning of a beginning is one, a proper one is shorter), `CutParameters` (a cut frame has
its header and less payload or no header; what `feed` finds fits a frame and comes from a station), `SystemParameters` (slave 1
is one of the slaves; frames from elsewhere come from other stations), `CodecParameters`
(the cap is at least a minimal frame, as the codec's constructor makes it),
`StreamParameters` (a stream is what its marks and items say), `FramingParameters`,
`DriverParameters`, `RelayMasterParameters`, `FileParameters` (a file and chunks that are not
empty). TLC evaluates each on its instances.

- **`TransactionProofs`** – `RequestReadBack`, `ReplyReadBack`, `KindsDisjoint`: for every number,
  dst and payload the header is read back as it was built, stripping gives the payload
  back, neither kind is taken for the other, and the framed string fits. They rest on two
  lemmas on the prefix of a concatenation. `FramingInvariantHolds` carries them through any sequence of
  framings and unframings: the data is the framed form of the outermost layer, and what each layer was put
  on is the framed form of the next. From it `HeadersReadBack`, `PayloadsReadBack` and `CapsAlwaysTight`.
- **`RelayProofs`** – `RelayInvariantHolds`: `Spec => []IInv`. The properties of the runs speak
  of states between callbacks, so they are not inductive. `IInv` says what holds *inside*
  them, in two parts. `SafeInv`: which callback runs and where (`OneRuns`), what it may
  assume of `busy` (`BusyWhere`), which stretches of code run without a timer
  (`TimerWhere`), which request is about to be published (`MessageWhere`), and that what
  is published belongs to one transaction each (`PublishedWhere`). `AccountInv`: which
  counter is still owed (`CountersWhere`) and how the budget of retries is shared
  between past transactions and this one, from above and from below (`BudgetWhere`): too many
  retries break the one, a transaction that starts with what another has left breaks the other. From it follow `RelayTypes`,
  `StatsAlwaysAddUp`, `NeverWedged` (`TimerIffBusy`), `AlwaysFits`, `OneFrameAlways` and `RetriesBounded`.
- **`RelayImplementsOneOutcome`** – `Spec => Abstract!Spec`: the mapping takes `asked` to `started`, `asking` to
  "busy, or an accepted reply not yet dispatched", and derives the four outcomes from the counters of `~/stats`.
- **`RelaySystemProofs`** – `SystemInvariantHolds`: `SysSpec => []SystemInv`. The relay's part is `SafeInv`,
  reused from `RelayProofs` action by action, because a restart keeps it; `AccountInv` does not
  survive one (the counters start over, the auxiliary count does not). `AnswersWhere` carries an
  answer's origin from the request to the relay, through whatever `feed` cuts off on both ways
  (`FeedFacts`, `HeardBySlave`, `HeardByMaster`), `NumbersWhere` says, for the first life of
  the relay, that a number stands for one transaction in `TxnMod`; with `Fresh` and
  the arithmetic of `NumberProofs` (`SameNumber`: two numbers closer than the modulus with the same
  remainder are equal) an accepted answer is one to the pending transaction. From it the five
  properties of the run: `OnlyAnswersToOwnRequests`, `AnswersAlwaysUsable`, `ForwardsOwnAnswer`,
  `ForwardsAlwaysAnswered` and `TooLongNeverAnswered`, for any number of slaves, any tables and
  any number of restarts. `PromisesSurviveRestarts` states what the relay promises alone and
  `SafeInv` carries through a restart: `TimerIffBusy`, `FramesFit` and `OneFramePerPurpose`. `EachLifeImplements` carries the
  refinement over to the three hops: the steps of the relay implement `OneOutcome` on the strength of `SafeInv`
  alone (`LocalImplements`, `HearingImplements`), whatever frame arrives, so all steps but `Restart` do.
- **`CodecProofs`** – `CodecInvariantHolds` for every checksum function, cap and set of chunks; the position of
  the scan within the buffer (part of `TypeOK`, and 0 between calls) is what makes the
  accounting inductive. From it `CodecTypes`, `BytesAlwaysConserved` and `BufferAlwaysBounded`.
  `StreamImplementsCodec` makes them hold of the codec at the end of a stream. `ChunkingAlwaysInvisible`:
  the buffer is always the last part of what was fed since the flush, and everything in front of the scan
  is covered by frames and noise (`Covers`). A step of the scan extends the covering by one item; a further
  read does not undo it, because only what can no longer change is dealt with: the shortest length that
  verifies stays the shortest, and a byte is noise only with the cap's worth of bytes behind it.
  `CleanStreamsExact` adds that decoding inverts encoding (`EncodedIsDecoded`) and that the covering by the
  frames sent is *the* covering (`OneCovering`). Neither needs anything of the checksum.
- **`DriverProofs`** – `DriverInvariantHolds`: who owns the mutex at which program points, and
  which points know that the port is (not) connected; in particular stale bytes exist
  only while disconnected. From it `DriverTypes`, `ConnectedTellsOpen`, `WritesKeepPort` and `NeverSpliced`.
- **`RelayMasterProofs`** – `MasterInvariantHolds`: `Spec => []MasterInv`. What holds always: a number
  stands for one attempt in `TxnMod` (`NumbersWhere`), nothing is pending once answered
  (`PendingWhere`), nothing is delivered twice (`DeliveredWhere`, which gives `ForwardsOnce`). What
  holds as long as no attempt was overtaken, `InStepWhere`: at each point of the main thread,
  what the spin thread may be doing and what has been delivered for this run. It gives
  `MasterTypes`, `RunsTellTheTruth` and `CrashesOnlyOvertaken`: that the event is cleared outside the
  lock (ds10_relay_master.py:228) does no harm of its own; what does is an attempt that
  times out under its own reply.

- **`FileTransferProofs`** – `TransferInvariantHolds`: every frame on the air is a chunk of some run
  (`Frames`), for every number seen the *first* frame of that number is the one kept (`KeptInv`), and the file
  and the warning are functions of the frames kept (`WrittenInv`). The property of the run speaks of the end
  only; what makes it inductive is the tie between a chunk and its number. `SilenceMeansWhole`: with one
  chunk size and no wrapped number a number tells its chunk, so no gap and a last frame mean all of
  them (`KeptWithoutGap`); that they join without a seam is arithmetic (`CountBounds`, `ChunkBounds`).
  `LosslessVerdictHolds`: after one run in order, kept are the first chunks, as many as there are numbers
  (`KeptOfOneRun`), which is the whole file exactly when no number wrapped. `FileTransferTypes` needs that
  sorting finds an i-th number (`SortedIsMember`).

What would need an induction is done with `LeastNumber` (`NumberProofs`): a nonempty set of
naturals has a least element, which follows from the well-foundedness of strict inclusion
of finite sets. A property that fails somewhere fails at a least place, and there the
step leads to a contradiction; `OneCovering` and `SortedIsMember` are proved so.

Only model-checked: liveness and the fair half of the refinement (`TransactionEnds`, `OneOutcomeEach`,
`Reconnects`, `TxReturns`, `LossNoticed`, `ShutdownEnds`, `RunEnds`), which need fairness and
ENABLED; and `Crc16`, which is recursive: the proofs hold for every checksum
function, TLC runs the codec with this one. Every safety property of the passing runs is
proved.

## 6. Not modelled, and why

- the counters of the driver and its diagnostics, `rx_seq`, log lines, `preview`, the reports on
  `~/stats`: they are written and never read by the code that decides anything;
- baud rates and termios flags; launch files, scripts and YAML, which choose parameters:
  the models are checked for the parameters as constants;
- the data races on `last_error_` and `resync_dropped_` (listed as a hazard): their effect is a garbled log line or count;
- a driver with `max_frame_bytes` below the default: `LinkParameters` excludes it, since `kMaxData`
  is written for the default; with less, oversize transactions could only be given up;
- noise that verifies by chance is in `RelaySystem` only as `Strays` of frames and as frames of foreign
  stations (`Heard`), and a torn frame only as one that is lost; byte by byte it is `Codec`'s;
- the responder scripts: `RelayMaster` lets its slave answer anything, which includes what they answer;
- the measurement and monitoring scripts: sequential programs that print what they measure on
  hardware, and on whose state nothing depends;
- start-up failure of `main`: the process ends before there is any state.

## 7. Plan

The order the modules were written in: `Transaction` (the format everything rests on), `Relay` with
`OneOutcome` and its proofs, `Responder`, `Codec`, `Driver` and the proofs of the last two; then
`Link` and `RelaySystem` with its proofs, the line that hangs in `Driver`, `RelayMaster` with its
proofs, and `FileTransfer`; last the proofs of the stream of the codec, of nested framings, of `FileTransfer` and of the
refinement in `RelaySystem`.

What would come next:

1. An abstract specification of `RelayMaster` (one outcome for each run, as `OneOutcome` is for the
   relay), with the refinement proved as long as no attempt was overtaken.
2. Several tx callbacks in `Driver`, should the node be given a reentrant group.
