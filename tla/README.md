# TLA+ models of go-socket

Specifications of the concurrent core of go-socket and of its wire formats,
checked with TLC on small instances. Every safety property a run checks is also a
theorem, proved with TLAPS for every value of the constants (section 5);
liveness is checked by TLC only. Definitions keep the names of the Go code; every
one that models code is listed with its lines in `PROJECT.json` ("map").

## 1. The system

A connection arrives over HTTP. `serveWS` (WebSocket) or the Engine.IO handler
(long polling, later upgraded) hands a `Transport` to `serveTransport`, which
makes a `Client`, registers it with the hub, runs the connect middleware, binds
a recovery session if recovery is on, and starts two pumps. The hub is one
goroutine that owns the client and room maps and fans broadcasts out. With
recovery, the session, not the connection, owns the outbound sequence; the
connections that serve it come and go.

### Inventory

| Part | State | Operations | Interacts with | Hard part | Properties |
|---|---|---|---|---|---|
| Replay buffer (`internal/session.go`) | slice, head, byte count | push, dropOldest, ackUpTo, reset, covers, after | session | two caps, holes, compaction | `BufferRun`, `BufferCaps`, `RingIsBuffer` |
| Session (`internal/session.go`, `client.go`) | state, next, buf, live, stalled | deliver, Ack, Open, Leave | client queues, pumps, peer | displaced connections, stalls, lagging resumes | `PeerPrefix`, `UnseenInFlight`, `ImplementsReliableStream`, `EventuallySeen` |
| Session store (`internal/session.go`, `recovery.go`) | sessions, parked list | Open, Leave, Sweep, release | hub, clients, sweeper | several critical sections per operation, clock read before the lock | `ParkedExact`, `NoClientLeak`, `HubFollowsSessions`, `ParkedEnds` |
| Idempotency (`internal/session.go`, `server.go`) | key window | claim in dispatch | session, middleware, handlers | same key on two connections | `OncePerWindow`, `BurnedIsHandled` |
| Hub (`internal/hub.go`) | clients, rooms, emit queue | register, unregister, join, leave, transfer, emit, drain | all clients | exits while others call it | `HubCallsReturn`, `GoneIsForgotten`, `FramesComplete` |
| Server (`server.go`) | closed, conns | serveTransport, Shutdown, ShutdownWithMessage | hub, clients | admission racing with shutdown | `ConnsExact`, `DrainCloses` |
| Client and pumps (`internal/client.go`) | send channel, shutdownOnce, noResume, missedPongs, timers | enqueue, ReadPump, WritePump, retire | everything | close racing with send; heartbeat racing with slow handlers | `ResponsiveSurvives`, `QuietBounded`, `SilentPeerEnds`, and in the compositions above |
| Long polling and upgrade (`internal/polling_transport.go`, `poll_manager.go`, `session_transport.go`, `eio_ws_transport.go`, `engineio_handler.go`) | four channels, flags, current transport | GET, POST, upgrade, swap, close | pumps, manager | transport replaced below running pumps | `HandledInOrder`, `NoOrphanSocket`, `NothingStranded`, `UpgradeReleases`, `ClosedEnds` |
| Codecs (`internal/engineio`, `internal/socketio`) | none | encode, decode | transports | optional parts, separators, ends of input | `DecodeFollowsGrammar`, `EncodeInvertsDecode`, `BatchRoundTrip` |
| Native RFC 6455 (`internal/nativews`) | buffers, writeMu | read/write frames | transports, pumps | fragmentation, deadlines between fragments, interleaved writers | `DeliveredAreSent`, `LockedWritesWhole`, `LengthExact` |
| Statistics, logging, configuration, upgrader, conformance tool | counters, settings | | | no control decision depends on them | not modelled |

The hazards behind the properties are listed line by line in `PROJECT.json`.

## 2. Modules

    ReplayBuffer <- Session <- MCSession          Recovery <- MCRecovery
         ^             |  \                        Polling  <- MCPolling
    ReplayRing         |   INSTANCE ReliableStream Server   <- MCServer
         ^             |                           Dispatch <- MCDispatch
    MCReplayRing       |                           Pumps    <- MCPumps
                       |                           Codec    <- MCCodec
    ReplayRing_proofs <- Session_proofs    Recovery_proofs  Polling_proofs
    Server_proofs        Dispatch_proofs   Pumps_proofs     Codec_proofs

- **ReplayBuffer**: `replayBuffer` as a sequence of entries, oldest first;
  operators `push`, `dropOldest`, `ackUpTo`, `covers`, `after`.
- **ReplayRing**: the same buffer as the code has it (slice, `head`, `bytes`,
  compaction), shown to implement the sequence: each operation of the ring is
  the operation of the same name on the abstract buffer (`RingIsBuffer`). A loop
  of `dropOldest` is `dropTimes` with the least number of drops that ends it.
  The code compacts at 64; the threshold is the constant `Compact`.
- **Session**: one recovery session, connection slots that are reused, their
  send queues and pumps, and the peer, which follows the client algorithm of
  `docs/RECOVERY.md`. `Session.mu` makes `deliver`, `Ack`, `Open` and `Leave`
  atomic; pumps, drops, delayed `ShutdownResumable` goroutines and the peer
  interleave. Handlers of a displaced connection may go on emitting, and a
  WritePump may end on a write error while its connection stays up. `MaxLag`
  lets the peer resume with an old seq. The history variable `astray` notes that
  the emit that stalled the session got another connection shut down.
- **ReliableStream**: what the session promises: payloads are appended to a
  log and handled by the peer in order, each once, until the stream is closed.
- **Recovery**: the store, the hub's membership and the goroutines of three
  connections and of the sweeper. A critical section of `SessionStore.mu` or
  an operation of the hub goroutine is one step. Code of the application runs in
  the connect middleware, in `OnConnect`, in event handlers and in the disconnect
  callbacks, and may use rooms in all of them; the first two may panic. What a
  session buffers is left to Session: whether a resume is refused for its seq is
  a free choice. The history variable `stray` has the connections that were put
  into a room when `Hub.clients` no longer had them.
- **Dispatch**: `keyWindow` and the order middleware, claim, handlers of
  `dispatch`, for two connections of one session. `On` adds or removes the handler
  of the events at any time.
- **Polling**: one Engine.IO `sid`. Each HTTP request and each pump is a
  process; a step is what it does between two points where another process can
  be seen (reading `active()`, checking `closed`, a channel operation, a
  critical section of the manager). `ReadPump` sets its deadline and its pong
  handler in two steps, and `collectBatch` takes one packet per step, so that a
  swap, a write or another GET may come in between. The manager's entry of the
  sid exists exactly while the polling transport is open.
- **Server**: admission, `serveTransport`, rooms, the hub with its emit queue,
  slow consumers, failing writes and pings, panics before `ReadPump` starts,
  disconnect callbacks, drain and both shutdowns, for connections without
  recovery.
- **Pumps**: one native WebSocket connection from the frames up: `ReadMessage`
  with fragments, control frames and the read limit; `ReadPump` with its
  deadline and missed pongs; `WritePump` with its ticker; and every writer of
  the connection, each frame being the two writes `writeFrame` makes. The
  connection is plain or under `eioWebSocketTransport` (`layered`), where pings
  and pongs are Engine.IO packets. There the swap may have come before, between or
  after the calls by which `ReadPump` sets the read limit, the deadline and the
  pong handler: `limited`, `armed` and `handler` say which of them the socket has.
  Time advances in ticks.
- **Codec**: Engine.IO packets and batches, Socket.IO packets and the length
  field of a frame, over bytes. The state is the text a peer has sent so far and
  the length of a payload. Loops are recursive functions local to the operator
  (`EncodeBatch`, `segments`, `nonEmpty`, `itoa`, `atoi`) or a least position
  (`scan`).

Data is abstract everywhere but in Codec: payloads are model values with a size,
frames are numbers, and stamping pairs a payload with its seq.

## 3. Runs

All runs pass.

| Run | Asks | Bounds and why they suffice |
|---|---|---|
| `session` | buffer run and caps, prefix, nothing missing, gaps only beyond the window, refinement | 2 slots (one live, one displaced), 3 frames with a buffer of 2, queue of 1: evictions, overflow, oversized frames and lagging resumes all happen; slots are reused, so the number of reconnects is not bounded |
| `session_live` | every frame is seen or the session closed, so stalls end, unless a connection stays up that nobody writes to | 2 frames, queue of 1: stalls through the live and through a displaced connection, and write errors, all happen |
| `replay_ring` | the slice implements the sequence | 11 pushes, compaction at 3, three payload sizes |
| `dispatch` | once per key and window, rejected attempts burn no key | 5 keys, window 3, compaction at 2, 8 claims |
| `recovery` | store, list and hub agree, closed sessions stay closed | 3 connections, 2 sessions, 1 room, `MaxParked` 1, so eviction, displacement and expiry meet |
| `recovery_live` | displaced connections close, parked sessions end, the list is in order up to the delay of a goroutine | 2 connections, 2 parked sessions, clock values up to one tick stale |
| `polling` | a session that stays on polling: order, no gap but for abandoned GETs, progress of what was posted and written | 2 outbound frames and an outbox of 2 (batches, overflow), 1 posted message, a GET the peer may abandon; with two GETs that compete for the outbox `WireContiguous` holds as well (2.8 million states), and the theorem is for any number |
| `upgrade` | message order across the upgrade, two racing upgrade requests | 2 inbound messages, so one can be posted and one sent on the socket |
| `upgrade_live` | the reader and a waiting GET are released by the upgrade; a client whose active transport is closed ends both pumps | no messages: they would only help to release and to end them |
| `server` | hub maps, slots, order and completeness of broadcasts, hub calls return, drain closes everyone | 1 connection, 3 broadcasts and the notice, hub queue 2, client queue 1: both queues overflow, and every step races with the hub and with both shutdowns. The safety properties are proved for any number of connections (section 5); with `TwoClients`, `MaxEmits = 0` and `EmitBuffer = 1` in `MCServer.cfg`, where the limit is reached, all five hold as well (405 585 states) |
| `pumps` | messages whole and in order, heartbeat, locked writers, silent peers | 3 events (messages, control frames, outbound frames), 3 fragments with a read limit of 2, `pongWait` 2, `pingPeriod` 3, `RTT` 2, handlers of up to 1 tick: the largest values for which a responsive peer is safe; 1 frame ahead of the reader, apart from pongs and the rest of a message; every set of `limited`, `armed` and `handler` an upgrade can leave |
| `codec` | formats and lengths | every text of up to 7 bytes over the bytes the decoders tell apart (long enough for all parts of a binary packet), every length up to 66000, past both limits; `Atoi` overflows at 60 |

Deadlock is checked in the `recovery` runs. In the others the bounds on frames
and connections let the system come to rest, so it is off.

### Where code and documents differ

These came up while the models were written. TLC shows each as a violation of
the formula, with the constants of the module's run or those given; none of them
is a run of the project. Where a property of a run has an exception, the row says
what happens without it.

| Formula (module, constants) | Said by | What happens |
|---|---|---|
| `EventuallySeen` without its second disjunct, or with `up[c] /\ ~pump[c]` for `Deaf(c)` (Session, `MCSessionLive.cfg`) | `internal/session.go:34`, `docs/RECOVERY.md:106` | a WritePump that ends on a write error leaves its connection up until `ReadPump` notices; and an emit through a displaced connection stalls the session of the live one, while `hub.go:157` and `server.go:569` shut down the displaced connection |
| `[][(live # NoConn /\ noResume[live]) => live' \in {live, NoConn}]_vars` (Session) | `docs/RECOVERY.md:137` | a resume between `ctx.Disconnect` and `Leave` escapes the kick |
| `OldestFirst` without `MaxLag` (Recovery, `MaxLag = 1`) | `internal/session.go:359` | park times are read before the lock, so the list may be out of order by the delay of a goroutine |
| `HubFollowsSessions` without `c \in stray` (Recovery) | `internal/hub.go:329` | `RoomSize` counts a closed connection: one that joined from a handler after it was displaced, or from its disconnect callbacks; or one whose `Transfer` was overtaken by that of a newer resume, which moves the room to the displaced connection and leaves the newest without it |
| `pc[live[s]] # "panicked"` for attached `s` (Recovery), `ConnsExact` without `"panicked"` and `"aborted"` (Server) | not documented; `docs/MIDDLEWARE.md:19` has `Recover` cover connect middleware and `On` handlers | a panic in `OnConnect`, or in connect middleware without `Recover`, ends the handler before `ReadPump` starts: the slot, the hub entry and an attached session stay |
| `room \subseteq clients` (Server) | not documented | `OnDisconnect` runs after `Unregister`: a room joined there keeps the dead connection |
| `c \in halted ~> c \in down` (Server) | `internal/client.go:339` ("until the send channel closes") | WritePump returns on the first error and closes nothing: the client stays registered and gets nothing until its queue overflows or its read fails |
| `BurnedIsHandled` without `"none"` (Dispatch) | `docs/RECOVERY.md:61` ("handler runs once per key") | the key of an event without a handler is burned: once `On` has added one, a retry is dropped as a duplicate |
| `WireContiguous` (Polling, `Upgrades <- OneUpgrade`) | `docs/RECOVERY.md:57`, `:90` | a frame in the polling outbox is overtaken or stranded by the swap |
| `closer = "done" /\ onPong[Poll] => closed[current]` (Polling, `OneUpgrade`) | `internal/client.go:184` | `Close` takes the transport before `Swap` and closes it after: the new socket stays open |
| `reader \in Transports => armed[reader]` (Polling, `OneUpgrade`) | `types.go:61` | the socket is read without a deadline after the upgrade |
| `ResponsiveSurvives` without `handler`, `SilentPeerEnds` without `armed`, and no message over `ReadLimit` (Pumps) | `types.go:57`, `:61` | a socket that was swapped in lacks the pong handler, the deadline (until a message comes) and the read limit: a responsive peer that sends no messages for three deadlines is given up, a silent one may never be, and long messages pass |
| `reader = "done" => closed[Poll]` (Polling, `MCUpgradeLive.cfg`) | `internal/session_transport.go:22` | `applyUpgrade` (`poll_manager.go:111`) does not close the polling transport it replaces, as the comment of `Swap` asks, so the manager keeps the entry of the sid for ever |
| `mixed = {}` (Pumps) | RFC 6455, 5.4 | `ReadMessage` answers pings and close frames without `writeMu` (`conn.go:152`, `:162`), in the middle of a frame of another writer |
| `ResponsiveSurvives` without `Tuned` (Pumps, `RTT = 3` or `HandlerTime = 2`) | `README.md:52` (the callback is for a "slow or zombie peer") | `Config.normalized` does not relate `PingInterval` to `PongWait`, and pongs wait while a handler runs: a peer that answers every ping is given up |
| `EncodeInvertsDecode` without its condition (Codec, wire `0/,/`) | `internal/socketio/packet.go:104` | a payload that begins with a slash is encoded without its default namespace and read back as one |
| `conns <= MaxConnections` (Server, `TwoClients`, `MaxConnections = 1`) | `types.go:51` | the limit is checked before the slot is taken |
| `hub = "closed" /\ pc[c] = "serving" ~> c \in down` (Server, `FairSpec`) | `server.go:276` | a handler that registers after the hub has exited is served and never closed |

A read deadline inside a frame is outside the models (in Pumps a frame arrives
whole): `readFrame` drops the bytes it has consumed and `ReadPump` reads on after
the first two deadlines, so the rest of the frame is taken for a header, where
`conn.go:136` says "ReadMessage reads one complete text or binary application
message".

In addition `Hub.Emit` drops the shutdown notice when its queue is full
(`docs/WIRE_PROTOCOL.md:75` promises it to every client), and a wake token left
by a frame an earlier GET took ends the next GET with an empty body, where the
comment of `poll` has it wait (`PollEmpty`).

Each property of a passing run has a mutant: a variant of a definition, with a
plausible slip of the code, under which TLC finds the property violated. They
stand in the modules before the definition they vary.

## 4. Fairness

- Goroutines that can run do run (weak fairness of pumps, handlers, hub,
  sweeper, pending shutdowns), as the Go scheduler guarantees.
- `select` chooses at random among ready cases, so a case that is ready again
  and again is taken (strong fairness of `ReadInbox`, `ReadUpgraded` and
  `PollFrames`).
- `session_live`: a `ReadPump` leaves once its transport is closed by the server (no
  fairness of `Leave` while it is only the WritePump that has ended); the peer
  reconnects, and the network lets a write through now
  and then (strong fairness of `WriteFrame`). These are assumptions about the
  environment; without them nothing can be delivered.
- A read of a closed transport fails; time passes (`Tick`).
- `pumps`: the reader, the pump's ping, its payload and its end, and time. A
  goroutine that can run does so before the next tick, and a write to a peer that
  reads does not block; a silent peer's writes fail sooner or later
  (`WriteWait`).
- No fairness is assumed of drops, emits, joins, kicks or of peers leaving.

`ShutdownWithMessage` sleeps 500 ms between the notice and the drain. Time is not
modelled in Server: the sleep may end before the hub has emptied its queue.

## 5. Proofs

Eight modules prove every invariant and every action property of the runs, each
under the named assumption of its module only (`BufferConstants`,
`SessionConstants`, `RingConstants`, ...), which TLC evaluates in the runs.

### Replay buffer and session

`ReplayRing_proofs`, for all limits, payload sizes and compaction thresholds:

| Theorem | Statement |
|---|---|
| `RingImplementsBuffer` | `ringSpec => RingIsBuffer` |
| `SlackIsBounded` | `ringSpec => []SlackBounded` |

The invariant `RingInv` says that the slice is sound: cleared up to `head`, with
bounded slack, and `bytes` is the sum of the sizes of the live entries. One
`dropOldest` of a sound slice is one drop of the sequence it stands for, whether
it clears, empties or compacts; by induction so are any number, and the loops of
`push` and `ackUpTo` then stop after equally many on both sides. That the limits
decide the same way needs `bytes` to be the sum, so the sums over sequences
are treated here, too, for `BufferIsCapped` below.

`Session_proofs`, for all sets of connections and payloads, all limits and
bounds:

| Theorem | Statement |
|---|---|
| `TypeCorrect` | `Spec => []TypeOK` |
| `BufferIsRun` | `Spec => []BufferRun` |
| `BufferIsCapped` | `Spec => []BufferCaps` |
| `PeerSeesPrefix` | `Spec => []PeerPrefix` |
| `NothingMissing` | `Spec => []UnseenInFlight` |
| `GapIsBeyondWindow` | `Spec => []GapOnlyBeyondWindow` |
| `SessionRefinesStream` | `Spec => ImplementsReliableStream` |
| `ReplayIsExact` | a resume that `verdict` accepts replays exactly the frames after the peer's seq |

The argument: the peer's prefix can only break if the frame it takes next is not
the one it needs. So the invariant must say where the frames it has not seen
are: on the transport in use, the replay followed by the queue holds them all in
order, with nothing missing before the first it needs, unless the session is
stalled, in which case a prefix of them (`UnseenInFlight`). A resume
re-establishes this from the buffer, which needs `BufferRun`: the buffer is a
contiguous run that ends with the newest frame, so `covers` decides correctly
and `after` returns the right suffix. `SlotInv` adds that the peer uses one
transport at a time and that a free slot has an empty queue.
`IInv == TypeOK /\ BufferRun /\ PeerPrefix /\ UnseenInFlight /\ SlotInv` is
inductive; there is one lemma per action (or group of actions with the same
effect) and `NextIInv` puts them together. The refinement maps the log and the
peer's history to the stream's and is proved step by step from `IInv`.
`GapOnlyBeyondWindow` speaks of frames that may have left the buffer long ago:
`WindowInv` remembers that the peer has seen the newest frame that was dropped, or
that this frame and the newer ones do not fit the limits together, which later
frames can only make worse.

### Store and hub

`Recovery_proofs`, for any number of connections, sessions and rooms, any park
limit, TTL and clock lag:

| Theorem | Statement |
|---|---|
| `ParkedListIsExact` | `Spec => []ParkedExact` |
| `ParkOrder` | `Spec => []OldestFirst` |
| `AttachedAreServed` | `Spec => []AttachedIsServed` |
| `ClosedStaysClosed` | `Spec => ClosedForGood` |
| `HubFollows` | `Spec => []HubFollowsSessions` |
| `HubDoesNotLeak` | `Spec => []NoClientLeak` |

`IInv` has two halves. `StoreInv` is what holds whenever `SessionStore.mu` is
free: a connection is bound to a session once, and what awaits its release is closed.
`HubInv` accounts for the time between the critical section and the hub call that
follows it: a client that is in `Hub.clients` and no longer its session's member
has a transfer pending, the member of a closed session a release. For rooms,
`OverInHub` says that a connection that is over and still registered is hidden or
superseded as its session's member, and `InRooms` that a room member is registered or `stray`;
together they bound what a late join or an overtaken transfer can leave behind.

### Dispatch

`Dispatch_proofs`, for any number of keys and connections, any window and
threshold: `HandledOncePerWindow` (`OncePerWindow`), `WindowIsExact`
(`WindowExact`) and `BurnedKeysAreHandled` (`BurnedIsHandled`). The window and
`OncePerWindow` are one invariant: eviction of the oldest key takes one key out of
the set only because no key is in the window twice.

### Polling

`Polling_proofs`, for any number of upgrade requests and GETs and any capacities:

| Theorem | Statement | Rests on |
|---|---|---|
| `OneSocketIsActive` | `Spec => []NoOrphanSocket` | `OneWinner`: one request at most passes `applyUpgrade` |
| `EntryIsRemoved` | `Spec => [](reader = "done" /\ ~closed[Poll] => current # Poll)` | `HoldsActive`: what each goroutine holds |
| `HandledAreInOrder` | `Spec => []HandledInOrder` | `InInv`: messages in the inbox, in the POST and on the socket follow each other, across the upgrade |
| `PollingIsContiguous` | `Spec => [](current = Poll => WireContiguous)` | `OutInv`: outbox and send queue continue what the peer has |
| `NoUpgradeNoGap` | the same without `current = Poll`, if `Upgrades = {}` | |

`WireContiguous` is false of sessions that upgrade (section 3), so its theorems
are about the time before the swap. `EntryIsRemoved` says that an entry which
outlives its client (`~closed[Poll]`) is that of a session that upgraded: no other
path leaks it.

### Server

`Server_proofs`, for every set of connections (finite or not) and every capacity:

| Theorem | Statement | Invariant |
|---|---|---|
| `HubForgets` | `Spec => []GoneIsForgotten` | `HubInv` adds that while the hub runs, a connection in its handlers is registered, but for the disconnect callbacks: so every other join finds its client in the map |
| `SlotsAreExact` | `Spec => []ConnsExact` | `SlotInv` adds that finitely many connections hold a slot; each step moves one connection into, within or out of the set |
| `ServerTypeCorrect` | `Spec => []TypeOK` | the queues keep to their capacities |
| `FramesAreComplete` | `Spec => []FramesComplete` | `FrameInv`: the jobs that wait in the hub are in order and newer than every frame any client was given, which keeps lines sorted when `HubEmits` appends; a target whose queue is full becomes slow in the same step, which keeps the others complete, and a failed write halts the pump, so that one frame at most is lost |

### Pumps

`Pumps_proofs`, for all periods, limits and bounds:

| Theorem | Statement |
|---|---|
| `ResponsivePeerSurvives` | `Spec => []ResponsiveSurvives` |
| `QuietPeerIsGivenUp` | `Spec => []QuietBounded` |
| `LockedFramesAreWhole` | `Spec => []LockedWritesWhole` |
| `MessagesArriveWhole` | `Spec => []DeliveredAreSent` |
| `PumpsTypeCorrect` | `Spec => []TypeOK` |

The invariant of the heartbeat is about time: the ticks left until the third
deadline (`slack`) suffice for a pong that is in the inbox, for the answer to a
ping the peer still owes, or for the next ping and its answer (`PongComing`).
Every step either keeps this or brings a pong, which starts the three deadlines
anew; this part (`BeatInv`) needs the pong handler, while `QuietInv` only needs a
deadline. `Tuned` is what makes it true after a reset, and it is tight: TLC finds a
responsive peer given up when either bound is raised by one. `Mutex` says who
holds `writeMu` while a frame is half written. For the messages, `StreamInv` says
that the frames on their way take the stream from the place the reader has
reached to the place the peer has reached; after a timeout in the middle of a
message the reader has lost its beginning, and refuses the rest.

### Codec

`Codec_proofs`, for texts of any length over any bytes and any `MaxInt`:

| Theorem | Statement |
|---|---|
| `DecodeIsGrammar` | `Spec => []DecodeFollowsGrammar` |
| `EncodeIsInverse` | `Spec => []EncodeInvertsDecode` |
| `DecodeInvertsEncode` | `SIODecode(SIOEncode(p))` is `p` for every packet with a type, counts up to `MaxInt`, a namespace that begins with a slash and has no comma, and a payload that begins with neither a digit nor a slash |
| `BatchIsInverse` | `Spec => []BatchRoundTrip` |
| `LengthIsExact`, `FrameLengthInverse` | `Spec => []LengthExact`; the length field is read back for every length below 2^32 |

The only invariant of the state is that `wire` is a text. The work is in the
functions: each scanning loop returns the one place where its part of the
grammar can end, so a text has at most one parse and the decoder finds it.
`EncodeIsInverse` follows from `DecodeInvertsEncode`, since every packet Decode
returns meets its conditions but for the slash, which the property excludes; in
particular `Encode` returns none of its errors for it (`encodable`). For batches,
`segments` of a joined batch are the encoded packets again, because a packet that came out of a segment has no separator.

### How the inductions are done

The provers cannot instantiate an induction theorem that takes an operator.
`SetInduction` states induction over the naturals for a set (from
`WellFoundedInduction`), and lemmas (`StepsExist`, `DropsExist`, `CountsExists`,
...) show that the functions defined by recursion exist and
satisfy their equations. With these, what `itoa`, `atoi`, `segments`, `nonEmpty`,
`EncodeBatch`, `dropTimes` and the byte sums compute is proved for arguments of any size.

### Only model-checked

Liveness, which is out of the prover's reach: `EventuallySeen`,
`DisplacedCloses`, `ParkedEnds`, `NothingStranded`, `UpgradeReleases`,
`ClosedEnds`, `SilentPeerEnds`, `HubCallsReturn` and `DrainCloses`.

## 6. Not modelled

- The WebSocket library, the HTTP upgrade and masking: outside Pumps and Codec
  transports are reliable channels that may break. Bytes of a frame that arrive
  one by one.
- Counters, logging, configuration defaults, metadata, JSON. What a middleware
  computes, the rate limiter included: rejecting is a free choice in Dispatch.
- Wrap-around of the 64-bit seq: `verdict` refuses a seq that is not below
  `next` before `lastSeq+1` is formed, and `next` counts frames.
- Recovery together with the drain of the hub; frames sent between
  `hub.Register` and `openSession`, which go out unsequenced.
- Panics that end the process: in `OnConnect` on a polling session, which runs in
  a goroutine of its own, and in event handlers without `Recover`.

## 7. Plan

Done: the session layer with its refinement, store and hub membership, dispatch,
long polling with upgrade, server lifecycle, pumps and heartbeat, codecs; proofs
of the safety properties of all of them.

Next, in this order; the runs stay few, so a new question replaces or joins an
older one rather than adding to the list:

1. **Recovery with shutdown**: the store, its sweeper and parked members while
   the hub drains; frames sent before a session is bound.
2. **Rate limiter**: `AllowEvent` with a clock, shared by the limiters of a chain.

## 8. Running

    tlc -workers 2 -config MCSession.cfg MCSession
    tlapm Server_proofs.tla    # likewise the other *_proofs modules
