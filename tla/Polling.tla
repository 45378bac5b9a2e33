------------------------------ MODULE Polling ------------------------------
(***************************************************************************)
(* One Engine.IO session: the polling transport, the sessionTransport that *)
(* hides it from the client's pumps, the poll manager's entry for its sid, *)
(* the HTTP handlers that serve it (GET, POST, WebSocket upgrade) and the   *)
(* upgrade itself.  Every HTTP request and both pumps are goroutines; a     *)
(* step is what one of them does between two points at which another can    *)
(* be seen: reading active(), checking closed, a channel operation, a       *)
(* critical section of the manager.                                         *)
(*                                                                          *)
(* The entry of the sid exists exactly while the polling transport is open: *)
(* create makes both and only pollingTransport.Close removes it (onClose).  *)
(*                                                                          *)
(* Frames are numbered in the order they are sent: 1..MaxIn by the peer,    *)
(* 1..MaxOut by the server.                                                 *)
(***************************************************************************)
EXTENDS Naturals, Sequences, Functions

CONSTANTS
  Poll,         \* the polling transport
  Upgrades,     \* WebSocket upgrade requests; also names the socket each opens
  Gets,         \* GET requests that may be in progress at once
  InboxCap,     \* capacity of pollingTransport.inbox (64 in the code)
  OutboxCap,    \* capacity of pollingTransport.outbox (64 in the code)
  MissedLimit,  \* read timeouts without a pong that are tolerated (2)
  MaxIn,        \* bound: frames the peer sends
  MaxOut,       \* bound: frames the server sends
  Aborts        \* whether the peer may abandon a GET in progress

ASSUME PollingConstants ==
  /\ Poll \notin Upgrades
  /\ ({Poll} \cup Upgrades) \cap {"attach", "armed", "idle", "closing", "ended", "done"} = {}
  /\ {InboxCap, OutboxCap, MissedLimit} \subseteq Nat \ {0}
  /\ {MaxIn, MaxOut} \subseteq Nat
  /\ Aborts \in BOOLEAN

VARIABLES
  flags,      \* pollSession.probed, upgradeOK, upgraded
  current,    \* sessionTransport.current
  closed,     \* per transport: closed by the server
  inbox, outbox, wake, upgrade,   \* the channels of the polling transport
  armed,      \* per transport: has a read deadline
  onPong,     \* per transport: has the client's pong handler
  reader,     \* ReadPump: a step, or the transport it is reading
  missed,     \* Client.missedPongs
  writer,     \* WritePump: a step, or the transport it is writing to
  send,       \* Client.send
  sendClosed, \* close(c.send) has been done
  closer,     \* closeRaw: a step, or the transport it is about to close
  get,        \* per GET: its step
  post,       \* packets the POST in progress has still to handle
  posting,    \* that POST has checked closed and is about to send to inbox
  upg,        \* per upgrade request: its step
  wsIn,       \* per socket: frames of the peer not yet read
  sent,       \* frames the peer has sent
  emitted,    \* frames the server has queued
  handled,    \* frames handed to onMessage
  got,        \* frames the peer has received
  lost        \* frames in the answers to GETs the peer had abandoned

manager == <<flags, current, upg>>
polling == <<inbox, outbox, wake, upgrade>>
pumps   == <<reader, missed, armed, onPong, writer, send, sendClosed, closer>>
http    == <<get, post, posting>>
peer    == <<wsIn, sent, emitted, handled, got, lost>>
vars    == <<manager, closed, polling, pumps, http, peer>>

Transports == {Poll} \cup Upgrades
Packet(t, n) == [type |-> t, n |-> n]
Control(t) == Packet(t, 0)
IsMessage(p) == p.type = "message"

\* The messages of a body or a socket frame, which has no others if it has one.
messageCount(ps) == IF IsMessage(Head(ps)) THEN Len(ps) ELSE 0

\* A packet in the outbox is the number of its message, or 0 for a ping, pong,
\* close or noop: the server does not look at it again.
ControlPacket == 0

\* pollManager.create and serveHandshake: the session exists, attach is about to run.
Init ==
  /\ flags = [probed |-> FALSE, upgradeOK |-> FALSE, upgraded |-> FALSE]
  /\ current = Poll
  /\ closed = [t \in Transports |-> FALSE]
  /\ inbox = <<>> /\ outbox = <<>> /\ wake = FALSE /\ upgrade = FALSE
  /\ armed = [t \in Transports |-> FALSE]
  /\ onPong = [t \in Transports |-> FALSE]
  /\ reader = "attach" /\ missed = 0 /\ writer = "attach"
  /\ send = <<>> /\ sendClosed = FALSE /\ closer = "idle"
  /\ get = [g \in Gets |-> "idle"] /\ post = <<>> /\ posting = FALSE
  /\ upg = [u \in Upgrades |-> "idle"]
  /\ wsIn = [u \in Upgrades |-> <<>>]
  /\ sent = 0 /\ emitted = 0 /\ handled = <<>> /\ got = <<>> /\ lost = {}
-----------------------------------------------------------------------------
(* The channels of the polling transport *)

\* enqueueOutbound succeeds.
hasRoom == ~closed[Poll] /\ Len(outbox) < OutboxCap

enqueueOutbound(p) ==
  IF hasRoom THEN outbox' = Append(outbox, p) /\ wake' = TRUE
             ELSE UNCHANGED <<outbox, wake>>

\* pollingTransport.Close, eioWebSocketTransport.Close.
Close(t) == closed' = [closed EXCEPT ![t] = TRUE]

\* The pong handler of ReadPump, if transport t has it.
firePong(t) ==
  IF onPong[t]
  THEN missed' = 0 /\ armed' = [armed EXCEPT ![current] = TRUE]
  ELSE UNCHANGED <<missed, armed>>
-----------------------------------------------------------------------------
(* The client: attach, pumps, closeRaw *)

\* attachPollTransport refuses the transport and closes it.
AttachRefused ==
  /\ reader = "attach" /\ closer = "idle"
  /\ reader' = "ended" /\ writer' = "done" /\ closer' = current
  /\ UNCHANGED <<manager, closed, polling, missed, armed, onPong, send, sendClosed, http, peer>>

\* serveTransport starts the pumps; ReadPump arms the deadline ...
StartPumps ==
  /\ reader = "attach" /\ closer = "idle"
  /\ reader' = "armed" /\ writer' = "idle"
  /\ armed' = [armed EXCEPT ![current] = TRUE]
  /\ UNCHANGED <<manager, closed, polling, missed, onPong, send, sendClosed, closer, http, peer>>

\* ... and sets the pong handler, on the transport that is active by then.
OnPong ==
  /\ reader = "armed"
  /\ reader' = "idle"
  /\ onPong' = [onPong EXCEPT ![current] = TRUE]
  /\ UNCHANGED <<manager, closed, polling, missed, armed, writer, send, sendClosed, closer, http, peer>>

ReadCallDrains ==
  /\ reader = "idle"
  /\ reader' = IF inbox # <<>> THEN Poll ELSE IF closed[current] THEN "ended" ELSE current
  /\ UNCHANGED <<manager, closed, polling, missed, armed, onPong, writer, send, sendClosed, closer, http, peer>>

\* sessionTransport.Read takes the active transport and starts to read it.
ReadCall ==
  /\ reader = "idle"
  /\ reader' = IF closed[current] THEN "ended" ELSE current
  /\ UNCHANGED <<manager, closed, polling, missed, armed, onPong, writer, send, sendClosed, closer, http, peer>>

\* ReadPump got message n: the deadline is renewed and the handler runs.
deliver(n) ==
  /\ handled' = Append(handled, n)
  /\ armed' = [armed EXCEPT ![current] = TRUE]
  /\ reader' = "idle"

ReadInbox ==
  /\ reader = Poll /\ inbox # <<>>
  /\ deliver(Head(inbox))
  /\ inbox' = Tail(inbox)
  /\ UNCHANGED <<manager, closed, outbox, wake, upgrade, missed, onPong, writer, send, sendClosed, closer, http, wsIn, sent, emitted, got, lost>>

\* The inbox is closed and drained.
ReadEOF ==
  /\ reader = Poll /\ inbox = <<>> /\ closed[Poll]
  /\ reader' = "ended"
  /\ UNCHANGED <<manager, closed, polling, missed, armed, onPong, writer, send, sendClosed, closer, http, peer>>

\* errTransportUpgraded: sessionTransport.Read goes round its loop.
ReadUpgraded ==
  /\ reader = Poll /\ upgrade
  /\ upgrade' = FALSE
  /\ reader' = "idle"
  /\ UNCHANGED <<manager, closed, inbox, outbox, wake, missed, armed, onPong, writer, send, sendClosed, closer, http, peer>>

\* The read deadline passes.  Polling has a default deadline, a socket has none.
ReadTimeout(t) ==
  /\ reader = t /\ (t = Poll \/ armed[t])
  /\ \/ /\ missed >= MissedLimit
        /\ reader' = "ended"
        /\ UNCHANGED <<missed, armed>>
     \/ /\ missed < MissedLimit
        /\ reader' = "idle" /\ missed' = missed + 1
        /\ armed' = [armed EXCEPT ![current] = TRUE]
  /\ UNCHANGED <<manager, closed, polling, onPong, writer, send, sendClosed, closer, http, peer>>

\* eioWebSocketTransport.Read takes one frame: it returns at the first message
\* (what follows in the frame is dropped) or close packet; pongs are handled on the way.
ReadFrame(u) ==
  /\ reader = u /\ wsIn[u] # <<>> /\ ~closed[u]
  /\ LET p == Head(Head(wsIn[u])) IN
       \/ p.type = "message" /\ deliver(p.n) /\ UNCHANGED <<missed, closed>>
       \/ p.type = "pong" /\ firePong(u) /\ UNCHANGED <<reader, handled, closed>>
       \/ /\ p.type = "close" /\ Close(u)
          /\ reader' = "ended" /\ UNCHANGED <<missed, armed, handled>>
  /\ wsIn' = [wsIn EXCEPT ![u] = Tail(@)]
  /\ UNCHANGED <<manager, polling, onPong, writer, send, sendClosed, closer, http, sent, emitted, got, lost>>

\* raw.Read fails: the socket was closed here or the network lost it.
ReadFails(u) ==
  /\ reader = u
  /\ reader' = "ended"
  /\ UNCHANGED <<manager, closed, polling, missed, armed, onPong, writer, send, sendClosed, closer, http, peer>>

\* closeRaw (shutdownOnce) takes the active transport ...
closeRaw ==
  /\ closer = "idle" /\ reader # "attach"
  /\ closer' = current
  /\ UNCHANGED <<manager, closed, polling, reader, missed, armed, onPong, writer, send, sendClosed, http, peer>>

CloseActiveOnly ==
  /\ closer \in Transports
  /\ Close(closer)
  /\ closer' = "done"
  /\ UNCHANGED <<manager, polling, reader, missed, armed, onPong, writer, send, sendClosed, http, peer>>

\* ... closes it, and closes the send channel.
CloseActive ==
  /\ closer \in Transports
  /\ Close(closer)
  /\ closer' = "done" /\ sendClosed' = TRUE
  /\ UNCHANGED <<manager, polling, reader, missed, armed, onPong, writer, send, http, peer>>

\* ReadPump's deferred closeRaw returns, whoever ran it.
ReadPumpReturns ==
  /\ reader = "ended" /\ closer = "done"
  /\ reader' = "done"
  /\ UNCHANGED <<manager, closed, polling, missed, armed, onPong, writer, send, sendClosed, closer, http, peer>>

\* The server queues a frame for this client (the queue's overflow is Session's subject).
Emit ==
  /\ emitted < MaxOut /\ ~sendClosed /\ writer # "attach"
  /\ emitted' = emitted + 1
  /\ send' = Append(send, emitted + 1)
  /\ UNCHANGED <<manager, closed, polling, reader, missed, armed, onPong, writer, sendClosed, closer, http, wsIn, sent, handled, got, lost>>

\* WritePump takes a frame and sessionTransport.Write takes the active transport.
WriteCall ==
  /\ writer = "idle" /\ send # <<>>
  /\ writer' = current
  /\ UNCHANGED <<manager, closed, polling, reader, missed, armed, onPong, send, sendClosed, closer, http, peer>>

\* Write: polling queues the frame for the next GET, a socket sends it.
\* Any error ends WritePump.
Write ==
  /\ writer \in Transports
  /\ send' = Tail(send)
  /\ \/ /\ writer = Poll
        /\ enqueueOutbound(Head(send))
        /\ writer' = IF hasRoom THEN "idle" ELSE "closing"
        /\ UNCHANGED got
     \/ /\ writer # Poll /\ ~closed[writer]
        /\ writer' = "idle" /\ got' = Append(got, Head(send))
        /\ UNCHANGED <<outbox, wake>>
     \/ /\ writer # Poll
        /\ writer' = "closing"
        /\ UNCHANGED <<outbox, wake, got>>
  /\ UNCHANGED <<manager, closed, inbox, upgrade, reader, missed, armed, onPong, sendClosed, closer, http, wsIn, sent, emitted, handled, lost>>

\* The ticker: Ping on the active transport.
Ping ==
  /\ writer = "idle"
  /\ IF current = Poll
     THEN enqueueOutbound(ControlPacket) /\ writer' = IF hasRoom THEN "idle" ELSE "closing"
     ELSE UNCHANGED <<outbox, wake>> /\ writer' = IF closed[current] THEN "closing" ELSE "idle"
  /\ UNCHANGED <<manager, closed, inbox, upgrade, reader, missed, armed, onPong, send, sendClosed, closer, http, peer>>

\* The send channel is closed and drained.
WriteEnds ==
  /\ writer = "idle" /\ send = <<>> /\ sendClosed
  /\ writer' = "closing"
  /\ UNCHANGED <<manager, closed, polling, reader, missed, armed, onPong, send, sendClosed, closer, http, peer>>

\* writeCloseFrame, on the active transport.
SendClose ==
  /\ writer = "closing"
  /\ IF current = Poll THEN enqueueOutbound(ControlPacket) ELSE UNCHANGED <<outbox, wake>>
  /\ writer' = "done"
  /\ UNCHANGED <<manager, closed, inbox, upgrade, reader, missed, armed, onPong, send, sendClosed, closer, http, peer>>
-----------------------------------------------------------------------------
(* GET: long poll *)

\* getPolling finds the session.
known == ~closed[Poll] /\ ~flags.upgraded

\* The peer has one GET that it waits for at a time.
GetPolling(g) ==
  /\ known /\ get[g] = "idle"
  /\ \A h \in Gets \ {g} : get[h] \in {"idle", "abandoned", "abandonedBatch"}
  /\ get' = [get EXCEPT ![g] = "poll"]
  /\ UNCHANGED <<manager, closed, polling, pumps, post, posting, peer>>

PollStart(g) ==
  /\ get[g] = "poll"
  /\ get' = [get EXCEPT ![g] = IF closed[Poll] THEN "idle" ELSE "select"]
  /\ UNCHANGED <<manager, closed, polling, pumps, post, posting, peer>>

\* The peer hangs up; the handler does not notice and stays in its select.
Abandon(g) ==
  /\ Aborts /\ get[g] = "select"
  /\ get' = [get EXCEPT ![g] = "abandoned"]
  /\ UNCHANGED <<manager, closed, polling, pumps, post, posting, peer>>

waiting(g) == get[g] \in {"select", "abandoned"}

\* The next packet in the outbox goes into the body, which reaches the peer
\* unless it has hung up.  (One that hangs up now might as well have done so
\* before: the handler does not notice.)
receive(g) ==
  LET m == {Head(outbox)} \ {ControlPacket}
  IN  /\ outbox' = Tail(outbox)
      /\ IF get[g] \in {"abandoned", "abandonedBatch"}
         THEN lost' = lost \cup m /\ UNCHANGED got
         ELSE got' = (IF m = {} THEN got ELSE Append(got, Head(outbox))) /\ UNCHANGED lost

toBatch(g) ==
  get' = [get EXCEPT ![g] = IF @ = "abandoned" THEN "abandonedBatch" ELSE "batch"]

PollFramesFull(g) ==
  /\ waiting(g) /\ Len(outbox) = OutboxCap
  /\ receive(g) /\ wake' \in {wake, FALSE}
  /\ toBatch(g)
  /\ UNCHANGED <<manager, closed, inbox, upgrade, pumps, post, posting, wsIn, sent, emitted, handled>>

\* poll receives a packet, by the outbox case (wake keeps its token) or by the
\* wake case, and collectBatch ...
PollFrames(g) ==
  /\ waiting(g) /\ outbox # <<>>
  /\ receive(g) /\ wake' \in {wake, FALSE}
  /\ toBatch(g)
  /\ UNCHANGED <<manager, closed, inbox, upgrade, pumps, post, posting, wsIn, sent, emitted, handled>>

inBatch(g) == get[g] \in {"batch", "abandonedBatch"}

collectBatchDrops(g) ==
  /\ inBatch(g)
  /\ \/ outbox # <<>> /\ outbox' = Tail(outbox) /\ UNCHANGED get
     \/ outbox = <<>> /\ get' = [get EXCEPT ![g] = "idle"] /\ UNCHANGED outbox
  /\ UNCHANGED <<manager, closed, inbox, wake, upgrade, pumps, post, posting, peer>>

\* ... goes on, packet by packet, until it finds the outbox empty.
collectBatch(g) ==
  /\ inBatch(g)
  /\ \/ outbox # <<>> /\ receive(g) /\ UNCHANGED get
     \/ outbox = <<>> /\ get' = [get EXCEPT ![g] = "idle"] /\ UNCHANGED <<outbox, got, lost>>
  /\ UNCHANGED <<manager, closed, inbox, wake, upgrade, pumps, post, posting, wsIn, sent, emitted, handled>>

\* poll: the wake case with nothing queued returns no body.
PollEmpty(g) ==
  /\ waiting(g) /\ outbox = <<>> /\ wake
  /\ wake' = FALSE
  /\ get' = [get EXCEPT ![g] = "idle"]
  /\ UNCHANGED <<manager, closed, inbox, outbox, upgrade, pumps, post, posting, peer>>

\* poll: the timer case answers with a ping.
PollTimeout(g) ==
  /\ waiting(g)
  /\ get' = [get EXCEPT ![g] = "idle"]
  /\ UNCHANGED <<manager, closed, polling, pumps, post, posting, peer>>
-----------------------------------------------------------------------------
(* POST *)

\* Bodies the peer posts.  A peer that upgrades probes, then sends the upgrade
\* packet, and stops posting messages once its socket is open.
onSocket == \E u \in Upgrades : upg[u] \notin {"idle", "refused"}
Bodies ==
  {<<Control("ping")>>, <<Control("pong")>>, <<Control("close")>>}
  \cup (IF Upgrades # {} /\ ~flags.probed THEN {<<Control("probe")>>, <<Control("probePong")>>} ELSE {})
  \cup (IF flags.probed /\ ~flags.upgradeOK THEN {<<Control("upgrade")>>} ELSE {})
  \cup {[i \in 1..k |-> Packet("message", sent + i)] :
          k \in IF onSocket THEN {} ELSE {j \in {1, 2} : sent + j <= MaxIn}}

PostStart(b) ==
  /\ known /\ post = <<>> /\ b \in Bodies
  /\ post' = b
  /\ sent' = sent + messageCount(b)
  /\ UNCHANGED <<manager, closed, polling, pumps, get, posting, wsIn, emitted, handled, got, lost>>

\* handleOne for a ping: it is answered, and one with the probe payload is
\* recorded if the session still exists; no room for the answer ends the POST.
PostPing ==
  /\ post # <<>> /\ Head(post).type \in {"ping", "probe"}
  /\ flags' = [flags EXCEPT !.probed = @ \/ (Head(post).type = "probe" /\ ~closed[Poll])]
  /\ enqueueOutbound(ControlPacket)
  /\ post' = IF hasRoom THEN Tail(post) ELSE <<>>
  /\ UNCHANGED <<current, upg, closed, inbox, upgrade, pumps, get, posting, peer>>

\* handleOne for a pong; one with the probe payload counts as a probe, too.
PostPong ==
  /\ post # <<>> /\ Head(post).type \in {"pong", "probePong"}
  /\ flags' = [flags EXCEPT !.probed = @ \/ (Head(post).type = "probePong" /\ ~closed[Poll])]
  /\ firePong(Poll)
  /\ post' = Tail(post)
  /\ UNCHANGED <<current, upg, closed, polling, reader, onPong, writer, send, sendClosed, closer, get, posting, peer>>

PostUpgrade ==
  /\ post # <<>> /\ Head(post).type = "upgrade"
  /\ flags' = [flags EXCEPT !.upgradeOK = @ \/ ~closed[Poll]]
  /\ post' = Tail(post)
  /\ UNCHANGED <<current, upg, closed, polling, pumps, get, posting, peer>>

PostClose ==
  /\ post # <<>> /\ Head(post).type = "close"
  /\ Close(Poll)
  /\ post' = <<>>
  /\ UNCHANGED <<manager, polling, pumps, get, posting, peer>>

\* deliverInbound checks closed ...
PostMessage ==
  /\ post # <<>> /\ Head(post).type = "message" /\ ~posting
  /\ posting' = ~closed[Poll]
  /\ post' = IF closed[Poll] THEN <<>> ELSE post
  /\ UNCHANGED <<manager, closed, polling, pumps, get, peer>>

\* ... and sends.  A full inbox is an error; sending on the inbox that Close has
\* closed meanwhile panics, which net/http recovers: either way the POST is over.
deliverInbound ==
  /\ posting
  /\ posting' = FALSE
  /\ IF ~closed[Poll] /\ Len(inbox) < InboxCap
     THEN inbox' = Append(inbox, Head(post).n) /\ post' = Tail(post)
     ELSE UNCHANGED inbox /\ post' = <<>>
  /\ UNCHANGED <<manager, closed, outbox, wake, upgrade, pumps, get, peer>>
-----------------------------------------------------------------------------
(* Upgrade to WebSocket *)

readyForUpgrade == ~closed[Poll] /\ flags.probed /\ flags.upgradeOK /\ ~flags.upgraded
setStep(u, s) == upg' = [upg EXCEPT ![u] = s]

\* serveWebSocketUpgrade: the session is ready and the socket is open.
UpgradeRequest(u) ==
  /\ upg[u] = "idle" /\ readyForUpgrade
  /\ setStep(u, "open")
  /\ UNCHANGED <<flags, current, closed, polling, pumps, http, peer>>

applyUpgradeUnchecked(u) ==
  /\ upg[u] = "open"
  /\ flags' = [flags EXCEPT !.upgraded = TRUE]
  /\ setStep(u, "swap")
  /\ UNCHANGED <<current, closed, polling, pumps, http, peer>>

\* applyUpgrade under the manager's lock; a refused socket is closed.
applyUpgrade(u) ==
  /\ upg[u] = "open"
  /\ IF readyForUpgrade
     THEN flags' = [flags EXCEPT !.upgraded = TRUE] /\ setStep(u, "swap") /\ UNCHANGED closed
     ELSE setStep(u, "refused") /\ Close(u) /\ UNCHANGED flags
  /\ UNCHANGED <<current, polling, pumps, http, peer>>

Swap(u) ==
  /\ upg[u] = "swap"
  /\ current' = u
  /\ setStep(u, "noop")
  /\ UNCHANGED <<flags, closed, polling, pumps, http, peer>>

\* A noop releases the GET in progress.
Noop(u) ==
  /\ upg[u] = "noop"
  /\ enqueueOutbound(ControlPacket)
  /\ setStep(u, "signal")
  /\ UNCHANGED <<flags, current, closed, inbox, upgrade, pumps, http, peer>>

signalSkipped(u) ==
  /\ upg[u] = "signal"
  /\ setStep(u, "done")
  /\ UNCHANGED <<flags, current, closed, polling, pumps, http, peer>>

\* signalUpgrade releases the reader of the polling transport.
signalUpgrade(u) ==
  /\ upg[u] = "signal"
  /\ upgrade' = TRUE
  /\ setStep(u, "done")
  /\ UNCHANGED <<flags, current, closed, inbox, outbox, wake, pumps, http, peer>>

\* The peer sends a frame of one or two messages, a pong or a close on its socket.
PeerSends(u, frame) ==
  /\ upg[u] \notin {"idle", "refused"} /\ ~closed[u] /\ Len(wsIn[u]) < InboxCap
  /\ wsIn' = [wsIn EXCEPT ![u] = Append(@, frame)]
  /\ sent' = sent + messageCount(frame)
  /\ UNCHANGED <<manager, closed, polling, pumps, http, emitted, handled, got, lost>>

Frames ==
  {<<Control("pong")>>, <<Control("close")>>}
  \cup {[i \in 1..k |-> Packet("message", sent + i)] : k \in {j \in {1, 2} : sent + j <= MaxIn}}
-----------------------------------------------------------------------------
Reading ==
  \/ OnPong \/ ReadCall \/ ReadInbox \/ ReadEOF \/ ReadUpgraded
  \/ \E u \in Upgrades : ReadFrame(u)
Writing == WriteCall \/ Write \/ WriteEnds \/ SendClose
Posting == PostPing \/ PostPong \/ PostUpgrade \/ PostClose \/ PostMessage \/ deliverInbound
Upgrading(u) == applyUpgrade(u) \/ Swap(u) \/ Noop(u) \/ signalUpgrade(u)

Next ==
  \/ AttachRefused \/ StartPumps
  \/ Reading \/ ReadPumpReturns
  \/ \E t \in Transports : ReadTimeout(t)
  \/ closeRaw \/ CloseActive
  \/ Emit \/ Writing \/ Ping
  \/ \E g \in Gets :
       \/ GetPolling(g) \/ PollStart(g) \/ Abandon(g)
       \/ PollFrames(g) \/ collectBatch(g) \/ PollEmpty(g) \/ PollTimeout(g)
  \/ Posting \/ \E b \in Bodies : PostStart(b)
  \/ \E u \in Upgrades :
       \/ UpgradeRequest(u) \/ Upgrading(u) \/ ReadFails(u)
       \/ \E f \in Frames : PeerSends(u, f)

Spec == Init /\ [][Next]_vars

\* Goroutines that can run do run, and the peer polls again and again.  A select
\* with several ready cases picks at random, so a case that is ready again and
\* again is taken (SF).  Nothing relies on a timer, on the peer posting or on the
\* network failing.
FairSpec ==
  /\ Spec
  /\ WF_vars(AttachRefused \/ StartPumps \/ Reading \/ (reader = "ended" /\ closeRaw) \/ ReadPumpReturns)
  /\ SF_vars(ReadInbox) /\ SF_vars(ReadUpgraded)
  /\ WF_vars(CloseActive) /\ WF_vars(Writing) /\ WF_vars(Posting)
  /\ \A g \in Gets : /\ WF_vars(GetPolling(g) \/ PollStart(g) \/ PollEmpty(g) \/ collectBatch(g))
                    /\ SF_vars(PollFrames(g))
  /\ \A u \in Upgrades : WF_vars(Upgrading(u)) /\ WF_vars(closed[u] /\ ReadFails(u))
-----------------------------------------------------------------------------
(* Properties *)

Increasing(s) == \A i, j \in DOMAIN s : i < j => s[i] < s[j]

\* Whatever POST, upgrade and socket traffic interleave, onMessage sees the peer's
\* frames in the order they were sent and none twice: the reader moves from
\* polling to the socket once and never back.
HandledInOrder == Increasing(handled)

\* Two upgrade requests that both passed readyForUpgrade never both win: every
\* socket the server holds open is the active transport, or its request is still
\* on its way to being swapped in or refused.
NoOrphanSocket ==
  \A u \in Upgrades : upg[u] \in {"noop", "signal", "done"} /\ ~closed[u] => current = u

\* Frames reach the peer in the order they were emitted and none is skipped
\* ("contiguous on the wire", "seq order equals wire order" in docs/RECOVERY.md),
\* but for those an abandoned GET, which still competes for the outbox, took.
WireContiguous ==
  /\ Increasing(got)
  /\ \A i \in DOMAIN got : 1..got[i] \subseteq Range(got) \cup lost

\* A client whose active transport is closed, by a close packet or by closeRaw,
\* goes as a whole: ReadPump, wherever it is, finds out and runs closeRaw, which
\* ends WritePump through the send channel.  (An upgrade that was under way may
\* still swap an open socket in.)
ClosedEnds ==
  []<>(~closed[current] \/ (reader = "done" /\ writer = "done"))

\* Nothing is stranded in the bounded channels, wake tokens and abandoned GETs
\* notwithstanding: the messages accepted by POSTs are handled, or the connection
\* ends; the frames written to the polling transport go into the answers to the
\* peer's GETs, or the transport is closed.
NothingStranded ==
  /\ []<>(inbox = <<>> \/ reader \in {"ended", "done"})
  /\ []<>(Range(outbox) \subseteq {ControlPacket} \/ closed[Poll])

\* An upgrade leaves nobody waiting on the polling transport for a timer: the
\* reader leaves it for good (signalUpgrade is buffered and comes after Swap), and
\* the GET that was waiting is answered by the noop, or by whatever keeps the noop
\* out of a full outbox.
UpgradeReleases ==
  /\ \A u \in Upgrades : upg[u] = "done" ~> [](reader # Poll)
  /\ \A u \in Upgrades, g \in Gets :
       upg[u] = "done" /\ get[g] = "select" ~> get[g] # "select" \/ closed[Poll]
=============================================================================
