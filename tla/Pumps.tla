------------------------------- MODULE Pumps -------------------------------
(***************************************************************************)
(* One connection from the socket up: nativews.Conn, the adapters over it   *)
(* (nativeTransport, and eioWebSocketTransport after an Engine.IO upgrade), *)
(* and the client's ReadPump and WritePump with their heartbeat.            *)
(*                                                                          *)
(* Time advances in ticks.  A goroutine that can run does so before the     *)
(* next tick; a handler may take up to HandlerTime ticks.  The peer         *)
(* fragments its messages, puts control frames between the fragments and    *)
(* answers every ping within RTT ticks, until it falls silent.  A frame     *)
(* arrives whole.  writeFrame is two writes to the socket, its header and   *)
(* its payload, and other goroutines run in between.                        *)
(*                                                                          *)
(* ReadPump sets the read limit, the read deadline and the pong handler on  *)
(* the transport it finds.  Swap brings in a socket that has none of them:  *)
(* it is left with those that ReadPump sets after the upgrade, and with the *)
(* deadline once ReadPump has passed a message on.                          *)
(***************************************************************************)
EXTENDS Integers, Sequences, Functions

CONSTANTS
  pongWait, pingPeriod,  \* Client.pongWait, Client.pingPeriod
  ReadLimit,             \* Conn.readLimit; a fragment has length 1
  RTT,                   \* how long the peer takes to answer a ping
  HandlerTime,           \* how long onMessage may take
  MaxEvents,             \* bound: messages and control frames, pings apart
  MaxParts,              \* bound: fragments of a message
  MaxInbox               \* bound: frames the peer sends ahead

ASSUME PumpConstants ==
  /\ pongWait \in Nat \ {0} /\ pingPeriod \in Nat \ {0} /\ ReadLimit \in Nat
  /\ RTT \in Nat /\ HandlerTime \in Nat
  /\ MaxEvents \in Nat /\ MaxParts \in Nat \ {0} /\ MaxInbox \in Nat \ {0}

VARIABLES
  layered,      \* eioWebSocketTransport is on top of nativeTransport, after Swap
  limited,      \* ReadPump's SetReadLimit reached the socket
  handler,      \* ReadPump's OnPong reached it
  alive,        \* the peer reads, and answers pings
  inbox,        \* frames on their way to readFrame
  events,       \* bound: messages and control frames begun on either side
  part,         \* peer: fragments sent of the message it is sending
  kind,         \* peer: Engine.IO type of the current message
  apps,         \* history: application messages the peer completed
  msgOpcode, buf,  \* of the ReadMessage that is running
  delivered,    \* history: messages ReadPump passed to onMessage
  reader,       \* what ReadPump's goroutine does
  busy,         \* ticks the handler still takes
  pump,         \* what WritePump does
  writeMu,      \* Conn.writeMu: who holds it
  mixed,        \* history: how frames were interleaved
  missedPongs,
  armed,        \* the socket has a read deadline
  deadline,     \* ticks to the read deadline (pongWait before there is one)
  ticker,       \* ticks to WritePump's next ping
  owed,         \* ticks the peer has left for each ping it has not answered
  quiet         \* ticks since a message or a handled pong, once there is a deadline

stack   == <<layered, limited, handler>>
peer    == <<stack, alive, part, kind, apps>>
message == <<msgOpcode, buf, delivered>>
writes  == <<pump, writeMu, mixed>>
time    == <<missedPongs, armed, deadline, ticker, owed, quiet>>
vars    == <<peer, events, inbox, message, reader, busy, writes, time>>

Frame == [op : {"text", "cont", "ping", "pong", "close", "unmasked"}, fin : BOOLEAN,
          kind : {"message", "ping", "pong"}, msg : Nat, part : Nat]

\* ReadPump starts on a WebSocket, or it runs, or is about to, while Swap comes
\* before, between or after its three calls.
Init ==
  /\ layered \in BOOLEAN /\ limited \in BOOLEAN /\ handler \in BOOLEAN /\ armed \in BOOLEAN
  /\ ~layered => limited
  /\ limited => armed /\ handler
  /\ missedPongs \in IF handler THEN {0} ELSE 0..2
  /\ alive = TRUE
  /\ inbox = <<>> /\ events = 0 /\ part = 0 /\ kind = "message" /\ apps = <<>>
  /\ msgOpcode = "cont" /\ buf = <<>> /\ delivered = <<>>
  /\ reader = "read" /\ busy = 0
  /\ pump = "idle" /\ writeMu = "free" /\ mixed = {}
  /\ deadline = pongWait /\ ticker \in 0..pingPeriod /\ owed = {} /\ quiet = 0
-----------------------------------------------------------------------------
(* The peer *)

control(o) == [op |-> o, fin |-> TRUE, kind |-> "message", msg |-> 0, part |-> 0]

\* A message in one frame or in fragments; an Engine.IO packet when layered.
SendPart(k, fin) ==
  /\ alive
  /\ IF part = 0
     THEN /\ events < MaxEvents /\ Len(inbox) < MaxInbox /\ (k = "ping" => layered)
          /\ events' = events + 1
     ELSE k = kind /\ UNCHANGED events
  /\ part + 1 = MaxParts => fin
  /\ kind' = k /\ part' = IF fin THEN 0 ELSE part + 1
  /\ inbox' = Append(inbox, [op |-> IF part = 0 THEN "text" ELSE "cont", fin |-> fin,
                              kind |-> k, msg |-> Len(apps) + 1, part |-> part + 1])
  /\ apps' = IF fin /\ k = "message"
             THEN Append(apps, [i \in 1..part + 1 |-> <<Len(apps) + 1, i>>]) ELSE apps
  /\ UNCHANGED <<stack, alive, message, reader, busy, writes, time>>

\* A control frame, also between fragments; the peer's last one may be malformed.
SendControl(o) ==
  /\ alive /\ events < MaxEvents /\ Len(inbox) < MaxInbox
  /\ events' = events + 1
  /\ inbox' = Append(inbox, control(o))
  /\ alive' = (o = "ping") /\ owed' = IF o = "ping" THEN owed ELSE {}
  /\ UNCHANGED <<stack, part, kind, apps, message, reader, busy, writes,
                 missedPongs, armed, deadline, ticker, quiet>>

\* The answer to the ping with r ticks left, and to the ones before it.
Answer(r) ==
  /\ alive /\ r \in owed /\ (layered => part = 0)
  /\ owed' = {x \in owed : x > r}
  /\ inbox' = Append(inbox, IF layered
                            THEN [op |-> "text", fin |-> TRUE, kind |-> "pong", msg |-> 0, part |-> 1]
                            ELSE control("pong"))
  /\ UNCHANGED <<peer, events, message, reader, busy, writes,
                 missedPongs, armed, deadline, ticker, quiet>>

Silence ==
  /\ alive
  /\ alive' = FALSE /\ owed' = {}
  /\ UNCHANGED <<stack, part, kind, apps, events, inbox, message, reader, busy, writes,
                 missedPongs, armed, deadline, ticker, quiet>>
-----------------------------------------------------------------------------
(* Conn.ReadMessage under Transport.Read and ReadPump *)

reads(o) == reader = "read" /\ busy = 0 /\ inbox # <<>> /\ Head(inbox).op \in o

halfWritten ==
  (IF pump \in {"frame", "ping"} THEN {"pump"} ELSE {})
    \cup (IF reader = "pong" THEN {"reply"} ELSE {})
    \cup (IF reader = "eioPayload" THEN {"eio"} ELSE {})

\* A write by w falls into the frame of another writer, of a reply or under writeMu.
mixes(w) ==
  mixed' = mixed \cup (IF halfWritten = {} THEN {}
                       ELSE IF "reply" \in halfWritten \cup {w} THEN {"reply"} ELSE {"locked"})

\* A ping frame: writeFrame(true, opcodePong, data), without writeMu ...
ReadPing ==
  /\ reads({"ping"})
  /\ inbox' = Tail(inbox) /\ reader' = "pong" /\ mixes("reply")
  /\ UNCHANGED <<peer, events, message, busy, pump, writeMu, time>>

\* ... whose payload is a second write.
WritePong ==
  /\ reader = "pong"
  /\ reader' = "read"
  /\ UNCHANGED <<peer, events, inbox, message, busy, writes, time>>

\* Mutant: missed pongs are not forgotten.
resetOnlyDeadline ==
  IF handler
  THEN armed' = TRUE /\ deadline' = pongWait /\ quiet' = 0 /\ UNCHANGED <<missedPongs, ticker, owed>>
  ELSE UNCHANGED time

\* ReadPump's OnPong handler, where there is one.
onPong ==
  IF handler
  THEN armed' = TRUE /\ deadline' = pongWait /\ missedPongs' = 0 /\ quiet' = 0 /\ UNCHANGED <<ticker, owed>>
  ELSE UNCHANGED time

ReadPong ==
  /\ reads({"pong"})
  /\ inbox' = Tail(inbox) /\ onPong
  /\ UNCHANGED <<peer, events, message, reader, busy, writes>>

\* A close frame is answered, without writeMu, and ends the pump with EOF.
ReadClose ==
  /\ reads({"close"})
  /\ inbox' = Tail(inbox) /\ reader' = "ended" /\ mixes("reply")
  /\ UNCHANGED <<peer, events, message, busy, pump, writeMu, time>>

opcode(f) == IF msgOpcode = "cont" THEN f.op ELSE msgOpcode
payload(f) == Append(buf, <<f.msg, f.part>>)

\* Mutant: a continuation of nothing is taken for a message.
refusesAnyRest(f) ==
  \/ f.op = "unmasked"
  \/ (msgOpcode # "cont" /\ f.op # "cont")
  \/ (limited /\ ReadLimit > 0 /\ Len(payload(f)) > ReadLimit)

\* Not masked; a message in a message; over the read limit; a continuation of nothing.
refuses(f) ==
  \/ f.op = "unmasked"
  \/ (msgOpcode # "cont" /\ f.op # "cont")
  \/ (limited /\ ReadLimit > 0 /\ Len(payload(f)) > ReadLimit)
  \/ (f.fin /\ opcode(f) # "text")

ReadRefused ==
  /\ reads({"text", "cont", "unmasked"}) /\ refuses(Head(inbox))
  /\ inbox' = Tail(inbox) /\ reader' = "ended"
  /\ UNCHANGED <<peer, events, message, busy, writes, time>>

ReadPart ==
  /\ reads({"text", "cont"}) /\ ~refuses(Head(inbox)) /\ ~Head(inbox).fin
  /\ inbox' = Tail(inbox)
  /\ msgOpcode' = opcode(Head(inbox)) /\ buf' = payload(Head(inbox))
  /\ UNCHANGED <<peer, events, delivered, reader, busy, writes, time>>

readsMessage(k) ==
  /\ reads({"text", "cont"}) /\ ~refuses(Head(inbox)) /\ Head(inbox).fin /\ Head(inbox).kind = k
  /\ inbox' = Tail(inbox) /\ msgOpcode' = "cont" /\ buf' = <<>>

\* A message: ReadPump sets the deadline (not missedPongs) and calls onMessage.
ReadMessage(ticks) ==
  /\ readsMessage("message")
  /\ delivered' = Append(delivered, payload(Head(inbox)))
  /\ armed' = TRUE /\ deadline' = pongWait /\ quiet' = 0 /\ busy' = ticks
  /\ UNCHANGED <<peer, events, reader, writes, missedPongs, ticker, owed>>

\* An Engine.IO pong: firePong; eioWebSocketTransport.Read goes on.
ReadEIOPong ==
  /\ readsMessage("pong") /\ onPong
  /\ UNCHANGED <<peer, events, delivered, reader, busy, writes>>

\* An Engine.IO ping: writePacket from the reader's goroutine ...
ReadEIOPing ==
  /\ readsMessage("ping") /\ reader' = "eioPong"
  /\ UNCHANGED <<peer, events, delivered, busy, writes, time>>

\* ... which goes through WriteMessage and its lock.
WriteEIOPong ==
  /\ reader = "eioPong" /\ writeMu = "free"
  /\ writeMu' = "reader" /\ reader' = "eioPayload" /\ mixes("eio")
  /\ UNCHANGED <<peer, events, inbox, message, busy, pump, time>>

WriteEIOPayload ==
  /\ reader = "eioPayload"
  /\ writeMu' = "free" /\ reader' = "read"
  /\ UNCHANGED <<peer, events, inbox, message, busy, pump, mixed, time>>

\* Mutant: one deadline more.
TimeoutLate ==
  /\ reader = "read" /\ busy = 0 /\ armed /\ deadline = 0
  /\ missedPongs' = missedPongs + 1
  /\ IF missedPongs' > 3 THEN reader' = "ended" /\ UNCHANGED deadline
                         ELSE deadline' = pongWait /\ UNCHANGED reader
  /\ msgOpcode' = "cont" /\ buf' = <<>>
  /\ UNCHANGED <<peer, events, inbox, delivered, busy, writes, armed, ticker, owed, quiet>>

\* The read deadline: ReadMessage gives up what it holds; IncrementMissedPongs.
Timeout ==
  /\ reader = "read" /\ busy = 0 /\ armed /\ deadline = 0
  /\ missedPongs' = missedPongs + 1
  /\ IF missedPongs' > 2 THEN reader' = "ended" /\ UNCHANGED deadline
                         ELSE deadline' = pongWait /\ UNCHANGED reader
  /\ msgOpcode' = "cont" /\ buf' = <<>>
  /\ UNCHANGED <<peer, events, inbox, delivered, busy, writes, armed, ticker, owed, quiet>>

\* A write of the reader fails: the peer does not read any more.
ReplyFails ==
  /\ ~alive /\ reader \in {"pong", "eioPong", "eioPayload"}
  /\ reader' = "ended" /\ writeMu' = IF reader = "eioPayload" THEN "free" ELSE writeMu
  /\ UNCHANGED <<peer, events, inbox, message, busy, pump, mixed, time>>
-----------------------------------------------------------------------------
(* WritePump over WriteMessage and WriteControl *)

\* Mutant: the lock is not taken.
WriteMessageUnlocked ==
  /\ pump = "idle" /\ reader # "ended" /\ events < MaxEvents
  /\ events' = events + 1
  /\ writeMu' = "pump" /\ pump' = "frame" /\ mixes("pump")
  /\ UNCHANGED <<peer, inbox, message, reader, busy, time>>

\* A frame from c.send: lock and header ...
WriteMessage ==
  /\ pump = "idle" /\ reader # "ended" /\ events < MaxEvents /\ writeMu = "free"
  /\ events' = events + 1
  /\ writeMu' = "pump" /\ pump' = "frame" /\ mixes("pump")
  /\ UNCHANGED <<peer, inbox, message, reader, busy, time>>

pings == IF alive THEN owed \cup {RTT} ELSE owed

\* The ticker: a ping frame without payload, or the Engine.IO packet "2".
WritePing ==
  /\ pump = "idle" /\ reader # "ended" /\ ticker = 0 /\ writeMu = "free"
  /\ ticker' = pingPeriod /\ mixes("pump")
  /\ IF layered THEN writeMu' = "pump" /\ pump' = "ping" /\ UNCHANGED owed
                ELSE owed' = pings /\ UNCHANGED <<writeMu, pump>>
  /\ UNCHANGED <<peer, events, inbox, message, reader, busy, missedPongs, armed, deadline, quiet>>

\* ... then the payload, and the lock is released.
WritePayload ==
  /\ pump \in {"frame", "ping"} /\ reader # "ended"
  /\ owed' = IF pump = "ping" THEN pings ELSE owed
  /\ pump' = "idle" /\ writeMu' = "free"
  /\ UNCHANGED <<peer, events, inbox, message, reader, busy, mixed,
                 missedPongs, armed, deadline, ticker, quiet>>

\* Mutant: closeRaw leaves c.send open.
PumpEndsOnError ==
  /\ pump # "ended" /\ ~alive /\ (pump # "idle" \/ ticker = 0)
  /\ pump' = "ended" /\ writeMu' = IF writeMu = "pump" THEN "free" ELSE writeMu
  /\ UNCHANGED <<peer, events, inbox, message, reader, busy, mixed, time>>

\* A write fails, or closeRaw has closed the transport and c.send; the close frame
\* WritePump still tries to write goes nowhere.
PumpEnds ==
  /\ pump # "ended" /\ (reader = "ended" \/ (~alive /\ (pump # "idle" \/ ticker = 0)))
  /\ pump' = "ended" /\ writeMu' = IF writeMu = "pump" THEN "free" ELSE writeMu
  /\ UNCHANGED <<peer, events, inbox, message, reader, busy, mixed, time>>
-----------------------------------------------------------------------------
less(n) == IF n > 0 THEN n - 1 ELSE 0

\* Time passes when no goroutine can run and no answer is due.
Tick ==
  /\ reader = "read" /\ (busy > 0 \/ (inbox = <<>> /\ deadline > 0))
  /\ pump = "ended" \/ (pump = "idle" /\ ticker > 0)
  /\ 0 \notin owed
  /\ busy' = less(busy) /\ ticker' = less(ticker) /\ owed' = {x - 1 : x \in owed}
  /\ IF armed THEN deadline' = less(deadline) /\ quiet' = quiet + 1
              ELSE UNCHANGED <<deadline, quiet>>
  /\ UNCHANGED <<peer, events, inbox, message, reader, writes, missedPongs, armed>>

Reader ==
  \/ ReadPing \/ WritePong \/ ReadPong \/ ReadClose \/ ReadRefused \/ ReadPart
  \/ (\E n \in 0..HandlerTime : ReadMessage(n))
  \/ ReadEIOPong \/ ReadEIOPing \/ WriteEIOPong \/ WriteEIOPayload \/ Timeout \/ ReplyFails

Next ==
  \/ \E k \in {"message", "ping"}, fin \in BOOLEAN : SendPart(k, fin)
  \/ \E o \in {"ping", "close", "unmasked"} : SendControl(o)
  \/ \E r \in owed : Answer(r)
  \/ Silence \/ Reader
  \/ WriteMessage \/ WritePing \/ WritePayload \/ PumpEnds \/ Tick

Spec == Init /\ [][Next]_vars

\* Goroutines run, and time passes.
FairSpec ==
  /\ Spec
  /\ WF_vars(Reader) /\ WF_vars(WritePing \/ WritePayload \/ PumpEnds) /\ WF_vars(Tick)
-----------------------------------------------------------------------------
\* Every variable has its type; the timers stay within the configured periods.
TypeOK ==
  /\ layered \in BOOLEAN /\ limited \in BOOLEAN /\ handler \in BOOLEAN /\ armed \in BOOLEAN
  /\ alive \in BOOLEAN /\ inbox \in Seq(Frame)
  /\ events \in Nat /\ part \in Nat /\ kind \in {"message", "ping"}
  /\ apps \in Seq(Seq(Nat \X Nat)) /\ delivered \in Seq(Seq(Nat \X Nat))
  /\ msgOpcode \in {"cont", "text"} /\ buf \in Seq(Nat \X Nat)
  /\ reader \in {"read", "pong", "eioPong", "eioPayload", "ended"} /\ busy \in Nat
  /\ pump \in {"idle", "frame", "ping", "ended"} /\ writeMu \in {"free", "pump", "reader"}
  /\ mixed \subseteq {"reply", "locked"}
  /\ missedPongs \in Nat /\ deadline \in 0..pongWait /\ ticker \in 0..pingPeriod
  /\ owed \subseteq 0..RTT /\ quiet \in Nat

\* onMessage gets the peer's messages whole, in order and once, however they are
\* fragmented and whatever control frames and read deadlines fall in between.
DeliveredAreSent == \E n \in 0..Len(apps) : delivered = SubSeq(apps, 1, n)

\* The configuration leaves a responsive peer time to answer: the next ping and
\* its answer come before the third deadline, and handlers return before one.
Tuned == pingPeriod + RTT < 3 * pongWait /\ HandlerTime < pongWait

\* With such a configuration the heartbeat never gives up a peer that answers its
\* pings, whatever else it sends and however long handlers keep its pongs waiting,
\* provided ReadPump's pong handler is on the socket: an upgrade that comes after
\* OnPong loses it.
ResponsiveSurvives == handler /\ Tuned /\ missedPongs > 2 => ~alive

\* ReadPump does not outlive three deadlines without a message or a pong, from the
\* moment the socket has a deadline.
QuietBounded ==
  armed /\ HandlerTime < pongWait /\ reader # "ended" => quiet <= 3 * pongWait

\* No two writers ever interleave their frames, except for the pong and close
\* replies that ReadMessage writes itself.
LockedWritesWhole == "locked" \notin mixed

\* Both pumps end once the peer is silent, if the socket has got a deadline by then.
SilentPeerEnds == ~alive /\ armed ~> reader = "ended" /\ pump = "ended"
=============================================================================
