------------------------------- MODULE Server -------------------------------
(***************************************************************************)
(* The life of connections on one server without session recovery: the     *)
(* HTTP handler that admits a connection and starts its pumps, the hub      *)
(* goroutine with its client and room maps and its bounded emit queue,      *)
(* slow-consumer disconnects, and Shutdown / ShutdownWithMessage.           *)
(*                                                                          *)
(* The hub's register, unregister, join and leave channels are unbuffered:  *)
(* a call is one step with the hub that takes it, or returns because        *)
(* h.closed is closed; while the hub drains, callers wait.  Frames are      *)
(* numbered in the order they are emitted; the shutdown notice has a number *)
(* of its own.  There is one room.                                          *)
(***************************************************************************)
EXTENDS Integers, Sequences, FiniteSets, Functions

CONSTANTS
  Clients,         \* connection attempts
  Nobody,          \* EmitJob.Exclude = nil
  MaxConnections,  \* Config.MaxConnections
  EmitBuffer,      \* Config.HubEmitBufferSize
  SendBuffer,      \* capacity of Client.send
  MaxEmits         \* bound: room broadcasts

ASSUME ServerConstants ==
  /\ Nobody \notin Clients
  /\ {MaxConnections, EmitBuffer, SendBuffer} \subseteq Nat \ {0}
  /\ MaxEmits \in Nat

VARIABLES
  closed,   \* Server.closed
  conns,    \* Server.conns
  pc,       \* per connection: the step of its handler, then of its ReadPump
  down,     \* clients whose closeRaw has run
  slow,     \* clients a goroutine is about to shut down (go ShutdownResumable)
  halted,   \* clients whose WritePump returned because a write or a ping failed
  hub,      \* "running", "draining" or "closed" (h.closed)
  ctxDone,  \* hubCancel has been called
  clients, room,  \* Hub.clients, Hub.rooms
  late,     \* history: clients that joined the room from a disconnect callback
  emitq,    \* Hub.emit
  toClose,  \* clients drainAndCloseAll has still to shut down
  sendq,    \* per client: Client.send
  got,      \* per client: frames written to the peer
  lost,     \* per client: the frame whose write failed, if any
  owed,     \* history, per client: frames it was a target of
  emitted,  \* room broadcasts so far
  shut      \* step of the goroutine that calls Shutdown

adm   == <<closed, conns, pc>>
maps  == <<clients, room, late>>
loop  == <<hub, ctxDone, emitq, toClose>>
out   == <<halted, sendq, got, lost, owed, emitted>>
vars  == <<adm, down, slow, maps, loop, out, shut>>

Notice == MaxEmits + 1

Init ==
  /\ closed = FALSE /\ conns = 0 /\ pc = [c \in Clients |-> "dial"]
  /\ down = {} /\ slow = {} /\ halted = {}
  /\ hub = "running" /\ ctxDone = FALSE /\ clients = {} /\ room = {} /\ late = {}
  /\ emitq = <<>> /\ toClose = {}
  /\ sendq = [c \in Clients |-> <<>>] /\ got = [c \in Clients |-> <<>>]
  /\ lost = [c \in Clients |-> <<>>] /\ owed = [c \in Clients |-> {}] /\ emitted = 0
  /\ shut = "idle"

goto(c, step) == pc' = [pc EXCEPT ![c] = step]
-----------------------------------------------------------------------------
(* serveWS, serveTransport *)

\* serveWS: neither closed nor at the limit; the upgrade succeeds.
Admit(c) ==
  /\ pc[c] = "dial" /\ ~closed /\ conns < MaxConnections
  /\ goto(c, "admitted")
  /\ UNCHANGED <<closed, conns, down, slow, maps, loop, out, shut>>

\* serveTransport: conns.Add(1), NewClient.
Accept(c) ==
  /\ pc[c] = "admitted"
  /\ conns' = conns + 1
  /\ goto(c, "register")
  /\ UNCHANGED <<closed, down, slow, maps, loop, out, shut>>

\* hub.Register.
Register(c) ==
  /\ pc[c] = "register" /\ hub # "draining"
  /\ clients' = IF hub = "running" THEN clients \cup {c} ELSE clients
  /\ goto(c, "middleware")
  /\ UNCHANGED <<closed, conns, down, slow, room, late, loop, out, shut>>

\* A connect middleware rejects (or panics under Recover): conns.Add(-1) ...
Reject(c) ==
  /\ pc[c] = "middleware"
  /\ conns' = conns - 1
  /\ goto(c, "rejected")
  /\ UNCHANGED <<closed, down, slow, maps, loop, out, shut>>

\* ... or panics without Recover: net/http ends the handler, the hub entry and the
\* slot stay, and neither pump is started.
MiddlewarePanics(c) ==
  /\ pc[c] = "middleware"
  /\ goto(c, "aborted")
  /\ UNCHANGED <<closed, conns, down, slow, maps, loop, out, shut>>

\* The client is accepted: WritePump starts and the OnConnect callbacks run.
Connect(c) ==
  /\ pc[c] = "middleware"
  /\ goto(c, "onConnect")
  /\ UNCHANGED <<closed, conns, down, slow, maps, loop, out, shut>>

\* The callbacks return and ReadPump starts ...
Serve(c) ==
  /\ pc[c] = "onConnect"
  /\ goto(c, "serving")
  /\ UNCHANGED <<closed, conns, down, slow, maps, loop, out, shut>>

\* ... or one of them panics: withRecover does not cover them, ReadPump never starts.
OnConnectPanics(c) ==
  /\ pc[c] = "onConnect"
  /\ goto(c, "panicked")
  /\ UNCHANGED <<closed, conns, down, slow, maps, loop, out, shut>>

\* Code of the application runs with a Context of c: connect middleware, OnConnect
\* callbacks, event and heartbeat handlers, and after ReadPump is done the
\* disconnect middleware and the OnDisconnect callbacks.
inHandler(c) == pc[c] \in {"middleware", "onConnect", "serving", "disconnect"}

\* hub.joinRoom does not ask whether the client is registered.
JoinRoom(c) ==
  /\ inHandler(c) /\ hub = "running"
  /\ room' = room \cup {c}
  /\ late' = IF pc[c] = "disconnect" THEN late \cup {c} ELSE late
  /\ UNCHANGED <<adm, down, slow, clients, loop, out, shut>>

LeaveRoom(c) ==
  /\ inHandler(c) /\ hub = "running"
  /\ room' = room \ {c}
  /\ UNCHANGED <<adm, down, slow, clients, late, loop, out, shut>>

\* Context.Disconnect, or the goroutine started for a slow consumer: closeRaw.
Shutdown(c) ==
  /\ inHandler(c) \/ c \in slow
  /\ down' = down \cup {c} /\ slow' = slow \ {c}
  /\ UNCHANGED <<adm, maps, loop, out, shut>>

\* ReadPump gets a read error: the peer left, the heartbeat timed out, or the
\* transport was closed here.
ReadEnds(c) ==
  /\ pc[c] = "serving"
  /\ goto(c, "retire")
  /\ UNCHANGED <<closed, conns, down, slow, maps, loop, out, shut>>

UnregisterNoClose(c) ==
  /\ pc[c] \in {"rejected", "retire"} /\ hub = "running"
  /\ clients' = clients \ {c} /\ room' = room \ {c}
  /\ goto(c, IF pc[c] = "rejected" THEN "shutdown" ELSE "closeRaw")
  /\ UNCHANGED <<closed, conns, down, slow, late, loop, out, shut>>

UnregisterKeepsRoom(c) ==
  /\ pc[c] \in {"rejected", "retire"} /\ hub # "draining"
  /\ clients' = clients \ {c} /\ UNCHANGED room
  /\ goto(c, IF pc[c] = "rejected" THEN "shutdown" ELSE "closeRaw")
  /\ UNCHANGED <<closed, conns, down, slow, late, loop, out, shut>>

\* hub.Unregister (removeClientMaps), from the rejecting handler or from retire.
Unregister(c) ==
  /\ pc[c] \in {"rejected", "retire"} /\ hub # "draining"
  /\ clients' = clients \ {c} /\ room' = room \ {c}
  /\ goto(c, IF pc[c] = "rejected" THEN "shutdown" ELSE "closeRaw")
  /\ UNCHANGED <<closed, conns, down, slow, late, loop, out, shut>>

FinishCountsAll(c) ==
  /\ pc[c] \in {"shutdown", "closeRaw"}
  /\ down' = down \cup {c}
  /\ conns' = conns - 1
  /\ goto(c, IF pc[c] = "closeRaw" THEN "disconnect" ELSE "gone")
  /\ UNCHANGED <<closed, slow, maps, loop, out, shut>>

\* The client is shut down; OnDone gives the slot of a served connection back and
\* fires the disconnect callbacks ...
Finish(c) ==
  /\ pc[c] \in {"shutdown", "closeRaw"}
  /\ down' = down \cup {c}
  /\ conns' = IF pc[c] = "closeRaw" THEN conns - 1 ELSE conns
  /\ goto(c, IF pc[c] = "closeRaw" THEN "disconnect" ELSE "gone")
  /\ UNCHANGED <<closed, slow, maps, loop, out, shut>>

\* ... which return; their panics are recovered.
DisconnectReturns(c) ==
  /\ pc[c] = "disconnect"
  /\ goto(c, "gone")
  /\ UNCHANGED <<closed, conns, down, slow, maps, loop, out, shut>>

\* WritePump was started and its transport is open.
writes(c) ==
  /\ pc[c] \in {"onConnect", "serving", "panicked", "retire", "closeRaw", "disconnect", "gone"}
  /\ c \notin down \cup halted

\* WritePump writes the oldest frame ...
WriteFrame(c) ==
  /\ writes(c) /\ sendq[c] # <<>>
  /\ got' = [got EXCEPT ![c] = Append(@, Head(sendq[c]))]
  /\ sendq' = [sendq EXCEPT ![c] = Tail(@)]
  /\ UNCHANGED <<adm, down, slow, halted, maps, loop, lost, owed, emitted, shut>>

\* ... or the write fails: the frame is lost, and WritePump returns without closing
\* the transport, which ReadPump goes on reading.
WriteFails(c) ==
  /\ writes(c) /\ sendq[c] # <<>>
  /\ lost' = [lost EXCEPT ![c] = <<Head(sendq[c])>>]
  /\ sendq' = [sendq EXCEPT ![c] = Tail(@)]
  /\ halted' = halted \cup {c}
  /\ UNCHANGED <<adm, down, slow, maps, loop, got, owed, emitted, shut>>

\* A ping fails: WritePump returns, too.
PingFails(c) ==
  /\ writes(c)
  /\ halted' = halted \cup {c}
  /\ UNCHANGED <<adm, down, slow, maps, loop, sendq, got, lost, owed, emitted, shut>>
-----------------------------------------------------------------------------
(* The hub *)

\* Hub.Emit never blocks: a full queue drops the job.
enqueueJob(job) == emitq' = IF Len(emitq) < EmitBuffer THEN Append(emitq, job) ELSE emitq

\* EmitToRoom, or BroadcastToRoom by the excluded client.
EmitRoom(x) ==
  /\ emitted < MaxEmits /\ hub # "closed" /\ x \in {Nobody} \cup {c \in Clients : inHandler(c)}
  /\ emitted' = emitted + 1
  /\ enqueueJob([frame |-> emitted + 1, exclude |-> x])
  /\ UNCHANGED <<adm, down, slow, maps, hub, ctxDone, toClose, halted, sendq, got, lost, owed, shut>>

\* collectTargets.
targets(job) == IF job.frame = Notice THEN clients ELSE room \ {job.exclude}

\* The client's queue takes the frame (no session, PolicyDisconnect).
takes(c) == c \notin down /\ Len(sendq[c]) < SendBuffer

emitKeepsSlow(job) ==
  /\ sendq' = [c \in Clients |->
       IF c \in targets(job) /\ takes(c) THEN Append(sendq[c], job.frame) ELSE sendq[c]]
  /\ owed' = [c \in Clients |-> IF c \in targets(job) THEN owed[c] \cup {job.frame} ELSE owed[c]]
  /\ UNCHANGED slow

\* emitToTargets: a client that does not take the frame is shut down by a goroutine.
emitToTargets(job) ==
  /\ sendq' = [c \in Clients |->
       IF c \in targets(job) /\ takes(c) THEN Append(sendq[c], job.frame) ELSE sendq[c]]
  /\ owed' = [c \in Clients |-> IF c \in targets(job) THEN owed[c] \cup {job.frame} ELSE owed[c]]
  /\ slow' = slow \cup {c \in targets(job) : ~takes(c)}

HubEmits ==
  /\ hub = "running" /\ emitq # <<>>
  /\ emitToTargets(Head(emitq))
  /\ emitq' = Tail(emitq)
  /\ UNCHANGED <<adm, down, maps, hub, ctxDone, toClose, halted, got, lost, emitted, shut>>

\* Run sees ctx.Done: drainAndCloseAll empties the maps ...
HubDrains ==
  /\ hub = "running" /\ ctxDone
  /\ hub' = "draining" /\ toClose' = clients
  /\ clients' = {} /\ room' = {}
  /\ UNCHANGED <<adm, down, slow, late, ctxDone, emitq, out, shut>>

DrainForgets(c) ==
  /\ hub = "draining" /\ c \in toClose
  /\ toClose' = toClose \ {c} /\ UNCHANGED down
  /\ UNCHANGED <<adm, slow, maps, hub, ctxDone, emitq, out, shut>>

\* ... and shuts down every client that was registered ...
DrainOne(c) ==
  /\ hub = "draining" /\ c \in toClose
  /\ toClose' = toClose \ {c} /\ down' = down \cup {c}
  /\ UNCHANGED <<adm, slow, maps, hub, ctxDone, emitq, out, shut>>

\* ... then Run returns and h.closed is closed.
HubCloses ==
  /\ hub = "draining" /\ toClose = {}
  /\ hub' = "closed"
  /\ UNCHANGED <<adm, down, slow, maps, ctxDone, emitq, toClose, out, shut>>
-----------------------------------------------------------------------------
(* Server.Shutdown and ShutdownWithMessage *)

ShutdownServer ==
  /\ shut = "idle"
  /\ closed' = TRUE /\ ctxDone' = TRUE /\ shut' = "wait"
  /\ UNCHANGED <<conns, pc, down, slow, maps, hub, emitq, toClose, out>>

ShutdownWithMessage ==
  /\ shut = "idle"
  /\ closed' = TRUE /\ shut' = "notice"
  /\ UNCHANGED <<conns, pc, down, slow, maps, loop, out>>

EmitNotice ==
  /\ shut = "notice"
  /\ enqueueJob([frame |-> Notice, exclude |-> Nobody])
  /\ shut' = "sleep"
  /\ UNCHANGED <<adm, down, slow, maps, hub, ctxDone, toClose, out>>

\* After the sleep of 500 ms, whether or not the hub has emptied its queue.
CancelHub ==
  /\ shut = "sleep"
  /\ ctxDone' = TRUE /\ shut' = "wait"
  /\ UNCHANGED <<adm, down, slow, maps, hub, emitq, toClose, out>>

\* The hub has finished, or the caller's context has expired.
ShutdownReturns ==
  /\ shut = "wait"
  /\ shut' = IF hub = "closed" THEN "returned" ELSE "expired"
  /\ UNCHANGED <<adm, down, slow, maps, loop, out>>
-----------------------------------------------------------------------------
Connection(c) ==
  \/ Accept(c) \/ Register(c) \/ Reject(c) \/ MiddlewarePanics(c)
  \/ Connect(c) \/ Serve(c) \/ OnConnectPanics(c)
  \/ Unregister(c) \/ Finish(c) \/ DisconnectReturns(c)

Next ==
  \/ \E c \in Clients :
       \/ Admit(c) \/ Connection(c) \/ JoinRoom(c) \/ LeaveRoom(c)
       \/ Shutdown(c) \/ ReadEnds(c) \/ WriteFrame(c) \/ WriteFails(c) \/ PingFails(c) \/ DrainOne(c)
  \/ \E x \in Clients \cup {Nobody} : EmitRoom(x)
  \/ HubEmits \/ HubDrains \/ HubCloses
  \/ ShutdownServer \/ ShutdownWithMessage \/ EmitNotice \/ CancelHub \/ ShutdownReturns

Spec == Init /\ [][Next]_vars

\* Goroutines run: each connection's handler and ReadPump, the hub, the goroutine
\* that shuts a slow client down and the one that stops the server.  The hub's
\* select picks a ready case at random, so each of them is served.  ReadPump of a
\* closed transport gets its error; nothing relies on a peer leaving.
FairSpec ==
  /\ Spec
  /\ \A c \in Clients :
       /\ WF_vars(Connection(c) \/ (c \in down /\ ReadEnds(c)))
       /\ WF_vars(c \in slow /\ Shutdown(c))
  /\ WF_vars(HubEmits) /\ WF_vars(HubDrains \/ HubCloses \/ \E c \in Clients : DrainOne(c))
  /\ WF_vars(EmitNotice \/ CancelHub \/ ShutdownReturns)
-----------------------------------------------------------------------------
(* Properties *)

\* Every variable has its type; the hub's and the clients' queues keep to their capacity.
TypeOK ==
  /\ closed \in BOOLEAN /\ conns \in Int
  /\ pc \in [Clients -> {"dial", "admitted", "register", "middleware", "rejected", "onConnect",
                         "serving", "panicked", "aborted", "retire", "shutdown", "closeRaw", "disconnect",
                         "gone"}]
  /\ down \subseteq Clients /\ slow \subseteq Clients /\ toClose \subseteq Clients
  /\ clients \subseteq Clients /\ room \subseteq Clients /\ late \subseteq Clients
  /\ halted \subseteq Clients
  /\ hub \in {"running", "draining", "closed"} /\ ctxDone \in BOOLEAN
  /\ emitq \in Seq([frame : 1..Notice, exclude : Clients \cup {Nobody}])
  /\ Len(emitq) <= EmitBuffer
  /\ sendq \in [Clients -> Seq(1..Notice)] /\ \A c \in Clients : Len(sendq[c]) <= SendBuffer
  /\ got \in [Clients -> Seq(1..Notice)] /\ lost \in [Clients -> Seq(1..Notice)] /\ owed \in [Clients -> SUBSET (1..Notice)]
  /\ emitted \in 0..MaxEmits
  /\ shut \in {"idle", "notice", "sleep", "wait", "returned", "expired"}

\* A connection that is over is not registered, and a member of the room that is
\* not registered joined from its own disconnect callbacks, after its Unregister:
\* no other call of its handlers reaches the hub too late, also around a shutdown.
GoneIsForgotten ==
  /\ room \subseteq clients \cup late
  /\ \A c \in Clients : pc[c] \in {"shutdown", "closeRaw", "disconnect", "gone"} => c \notin clients

\* The slot of a connection is given back once, on whichever path it ends, and
\* never by a connection that is still served; a panic in an OnConnect callback, or
\* in connect middleware without Recover, keeps it.
ConnsExact ==
  conns = Cardinality({c \in Clients : pc[c] \in
            {"register", "middleware", "onConnect", "serving", "panicked", "aborted", "retire", "closeRaw"}})

\* Every client sees room frames in the order they were emitted and none twice.
\* As long as it is not closed or being shut down, every frame the hub addressed to
\* it was written or is still queued, but for one whose write failed: that one is
\* the last WritePump took.  Jobs pass through one queue and one goroutine, and a
\* full queue of a client is never skipped silently.
FramesComplete ==
  \A c \in Clients :
    LET fs == got[c] \o lost[c] \o sendq[c]
    IN /\ \A i, j \in DOMAIN fs : i < j /\ Notice \notin {fs[i], fs[j]} => fs[i] < fs[j]
       /\ c \notin down \cup slow => owed[c] \subseteq Range(fs)
       /\ lost[c] # <<>> => Len(lost[c]) = 1 /\ c \in halted

\* A call to the hub returns, also when the hub is draining or has exited.
HubCallsReturn ==
  \A c \in Clients : pc[c] \in {"register", "rejected", "retire"}
                       ~> pc[c] \notin {"register", "rejected", "retire"}

\* A client that is registered when the server shuts down is closed.
DrainCloses == \A c \in Clients : ctxDone /\ c \in clients ~> c \in down
=============================================================================
