------------------------------ MODULE Session ------------------------------
(***************************************************************************)
(* One recovery session (internal/session.go: deliver, Ack, verdict,       *)
(* attachLocked, Leave) with the connections that serve it one after the   *)
(* other (internal/client.go: enqueue, WritePump, ReadPump, closeRaw) and  *)
(* the peer, which follows the client algorithm of docs/RECOVERY.md.       *)
(*                                                                         *)
(* A connection is a slot of Conns, recycled when its ReadPump is done.    *)
(* Session.mu makes deliver, Ack, Open and Leave atomic; everything else   *)
(* interleaves.  Counters (dropped, bytesSent, ...) are left out.          *)
(***************************************************************************)
EXTENDS ReplayBuffer

CONSTANTS
  Conns,         \* connection slots
  NoConn,        \* the nil *Client
  SendBuffer,    \* cap(Client.send)
  MaxSeq,        \* bound: frames sequenced in one behaviour
  MaxLag         \* bound: how far gs_seq may lag behind what the peer saw

ASSUME SessionConstants ==
  /\ NoConn \notin Conns
  /\ SendBuffer \in Nat \ {0}
  /\ MaxSeq \in Nat
  /\ MaxLag \in Nat

VARIABLES
  state,     \* Session.state
  next,      \* Session.next
  buf,       \* Session.buf
  live,      \* Session.live
  stalled,   \* Session.stalled
  astray,    \* the deliver that stalled the session got another connection shut down (history)
  phase,     \* phase[c]: "idle", "open" (ReadPump runs) or "left" (retire done)
  up,        \* up[c]: the peer still uses c's transport
  chan,      \* chan[c]: Client.send is not closed (shutdownOnce not run)
  pump,      \* pump[c]: WritePump runs
  dying,     \* dying[c]: a ShutdownResumable of c is pending
  noResume,  \* Client.noResume
  hello,     \* hello[c]: lastSeq announced in c's $session frame
  replay,    \* Client.replay, without the $session frame
  send,      \* Client.send
  log,       \* log[n]: payload of the frame with seq n (history)
  lastSeq,   \* peer: the highest seq handled
  seen       \* peer: the reliable payloads handled, in order (history)

session == <<state, next, buf, live, stalled, astray>>
wiring  == <<phase, up, chan, pump, dying, noResume, hello>>
queues  == <<replay, send>>
peer    == <<lastSeq, seen>>
vars    == <<session, wiring, queues, log, peer>>

States   == {"attached", "parked", "closed"}
Policies == {"disconnect", "drop", "volatile"}
Frame    == [seq : Nat, data : Data]   \* seq 0: not sequenced

(* Open without a resume: session and connection c are bound, nothing to replay. *)
Init ==
  \E c \in Conns :
    /\ state = "attached" /\ next = 1 /\ buf = << >> /\ live = c
    /\ stalled = FALSE /\ astray = FALSE
    /\ phase = [x \in Conns |-> IF x = c THEN "open" ELSE "idle"]
    /\ up    = [x \in Conns |-> x = c]
    /\ chan  = [x \in Conns |-> x = c]
    /\ pump  = [x \in Conns |-> x = c]
    /\ dying = [x \in Conns |-> FALSE]
    /\ noResume = [x \in Conns |-> FALSE]
    /\ hello  = [x \in Conns |-> 0]
    /\ replay = [x \in Conns |-> << >>]
    /\ send   = [x \in Conns |-> << >>]
    /\ log = << >> /\ lastSeq = 0 /\ seen = << >>
-----------------------------------------------------------------------------
(* Outbound: Session.deliver.                                              *)

offline == live = NoConn \/ stalled
enqOK   == chan[live] /\ Len(send[live]) < SendBuffer
enqFull == chan[live] /\ Len(send[live]) >= SendBuffer

enqueue(seq, d) ==
  send' = [send EXCEPT ![live] = Append(@, [seq |-> seq, data |-> d])]

commit(d) ==
  /\ next' = next + 1
  /\ buf' = push(buf, next, d)
  /\ log' = Append(log, d)

(* The client the caller shuts down on a false return is the one it sent   *)
(* through: the live one, or an older one that the hub still lists or      *)
(* whose handler still runs; NoConn is one that is closed already.         *)
Emitters == {live, NoConn} \cup {c \in Conns : phase[c] # "idle"}

blame(via) ==
  /\ dying' = [c \in Conns |-> dying[c] \/ c = via]
  /\ astray' = (via # live)

DeliverVolatile(d) ==
  /\ state # "closed" /\ ~offline /\ enqOK
  /\ enqueue(0, d)
  /\ UNCHANGED <<session, wiring, replay, log, peer>>

DeliverOffline(d) ==
  /\ state # "closed" /\ offline /\ next <= MaxSeq
  /\ commit(d)
  /\ UNCHANGED <<state, live, stalled, astray, wiring, queues, peer>>

DeliverQueued(d) ==
  /\ state # "closed" /\ ~offline /\ enqOK /\ next <= MaxSeq
  /\ enqueue(next, d)
  /\ commit(d)
  /\ UNCHANGED <<state, live, stalled, astray, wiring, replay, peer>>

DeliverClosedChannel(d) ==
  /\ state # "closed" /\ ~offline /\ ~chan[live] /\ next <= MaxSeq
  /\ commit(d)
  /\ stalled' = TRUE
  /\ UNCHANGED <<state, live, astray, wiring, queues, peer>>

(* Mutants of DeliverFull: nobody shuts the slow connection down; the      *)
(* session keeps queueing behind the frame that did not fit.               *)
DeliverFullNoShutdown(d, via) ==
  /\ state # "closed" /\ ~offline /\ enqFull /\ next <= MaxSeq
  /\ commit(d)
  /\ stalled' = TRUE
  /\ astray' = (via # live)
  /\ UNCHANGED <<state, live, wiring, queues, peer>>

DeliverFullNotStalled(d, via) ==
  /\ state # "closed" /\ ~offline /\ enqFull /\ next <= MaxSeq
  /\ commit(d)
  /\ blame(via)
  /\ UNCHANGED <<state, live, stalled, phase, up, chan, pump, noResume, hello, queues, peer>>

(* A full queue under PolicyDisconnect: keep the frame, stall, and let the *)
(* caller start `go c.ShutdownResumable()` for the client it holds.        *)
DeliverFull(d, via) ==
  /\ state # "closed" /\ ~offline /\ enqFull /\ next <= MaxSeq
  /\ commit(d)
  /\ stalled' = TRUE
  /\ blame(via)
  /\ UNCHANGED <<state, live, phase, up, chan, pump, noResume, hello, queues, peer>>

(* Every other outcome of deliver (closed session, PolicyDrop on a full    *)
(* queue, PolicyVolatile with nobody to take it) changes only counters.    *)
Deliver(d, pol) ==
  \/ pol = "volatile" /\ DeliverVolatile(d)
  \/ pol # "volatile" /\ (DeliverOffline(d) \/ DeliverQueued(d) \/ DeliverClosedChannel(d))
  \/ pol = "disconnect" /\ \E via \in Emitters : DeliverFull(d, via)
-----------------------------------------------------------------------------
(* WritePump: the replay goes out before the queue.                        *)

Pending(c) == replay[c] # << >> \/ send[c] # << >>

NextFrame(c) == IF replay[c] # << >> THEN Head(replay[c]) ELSE Head(send[c])

pop(c) ==
  IF replay[c] # << >>
  THEN replay' = [replay EXCEPT ![c] = Tail(@)] /\ UNCHANGED send
  ELSE send' = [send EXCEPT ![c] = Tail(@)] /\ UNCHANGED replay

(* The client algorithm of docs/RECOVERY.md: ignore what was seen before.  *)
onFrame(f) ==
  IF f.seq > lastSeq
  THEN lastSeq' = f.seq /\ seen' = Append(seen, f.data)
  ELSE UNCHANGED peer

(* Write succeeds and the peer handles the frame. *)
WriteFrame(c) ==
  /\ pump[c] /\ up[c] /\ Pending(c)
  /\ onFrame(NextFrame(c))
  /\ pop(c)
  /\ UNCHANGED <<session, wiring, log>>

(* Write is buffered by a dead connection, or fails; on a failure          *)
(* (dead connection or write deadline) WritePump returns.                  *)
WriteLost(c) ==
  /\ pump[c] /\ Pending(c)
  /\ pop(c)
  /\ \/ ~up[c] /\ UNCHANGED pump
     \/ pump' = [pump EXCEPT ![c] = FALSE]
  /\ UNCHANGED <<session, phase, up, chan, dying, noResume, hello, log, peer>>

(* The transport breaks; the server has not noticed yet. *)
Drop(c) ==
  /\ up[c]
  /\ up' = [up EXCEPT ![c] = FALSE]
  /\ UNCHANGED <<session, phase, chan, pump, dying, noResume, hello, queues, log, peer>>
-----------------------------------------------------------------------------
(* Closing: closeRaw, Shutdown, ShutdownResumable, ReadPump's deferred calls. *)

(* closeRaw: transport and send channel closed; what was queued is not     *)
(* written any more, because every Write on the closed transport fails.    *)
closeRaw(c) ==
  /\ up'   = [up EXCEPT ![c] = FALSE]
  /\ chan' = [chan EXCEPT ![c] = FALSE]
  /\ pump' = [pump EXCEPT ![c] = FALSE]
  /\ replay' = [replay EXCEPT ![c] = << >>]
  /\ send' = [send EXCEPT ![c] = << >>]

ShutdownResumable(c) ==
  /\ dying[c]
  /\ dying' = [dying EXCEPT ![c] = FALSE]
  /\ closeRaw(c)
  /\ UNCHANGED <<session, phase, noResume, hello, log, peer>>

(* ctx.Disconnect: Client.Shutdown. *)
Disconnect(c) ==
  /\ phase[c] = "open" /\ ~noResume[c]
  /\ noResume' = [noResume EXCEPT ![c] = TRUE]
  /\ closeRaw(c)
  /\ UNCHANGED <<session, phase, dying, hello, log, peer>>

(* ReadPump returns (read error, or no pong because nothing is written any *)
(* more) and retires c: SessionStore.Leave.                                *)
Leave(c) ==
  /\ phase[c] = "open" /\ (~up[c] \/ ~pump[c])
  /\ phase' = [phase EXCEPT ![c] = "left"]
  /\ \/ /\ state = "closed" \/ live # c
        /\ UNCHANGED session
     \/ /\ state # "closed" /\ live = c /\ noResume[c]
        /\ state' = "closed" /\ live' = NoConn
        /\ UNCHANGED <<next, buf, stalled, astray>>
     \/ /\ state # "closed" /\ live = c /\ ~noResume[c]
        /\ state' = "parked" /\ live' = NoConn /\ stalled' = FALSE /\ astray' = FALSE
        /\ UNCHANGED <<next, buf>>
  /\ UNCHANGED <<up, chan, pump, dying, noResume, hello, queues, log, peer>>

(* ReadPump's closeRaw after retire; the slot becomes free. *)
Finish(c) ==
  /\ phase[c] = "left"
  /\ phase' = [phase EXCEPT ![c] = "idle"]
  /\ dying' = [dying EXCEPT ![c] = FALSE]
  /\ noResume' = [noResume EXCEPT ![c] = FALSE]
  /\ hello' = [hello EXCEPT ![c] = 0]
  /\ closeRaw(c)
  /\ UNCHANGED <<session, log, peer>>
-----------------------------------------------------------------------------
(* Resuming: SessionStore.Open with a known session id and the owner's key. *)

(* Session.verdict, for the owner: "none" (the empty reason) attaches,  *)
(* every other reason kills the session.                                   *)
verdict(r, expired) ==
  IF state = "parked" /\ expired THEN "expired"
  ELSE IF r >= next THEN "bad_seq"
  ELSE IF r < next - 1 /\ ~covers(buf, r) THEN "gap_exceeded"
  ELSE "none"

(* What a peer may send as gs_seq: what it saw, a lagging value, or a      *)
(* number the session has not reached.                                     *)
Requests == {r \in 0..lastSeq : lastSeq - r <= MaxLag} \cup {next}

(* Mutant of attach: the replay skips its first frame. *)
attachReplayLate(c, r) ==
  LET kept == ackUpTo(buf, r)
  IN  /\ buf' = kept
      /\ replay' = [replay EXCEPT ![c] = after(kept, r + 1)]
      /\ hello' = [hello EXCEPT ![c] = next - 1]
      /\ live' = c /\ state' = "attached" /\ stalled' = FALSE /\ astray' = FALSE

(* SessionStore.attachLocked: r confirms everything up to it, the rest is  *)
(* primed on the new connection, which becomes the live one.               *)
attachLocked(c, r) ==
  LET kept == ackUpTo(buf, r)
  IN  /\ buf' = kept
      /\ replay' = [replay EXCEPT ![c] = after(kept, r)]
      /\ hello' = [hello EXCEPT ![c] = next - 1]
      /\ live' = c /\ state' = "attached" /\ stalled' = FALSE /\ astray' = FALSE

(* The peer gives up its old transport and resumes on slot c.  The         *)
(* displaced connection is shut down by openSession.                       *)
Resume(c, r) ==
  /\ phase[c] = "idle" /\ state # "closed"
  /\ verdict(r, FALSE) = "none"
  /\ attachLocked(c, r)
  /\ phase' = [phase EXCEPT ![c] = "open"]
  /\ up'    = [x \in Conns |-> x = c]
  /\ chan'  = [chan EXCEPT ![c] = TRUE]
  /\ pump'  = [pump EXCEPT ![c] = TRUE]
  /\ dying' = IF live = NoConn THEN dying ELSE [dying EXCEPT ![live] = TRUE]
  /\ UNCHANGED <<next, noResume, send, log, peer>>

(* A refused resume discards the session; the peer goes on with a fresh    *)
(* one, and the killed session keeps its `live` pointer.                   *)
ResumeRefused(r, expired) ==
  /\ state # "closed"
  /\ verdict(r, expired) # "none"
  /\ state' = "closed"
  /\ up' = [x \in Conns |-> FALSE]
  /\ UNCHANGED <<next, buf, live, stalled, astray, phase, chan, pump, dying, noResume, hello,
                 queues, log, peer>>

(* Sweep or eviction of a parked session. *)
Expire ==
  /\ state = "parked"
  /\ state' = "closed"
  /\ UNCHANGED <<next, buf, live, stalled, astray, wiring, queues, log, peer>>

(* A $ack of anything the peer has seen, possibly delayed: Session.Ack.    *)
Ack(n) ==
  /\ n < next
  /\ buf' = ackUpTo(buf, n)
  /\ UNCHANGED <<state, next, live, stalled, astray, wiring, queues, log, peer>>
-----------------------------------------------------------------------------
Next ==
  \/ \E d \in Data, pol \in Policies : Deliver(d, pol)
  \/ \E c \in Conns : WriteFrame(c) \/ WriteLost(c) \/ Drop(c)
  \/ \E c \in Conns : ShutdownResumable(c) \/ Disconnect(c) \/ Leave(c) \/ Finish(c)
  \/ \E c \in Conns, r \in Requests : Resume(c, r)
  \/ \E r \in Requests, expired \in BOOLEAN : ResumeRefused(r, expired)
  \/ Expire
  \/ \E n \in 0..lastSeq : Ack(n)

Spec == Init /\ [][Next]_vars

(* The peer reconnects whenever it has no transport. *)
Reconnect ==
  /\ \A c \in Conns : ~up[c]
  /\ (\E c \in Conns : Resume(c, lastSeq)) \/ ResumeRefused(lastSeq, FALSE)

(* The pumps and the shutdown goroutines run on the Go scheduler, and the  *)
(* client algorithm reconnects; the network lets a write through again and *)
(* again, but may break any number of connections in between.  ReadPump is *)
(* only sure to return from a transport that closeRaw closed: a WritePump  *)
(* that gave up closes nothing, and every frame the peer sends renews the  *)
(* read deadline.                                                          *)
Fairness ==
  /\ \A c \in Conns : /\ WF_vars(ShutdownResumable(c))
                     /\ WF_vars(~chan[c] /\ Leave(c))
                     /\ WF_vars(Finish(c))
  /\ WF_vars(Reconnect)
  /\ SF_vars(\E c \in Conns : WriteFrame(c))

FairSpec == Spec /\ Fairness
-----------------------------------------------------------------------------
TypeOK ==
  /\ state \in States /\ next \in Nat \ {0} /\ buf \in Seq(Entry)
  /\ live \in Conns \cup {NoConn} /\ stalled \in BOOLEAN /\ astray \in BOOLEAN
  /\ phase \in [Conns -> {"idle", "open", "left"}]
  /\ up \in [Conns -> BOOLEAN] /\ chan \in [Conns -> BOOLEAN] /\ pump \in [Conns -> BOOLEAN]
  /\ dying \in [Conns -> BOOLEAN] /\ noResume \in [Conns -> BOOLEAN]
  /\ hello \in [Conns -> Nat]
  /\ replay \in [Conns -> Seq(Frame)] /\ send \in [Conns -> Seq(Frame)]
  /\ log \in Seq(Data) /\ lastSeq \in Nat /\ seen \in Seq(Data)

(* replayBuffer "holds a contiguous run of sequenced frames" that ends     *)
(* with the newest one, each with the payload its seq was given.           *)
BufferRun ==
  /\ Len(log) = next - 1
  /\ Len(buf) < next
  /\ \A i \in 1..Len(buf) :
       /\ buf[i].seq = next - 1 - Len(buf) + i
       /\ buf[i].data = log[buf[i].seq]

(* Both limits of the replay buffer are hard caps, whatever mix of pushes, *)
(* acks, oversized frames and resumes led here.                            *)
BufferCaps == Fits(buf)

(* The peer's reliable input is always a prefix of what was sequenced:     *)
(* across any number of drops, stalls, displaced connections and lagging   *)
(* resumes it handles every frame once, in order, without a gap.           *)
PeerPrefix ==
  /\ Len(seen) = lastSeq /\ lastSeq < next
  /\ \A i \in 1..lastSeq : seen[i] = log[i]

(* On connection c the replay runs up to the announced lastSeq and starts  *)
(* no later than the first unseen frame, the queue continues it in order,  *)
(* and unless the session is stalled every unseen frame is in one of them. *)
InFlight(c) ==
  /\ hello[c] < next /\ Len(replay[c]) <= hello[c]
  /\ hello[c] - Len(replay[c]) <= lastSeq
  /\ replay[c] # << >> => lastSeq <= hello[c]
  /\ \A i \in 1..Len(replay[c]) :
       /\ replay[c][i].seq = hello[c] - Len(replay[c]) + i
       /\ replay[c][i].data = log[replay[c][i].seq]
  /\ \A j \in 1..Len(send[c]) : send[c][j].seq # 0 =>
       /\ send[c][j].seq > hello[c] /\ send[c][j].seq < next
       /\ send[c][j].data = log[send[c][j].seq]
       /\ \A k \in 1..j - 1 : send[c][k].seq < send[c][j].seq
       /\ \A m \in hello[c] + 1..send[c][j].seq - 1 :
            m > lastSeq => \E k \in 1..Len(send[c]) : send[c][k].seq = m
  /\ live = c /\ ~stalled /\ state # "closed" =>
       \A m \in hello[c] + 1..next - 1 :
         m > lastSeq => \E k \in 1..Len(send[c]) : send[c][k].seq = m

(* Nothing is missing between the session and the peer on the transport    *)
(* the peer uses, as long as WritePump serves it.                          *)
UnseenInFlight == \A c \in Conns : up[c] /\ pump[c] => InFlight(c)

(* A resume that reports what the peer saw is refused for a gap only if    *)
(* the unseen frames do not fit the replay window.                         *)
GapOnlyBeyondWindow ==
  verdict(lastSeq, FALSE) = "gap_exceeded" =>
    ~Fits([i \in 1..(next - 1 - lastSeq) |-> [seq |-> lastSeq + i, data |-> log[lastSeq + i]]])

(* The two ways a peer stays connected and hears nothing: WritePump gave   *)
(* up on a write error, or the frame that stalled the session was emitted  *)
(* through another connection, which is the one that was shut down.        *)
Deaf(c) == up[c] /\ (~pump[c] \/ (live = c /\ stalled /\ astray))

(* A frame sequenced for a session reaches the peer unless the session is  *)
(* closed or the peer stays for ever on a connection it is deaf on: a      *)
(* stalled session gets rid of the slow connection ("buffer-only until the *)
(* client detaches"), and the peer reconnects to the replay.               *)
EventuallySeen ==
  \/ \A n \in 1..MaxSeq : (next > n) ~> (lastSeq >= n \/ state = "closed")
  \/ <>[](\E c \in Conns : Deaf(c))

Abstract == INSTANCE ReliableStream WITH open <- (state # "closed")

(* The session implements the reliable stream of ReliableStream. *)
ImplementsReliableStream == Abstract!SSpec
=============================================================================
