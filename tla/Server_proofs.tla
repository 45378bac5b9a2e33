---------------------------- MODULE Server_proofs ---------------------------
(***************************************************************************)
(* Theorems about Server for every set of connection attempts and every     *)
(* capacity: the hub forgets a connection that is over, the slots of        *)
(* MaxConnections are counted exactly, every queue keeps to its size, and a *)
(* client is written the frames meant for it in order and without a gap.    *)
(*                                                                          *)
(* The line of a client is what it was given, written or still queued.      *)
(* Lines are sorted because the jobs that wait in the hub are sorted and    *)
(* newer than every line; they are complete because emitToTargets marks as  *)
(* slow every target whose queue does not take the frame.                   *)
(***************************************************************************)
EXTENDS Server, FiniteSetTheorems, TLAPS

Steps == {"dial", "admitted", "register", "middleware", "rejected", "onConnect", "serving",
          "panicked", "aborted", "retire", "shutdown", "closeRaw", "disconnect", "gone"}

Counted == {"register", "middleware", "onConnect", "serving", "panicked", "aborted", "retire", "closeRaw"}

Held == {c \in Clients : pc[c] \in Counted}

PcType == pc \in [Clients -> Steps] /\ hub \in {"running", "draining", "closed"}

\* As long as the hub runs, a connection whose ReadPump has not retired it is
\* registered; this is why a JoinRoom finds its client in the map.
HandlerRegistered ==
  hub = "running" => \A c \in Clients : inHandler(c) /\ pc[c] # "disconnect" => c \in clients

HubInv == PcType /\ HandlerRegistered /\ GoneIsForgotten

SlotInv == PcType /\ conns \in Int /\ IsFiniteSet(Held) /\ ConnsExact
-----------------------------------------------------------------------------
\* Every step leaves the maps of the hub with the connections that are not over.
LEMMA HubStep == HubInv /\ [Next]_vars => HubInv'
<1> SUFFICES ASSUME HubInv, [Next]_vars PROVE HubInv'
  BY Zenon
<1> USE DEF HubInv, PcType, Steps, HandlerRegistered, GoneIsForgotten, inHandler
<1>1. CASE UNCHANGED <<pc, hub, clients, room, late>>
  BY Zenon, <1>1
<1>2. ASSUME NEW c \in Clients, Admit(c) \/ Accept(c) \/ Connect(c) \/ Serve(c) \/ OnConnectPanics(c) \/ MiddlewarePanics(c)
             \/ DisconnectReturns(c)
             \/ Reject(c) \/ ReadEnds(c) PROVE HubInv'
  BY Zenon, <1>2 DEF Admit, Accept, Connect, Serve, OnConnectPanics, MiddlewarePanics, DisconnectReturns, Reject, ReadEnds, goto, maps, loop
<1>3. ASSUME NEW c \in Clients, Register(c) PROVE HubInv'
  BY Zenon, <1>3 DEF Register, goto, loop
<1>4. ASSUME NEW c \in Clients, JoinRoom(c) \/ LeaveRoom(c) PROVE HubInv'
  BY Zenon, <1>4 DEF JoinRoom, LeaveRoom, adm, loop
<1>5. ASSUME NEW c \in Clients, Unregister(c) PROVE HubInv'
  BY Zenon, <1>5 DEF Unregister, goto, loop
<1>6. ASSUME NEW c \in Clients, Finish(c) PROVE HubInv'
  BY Zenon, <1>6 DEF Finish, goto, maps, loop
<1>7. ASSUME NEW c \in Clients, Shutdown(c) \/ WriteFrame(c) \/ WriteFails(c) \/ PingFails(c) \/ DrainOne(c) PROVE HubInv'
  BY Zenon, <1>1, <1>7 DEF Shutdown, WriteFrame, WriteFails, PingFails, DrainOne, adm, maps, loop
<1>8. CASE HubDrains
  BY Zenon, <1>8 DEF HubDrains, adm
<1>9. CASE HubCloses
  BY Zenon, <1>9 DEF HubCloses, adm, maps
<1>10. CASE \/ (\E x \in Clients \cup {Nobody} : EmitRoom(x)) \/ HubEmits
            \/ ShutdownServer \/ ShutdownWithMessage \/ EmitNotice \/ CancelHub \/ ShutdownReturns
            \/ UNCHANGED vars
  BY Zenon, <1>1, <1>10 DEF EmitRoom, HubEmits, ShutdownServer, ShutdownWithMessage, EmitNotice, CancelHub,
       ShutdownReturns, vars, adm, maps, loop
<1> QED BY SMTT(30), <1>2, <1>3, <1>4, <1>5, <1>6, <1>7, <1>8, <1>9, <1>10 DEF Next, Connection

\* A connection that is over is not registered and every other member of the room
\* is, but for those that joined from their disconnect callbacks, for every number
\* of connections.
THEOREM HubForgets == Spec => []GoneIsForgotten
<1>1. Init => HubInv
  BY Zenon DEF Init, HubInv, PcType, Steps, HandlerRegistered, GoneIsForgotten, inHandler
<1>2. HubInv => GoneIsForgotten
  BY Zenon DEF HubInv
<1> QED BY <1>1, <1>2, HubStep, PTL DEF Spec
-----------------------------------------------------------------------------
\* A step of one connection to a step that keeps its slot.
LEMMA SlotKept ==
  ASSUME SlotInv, NEW c \in Clients, NEW s \in Steps, goto(c, s), conns' = conns, hub' = hub,
         pc[c] \in Counted <=> s \in Counted
  PROVE  SlotInv'
<1>1. Held' = Held
  BY Zenon DEF Held, goto, SlotInv, PcType
<1> QED BY Zenon, <1>1 DEF SlotInv, PcType, goto, ConnsExact, Held, Counted

\* A step that takes a slot.
LEMMA SlotTaken ==
  ASSUME SlotInv, NEW c \in Clients, NEW s \in Counted, goto(c, s), conns' = conns + 1, hub' = hub,
         pc[c] \notin Counted
  PROVE  SlotInv'
<1>1. Held' = Held \cup {c} /\ c \notin Held
  BY Zenon DEF Held, goto, SlotInv, PcType
<1>2. IsFiniteSet(Held') /\ Cardinality(Held') = Cardinality(Held) + 1
  BY Zenon, <1>1, FS_AddElement DEF SlotInv
<1>3. pc' \in [Clients -> Steps]
  BY Zenon DEF goto, SlotInv, PcType, Steps, Counted
<1> QED BY <1>2, <1>3 DEF SlotInv, PcType, ConnsExact, Held, Counted

\* A step that gives a slot back.
LEMMA SlotReturned ==
  ASSUME SlotInv, NEW c \in Clients, NEW s \in Steps \ Counted, goto(c, s), conns' = conns - 1, hub' = hub,
         pc[c] \in Counted
  PROVE  SlotInv'
<1>1. Held' = Held \ {c} /\ c \in Held
  BY Zenon DEF Held, goto, SlotInv, PcType
<1>2. IsFiniteSet(Held') /\ Cardinality(Held') = Cardinality(Held) - 1
  BY Zenon, <1>1, FS_RemoveElement DEF SlotInv
<1>3. pc' \in [Clients -> Steps]
  BY Zenon DEF goto, SlotInv, PcType
<1> QED BY <1>2, <1>3 DEF SlotInv, PcType, ConnsExact, Held, Counted

\* Every step keeps the count of the slots exact.
LEMMA SlotStep == SlotInv /\ [Next]_vars => SlotInv'
<1> SUFFICES ASSUME SlotInv, [Next]_vars PROVE SlotInv'
  BY Zenon
<1>1. CASE UNCHANGED <<pc, conns>> /\ hub' \in {"running", "draining", "closed"}
  BY Zenon, <1>1 DEF SlotInv, PcType, Held, ConnsExact
<1>2. ASSUME NEW c \in Clients, Accept(c) PROVE SlotInv'
  <2>1. "register" \in Counted /\ pc[c] \notin Counted
    BY Zenon, <1>2 DEF Accept, Counted
  <2> QED BY Zenon, <1>2, <2>1, SlotTaken DEF Accept, loop
<1>3. ASSUME NEW c \in Clients, Reject(c) PROVE SlotInv'
  <2>1. "rejected" \in Steps \ Counted /\ pc[c] \in Counted
    BY Zenon, <1>3 DEF Reject, Counted, Steps
  <2> QED BY Zenon, <1>3, <2>1, SlotReturned DEF Reject, loop
<1>4. ASSUME NEW c \in Clients, Finish(c) PROVE SlotInv'
  <2>1. /\ {"gone", "disconnect"} \subseteq Steps \ Counted
        /\ pc[c] \in Counted <=> pc[c] = "closeRaw"
    BY Zenon, <1>4 DEF Finish, Counted, Steps
  <2>2. CASE pc[c] = "closeRaw"
    BY SMTT(30), <1>4, <2>1, <2>2, SlotReturned DEF Finish, loop
  <2>3. CASE pc[c] # "closeRaw"
    BY SMTT(30), <1>4, <2>1, <2>3, SlotKept DEF Finish, loop
  <2> QED BY Zenon, <2>2, <2>3
<1>5. ASSUME NEW c \in Clients, Admit(c) \/ Register(c) \/ Connect(c) \/ Serve(c) \/ OnConnectPanics(c) \/ MiddlewarePanics(c)
             \/ DisconnectReturns(c)
             \/ ReadEnds(c) \/ Unregister(c) PROVE SlotInv'
  <2>1. \E s \in Steps : goto(c, s) /\ (pc[c] \in Counted <=> s \in Counted)
    BY Zenon, <1>5 DEF Admit, Register, Connect, Serve, OnConnectPanics, MiddlewarePanics, DisconnectReturns, ReadEnds, Unregister, Steps, Counted
  <2>2. conns' = conns /\ hub' = hub
    BY Zenon, <1>5 DEF Admit, Register, Connect, Serve, OnConnectPanics, MiddlewarePanics, DisconnectReturns, ReadEnds, Unregister, loop
  <2> QED BY SMTT(30), <2>1, <2>2, SlotKept
<1>6. ASSUME NEW c \in Clients, JoinRoom(c) \/ LeaveRoom(c) \/ Shutdown(c) \/ WriteFrame(c) \/ WriteFails(c) \/ PingFails(c) \/ DrainOne(c)
      PROVE SlotInv'
  BY SMTT(30), <1>1, <1>6 DEF JoinRoom, LeaveRoom, Shutdown, WriteFrame, WriteFails, PingFails, DrainOne, adm, loop, SlotInv, PcType
<1>7. CASE \/ (\E x \in Clients \cup {Nobody} : EmitRoom(x)) \/ HubEmits \/ HubDrains \/ HubCloses
           \/ ShutdownServer \/ ShutdownWithMessage \/ EmitNotice \/ CancelHub \/ ShutdownReturns
           \/ UNCHANGED vars
  BY ZenonT(30), <1>1, <1>7 DEF EmitRoom, HubEmits, HubDrains, HubCloses, ShutdownServer, ShutdownWithMessage, EmitNotice,
       CancelHub, ShutdownReturns, vars, adm, loop, SlotInv, PcType
<1> QED BY SMTT(30), <1>2, <1>3, <1>4, <1>5, <1>6, <1>7 DEF Next, Connection

\* Server.conns is the number of connections that hold a slot, whatever number of
\* them is admitted, rejected, served, panicking and retiring at the same time.
THEOREM SlotsAreExact == Spec => []ConnsExact
<1>1. Init => SlotInv
  <2> SUFFICES ASSUME Init PROVE SlotInv
    BY Zenon
  <2>1. Held = {}
    BY Zenon DEF Init, Held, Counted
  <2>2. IsFiniteSet(Held) /\ Cardinality(Held) = 0
    BY Zenon, <2>1, FS_EmptySet
  <2> QED BY <2>2 DEF Init, SlotInv, PcType, Steps, ConnsExact, Held, Counted
<1>2. SlotInv => ConnsExact
  BY Zenon DEF SlotInv
<1> QED BY <1>1, <1>2, SlotStep, PTL DEF Spec
-----------------------------------------------------------------------------
Frames == 1..Notice
Jobs   == [frame : Frames, exclude : Clients \cup {Nobody}]

\* A bounded queue that takes one more element, or gives one away, stays one.
LEMMA QueueType ==
  ASSUME NEW S, NEW n \in Nat, NEW q \in Seq(S), Len(q) <= n
  PROVE  /\ \A e \in S : Len(q) < n => Append(q, e) \in Seq(S) /\ Len(Append(q, e)) <= n
         /\ q # <<>> => Head(q) \in S /\ Tail(q) \in Seq(S) /\ Len(Tail(q)) <= n
OBVIOUS

\* Every step keeps the types, and the queues within their capacity.
LEMMA TypeStep == TypeOK /\ [Next]_vars => TypeOK'
<1> SUFFICES ASSUME TypeOK, [Next]_vars PROVE TypeOK'
  BY Zenon
<1> USE ServerConstants DEF TypeOK, Notice
<1>1. ASSUME NEW c \in Clients, Admit(c) \/ Connection(c) \/ ReadEnds(c) PROVE TypeOK'
  <2> USE DEF Admit, Connection, Accept, Register, Reject, Connect, Serve, OnConnectPanics, MiddlewarePanics, DisconnectReturns, Unregister, Finish,
         ReadEnds, goto, maps, loop, out
  <2>1. pc' \in [Clients -> Steps]
    BY ZenonT(30), <1>1 DEF Steps
  <2>2. conns' \in Int /\ clients' \subseteq Clients /\ room' \subseteq Clients /\ down' \subseteq Clients
    BY SMTT(30), <1>1
  <2>3. UNCHANGED <<closed, slow, hub, ctxDone, emitq, toClose, sendq, got, lost, halted, late, owed, emitted, shut>>
    BY Zenon, <1>1
  <2> HIDE DEF Admit, Connection, Accept, Register, Reject, Connect, Serve, OnConnectPanics, MiddlewarePanics, DisconnectReturns, Unregister, Finish,
         ReadEnds, goto, maps, loop, out
  <2> QED BY SMTT(30), <2>1, <2>2, <2>3 DEF Steps
<1>2. ASSUME NEW c \in Clients, JoinRoom(c) \/ LeaveRoom(c) \/ Shutdown(c) \/ DrainOne(c) PROVE TypeOK'
  BY Zenon, <1>2 DEF JoinRoom, LeaveRoom, Shutdown, DrainOne, adm, maps, loop, out
<1>3. ASSUME NEW c \in Clients, WriteFrame(c) PROVE TypeOK'
  <2>1. Head(sendq[c]) \in Frames /\ Tail(sendq[c]) \in Seq(Frames) /\ Len(Tail(sendq[c])) <= SendBuffer
    BY SMTT(30), <1>3, QueueType DEF WriteFrame, Frames
  <2>2. Append(got[c], Head(sendq[c])) \in Seq(Frames)
    BY <2>1 DEF Frames
  <2> QED BY Zenon, <1>3, <2>1, <2>2 DEF WriteFrame, Frames, adm, maps, loop
<1>10. ASSUME NEW c \in Clients, WriteFails(c) PROVE TypeOK'
  <2>1. Head(sendq[c]) \in Frames /\ Tail(sendq[c]) \in Seq(Frames) /\ Len(Tail(sendq[c])) <= SendBuffer
    BY SMTT(30), <1>10, QueueType DEF WriteFails, Frames
  <2>2. <<Head(sendq[c])>> \in Seq(Frames)
    BY <2>1 DEF Frames
  <2> QED BY Zenon, <1>10, <2>1, <2>2 DEF WriteFails, Frames, adm, maps, loop
<1>11. ASSUME NEW c \in Clients, PingFails(c) PROVE TypeOK'
  BY Zenon, <1>11 DEF PingFails, adm, maps, loop
<1>4. ASSUME NEW j \in Jobs, enqueueJob(j) PROVE emitq' \in Seq(Jobs) /\ Len(emitq') <= EmitBuffer
  <2>1. emitq \in Seq(Jobs) /\ Len(emitq) <= EmitBuffer /\ EmitBuffer \in Nat
    BY Zenon DEF Jobs, Frames
  <2>2. Len(emitq) < EmitBuffer => Append(emitq, j) \in Seq(Jobs) /\ Len(Append(emitq, j)) <= EmitBuffer
    BY Zenon, <2>1, QueueType
  <2> QED BY Zenon, <1>4, <2>1, <2>2 DEF enqueueJob
<1>5. ASSUME NEW x \in Clients \cup {Nobody}, EmitRoom(x) PROVE TypeOK'
  <2>1. [frame |-> emitted + 1, exclude |-> x] \in Jobs
    BY <1>5 DEF EmitRoom, Jobs, Frames
  <2>2. emitq' \in Seq(Jobs) /\ Len(emitq') <= EmitBuffer
    BY Zenon, <1>4, <1>5, <2>1 DEF EmitRoom
  <2>3. emitted' \in 0..MaxEmits
    BY <1>5 DEF EmitRoom
  <2> QED BY SMTT(30), <1>5, <2>2, <2>3 DEF EmitRoom, Jobs, Frames, adm, maps
<1>6. CASE HubEmits
  <2> DEFINE job == Head(emitq)
  <2>1. job \in Jobs /\ emitq' \in Seq(Jobs) /\ Len(emitq') <= EmitBuffer
    BY Zenon, <1>6, QueueType DEF HubEmits, Jobs, Frames
  <2>2. targets(job) \subseteq Clients
    BY Zenon DEF targets
  <2>3. \A c \in Clients : takes(c) => Append(sendq[c], job.frame) \in Seq(Frames) /\ Len(Append(sendq[c], job.frame)) <= SendBuffer
    BY SMTT(30), <2>1, QueueType DEF takes, Frames, Jobs
  <2> HIDE DEF job
  <2>4. /\ sendq' = [c \in Clients |->
              IF c \in targets(job) /\ takes(c) THEN Append(sendq[c], job.frame) ELSE sendq[c]]
        /\ owed' = [c \in Clients |-> IF c \in targets(job) THEN owed[c] \cup {job.frame} ELSE owed[c]]
        /\ slow' = slow \cup {c \in targets(job) : ~takes(c)}
    BY Zenon, <1>6 DEF HubEmits, emitToTargets, job
  <2>5. sendq' \in [Clients -> Seq(Frames)] /\ \A c \in Clients : Len(sendq'[c]) <= SendBuffer
    BY Zenon, <2>3, <2>4 DEF Frames
  <2>6. owed' \in [Clients -> SUBSET Frames] /\ slow' \subseteq Clients
    BY Zenon, <2>1, <2>2, <2>4 DEF Frames, Jobs
  <2> QED BY SMTT(30), <1>6, <2>1, <2>5, <2>6 DEF HubEmits, Jobs, Frames, adm, maps
<1>7. CASE EmitNotice
  <2>1. [frame |-> Notice, exclude |-> Nobody] \in Jobs
    BY DEF Jobs, Frames
  <2> QED BY Zenon, <1>4, <1>7, <2>1 DEF EmitNotice, Jobs, Frames, adm, maps, out
<1>8. CASE HubDrains \/ HubCloses \/ ShutdownServer \/ ShutdownWithMessage \/ CancelHub \/ ShutdownReturns
  BY ZenonT(30), <1>8 DEF HubDrains, HubCloses, ShutdownServer, ShutdownWithMessage, CancelHub, ShutdownReturns,
       adm, maps, loop, out
<1>9. CASE UNCHANGED vars
  BY Zenon, <1>9 DEF vars, adm, maps, loop, out
<1> QED BY Zenon, <1>1, <1>2, <1>3, <1>5, <1>6, <1>7, <1>8, <1>9, <1>10, <1>11 DEF Next

\* The initial values have their types.
LEMMA TypeInit == Init => TypeOK
<1> SUFFICES ASSUME Init PROVE TypeOK
  BY Zenon
<1>1. emitq \in Seq([frame : 1..Notice, exclude : Clients \cup {Nobody}]) /\ Len(emitq) <= EmitBuffer
  BY ServerConstants DEF Init
<1>2. \A c \in Clients : sendq[c] = <<>> /\ got[c] = <<>> /\ lost[c] = <<>> /\ owed[c] = {}
  BY Zenon DEF Init
<1>3. \A c \in Clients : sendq[c] \in Seq(1..Notice) /\ got[c] \in Seq(1..Notice) /\ lost[c] \in Seq(1..Notice)
                           /\ owed[c] \in SUBSET (1..Notice) /\ Len(sendq[c]) <= SendBuffer
  <2>1. <<>> \in Seq(1..Notice) /\ Len(<<>>) = 0 /\ {} \in SUBSET (1..Notice) /\ 0 <= SendBuffer
    BY ServerConstants
  <2> QED BY <1>2, <2>1, Zenon
<1>4. /\ sendq \in [Clients -> Seq(1..Notice)] /\ got \in [Clients -> Seq(1..Notice)]
      /\ owed \in [Clients -> SUBSET (1..Notice)] /\ lost \in [Clients -> Seq(1..Notice)]
  <2>1. /\ sendq = [c \in Clients |-> sendq[c]] /\ got = [c \in Clients |-> got[c]]
        /\ owed = [c \in Clients |-> owed[c]] /\ lost = [c \in Clients |-> lost[c]]
    BY Zenon DEF Init
  <2> QED BY Zenon, <1>3, <2>1
<1>5. pc \in [Clients -> Steps] /\ conns \in Int /\ emitted \in 0..MaxEmits
  BY ServerConstants DEF Init, Steps
<1>6. /\ closed \in BOOLEAN /\ ctxDone \in BOOLEAN /\ hub = "running" /\ shut = "idle"
      /\ down = {} /\ slow = {} /\ toClose = {} /\ clients = {} /\ room = {} /\ late = {} /\ halted = {}
  BY Zenon DEF Init
<1> QED BY Zenon, <1>1, <1>3, <1>4, <1>5, <1>6 DEF TypeOK, Steps

\* The variables of every connection, of the hub and of the shutdown keep their
\* types, and no queue exceeds its capacity, for every number of connections.
THEOREM ServerTypeCorrect == Spec => []TypeOK
BY TypeInit, TypeStep, PTL DEF Spec
-----------------------------------------------------------------------------

\* What WritePump has taken for a client, the frame whose write failed included.
taken(c) == got[c] \o lost[c]

\* What a client has been given, written or not.
line(c) == taken(c) \o sendq[c]

Sorted(s) == \A i, j \in DOMAIN s : i < j /\ s[i] # Notice /\ s[j] # Notice => s[i] < s[j]
Below(s, n) == \A i \in DOMAIN s : s[i] # Notice => s[i] < n

\* The jobs that wait are sorted, newer than every frame on a line and not newer
\* than the last broadcast.
JobsSorted ==
  /\ \A i, j \in DOMAIN emitq :
       i < j /\ emitq[i].frame # Notice /\ emitq[j].frame # Notice => emitq[i].frame < emitq[j].frame
  /\ \A i \in DOMAIN emitq : emitq[i].frame # Notice => emitq[i].frame <= emitted

LinesSorted ==
  \A c \in Clients :
    /\ Sorted(line(c)) /\ Below(line(c), emitted + 1)
    /\ \A i \in DOMAIN emitq : emitq[i].frame # Notice => Below(line(c), emitq[i].frame)

Complete == \A c \in Clients : c \notin down \cup slow => owed[c] \subseteq Range(line(c))

\* A failed write is the last thing WritePump does.
LastWrite == \A c \in Clients : lost[c] # <<>> => Len(lost[c]) = 1 /\ c \in halted

FrameInv == TypeOK /\ JobsSorted /\ LinesSorted /\ Complete /\ LastWrite

\* Taking a frame, whether its write succeeds or fails, leaves the line as it is.
LEMMA LineWritten ==
  ASSUME NEW S, NEW g \in Seq(S), NEW q \in Seq(S), q # <<>>
  PROVE  /\ (Append(g, Head(q)) \o <<>>) \o Tail(q) = (g \o <<>>) \o q
         /\ (g \o <<Head(q)>>) \o Tail(q) = (g \o <<>>) \o q
<1>1. g \o <<>> = g /\ Append(g, Head(q)) \o <<>> = Append(g, Head(q)) /\ g \o <<Head(q)>> = Append(g, Head(q))
  OBVIOUS
<1>2. Append(g, Head(q)) \o Tail(q) = g \o q
  OBVIOUS
<1> QED BY Zenon, <1>1, <1>2

\* A frame that is queued goes to the end of the line.
LEMMA LineQueued ==
  ASSUME NEW S, NEW g \in Seq(S), NEW q \in Seq(S), NEW e \in S
  PROVE  g \o Append(q, e) = Append(g \o q, e) /\ g \o q \in Seq(S)
OBVIOUS

\* A newer frame at the end of a line.
LEMMA LineGrows ==
  ASSUME NEW s \in Seq(Frames), NEW e \in Frames, Sorted(s), e # Notice => Below(s, e), MaxEmits \in Nat
  PROVE  /\ Sorted(Append(s, e)) /\ Range(Append(s, e)) = Range(s) \cup {e}
         /\ \A n \in Nat : Below(s, n) /\ (e # Notice => e < n) => Below(Append(s, e), n)
<1>1. DOMAIN s = 1..Len(s) /\ Len(s) \in Nat /\ DOMAIN Append(s, e) = 1..Len(s) + 1
  OBVIOUS
<1>2. Append(s, e)[Len(s) + 1] = e /\ \A i \in 1..Len(s) : Append(s, e)[i] = s[i]
  OBVIOUS
<1> DEFINE t == Append(s, e)
<1> HIDE DEF t
<1>3. \A i \in 1..Len(s) : s[i] \in Int
  BY DEF Frames, Notice
<1>4. e \in Int
  BY DEF Frames, Notice
<1>5. Sorted(t)
  BY <1>1, <1>2, <1>3, <1>4 DEF Sorted, Below, t
<1>6. Range(t) = Range(s) \cup {e}
  BY <1>1, <1>2 DEF Range, t
<1>7. \A n \in Nat : Below(s, n) /\ (e # Notice => e < n) => Below(t, n)
  BY <1>1, <1>2 DEF Below, t
<1> QED BY Zenon, <1>5, <1>6, <1>7 DEF t

\* The types of jobs and lines.
LEMMA LineTypes ==
  ASSUME FrameInv
  PROVE  /\ emitted \in Nat /\ emitq \in Seq(Jobs) /\ \A j \in Jobs : j.frame \in Nat
         /\ Len(emitq) \in Nat /\ DOMAIN emitq = 1..Len(emitq) /\ \A i \in 1..Len(emitq) : emitq[i] \in Jobs
         /\ \A c \in Clients : /\ taken(c) \in Seq(Frames) /\ sendq[c] \in Seq(Frames) /\ line(c) \in Seq(Frames)
                               /\ \A i \in DOMAIN line(c) : line(c)[i] \in Nat
<1>1. emitted \in Nat /\ emitq \in Seq(Jobs)
  BY ServerConstants DEF FrameInv, TypeOK, Jobs, Frames
<1>2. \A j \in Jobs : j.frame \in Nat
  BY ServerConstants DEF Jobs, Frames, Notice
<1>3. \A c \in Clients : taken(c) \in Seq(Frames) /\ sendq[c] \in Seq(Frames)
  <2>1. \A c \in Clients : got[c] \in Seq(Frames) /\ lost[c] \in Seq(Frames) /\ sendq[c] \in Seq(Frames)
    BY Zenon DEF FrameInv, TypeOK, Frames
  <2> QED BY <2>1 DEF taken
<1>4. \A c \in Clients : line(c) \in Seq(Frames)
  BY <1>3 DEF line
<1>5. \A c \in Clients : \A i \in DOMAIN line(c) : line(c)[i] \in Frames
  BY <1>4
<1>6. \A n \in Frames : n \in Nat
  BY ServerConstants DEF Frames, Notice
<1>7. Len(emitq) \in Nat /\ DOMAIN emitq = 1..Len(emitq) /\ \A i \in 1..Len(emitq) : emitq[i] \in Jobs
  BY <1>1
<1> QED BY SMTT(30), <1>1, <1>2, <1>3, <1>4, <1>5, <1>6, <1>7

\* What is below a number is below a greater one.
LEMMA BelowMore ==
  ASSUME NEW s, NEW m \in Nat, NEW n \in Nat, \A i \in DOMAIN s : s[i] \in Nat, Below(s, m), m <= n
  PROVE  Below(s, n)
BY DEF Below

\* A job for a newer frame, or for the notice, at the end of the hub's queue.
LEMMA JobQueued ==
  ASSUME FrameInv, NEW j \in Jobs, enqueueJob(j), emitted' \in Nat, emitted' >= emitted,
         j.frame # Notice => j.frame = emitted + 1 /\ emitted' = emitted + 1,
         UNCHANGED <<sendq, got, lost, owed, down, slow>>
  PROVE  JobsSorted' /\ LinesSorted' /\ Complete'
<1> DEFINE n == Len(emitq)
<1>1. /\ emitted \in Nat /\ n \in Nat /\ DOMAIN emitq = 1..n
      /\ \A i \in 1..n : emitq[i].frame \in Nat
      /\ \A c \in Clients : \A i \in DOMAIN line(c) : line(c)[i] \in Nat
  BY Zenon, LineTypes
<1>2. emitq' # emitq => /\ DOMAIN emitq' = 1..n + 1 /\ emitq'[n + 1] = j
                        /\ \A i \in 1..n : emitq'[i] = emitq[i]
  <2>1. emitq \in Seq(Jobs)
    BY Zenon, LineTypes
  <2>2. /\ DOMAIN Append(emitq, j) = 1..n + 1 /\ Append(emitq, j)[n + 1] = j
        /\ \A i \in 1..n : Append(emitq, j)[i] = emitq[i]
    BY <2>1
  <2>3. emitq' # emitq => emitq' = Append(emitq, j)
    BY Zenon DEF enqueueJob
  <2> QED BY Zenon, <2>2, <2>3
<1> HIDE DEF n
<1>3. /\ \A i, k \in 1..n :
           i < k /\ emitq[i].frame # Notice /\ emitq[k].frame # Notice => emitq[i].frame < emitq[k].frame
      /\ \A i \in 1..n : emitq[i].frame # Notice => emitq[i].frame <= emitted
  BY SMTT(30), <1>1 DEF FrameInv, JobsSorted
<1>4. JobsSorted'
  <2>1. CASE emitq' = emitq
    BY SMTT(30), <1>1, <1>3, <2>1 DEF JobsSorted, Notice
  <2>2. CASE emitq' # emitq
    <3>1. \A i \in 1..n + 1 : i \in 1..n \/ i = n + 1
      BY <1>1
    <3>2. \A i \in 1..n + 1 : emitq'[i].frame # Notice => emitq'[i].frame <= emitted'
      BY SMTT(30), <1>1, <1>2, <1>3, <2>2, <3>1
    <3>3. ASSUME NEW i \in 1..n + 1, NEW k \in 1..n + 1, i < k,
                 emitq'[i].frame # Notice, emitq'[k].frame # Notice
          PROVE  emitq'[i].frame < emitq'[k].frame
      <4>1. i \in 1..n /\ emitq'[i] = emitq[i]
        BY SMTT(30), <1>1, <1>2, <2>2, <3>3
      <4> QED BY SMTT(30), <1>1, <1>2, <1>3, <2>2, <3>1, <3>3, <4>1
    <3> QED BY Zenon, <1>2, <2>2, <3>2, <3>3 DEF JobsSorted, Notice
  <2> QED BY Zenon, <2>1, <2>2
<1>5. ASSUME NEW c \in Clients
      PROVE  /\ line(c)' = line(c) /\ Sorted(line(c)) /\ Below(line(c), emitted + 1)
             /\ \A i \in 1..n : emitq[i].frame # Notice => Below(line(c), emitq[i].frame)
  BY Zenon, <1>1 DEF FrameInv, LinesSorted, line, taken
<1>6. ASSUME NEW c \in Clients PROVE Below(line(c), emitted' + 1)
  BY <1>1, <1>5, BelowMore
<1>7. ASSUME NEW c \in Clients, NEW i \in DOMAIN emitq', emitq'[i].frame # Notice
      PROVE  Below(line(c), emitq'[i].frame)
  <2>1. CASE i \in 1..n
    BY SMTT(30), <1>1, <1>2, <1>5, <1>7, <2>1
  <2>2. CASE i \notin 1..n
    <3>1. emitq'[i] = j
      BY SMTT(30), <1>1, <1>2, <1>7, <2>2
    <3> QED BY Zenon, <1>5, <1>7, <3>1
  <2> QED BY Zenon, <2>1, <2>2
<1>8. LinesSorted'
  <2> SUFFICES ASSUME NEW c \in Clients
               PROVE  /\ Sorted(line(c)') /\ Below(line(c)', emitted' + 1)
                      /\ \A i \in DOMAIN emitq' : emitq'[i].frame # Notice => Below(line(c)', emitq'[i].frame)
    BY Zenon DEF LinesSorted, Sorted, Below, Notice
  <2> QED BY Zenon, <1>5, <1>6, <1>7
<1>9. Complete'
  BY Zenon, <1>5 DEF FrameInv, Complete
<1> QED BY Zenon, <1>4, <1>8, <1>9

\* The hub gives the oldest job to its targets.
LEMMA JobEmitted == FrameInv /\ HubEmits => JobsSorted' /\ LinesSorted' /\ Complete'
<1> SUFFICES ASSUME FrameInv, HubEmits PROVE JobsSorted' /\ LinesSorted' /\ Complete'
  BY Zenon
<1> DEFINE f == Head(emitq).frame
           hit(c) == c \in targets(Head(emitq)) /\ takes(c)
           n == Len(emitq)
<1>1. emitq \in Seq(Jobs) /\ emitq # <<>> /\ emitq' = Tail(emitq) /\ \A j \in Jobs : j.frame \in Nat /\ j.frame \in Frames
  BY Zenon, LineTypes DEF HubEmits, Jobs
<1>2. /\ n \in Nat \ {0} /\ DOMAIN emitq = 1..n /\ f = emitq[1].frame /\ f \in Frames /\ f \in Nat
      /\ DOMAIN emitq' = 1..n - 1 /\ \A i \in 1..n - 1 : emitq'[i] = emitq[i + 1]
      /\ \A i \in 1..n : emitq[i].frame \in Nat
  BY <1>1
<1>3. UNCHANGED <<emitted, got, lost, down>>
  BY Zenon DEF HubEmits
<1>4. /\ sendq' = [c \in Clients |-> IF hit(c) THEN Append(sendq[c], f) ELSE sendq[c]]
      /\ owed' = [c \in Clients |-> IF c \in targets(Head(emitq)) THEN owed[c] \cup {f} ELSE owed[c]]
      /\ slow' = slow \cup {c \in targets(Head(emitq)) : ~takes(c)}
  BY Zenon DEF HubEmits, emitToTargets
<1> HIDE DEF f, hit, n
<1>5. /\ \A i, k \in 1..n :
           i < k /\ emitq[i].frame # Notice /\ emitq[k].frame # Notice => emitq[i].frame < emitq[k].frame
      /\ \A i \in 1..n : emitq[i].frame # Notice => emitq[i].frame <= emitted
  BY Zenon, <1>2 DEF FrameInv, JobsSorted
<1>6. \A i \in 1..n - 1 : i + 1 \in 1..n /\ 1 < i + 1 /\ 1 \in 1..n
  BY <1>2
<1>7. JobsSorted'
  <2>1. \A i, k \in 1..n - 1 :
          i < k /\ emitq'[i].frame # Notice /\ emitq'[k].frame # Notice => emitq'[i].frame < emitq'[k].frame
    <3> SUFFICES ASSUME NEW i \in 1..n - 1, NEW k \in 1..n - 1, i < k,
                        emitq'[i].frame # Notice, emitq'[k].frame # Notice
                 PROVE  emitq'[i].frame < emitq'[k].frame
      BY Zenon
    <3>1. emitq'[i] = emitq[i + 1] /\ emitq'[k] = emitq[k + 1]
      BY Zenon, <1>2
    <3>2. i + 1 \in 1..n /\ k + 1 \in 1..n /\ i + 1 < k + 1
      BY <1>6
    <3> QED BY Zenon, <1>5, <3>1, <3>2
  <2>2. \A i \in 1..n - 1 : emitq'[i].frame # Notice => emitq'[i].frame <= emitted
    BY Zenon, <1>2, <1>5, <1>6
  <2> QED BY ZenonT(30), <1>2, <1>3, <2>1, <2>2 DEF JobsSorted, Notice
<1>8. ASSUME NEW c \in Clients
      PROVE  /\ line(c) \in Seq(Frames) /\ Sorted(line(c)) /\ Below(line(c), emitted + 1)
             /\ \A i \in 1..n : emitq[i].frame # Notice => Below(line(c), emitq[i].frame)
             /\ line(c)' = IF hit(c) THEN Append(line(c), f) ELSE line(c)
  <2>1. sendq[c] \in Seq(Frames) /\ taken(c) \in Seq(Frames)
    BY Zenon, LineTypes
  <2>2. taken(c)' = taken(c) /\ sendq'[c] = IF hit(c) THEN Append(sendq[c], f) ELSE sendq[c]
    BY Zenon, <1>3, <1>4 DEF taken
  <2>3. line(c)' = IF hit(c) THEN Append(line(c), f) ELSE line(c)
    <3>1. line(c)' = taken(c)' \o sendq'[c] /\ line(c) = taken(c) \o sendq[c]
      BY Zenon DEF line
    <3>2. taken(c) \o Append(sendq[c], f) = Append(taken(c) \o sendq[c], f)
      <4>1. f \in Frames
        BY Zenon, <1>2
      <4>2. \A g, q \in Seq(Frames), e \in Frames : g \o Append(q, e) = Append(g \o q, e)
        BY LineQueued
      <4> QED BY <2>1, <4>1, <4>2, ZenonT(30)
    <3> QED BY <2>2, <3>1, <3>2, Zenon
  <2> QED BY Zenon, <1>2, <2>3, LineTypes DEF FrameInv, LinesSorted
<1>9. emitted \in Nat /\ MaxEmits \in Nat
  BY Zenon, LineTypes, ServerConstants
<1>10. ASSUME NEW c \in Clients, hit(c)
       PROVE  /\ Sorted(line(c)') /\ Range(line(c)') = Range(line(c)) \cup {f} /\ Below(line(c)', emitted + 1)
              /\ \A i \in 1..n - 1 : emitq'[i].frame # Notice => Below(line(c)', emitq'[i].frame)
  <2>1. f # Notice => Below(line(c), f) /\ f < emitted + 1
    <3>1. 1 \in 1..n /\ f = emitq[1].frame /\ f \in Nat
      BY <1>2
    <3>2. f # Notice => f <= emitted
      BY Zenon, <1>5, <3>1
    <3>3. f # Notice => Below(line(c), f)
      BY <1>8, <3>1, Zenon
    <3> QED BY <1>9, <3>1, <3>2, <3>3
  <2>2. line(c)' = Append(line(c), f)
    BY Zenon, <1>8, <1>10
  <2>3. /\ Sorted(line(c)') /\ Range(line(c)') = Range(line(c)) \cup {f}
        /\ \A m \in Nat : Below(line(c), m) /\ (f # Notice => f < m) => Below(line(c)', m)
    BY SMTT(30), <1>2, <1>8, <1>9, <2>1, <2>2, LineGrows
  <2>4. Below(line(c)', emitted + 1)
    BY SMTT(30), <1>8, <1>9, <2>1, <2>3
  <2>5. ASSUME NEW i \in 1..n - 1, emitq'[i].frame # Notice PROVE Below(line(c)', emitq'[i].frame)
    <3>1. emitq'[i] = emitq[i + 1] /\ emitq[i + 1].frame \in Nat /\ (f # Notice => f < emitq[i + 1].frame)
      BY SMTT(30), <1>2, <1>5, <1>6, <2>5
    <3> QED BY SMTT(30), <1>6, <1>8, <2>3, <2>5, <3>1
  <2> QED BY Zenon, <2>3, <2>4, <2>5
<1>11. LinesSorted'
  <2> SUFFICES ASSUME NEW c \in Clients
               PROVE  /\ Sorted(line(c)') /\ Below(line(c)', emitted' + 1)
                      /\ \A i \in DOMAIN emitq' : emitq'[i].frame # Notice => Below(line(c)', emitq'[i].frame)
    BY Zenon DEF LinesSorted, Sorted, Below, Notice
  <2>1. CASE hit(c)
    BY Zenon, <1>2, <1>3, <1>10, <2>1
  <2>2. CASE ~hit(c)
    BY SMTT(30), <1>2, <1>3, <1>6, <1>8, <2>2
  <2> QED BY Zenon, <2>1, <2>2
<1>12. Complete'
  <2> SUFFICES ASSUME NEW c \in Clients, c \notin down' \cup slow' PROVE owed'[c] \subseteq Range(line(c)')
    BY Zenon DEF Complete
  <2>1. owed[c] \subseteq Range(line(c))
    BY Zenon, <1>3, <1>4 DEF FrameInv, Complete
  <2>2. c \in targets(Head(emitq)) => hit(c)
    BY Zenon, <1>4 DEF hit
  <2>3. CASE hit(c)
    BY SMTT(30), <1>4, <1>10, <2>1, <2>3
  <2>4. CASE ~hit(c)
    BY SMTT(30), <1>4, <1>8, <2>1, <2>2, <2>4
  <2> QED BY Zenon, <2>3, <2>4
<1> QED BY Zenon, <1>7, <1>11, <1>12

\* A frame that is lost ends WritePump, and WritePump takes no other after it.
LEMMA LastWriteStep == FrameInv /\ [Next]_vars => LastWrite'
<1> SUFFICES ASSUME FrameInv, [Next]_vars PROVE LastWrite'
  BY Zenon
<1>1. CASE UNCHANGED <<lost, halted>>
  BY Zenon, <1>1 DEF FrameInv, LastWrite
<1>2. ASSUME NEW c \in Clients, WriteFails(c) PROVE LastWrite'
  <2>1. /\ lost' = [lost EXCEPT ![c] = <<Head(sendq[c])>>] /\ halted' = halted \cup {c}
        /\ lost \in [Clients -> Seq(1..Notice)]
    BY Zenon, <1>2 DEF WriteFails, FrameInv, TypeOK
  <2>2. Len(<<Head(sendq[c])>>) = 1
    OBVIOUS
  <2>3. ASSUME NEW d \in Clients, lost'[d] # <<>> PROVE Len(lost'[d]) = 1 /\ d \in halted'
    BY Zenon, <2>1, <2>2, <2>3 DEF FrameInv, LastWrite
  <2> QED BY Zenon, <2>3 DEF LastWrite
<1>3. ASSUME NEW c \in Clients, PingFails(c) PROVE LastWrite'
  BY Zenon, <1>3 DEF PingFails, FrameInv, LastWrite
<1>4. ASSUME NEW c \in Clients, \/ Admit(c) \/ Connection(c) \/ JoinRoom(c) \/ LeaveRoom(c)
                                \/ Shutdown(c) \/ ReadEnds(c) \/ DrainOne(c) \/ WriteFrame(c)
      PROVE LastWrite'
  BY Zenon, <1>1, <1>4 DEF Admit, Connection, Accept, Register, Reject, Connect, Serve, OnConnectPanics, MiddlewarePanics,
       DisconnectReturns, Unregister, Finish, JoinRoom, LeaveRoom, Shutdown, ReadEnds, DrainOne, WriteFrame, out
<1>5. CASE \/ (\E x \in Clients \cup {Nobody} : EmitRoom(x)) \/ HubEmits \/ HubDrains \/ HubCloses
           \/ ShutdownServer \/ ShutdownWithMessage \/ EmitNotice \/ CancelHub \/ ShutdownReturns
           \/ UNCHANGED vars
  BY Zenon, <1>1, <1>5 DEF EmitRoom, HubEmits, HubDrains, HubCloses, ShutdownServer, ShutdownWithMessage, EmitNotice,
       CancelHub, ShutdownReturns, vars, out
<1> QED BY Zenon, <1>2, <1>3, <1>4, <1>5 DEF Next

\* Every step keeps the lines sorted and complete.
LEMMA FrameStep == FrameInv /\ [Next]_vars => FrameInv'
<1> SUFFICES ASSUME FrameInv, [Next]_vars PROVE JobsSorted' /\ LinesSorted' /\ Complete'
  BY Zenon, TypeStep, LastWriteStep DEF FrameInv
<1>8. ASSUME \A c \in Clients : line(c)' = line(c), UNCHANGED <<emitq, owed, emitted>>,
             down \cup slow \subseteq down' \cup slow'
      PROVE  JobsSorted' /\ LinesSorted' /\ Complete'
  <2>1. JobsSorted'
    BY Zenon, <1>8 DEF FrameInv, JobsSorted, Notice
  <2>2. LinesSorted'
    BY Zenon, <1>8 DEF FrameInv, LinesSorted, Sorted, Below, Notice
  <2>3. Complete'
    BY Zenon, <1>8 DEF FrameInv, Complete
  <2> QED BY Zenon, <2>1, <2>2, <2>3
<1>1. CASE UNCHANGED <<emitq, sendq, got, lost, owed, emitted>> /\ down \cup slow \subseteq down' \cup slow'
  <2>1. \A c \in Clients : line(c)' = line(c)
    BY Zenon, <1>1 DEF line, taken
  <2> QED BY Zenon, <1>1, <1>8, <2>1
<1>2. ASSUME NEW c \in Clients, WriteFrame(c) \/ WriteFails(c) PROVE JobsSorted' /\ LinesSorted' /\ Complete'
  <2>1. ASSUME NEW d \in Clients PROVE line(d)' = line(d)
    <3>1. got[d] \in Seq(Frames) /\ sendq[d] \in Seq(Frames)
      BY Zenon DEF FrameInv, TypeOK, Frames
    <3>2. CASE d = c
      <4>1. sendq'[d] = Tail(sendq[d]) /\ sendq[d] # <<>> /\ lost[d] = <<>>
        BY Zenon, <1>2, <3>2 DEF WriteFrame, WriteFails, writes, FrameInv, TypeOK, LastWrite
      <4>2. \/ got'[d] = Append(got[d], Head(sendq[d])) /\ lost'[d] = <<>>
            \/ got'[d] = got[d] /\ lost'[d] = <<Head(sendq[d])>>
        BY Zenon, <1>2, <3>2, <4>1 DEF WriteFrame, WriteFails, FrameInv, TypeOK
      <4> QED BY Zenon, <3>1, <4>1, <4>2, LineWritten DEF line, taken
    <3>3. CASE d # c
      BY Zenon, <1>2, <3>3 DEF WriteFrame, WriteFails, FrameInv, TypeOK, line, taken
    <3> QED BY Zenon, <3>2, <3>3
  <2>2. UNCHANGED <<emitq, owed, emitted, down, slow>>
    BY Zenon, <1>2 DEF WriteFrame, WriteFails, loop
  <2> QED BY Zenon, <1>8, <2>1, <2>2
<1>3. ASSUME NEW x \in Clients \cup {Nobody}, EmitRoom(x) PROVE JobsSorted' /\ LinesSorted' /\ Complete'
  <2> DEFINE job == [frame |-> emitted + 1, exclude |-> x]
  <2>1. job \in Jobs /\ job.frame = emitted + 1 /\ emitted \in Nat /\ emitted' = emitted + 1
    BY <1>3, ServerConstants DEF EmitRoom, Jobs, Frames, Notice, FrameInv, TypeOK
  <2>2. enqueueJob(job) /\ UNCHANGED <<sendq, got, lost, owed, down, slow>>
    BY Zenon, <1>3 DEF EmitRoom
  <2> HIDE DEF job
  <2> QED BY <2>1, <2>2, JobQueued
<1>4. CASE EmitNotice
  <2> DEFINE job == [frame |-> Notice, exclude |-> Nobody]
  <2>1. job \in Jobs /\ job.frame = Notice /\ emitted \in Nat
    BY ServerConstants DEF Jobs, Frames, Notice, FrameInv, TypeOK
  <2>2. enqueueJob(job) /\ UNCHANGED <<sendq, got, lost, owed, down, slow, emitted>>
    BY Zenon, <1>4 DEF EmitNotice, out
  <2> HIDE DEF job
  <2> QED BY <2>1, <2>2, JobQueued
<1>5. CASE HubEmits
  BY SMTT(30), <1>5, JobEmitted
<1>6. ASSUME NEW c \in Clients, \/ Admit(c) \/ Connection(c) \/ JoinRoom(c) \/ LeaveRoom(c)
                                \/ Shutdown(c) \/ ReadEnds(c) \/ DrainOne(c) \/ PingFails(c)
      PROVE JobsSorted' /\ LinesSorted' /\ Complete'
  BY Zenon, <1>1, <1>6 DEF Admit, Connection, Accept, Register, Reject, Connect, Serve, OnConnectPanics, MiddlewarePanics, DisconnectReturns, Unregister,
       Finish, JoinRoom, LeaveRoom, Shutdown, ReadEnds, DrainOne, PingFails, loop, out
<1>7. CASE \/ HubDrains \/ HubCloses \/ ShutdownServer \/ ShutdownWithMessage \/ CancelHub \/ ShutdownReturns
           \/ UNCHANGED vars
  BY Zenon, <1>1, <1>7 DEF HubDrains, HubCloses, ShutdownServer, ShutdownWithMessage, CancelHub, ShutdownReturns,
       vars, loop, out
<1> QED BY SMTT(30), <1>2, <1>3, <1>4, <1>5, <1>6, <1>7 DEF Next

\* For every number of clients and every capacity of the queues: a client sees the
\* frames in the order they were emitted, none twice, and unless it is closed or
\* being shut down as a slow consumer, all of those addressed to it are written or
\* queued, but for one whose failed write ended WritePump.
THEOREM FramesAreComplete == Spec => []FramesComplete
<1>1. Init => FrameInv
  <2> SUFFICES ASSUME Init PROVE FrameInv
    BY Zenon
  <2>1. TypeOK
    BY Zenon, TypeInit
  <2>2. emitq = <<>> /\ \A c \in Clients : line(c) = <<>> /\ owed[c] = {} /\ lost[c] = <<>>
    BY DEF Init, line, taken
  <2> QED BY <2>1, <2>2 DEF FrameInv, JobsSorted, LinesSorted, Complete, LastWrite, Sorted, Below
<1>2. FrameInv => FramesComplete
  BY Zenon DEF FrameInv, LinesSorted, Complete, LastWrite, Sorted, FramesComplete, line, taken
<1> QED BY SMTT(30), <1>1, <1>2, FrameStep, PTL DEF Spec
=============================================================================
