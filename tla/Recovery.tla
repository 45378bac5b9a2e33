------------------------------ MODULE Recovery ------------------------------
(***************************************************************************)
(* The SessionStore (internal/session.go) with the hub's membership maps   *)
(* (internal/hub.go) and the goroutines that drive both: serveTransport    *)
(* and openSession (server.go, recovery.go) and ReadPump's exit            *)
(* (internal/client.go) for every connection, and the store's sweeper.     *)
(*                                                                         *)
(* A critical section of SessionStore.mu is one step, and so is one        *)
(* operation of the hub goroutine (its channels are unbuffered); between   *)
(* them every goroutine interleaves with every other.  What a session      *)
(* buffers is in Session; whether a resume is refused for its seq is a     *)
(* free choice here.                                                       *)
(***************************************************************************)
EXTENDS Integers, Sequences, Functions

CONSTANTS
  Clients,    \* connections, each served once
  Sessions,   \* session ids newSessionID may return
  Rooms,      \* room names
  Nil,        \* a nil pointer
  Sweeper,    \* the goroutine of SessionStore.Run
  MaxParked,  \* SessionOptions.MaxParked
  TTL,        \* SessionOptions.TTL, in ticks
  MaxLag      \* bound: ticks between reading the clock and using the value

ASSUME RecoveryConstants ==
  /\ Nil \notin Clients \cup Sessions
  /\ Sweeper \notin Clients
  /\ MaxParked \in Nat \ {0} /\ TTL \in Nat /\ MaxLag \in Nat

Threads == Clients \cup {Sweeper}

VARIABLES
  state,      \* Session.state; "unused": not created yet
  live,       \* Session.live
  member,     \* Session.member
  age,        \* ticks since Session.parked
  parked,     \* SessionStore.parked, front first
  clients,    \* Hub.clients
  rooms,      \* Hub.rooms
  pc,         \* where the goroutine is
  bound,      \* Client.session
  prev,       \* OpenResult.Prev, not yet transferred
  displaced,  \* OpenResult.Displaced, not yet shut down
  dead,       \* closeRaw was done
  noResume,   \* Client.noResume
  hidden,     \* Client.parked
  resumable,  \* ReadPump's copy of !noResume (FALSE once Leave has used it)
  lag,        \* ticks since the goroutine read the clock (0 once the value is used)
  release,    \* discarded sessions the goroutine still has to release
  expires,    \* OnSessionExpire calls made for a session (history)
  joined,     \* the rooms the session's peer is in (history)
  stray       \* connections put into a room while not in Hub.clients (history)

store   == <<state, live, member, age, parked>>
hub     == <<clients, rooms>>
conn    == <<bound, prev, displaced, dead, noResume, hidden, resumable>>
history == <<expires, joined, stray>>
vars    == <<store, hub, pc, conn, lag, release, history>>

MaxAge == TTL + 1 + MaxLag

Init ==
  /\ state = [s \in Sessions |-> "unused"]
  /\ live = [s \in Sessions |-> Nil] /\ member = [s \in Sessions |-> Nil]
  /\ age = [s \in Sessions |-> 0] /\ parked = << >>
  /\ clients = {} /\ rooms = [r \in Rooms |-> {}]
  /\ pc = [t \in Threads |-> IF t = Sweeper THEN "idle" ELSE "new"]
  /\ bound = [c \in Clients |-> Nil]
  /\ prev = [c \in Clients |-> Nil] /\ displaced = [c \in Clients |-> Nil]
  /\ dead = [c \in Clients |-> FALSE] /\ noResume = [c \in Clients |-> FALSE]
  /\ hidden = [c \in Clients |-> FALSE] /\ resumable = [c \in Clients |-> FALSE]
  /\ lag = [t \in Threads |-> 0]
  /\ release = [t \in Threads |-> << >>]
  /\ expires = [s \in Sessions |-> 0] /\ joined = [s \in Sessions |-> {}]
  /\ stray = {}

goto(t, where) == pc' = [pc EXCEPT ![t] = where]

(* ... and is done with the clock value it has read. *)
gotoLate(t, where) == goto(t, where) /\ lag' = [lag EXCEPT ![t] = 0]
-----------------------------------------------------------------------------
(* The hub goroutine.                                                      *)

removeClientMaps(c) ==
  /\ clients' = clients \ {c}
  /\ rooms' = [r \in Rooms |-> rooms[r] \ {c}]

moved(members, from, to) ==
  IF from \in members THEN (members \ {from}) \cup {to} ELSE members

(* Mutants of Transfer: the resumed client does not inherit the rooms; the *)
(* old client stays in Hub.clients.                                        *)
transferDropsRooms(from, to) ==
  /\ clients' = clients \ {from}
  /\ rooms' = [r \in Rooms |-> rooms[r] \ {from}]

transferKeepsClient(from, to) ==
  /\ rooms' = [r \in Rooms |-> moved(rooms[r], from, to)]
  /\ UNCHANGED clients

transferMembership(from, to) ==
  /\ clients' = clients \ {from}
  /\ rooms' = [r \in Rooms |-> moved(rooms[r], from, to)]

(* Code of the application runs with a Context of c: connect middleware,   *)
(* before a session is bound; OnConnect callbacks and the handlers ReadPump *)
(* calls; disconnect middleware and OnDisconnect callbacks, after retire.  *)
inHandler(c) == pc[c] \in {"registered", "connect", "reading", "disconnect"}

(* joinRoom does not ask whether the client is registered. *)
JoinRoom(c, r) ==
  /\ inHandler(c) /\ c \notin rooms[r]
  /\ rooms' = [rooms EXCEPT ![r] = @ \cup {c}]
  /\ stray' = stray \cup ({c} \ clients)
  /\ joined' = [s \in Sessions |-> IF s = bound[c] THEN joined[s] \cup {r} ELSE joined[s]]
  /\ UNCHANGED <<store, clients, pc, conn, lag, release, expires>>

LeaveRoom(c, r) ==
  /\ inHandler(c) /\ c \in rooms[r]
  /\ rooms' = [rooms EXCEPT ![r] = @ \ {c}]
  /\ joined' = [s \in Sessions |-> IF s = bound[c] THEN joined[s] \ {r} ELSE joined[s]]
  /\ UNCHANGED <<store, clients, pc, conn, lag, release, expires, stray>>

roomsOf(c) == {r \in Rooms : c \in rooms[r]}
-----------------------------------------------------------------------------
(* serveTransport, up to the session.                                      *)

Register(c) ==
  /\ pc[c] = "new"
  /\ clients' = clients \cup {c}
  /\ goto(c, "registered")
  /\ UNCHANGED <<store, rooms, conn, lag, release, history>>

(* Connect middleware refuses the connection. *)
Reject(c) ==
  /\ pc[c] = "registered"
  /\ removeClientMaps(c)
  /\ dead' = [dead EXCEPT ![c] = TRUE]
  /\ noResume' = [noResume EXCEPT ![c] = TRUE]
  /\ goto(c, "rejected")
  /\ UNCHANGED <<store, bound, prev, displaced, hidden, resumable, lag, release, history>>

(* Connect middleware panics without Recover, or an OnConnect callback     *)
(* panics, which withRecover does not cover: net/http ends the handler,    *)
(* and ReadPump never starts.                                              *)
ConnectPanics(c) ==
  /\ pc[c] \in {"registered", "connect"}
  /\ goto(c, "panicked")
  /\ UNCHANGED <<store, hub, conn, lag, release, history>>

(* Open reads the clock before it takes the lock. *)
OpenNow(c) ==
  /\ pc[c] = "registered"
  /\ goto(c, "opening")
  /\ UNCHANGED <<store, hub, conn, lag, release, history>>

(* Mutant: the operands of Sub are swapped.                                *)
oldSwapped(s, t) == lag[t] - age[s] > TTL

(* now.Sub(s.parked) > ttl, with the `now` goroutine t has read. *)
old(s, t) == age[s] - lag[t] > TTL

(* The parked list without the element of session s, if it has one:        *)
(* list.Remove in removeLocked and attachLocked.                           *)
unparked(s) ==
  LET i == CHOOSE i \in DOMAIN parked : parked[i] = s
  IN  IF s \in Range(parked) THEN SubSeq(parked, 1, i - 1) \o SubSeq(parked, i + 1, Len(parked))
                             ELSE parked

(* The session a refused resume may kill: none (no resume asked, unknown   *)
(* session, wrong owner, malformed request), or the one asked for, if it   *)
(* expired or its seq is bad or too far behind.                            *)
Victims == {Nil} \cup {s \in Sessions : state[s] \in {"attached", "parked"}}

(* Open of a fresh session s; s = Nil: no entropy, no recovery. *)
OpenFresh(c, s, v) ==
  /\ pc[c] = "opening" /\ (s # Nil => state[s] = "unused")
  /\ state' = [x \in Sessions |-> IF x = v THEN "closed"
                                  ELSE IF x = s THEN "attached" ELSE state[x]]
  /\ age' = [x \in Sessions |-> IF x = v THEN 0 ELSE age[x]]
  /\ parked' = unparked(v)
  /\ release' = [release EXCEPT ![c] = IF v = Nil THEN << >> ELSE <<v>>]
  /\ live' = [x \in Sessions |-> IF x = s THEN c ELSE live[x]]
  /\ member' = [x \in Sessions |-> IF x = s THEN c ELSE member[x]]
  /\ bound' = [bound EXCEPT ![c] = s]
  /\ joined' = [x \in Sessions |-> IF x = s THEN roomsOf(c) ELSE joined[x]]
  /\ gotoLate(c, "opened")
  /\ UNCHANGED <<hub, prev, displaced, dead, noResume, hidden, resumable, expires, stray>>

(* Mutant: a resumed session stays in the parked list.                     *)
attachStaysParked(s, c) ==
  /\ prev' = [prev EXCEPT ![c] = member[s]]
  /\ displaced' = [displaced EXCEPT ![c] = live[s]]
  /\ live' = [live EXCEPT ![s] = c] /\ member' = [member EXCEPT ![s] = c]
  /\ state' = [state EXCEPT ![s] = "attached"]
  /\ age' = [age EXCEPT ![s] = 0]
  /\ bound' = [bound EXCEPT ![c] = s]
  /\ UNCHANGED parked

(* Mutant: the older connection is not reported as displaced.              *)
attachForgetsDisplaced(s, c) ==
  /\ prev' = [prev EXCEPT ![c] = member[s]]
  /\ live' = [live EXCEPT ![s] = c] /\ member' = [member EXCEPT ![s] = c]
  /\ state' = [state EXCEPT ![s] = "attached"]
  /\ age' = [age EXCEPT ![s] = 0]
  /\ parked' = unparked(s)
  /\ bound' = [bound EXCEPT ![c] = s]
  /\ UNCHANGED displaced

attachLocked(s, c) ==
  /\ prev' = [prev EXCEPT ![c] = member[s]]
  /\ displaced' = [displaced EXCEPT ![c] = live[s]]
  /\ live' = [live EXCEPT ![s] = c] /\ member' = [member EXCEPT ![s] = c]
  /\ state' = [state EXCEPT ![s] = "attached"]
  /\ age' = [age EXCEPT ![s] = 0]
  /\ parked' = unparked(s)
  /\ bound' = [bound EXCEPT ![c] = s]

(* Mutant: a closed session the store still finds is resumed.              *)
OpenResumeClosed(c, s) ==
  /\ pc[c] = "opening"
  /\ state[s] # "unused" /\ ~(state[s] = "parked" /\ old(s, c))
  /\ attachLocked(s, c)
  /\ joined' = [joined EXCEPT ![s] = @ \cup roomsOf(c)]
  /\ gotoLate(c, "opened")
  /\ UNCHANGED <<hub, dead, noResume, hidden, resumable, release, expires, stray>>

OpenResume(c, s) ==
  /\ pc[c] = "opening"
  /\ state[s] \in {"attached", "parked"} /\ ~(state[s] = "parked" /\ old(s, c))
  /\ attachLocked(s, c)
  /\ joined' = [joined EXCEPT ![s] = @ \cup roomsOf(c)]
  /\ gotoLate(c, "opened")
  /\ UNCHANGED <<hub, dead, noResume, hidden, resumable, release, expires, stray>>

(* releaseOne, releaseSession: drop the hub membership of the next         *)
(* discarded session and, unless a fresh one replaced it, tell the app.    *)
Release(t) ==
  /\ release[t] # << >>
  /\ LET v == Head(release[t])
     IN  /\ removeClientMaps(member[v])
         /\ expires' = [expires EXCEPT ![v] = IF pc[t] = "opened" THEN @ ELSE @ + 1]
  /\ release' = [release EXCEPT ![t] = Tail(@)]
  /\ UNCHANGED <<store, pc, conn, lag, joined, stray>>

(* openSession, after Open: Transfer, then the displaced connection.  Two  *)
(* resumes of a session may reach the hub in either order.                 *)
Transfer(c) ==
  /\ pc[c] = "opened" /\ release[c] = << >>
  /\ IF prev[c] \in {Nil, c} THEN UNCHANGED <<hub, stray>>
     ELSE /\ transferMembership(prev[c], c)
          /\ stray' = IF roomsOf(prev[c]) = {} THEN stray ELSE stray \cup ({c} \ clients)
  /\ prev' = [prev EXCEPT ![c] = Nil]
  /\ goto(c, "transferred")
  /\ UNCHANGED <<store, bound, displaced, dead, noResume, hidden, resumable, lag, release, expires, joined>>

(* ... which is shut down, resumable; then OnConnect runs. *)
Displace(c) ==
  /\ pc[c] = "transferred"
  /\ dead' = [x \in Clients |-> dead[x] \/ x = displaced[c]]
  /\ displaced' = [displaced EXCEPT ![c] = Nil]
  /\ goto(c, "connect")
  /\ UNCHANGED <<store, hub, bound, prev, noResume, hidden, resumable, lag, release, history>>

StartReadPump(c) ==
  /\ pc[c] = "connect"
  /\ goto(c, "reading")
  /\ UNCHANGED <<store, hub, conn, lag, release, history>>

(* ctx.Disconnect, from a handler of c or from any other goroutine. *)
Disconnect(c) ==
  /\ pc[c] \in {"connect", "reading", "leaving"} /\ ~noResume[c]
  /\ noResume' = [noResume EXCEPT ![c] = TRUE]
  /\ dead' = [dead EXCEPT ![c] = TRUE]
  /\ UNCHANGED <<store, hub, pc, bound, prev, displaced, hidden, resumable, lag, release, history>>
-----------------------------------------------------------------------------
(* ReadPump's exit: retire, Leave, Unregister, closeRaw, onDone.           *)

(* Transport.Read fails: retire reads noResume, Leave reads the clock.     *)
ReadEnds(c) ==
  /\ pc[c] = "reading"
  /\ resumable' = [resumable EXCEPT ![c] = ~noResume[c]]
  /\ goto(c, IF bound[c] = Nil THEN "gone" ELSE "leaving")
  /\ UNCHANGED <<store, hub, bound, prev, displaced, dead, noResume, hidden, lag, release, history>>

(* Leave returns: what ReadPump passed to it is used up. *)
leaveTo(c, where) == gotoLate(c, where) /\ resumable' = [resumable EXCEPT ![c] = FALSE]

LeaveGone(c) ==
  LET s == bound[c]
  IN  /\ pc[c] = "leaving"
      /\ \/ state[s] = "closed" /\ UNCHANGED store
         \/ /\ state[s] # "closed" /\ live[s] = c /\ ~resumable[c]
            /\ state' = [state EXCEPT ![s] = "closed"]
            /\ live' = [live EXCEPT ![s] = Nil]
            /\ parked' = unparked(s)
            /\ UNCHANGED <<member, age>>
      /\ leaveTo(c, "gone")
      /\ UNCHANGED <<hub, bound, prev, displaced, dead, noResume, hidden, release, history>>

(* Mutant: Leave forgets to ask whether the client still is the live one.  *)
LeaveDisplacedAnyway(c) ==
  /\ pc[c] = "leaving" /\ state[bound[c]] # "closed"
  /\ leaveTo(c, "retired")
  /\ UNCHANGED <<store, hub, bound, prev, displaced, dead, noResume, hidden, release, history>>

LeaveDisplaced(c) ==
  /\ pc[c] = "leaving" /\ state[bound[c]] # "closed" /\ live[bound[c]] # c
  /\ leaveTo(c, "retired")
  /\ UNCHANGED <<store, hub, bound, prev, displaced, dead, noResume, hidden, release, history>>

(* Mutant: the newest parked session goes to the front.                    *)
LeaveParksFirst(c) ==
  LET s == bound[c]
      q == <<s>> \o parked
      evicted == SubSeq(q, 1, Len(q) - MaxParked)
  IN  /\ pc[c] = "leaving" /\ state[s] # "closed" /\ live[s] = c /\ resumable[c]
      /\ state' = [x \in Sessions |-> IF x \in Range(evicted) THEN "closed"
                                      ELSE IF x = s THEN "parked" ELSE state[x]]
      /\ live' = [live EXCEPT ![s] = Nil]
      /\ age' = [x \in Sessions |-> IF x \in Range(evicted) THEN 0
                                    ELSE IF x = s THEN lag[c] ELSE age[x]]
      /\ parked' = SubSeq(q, Len(evicted) + 1, Len(q))
      /\ hidden' = [hidden EXCEPT ![c] = TRUE]
      /\ release' = [release EXCEPT ![c] = evicted]
      /\ leaveTo(c, "retired")
      /\ UNCHANGED <<member, hub, bound, prev, displaced, dead, noResume, history>>

LeaveParked(c) ==
  LET s == bound[c]
      q == Append(parked, s)
      evicted == SubSeq(q, 1, Len(q) - MaxParked)
  IN  /\ pc[c] = "leaving" /\ state[s] # "closed" /\ live[s] = c /\ resumable[c]
      /\ state' = [x \in Sessions |-> IF x \in Range(evicted) THEN "closed"
                                      ELSE IF x = s THEN "parked" ELSE state[x]]
      /\ live' = [live EXCEPT ![s] = Nil]
      /\ age' = [x \in Sessions |-> IF x \in Range(evicted) THEN 0
                                    ELSE IF x = s THEN lag[c] ELSE age[x]]
      /\ parked' = SubSeq(q, Len(evicted) + 1, Len(q))
      /\ hidden' = [hidden EXCEPT ![c] = TRUE]
      /\ release' = [release EXCEPT ![c] = evicted]
      /\ leaveTo(c, "retired")
      /\ UNCHANGED <<member, hub, bound, prev, displaced, dead, noResume, history>>

(* The session is gone (or there was none): leave the hub.                 *)
Unregister(c) ==
  /\ pc[c] = "gone"
  /\ removeClientMaps(c)
  /\ goto(c, "retired")
  /\ UNCHANGED <<store, conn, lag, release, history>>

(* closeRaw and onDone, which ends with the disconnect callbacks: from now *)
(* on they may use the hub, or not.                                        *)
Finish(c) ==
  /\ pc[c] = "retired" /\ release[c] = << >>
  /\ dead' = [dead EXCEPT ![c] = TRUE]
  /\ goto(c, "disconnect")
  /\ UNCHANGED <<store, hub, bound, prev, displaced, noResume, hidden, resumable, lag, release, history>>
-----------------------------------------------------------------------------
(* The sweeper, and time.                                                  *)

SweepNow ==
  /\ pc[Sweeper] = "idle" /\ release[Sweeper] = << >>
  /\ goto(Sweeper, "sweep")
  /\ UNCHANGED <<store, hub, conn, lag, release, history>>

(* Sweep discards from the front of the list until one is young enough.    *)
Sweep ==
  /\ pc[Sweeper] = "sweep"
  /\ \E n \in 0..Len(parked) :
       LET gone == SubSeq(parked, 1, n)
       IN  /\ \A i \in 1..n : old(parked[i], Sweeper)
           /\ n < Len(parked) => ~old(parked[n + 1], Sweeper)
           /\ state' = [s \in Sessions |-> IF s \in Range(gone) THEN "closed" ELSE state[s]]
           /\ age' = [s \in Sessions |-> IF s \in Range(gone) THEN 0 ELSE age[s]]
           /\ parked' = SubSeq(parked, n + 1, Len(parked))
           /\ release' = [release EXCEPT ![Sweeper] = gone]
  /\ gotoLate(Sweeper, "idle")
  /\ UNCHANGED <<live, member, hub, conn, history>>

clockHeld(t) == pc[t] \in {"opening", "leaving", "sweep"}

Tick ==
  /\ \A t \in Threads : clockHeld(t) => lag[t] < MaxLag
  /\ lag' = [t \in Threads |-> IF clockHeld(t) THEN lag[t] + 1 ELSE lag[t]]
  /\ age' = [s \in Sessions |-> IF state[s] = "parked" /\ age[s] < MaxAge
                                THEN age[s] + 1 ELSE age[s]]
  /\ UNCHANGED <<state, live, member, parked, hub, pc, conn, release, history>>
-----------------------------------------------------------------------------
Serve(c) ==
  \/ OpenNow(c)
  \/ \E s \in Sessions \cup {Nil}, v \in Victims : OpenFresh(c, s, v)
  \/ \E s \in Sessions : OpenResume(c, s)
  \/ Release(c) \/ Transfer(c) \/ Displace(c) \/ StartReadPump(c) \/ ConnectPanics(c)
  \/ LeaveGone(c) \/ LeaveDisplaced(c) \/ LeaveParked(c) \/ Unregister(c) \/ Finish(c)

Next ==
  \/ \E c \in Clients : Register(c) \/ Reject(c) \/ Serve(c) \/ ReadEnds(c) \/ Disconnect(c)
                          \/ \E r \in Rooms : JoinRoom(c, r) \/ LeaveRoom(c, r)
  \/ SweepNow \/ Sweep \/ Release(Sweeper) \/ Tick

Spec == Init /\ [][Next]_vars

(* Goroutines and the clock make progress; a ReadPump whose transport was  *)
(* closed gets a read error.  New connections, drops, handlers and         *)
(* Disconnect need not happen.                                             *)
Fairness ==
  /\ \A c \in Clients : WF_vars(Serve(c)) /\ WF_vars(dead[c] /\ ReadEnds(c))
  /\ WF_vars(SweepNow) /\ WF_vars(Sweep) /\ WF_vars(Release(Sweeper)) /\ WF_vars(Tick)

FairSpec == Spec /\ Fairness
-----------------------------------------------------------------------------
Open(s) == state[s] \in {"attached", "parked"}

(* The parked list holds exactly the parked sessions, each once, and never *)
(* more than MaxParked of them: no resume, kill, eviction or sweep leaves  *)
(* a stale element behind.                                                 *)
ParkedExact ==
  /\ Range(parked) = {s \in Sessions : state[s] = "parked"}
  /\ IsInjective(parked)
  /\ Len(parked) <= MaxParked

(* The connection has left the store and closed its transport. *)
over(c) == pc[c] \in {"rejected", "disconnect"}

(* The hub follows the sessions, whatever resumes, releases and transfers  *)
(* are under way.  The member of an open session is registered, so emits   *)
(* have a client to go through.  A dropped session "stays a (hidden) room  *)
(* member until it resumes or expires", and a resumed one is still in the  *)
(* room: a broadcast reaches it.  RoomSize counts "live clients in a room  *)
(* (parked sessions are excluded)": a connection that is over is hidden    *)
(* from it or about to hand its rooms on, unless the room was given to it  *)
(* when the hub no longer had it: by a late JoinRoom, or by a Transfer     *)
(* that a newer one has overtaken.                                         *)
HubFollowsSessions ==
  /\ \A s \in Sessions : Open(s) =>
       /\ member[s] \in clients
       /\ \A r \in joined[s] : \E c \in rooms[r] : bound[c] = s
  /\ \A r \in Rooms : \A c \in rooms[r] :
       over(c) => hidden[c] \/ c \in stray \/ \E d \in Clients : prev[d] = c

(* A connection that is over is in Hub.clients only as the member of an    *)
(* open session, or while its removal is under way: no leak.               *)
NoClientLeak ==
  \A c \in clients : over(c) =>
    \/ \E s \in Sessions : Open(s) /\ member[s] = c
    \/ \E d \in Clients : prev[d] = c
    \/ \E t \in Threads : \E i \in DOMAIN release[t] : member[release[t][i]] = c

(* An attached session has a live client whose ReadPump has still to call  *)
(* Leave, or whose OnConnect callback panicked: nothing else leaves a      *)
(* session attached for ever.                                              *)
AttachedIsServed ==
  \A s \in Sessions : state[s] = "attached" =>
    /\ live[s] # Nil /\ bound[live[s]] = s
    /\ pc[live[s]] \in {"opened", "transferred", "connect", "panicked", "reading", "leaving"}

(* A session whose expiry was reported, or that was discarded in any other *)
(* way, never comes back.                                                  *)
ClosedForGood ==
  [][\A s \in Sessions : state[s] = "closed" \/ expires[s] > 0 => state'[s] = "closed"]_vars

(* "A newer resume of a still-live session closes the old socket."         *)
DisplacedCloses ==
  \A c \in Clients, s \in Sessions :
    (bound[c] = s /\ state[s] = "attached" /\ live[s] # c) ~> dead[c]

(* "Dropped sessions are removed after SessionTTL", even if the list is    *)
(* not in the order of park times.                                         *)
ParkedEnds == \A s \in Sessions : (state[s] = "parked") ~> (state[s] # "parked")

(* SessionStore.parked has the "oldest park time at the front", on which   *)
(* Sweep and eviction rely, up to the time a goroutine spends between      *)
(* reading the clock and taking the lock.                                  *)
OldestFirst ==
  \A i, j \in DOMAIN parked : i < j => age[parked[i]] + MaxLag >= age[parked[j]]
=============================================================================
