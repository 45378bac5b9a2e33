--------------------------- MODULE Polling_proofs ---------------------------
(***************************************************************************)
(* Theorems about Polling for every number of upgrade requests and of GETs *)
(* and every capacity of the channels:                                     *)
(*   OneSocketIsActive, from OneWinner (who may move the transport);       *)
(*   EntryIsRemoved, from HoldsActive (what the goroutines hold);          *)
(*   HandledAreInOrder, from InInv (the messages of the peer);             *)
(*   PollingIsContiguous, from OutInv (the messages of the server).        *)
(* EntryIsRemoved and PollingIsContiguous are about the time before an     *)
(* upgrade; NoUpgradeNoGap is about sessions that never upgrade.           *)
(***************************************************************************)
EXTENDS Polling, TLAPS

Winners == {"swap", "noop", "signal", "done"}
Swapped == {"noop", "signal", "done"}

(* One upgrade request at most gets past applyUpgrade, and the active      *)
(* transport is the socket of the one that was swapped in, or polling.     *)
OneWinner ==
  /\ flags \in [probed : BOOLEAN, upgradeOK : BOOLEAN, upgraded : BOOLEAN]
  /\ upg \in [Upgrades -> Winners \cup {"idle", "open", "refused"}]
  /\ current \in Transports
  /\ \A u \in Upgrades : upg[u] \in Winners => flags.upgraded
  /\ \A u, v \in Upgrades : upg[u] \in Winners /\ upg[v] \in Winners => u = v
  /\ \A u \in Upgrades : upg[u] \in Swapped <=> current = u

(* A reader or a closer that took the polling transport before the swap    *)
(* may still hold it; one that has a socket has the active one.            *)
HoldsActive ==
  /\ reader \in Transports \cup {"attach", "armed", "idle", "ended", "done"}
  /\ closer \in Transports \cup {"idle", "done"}
  /\ closed \in [Transports -> BOOLEAN]
  /\ reader \in Upgrades => current = reader
  /\ closer \in Upgrades => current = closer
  /\ closer = "done" /\ current = Poll => closed[Poll]
  /\ reader = "done" => closer = "done"

(* The polling transport is none of the sockets, and no step is called so. *)
LEMMA TransportsDiffer ==
  /\ Poll \in Transports /\ Poll \notin Upgrades
  /\ \A u \in Upgrades : u \in Transports /\ u # Poll
  /\ \A t \in Transports : t \notin {"attach", "armed", "idle", "closing", "ended", "done"}
                          /\ (t = Poll \/ t \in Upgrades)
BY Zenon, PollingConstants DEF Transports
-----------------------------------------------------------------------------
(* Only the handlers of upgrade requests move the transport.               *)
LEMMA OneWinnerStep == OneWinner /\ [Next]_vars => OneWinner'
<1>. SUFFICES ASSUME OneWinner, [Next]_vars PROVE OneWinner'
  BY Zenon
<1>1. ASSUME UNCHANGED manager PROVE OneWinner'
  BY Zenon, <1>1 DEF OneWinner, manager
<1>2. ASSUME UNCHANGED <<current, upg>>, flags' \in [probed : BOOLEAN, upgradeOK : BOOLEAN, upgraded : BOOLEAN],
             flags'.upgraded = flags.upgraded
      PROVE  OneWinner'
  BY Zenon, <1>2 DEF OneWinner
<1>3. CASE PostPing
  <2>1. flags' = [flags EXCEPT !.probed = @ \/ (Head(post).type = "probe" /\ ~closed[Poll])] /\ UNCHANGED <<current, upg>>
    BY Zenon, <1>3 DEF PostPing
  <2>2. flags' \in [probed : BOOLEAN, upgradeOK : BOOLEAN, upgraded : BOOLEAN] /\ flags'.upgraded = flags.upgraded
    BY Zenon, <2>1 DEF OneWinner
  <2>. QED BY Zenon, <1>2, <2>1, <2>2
<1>4. CASE PostUpgrade
  <2>1. flags' = [flags EXCEPT !.upgradeOK = @ \/ ~closed[Poll]] /\ UNCHANGED <<current, upg>>
    BY Zenon, <1>4 DEF PostUpgrade
  <2>2. flags' \in [probed : BOOLEAN, upgradeOK : BOOLEAN, upgraded : BOOLEAN] /\ flags'.upgraded = flags.upgraded
    BY Zenon, <2>1 DEF OneWinner
  <2>. QED BY Zenon, <1>2, <2>1, <2>2
<1>5. ASSUME NEW u \in Upgrades, upg[u] \in {"idle", "open"}, UNCHANGED <<flags, current>>,
             NEW s \in {"open", "refused"}, upg' = [upg EXCEPT ![u] = s]
      PROVE  OneWinner'
  <2>1. upg'[u] = s /\ \A v \in Upgrades : v # u => upg'[v] = upg[v]
    BY Zenon, <1>5 DEF OneWinner
  <2>2. upg' \in [Upgrades -> Winners \cup {"idle", "open", "refused"}]
    BY Zenon, <1>5 DEF OneWinner
  <2>3. s \notin Winners /\ s \notin Swapped /\ upg[u] \notin Swapped
    BY Zenon, <1>5 DEF Winners, Swapped
  <2>. QED BY Zenon, <1>5, <2>1, <2>2, <2>3 DEF OneWinner
<1>6. ASSUME NEW u \in Upgrades, upg[u] \in Swapped, UNCHANGED <<flags, current>>,
             NEW s \in Swapped, upg' = [upg EXCEPT ![u] = s]
      PROVE  OneWinner'
  BY Zenon, <1>6 DEF OneWinner, Winners, Swapped
<1>7. ASSUME NEW u \in Upgrades, applyUpgrade(u) PROVE OneWinner'
  <2>1. CASE readyForUpgrade
    <3>1. /\ ~flags.upgraded /\ flags' = [flags EXCEPT !.upgraded = TRUE]
          /\ upg' = [upg EXCEPT ![u] = "swap"] /\ UNCHANGED current
      BY Zenon, <1>7, <2>1 DEF applyUpgrade, readyForUpgrade, setStep
    <3>2. flags' \in [probed : BOOLEAN, upgradeOK : BOOLEAN, upgraded : BOOLEAN] /\ flags'.upgraded
      BY Zenon, <3>1 DEF OneWinner
    <3>3. \A v \in Upgrades : upg[v] \notin Winners
      BY Zenon, <3>1 DEF OneWinner
    <3>4. /\ upg'[u] = "swap" /\ \A v \in Upgrades : v # u => upg'[v] = upg[v]
          /\ upg' \in [Upgrades -> Winners \cup {"idle", "open", "refused"}]
      BY Zenon, <3>1 DEF OneWinner, Winners
    <3>5. "swap" \in Winners /\ "swap" \notin Swapped /\ Swapped \subseteq Winners
      BY Zenon DEF Winners, Swapped
    <3>. QED BY Zenon, <3>1, <3>2, <3>3, <3>4, <3>5 DEF OneWinner
  <2>2. CASE ~readyForUpgrade
    BY Zenon, <1>5, <1>7, <2>2 DEF applyUpgrade, setStep
  <2>. QED BY Zenon, <2>1, <2>2
<1>8. ASSUME NEW u \in Upgrades, Swap(u) PROVE OneWinner'
  <2>1. upg[u] = "swap" /\ upg' = [upg EXCEPT ![u] = "noop"] /\ current' = u /\ UNCHANGED flags
    BY Zenon, <1>8 DEF Swap, setStep
  <2>2. \A v \in Upgrades : v # u => upg[v] \notin Winners
    BY Zenon, <2>1 DEF OneWinner, Winners
  <2>3. /\ upg'[u] = "noop" /\ \A v \in Upgrades : v # u => upg'[v] = upg[v]
        /\ upg' \in [Upgrades -> Winners \cup {"idle", "open", "refused"}]
    BY Zenon, <2>1 DEF OneWinner, Winners
  <2>4. "swap" \in Winners /\ "noop" \in Swapped /\ Swapped \subseteq Winners /\ u \in Transports
    BY Zenon, TransportsDiffer DEF Winners, Swapped
  <2>. QED BY Zenon, <2>1, <2>2, <2>3, <2>4 DEF OneWinner
<1>9. ASSUME NEW u \in Upgrades, UpgradeRequest(u) \/ Upgrading(u) PROVE OneWinner'
  BY Zenon, <1>5, <1>6, <1>7, <1>8, <1>9
     DEF UpgradeRequest, Upgrading, Noop, signalUpgrade, setStep, Swapped
<1>10. CASE UNCHANGED vars \/ Reading \/ Writing
  BY Zenon, <1>1, <1>10 DEF vars, Reading, OnPong, ReadCall, ReadInbox, ReadEOF, ReadUpgraded, ReadFrame,
     Writing, WriteCall, Write, WriteEnds, SendClose
<1>15. CASE PostPong
  <2>1. /\ flags' = [flags EXCEPT !.probed = @ \/ (Head(post).type = "probePong" /\ ~closed[Poll])]
        /\ UNCHANGED <<current, upg>>
    BY Zenon, <1>15 DEF PostPong
  <2>2. flags' \in [probed : BOOLEAN, upgradeOK : BOOLEAN, upgraded : BOOLEAN] /\ flags'.upgraded = flags.upgraded
    BY Zenon, <2>1 DEF OneWinner
  <2>. QED BY Zenon, <1>2, <2>1, <2>2
<1>11. CASE PostClose \/ PostMessage \/ deliverInbound \/ \E b \in Bodies : PostStart(b)
  BY Zenon, <1>1, <1>11 DEF PostClose, PostMessage, deliverInbound, PostStart
<1>12. CASE \/ AttachRefused \/ StartPumps \/ ReadPumpReturns \/ \E t \in Transports : ReadTimeout(t)
            \/ closeRaw \/ CloseActive \/ Emit \/ Ping
  BY Zenon, <1>1, <1>12
     DEF AttachRefused, StartPumps, ReadPumpReturns, ReadTimeout, closeRaw, CloseActive, Emit, Ping
<1>13. CASE \E g \in Gets : \/ GetPolling(g) \/ PollStart(g) \/ Abandon(g)
                            \/ PollFrames(g) \/ collectBatch(g) \/ PollEmpty(g) \/ PollTimeout(g)
  BY Zenon, <1>1, <1>13 DEF GetPolling, PollStart, Abandon, PollFrames, collectBatch, PollEmpty, PollTimeout
<1>14. CASE \E u \in Upgrades : ReadFails(u) \/ \E f \in Frames : PeerSends(u, f)
  BY Zenon, <1>1, <1>14 DEF ReadFails, PeerSends
<1>. QED BY Zenon, <1>3, <1>4, <1>9, <1>10, <1>11, <1>12, <1>13, <1>14, <1>15 DEF Next, Posting

(* No upgrade request has been made.                                       *)
LEMMA OneWinnerInit == Init => OneWinner
<1>. SUFFICES ASSUME Init PROVE OneWinner
  BY Zenon
<1>. QED BY Zenon, TransportsDiffer DEF Init, OneWinner, Winners, Swapped

(* It holds in every reachable state.                                      *)
LEMMA AlwaysOneWinner == Spec => []OneWinner
BY OneWinnerInit, OneWinnerStep, PTL DEF Spec

(* Of the upgrade requests that passed readyForUpgrade one at most wins,   *)
(* and its socket is the active transport, however many requests race:     *)
(* applyUpgrade checks and sets upgraded under the manager's lock.         *)
THEOREM OneSocketIsActive == Spec => []NoOrphanSocket
<1>1. OneWinner => NoOrphanSocket
  BY Zenon DEF OneWinner, NoOrphanSocket, Swapped
<1>. QED BY <1>1, AlwaysOneWinner, PTL
-----------------------------------------------------------------------------
(* A step that leaves the reader, the closer, the transports they hold and *)
(* the active one alone.                                                   *)
heldVars == <<reader, closer, closed, current>>

(* The reader and the closer take the active transport, closeRaw closes    *)
(* the one it took, and a swap finds polling active.                       *)
LEMMA HoldsActiveStep == OneWinner /\ HoldsActive /\ [Next]_vars => HoldsActive'
<1>. SUFFICES ASSUME OneWinner, HoldsActive, [Next]_vars PROVE HoldsActive'
  BY Zenon
<1>1. ASSUME UNCHANGED heldVars PROVE HoldsActive'
  BY Zenon, <1>1 DEF HoldsActive, heldVars
<1>2. ASSUME UNCHANGED <<closer, closed, current>>, reader # "done",
             reader' \in {"armed", "idle", "ended", current}
      PROVE  HoldsActive'
  <2>1. current \in Transports
    BY Zenon DEF OneWinner
  <2>2. reader' \in Transports \cup {"attach", "armed", "idle", "ended", "done"} /\ reader' # "done"
    BY Zenon, <1>2, <2>1, TransportsDiffer
  <2>3. reader' \in Upgrades => current = reader'
    BY Zenon, <1>2, TransportsDiffer
  <2>. QED BY Zenon, <1>2, <2>2, <2>3 DEF HoldsActive
<1>3. ASSUME UNCHANGED <<reader, closer, current>>, NEW t \in Transports, Close(t)
      PROVE  HoldsActive'
  <2>1. closed' \in [Transports -> BOOLEAN] /\ (closed[Poll] => closed'[Poll])
    BY Zenon, <1>3, TransportsDiffer DEF HoldsActive, Close
  <2>. QED BY Zenon, <1>3, <2>1 DEF HoldsActive
<1>4. CASE AttachRefused \/ closeRaw
  <2>1. /\ closer = "idle" /\ closer' = current /\ UNCHANGED <<closed, current>> /\ current \in Transports
        /\ (reader' = "ended" \/ reader' = reader)
    BY Zenon, <1>4 DEF AttachRefused, closeRaw, manager, OneWinner
  <2>2. closer' # "done" /\ reader # "done" /\ reader' # "done"
    BY Zenon, <2>1, TransportsDiffer DEF HoldsActive
  <2>3. "ended" \notin Upgrades
    BY Zenon, TransportsDiffer
  <2>4. /\ reader' \in Transports \cup {"attach", "armed", "idle", "ended", "done"}
        /\ reader' \in Upgrades => current = reader'
    BY Zenon, <2>1, <2>3 DEF HoldsActive
  <2>. QED BY Zenon, <2>1, <2>2, <2>4 DEF HoldsActive
<1>5. CASE CloseActive
  <2>1. /\ closer \in Transports /\ closed' = [closed EXCEPT ![closer] = TRUE] /\ closer' = "done"
        /\ UNCHANGED <<reader, current>>
    BY Zenon, <1>5 DEF CloseActive, Close, manager
  <2>2. current = Poll => closer = Poll
    BY Zenon, <2>1, TransportsDiffer DEF HoldsActive
  <2>3. closed' \in [Transports -> BOOLEAN] /\ (closer = Poll => closed'[Poll]) /\ "done" \notin Upgrades
    BY Zenon, <2>1, TransportsDiffer DEF HoldsActive
  <2>. QED BY Zenon, <2>1, <2>2, <2>3 DEF HoldsActive
<1>6. CASE ReadPumpReturns
  <2>1. closer = "done" /\ reader' = "done" /\ UNCHANGED <<closer, closed, current>> /\ "done" \notin Upgrades
    BY Zenon, <1>6, TransportsDiffer DEF ReadPumpReturns, manager
  <2>. QED BY Zenon, <2>1 DEF HoldsActive
<1>7. ASSUME NEW u \in Upgrades, Swap(u) PROVE HoldsActive'
  <2>1. upg[u] = "swap" /\ current' = u /\ UNCHANGED <<reader, closer, closed>>
    BY Zenon, <1>7 DEF Swap, pumps
  <2>2. \A v \in Upgrades : current # v
    BY Zenon, <2>1 DEF OneWinner, Winners, Swapped
  <2>. QED BY Zenon, <2>1, <2>2, TransportsDiffer DEF HoldsActive
<1>8. ASSUME NEW u \in Upgrades, applyUpgrade(u) PROVE HoldsActive'
  BY Zenon, <1>1, <1>3, <1>8, TransportsDiffer DEF applyUpgrade, pumps, heldVars
<1>9. ASSUME NEW u \in Upgrades, ReadFrame(u) PROVE HoldsActive'
  <2>1. UNCHANGED <<closer, current>> /\ reader = u /\ "idle" \notin Upgrades /\ "ended" \notin Upgrades
    BY Zenon, <1>9, TransportsDiffer DEF ReadFrame, manager
  <2>2. reader' \in {"idle", "ended", u} /\ (closed' = closed \/ Close(u))
    BY Zenon, <1>9, <2>1 DEF ReadFrame, deliver
  <2>3. closed' \in [Transports -> BOOLEAN] /\ (closed[Poll] => closed'[Poll])
    BY Zenon, <2>2, TransportsDiffer DEF HoldsActive, Close
  <2>4. reader' \in Transports \cup {"attach", "armed", "idle", "ended", "done"} /\ reader' # "done"
        /\ (reader' \in Upgrades => current' = reader')
    BY Zenon, <2>1, <2>2, TransportsDiffer DEF HoldsActive
  <2>. QED BY Zenon, <2>1, <2>3, <2>4 DEF HoldsActive
<1>10. CASE StartPumps \/ OnPong \/ ReadCall \/ ReadInbox \/ ReadEOF \/ ReadUpgraded
  <2>1. UNCHANGED <<closer, closed, current>> /\ reader # "done"
    BY Zenon, <1>10, TransportsDiffer DEF StartPumps, OnPong, ReadCall, ReadInbox, ReadEOF, ReadUpgraded, manager
  <2>2. reader' \in {"armed", "idle", "ended", current}
    BY Zenon, <1>10 DEF StartPumps, OnPong, ReadCall, ReadInbox, ReadEOF, ReadUpgraded, deliver
  <2>. QED BY Zenon, <1>2, <2>1, <2>2
<1>11. ASSUME NEW t \in Transports, ReadTimeout(t) \/ (t \in Upgrades /\ ReadFails(t)) PROVE HoldsActive'
  <2>1. UNCHANGED <<closer, closed, current>> /\ reader # "done" /\ reader' \in {"idle", "ended", current}
    BY Zenon, <1>11, TransportsDiffer DEF ReadTimeout, ReadFails, manager
  <2>. QED BY Zenon, <1>2, <2>1
<1>12. CASE PostClose
  <2>1. UNCHANGED <<reader, closer, current>> /\ Close(Poll) /\ Poll \in Transports
    BY Zenon, <1>12, TransportsDiffer DEF PostClose, manager, pumps
  <2>. QED BY Zenon, <1>3, <2>1
<1>13. CASE UNCHANGED vars \/ Writing \/ Emit \/ Ping
  BY Zenon, <1>1, <1>13 DEF heldVars, vars, manager, pumps, Writing, WriteCall, Write, WriteEnds, SendClose, Emit, Ping
<1>14. CASE PostPing \/ PostPong \/ PostUpgrade \/ PostMessage \/ deliverInbound \/ \E b \in Bodies : PostStart(b)
  BY Zenon, <1>1, <1>14
     DEF heldVars, manager, pumps, PostPing, PostPong, PostUpgrade, PostMessage, deliverInbound, PostStart
<1>15. CASE \E g \in Gets : \/ GetPolling(g) \/ PollStart(g) \/ Abandon(g)
                            \/ PollFrames(g) \/ collectBatch(g) \/ PollEmpty(g) \/ PollTimeout(g)
  BY Zenon, <1>1, <1>15
     DEF heldVars, manager, pumps, GetPolling, PollStart, Abandon, PollFrames, collectBatch, PollEmpty, PollTimeout
<1>16. CASE \E u \in Upgrades : \/ UpgradeRequest(u) \/ Noop(u) \/ signalUpgrade(u)
                                \/ \E f \in Frames : PeerSends(u, f)
  BY Zenon, <1>1, <1>16 DEF heldVars, manager, pumps, UpgradeRequest, Noop, signalUpgrade, PeerSends
<1>17. \A u \in Upgrades : u \in Transports
  BY Zenon, TransportsDiffer
<1>. QED BY Zenon, <1>4, <1>5, <1>6, <1>7, <1>8, <1>9, <1>10, <1>11, <1>12, <1>13, <1>14, <1>15, <1>16, <1>17
         DEF Next, Posting, Reading, Upgrading

(* No goroutine holds a transport.                                         *)
LEMMA HoldsActiveInit == Init => HoldsActive
<1>. SUFFICES ASSUME Init PROVE HoldsActive
  BY Zenon
<1>1. "attach" \notin Upgrades /\ "idle" \notin Upgrades
  BY Zenon, TransportsDiffer
<1>. QED BY Zenon, <1>1 DEF Init, HoldsActive

(* It holds in every reachable state.                                      *)
LEMMA AlwaysHoldsActive == Spec => []HoldsActive
BY AlwaysOneWinner, HoldsActiveInit, HoldsActiveStep, PTL DEF Spec

(* ReadPump returns after closeRaw has closed the active transport: the     *)
(* manager's entry for the sid, which pollingTransport.Close removes, can   *)
(* outlive the client only if an upgrade has replaced the polling           *)
(* transport.  (applyUpgrade replaces it without closing it.)               *)
THEOREM EntryIsRemoved == Spec => [](reader = "done" /\ ~closed[Poll] => current # Poll)
<1>1. HoldsActive => (reader = "done" /\ ~closed[Poll] => current # Poll)
  BY Zenon DEF HoldsActive
<1>. QED BY <1>1, AlwaysHoldsActive, PTL
-----------------------------------------------------------------------------
(* The numbers of the messages in a sequence of packets, and the packets   *)
(* that frames of a socket begin with.                                     *)
numbers(ps) == {ps[i].n : i \in {j \in DOMAIN ps : IsMessage(ps[j])}}
heads(fs) == [i \in DOMAIN fs |-> Head(fs[i])]
MessagesIncrease(ps) ==
  \A i, j \in DOMAIN ps : i < j /\ IsMessage(ps[i]) /\ IsMessage(ps[j]) => ps[i].n < ps[j].n

Less(A, B) == \A a \in A, b \in B : a < b
UpTo(A, n) == \A a \in A : a <= n

Controls == {"ping", "pong", "close", "probe", "probePong", "upgrade"}
PacketSet == [type : Controls \cup {"message"}, n : Nat]

InTypes ==
  /\ inbox \in Seq(Nat) /\ handled \in Seq(Nat) /\ sent \in Nat
  /\ post \in Seq(PacketSet)
  /\ wsIn \in [Upgrades -> Seq(Seq(PacketSet) \ {<<>>})]

onSocketOf(u) == upg[u] \notin {"idle", "refused"}

(* What was handled, what is in the inbox, what a POST has still to put    *)
(* there and what is on a socket follow each other, as long as the reader  *)
(* can still get to them.                                                  *)
InOrder ==
  /\ Increasing(handled) /\ Increasing(inbox) /\ MessagesIncrease(post)
  /\ \A u \in Upgrades : MessagesIncrease(heads(wsIn[u])) /\ UpTo(numbers(heads(wsIn[u])), sent)
  /\ UpTo(Range(handled) \cup Range(inbox) \cup numbers(post), sent)
  /\ Less(Range(inbox), numbers(post))
  /\ current = Poll \/ reader = Poll => Less(Range(handled), Range(inbox) \cup numbers(post))
  /\ \A u \in Upgrades : onSocketOf(u) => Less(Range(inbox) \cup numbers(post), numbers(heads(wsIn[u])))
  /\ \A u \in Upgrades : onSocketOf(u) /\ current \in {Poll, u} => Less(Range(handled), numbers(heads(wsIn[u])))
  /\ \A u \in Upgrades : upg[u] = "idle" => wsIn[u] = <<>>
  /\ posting => post # <<>> /\ IsMessage(Head(post))
-----------------------------------------------------------------------------
(* The elements of a sequence without its first one.                       *)
LEMMA TailFacts ==
  ASSUME NEW S, NEW s \in Seq(S), s # <<>>
  PROVE  /\ Head(s) \in S /\ Tail(s) \in Seq(S) /\ 1 \in DOMAIN s /\ Head(s) = s[1]
         /\ \A i \in DOMAIN Tail(s) : i + 1 \in DOMAIN s /\ Tail(s)[i] = s[i + 1] /\ 1 < i + 1
         /\ \A i, j \in DOMAIN Tail(s) : i < j => i + 1 < j + 1
OBVIOUS

(* The elements of a sequence with one appended.                           *)
LEMMA PushFacts ==
  ASSUME NEW S, NEW s \in Seq(S), NEW e \in S
  PROVE  LET n == Len(s) + 1 IN
         /\ Append(s, e) \in Seq(S) /\ DOMAIN Append(s, e) = DOMAIN s \cup {n} /\ Append(s, e)[n] = e
         /\ \A i \in DOMAIN s : Append(s, e)[i] = s[i] /\ ~(n < i)
         /\ ~(n < n)
OBVIOUS

(* Taking the first number of an increasing sequence.                      *)
LEMMA NumbersTail ==
  ASSUME NEW s \in Seq(Nat), s # <<>>, Increasing(s)
  PROVE  /\ Head(s) \in Nat /\ Tail(s) \in Seq(Nat) /\ Increasing(Tail(s))
         /\ Head(s) \in Range(s) /\ Range(Tail(s)) \subseteq Range(s) /\ Less({Head(s)}, Range(Tail(s)))
<1>. DEFINE t == Tail(s)
            h == Head(s)
<1>1. /\ h \in Nat /\ t \in Seq(Nat) /\ 1 \in DOMAIN s /\ h = s[1]
      /\ \A i \in DOMAIN t : i + 1 \in DOMAIN s /\ t[i] = s[i + 1] /\ 1 < i + 1
      /\ \A i, j \in DOMAIN t : i < j => i + 1 < j + 1
  BY Zenon, TailFacts
<1>. HIDE DEF t, h
<1>2. Increasing(t)
  BY Zenon, <1>1 DEF Increasing
<1>3. h \in Range(s) /\ Range(t) \subseteq Range(s)
  BY Zenon, <1>1 DEF Range
<1>4. Less({h}, Range(t))
  BY Zenon, <1>1 DEF Increasing, Range, Less
<1>. QED BY Zenon, <1>1, <1>2, <1>3, <1>4 DEF t, h

(* Appending a number above all of an increasing sequence.                 *)
LEMMA NumbersPush ==
  ASSUME NEW s \in Seq(Nat), NEW e \in Nat
  PROVE  /\ Append(s, e) \in Seq(Nat) /\ Range(Append(s, e)) = Range(s) \cup {e}
         /\ Increasing(s) /\ Less(Range(s), {e}) => Increasing(Append(s, e))
<1>. DEFINE n == Len(s) + 1
            t == Append(s, e)
<1>1. /\ t \in Seq(Nat) /\ DOMAIN t = DOMAIN s \cup {n} /\ t[n] = e
      /\ \A i \in DOMAIN s : t[i] = s[i] /\ ~(n < i)
      /\ ~(n < n)
  BY Zenon, PushFacts
<1>. HIDE DEF t, n
<1>2. Range(t) = Range(s) \cup {e}
  BY Zenon, <1>1 DEF Range
<1>3. ASSUME Increasing(s), Less(Range(s), {e}) PROVE Increasing(t)
  BY Zenon, <1>1, <1>3 DEF Increasing, Range, Less
<1>. QED BY Zenon, <1>1, <1>2, <1>3 DEF t

(* Taking the first packet of a sequence whose messages increase.          *)
LEMMA PacketsTail ==
  ASSUME NEW s \in Seq(PacketSet), s # <<>>, MessagesIncrease(s)
  PROVE  /\ Head(s) \in PacketSet /\ Tail(s) \in Seq(PacketSet) /\ MessagesIncrease(Tail(s))
         /\ numbers(Tail(s)) \subseteq numbers(s)
         /\ IsMessage(Head(s)) => Head(s).n \in numbers(s) /\ Less({Head(s).n}, numbers(Tail(s)))
<1>. DEFINE t == Tail(s)
            h == Head(s)
<1>1. /\ h \in PacketSet /\ t \in Seq(PacketSet) /\ 1 \in DOMAIN s /\ h = s[1]
      /\ \A i \in DOMAIN t : i + 1 \in DOMAIN s /\ t[i] = s[i + 1] /\ 1 < i + 1
      /\ \A i, j \in DOMAIN t : i < j => i + 1 < j + 1
  BY Zenon, TailFacts
<1>. HIDE DEF t, h
<1>2. MessagesIncrease(t)
  BY Zenon, <1>1 DEF MessagesIncrease
<1>3. numbers(t) \subseteq numbers(s)
  BY Zenon, <1>1 DEF numbers
<1>4. ASSUME IsMessage(h) PROVE h.n \in numbers(s) /\ Less({h.n}, numbers(t))
  BY Zenon, <1>1, <1>4 DEF MessagesIncrease, numbers, Less
<1>. QED BY Zenon, <1>1, <1>2, <1>3, <1>4 DEF t, h

(* Appending a packet: a message above the others, or no message.          *)
LEMMA PacketsPush ==
  ASSUME NEW s \in Seq(PacketSet), NEW e \in PacketSet, MessagesIncrease(s),
         IsMessage(e) => Less(numbers(s), {e.n})
  PROVE  /\ MessagesIncrease(Append(s, e))
         /\ \A a \in numbers(Append(s, e)) : a \in numbers(s) \/ (IsMessage(e) /\ a = e.n)
<1>. DEFINE n == Len(s) + 1
            t == Append(s, e)
<1>1. /\ DOMAIN t = DOMAIN s \cup {n} /\ t[n] = e
      /\ \A i \in DOMAIN s : t[i] = s[i] /\ ~(n < i)
      /\ ~(n < n)
  BY Zenon, PushFacts
<1>. HIDE DEF t, n
<1>2. MessagesIncrease(t)
  BY Zenon, <1>1 DEF MessagesIncrease, numbers, Less
<1>3. \A a \in numbers(t) : a \in numbers(s) \/ (IsMessage(e) /\ a = e.n)
  BY Zenon, <1>1 DEF numbers
<1>. QED BY Zenon, <1>2, <1>3 DEF t

(* Sequences with the same elements are equal.                             *)
LEMMA SameElements ==
  ASSUME NEW S, NEW s \in Seq(S), NEW t \in Seq(S), NEW n, Len(s) = n, Len(t) = n,
         \A i \in 1..n : s[i] = t[i]
  PROVE  s = t
OBVIOUS

(* The first packets of the frames, when a frame is taken or appended.     *)
LEMMA HeadsFacts ==
  ASSUME NEW fs \in Seq(Seq(PacketSet) \ {<<>>})
  PROVE  /\ heads(fs) \in Seq(PacketSet)
         /\ fs # <<>> => /\ heads(fs) # <<>> /\ Head(heads(fs)) = Head(Head(fs)) /\ heads(Tail(fs)) = Tail(heads(fs))
                         /\ Tail(fs) \in Seq(Seq(PacketSet) \ {<<>>})
         /\ \A f \in Seq(PacketSet) \ {<<>>} :
              heads(Append(fs, f)) = Append(heads(fs), Head(f)) /\ Append(fs, f) \in Seq(Seq(PacketSet) \ {<<>>})
<1>1. Len(fs) \in Nat /\ DOMAIN fs = 1..Len(fs) /\ \A i \in 1..Len(fs) : fs[i] \in Seq(PacketSet) \ {<<>>}
  OBVIOUS
<1>2. \A f \in Seq(PacketSet) \ {<<>>} : Head(f) \in PacketSet
  OBVIOUS
<1>3. heads(fs) \in Seq(PacketSet) /\ Len(heads(fs)) = Len(fs)
  BY <1>1, <1>2 DEF heads
<1>4. ASSUME fs # <<>>
      PROVE  /\ heads(fs) # <<>> /\ Head(heads(fs)) = Head(Head(fs)) /\ heads(Tail(fs)) = Tail(heads(fs))
             /\ Tail(fs) \in Seq(Seq(PacketSet) \ {<<>>})
  <2>1. /\ heads(fs) # <<>> /\ Len(fs) # 0 /\ Head(heads(fs)) = heads(fs)[1] /\ Head(fs) = fs[1]
        /\ Tail(fs) \in Seq(Seq(PacketSet) \ {<<>>})
    BY <1>3, <1>4
  <2>2. heads(fs)[1] = Head(fs[1])
    BY <1>1, <2>1 DEF heads
  <2>3. /\ DOMAIN Tail(fs) = 1..(Len(fs) - 1) /\ Len(Tail(fs)) = Len(fs) - 1
        /\ \A i \in 1..(Len(fs) - 1) : i + 1 \in DOMAIN fs /\ Tail(fs)[i] = fs[i + 1]
    BY <1>1, <1>4
  <2>4. /\ Tail(heads(fs)) \in Seq(PacketSet) /\ Len(Tail(heads(fs))) = Len(fs) - 1
        /\ \A i \in 1..(Len(fs) - 1) : Tail(heads(fs))[i] = heads(fs)[i + 1]
    BY <1>3, <2>1
  <2>5. heads(Tail(fs)) \in Seq(PacketSet) /\ Len(heads(Tail(fs))) = Len(fs) - 1
    <3>1. \A i \in 1..Len(Tail(fs)) : Tail(fs)[i] \in Seq(PacketSet) \ {<<>>}
      BY <2>1
    <3>2. Len(fs) - 1 \in Nat
      BY <1>1, <2>1
    <3>. QED BY <1>2, <2>3, <3>1, <3>2 DEF heads
  <2>6. \A i \in 1..(Len(fs) - 1) : heads(Tail(fs))[i] = Tail(heads(fs))[i]
    BY Zenon, <2>3, <2>4 DEF heads
  <2>7. heads(Tail(fs)) = Tail(heads(fs))
    BY Zenon, <2>4, <2>5, <2>6, SameElements
  <2>. QED BY Zenon, <2>1, <2>2, <2>7
<1>5. ASSUME NEW f \in Seq(PacketSet) \ {<<>>}
      PROVE  heads(Append(fs, f)) = Append(heads(fs), Head(f)) /\ Append(fs, f) \in Seq(Seq(PacketSet) \ {<<>>})
  BY <1>1, <1>3 DEF heads
<1>. QED BY Zenon, <1>3, <1>4, <1>5
-----------------------------------------------------------------------------
(* The empty queues.                                                       *)
LEMMA EmptyFacts ==
  /\ numbers(<<>>) = {} /\ MessagesIncrease(<<>>) /\ heads(<<>>) = <<>>
  /\ <<>> \in Seq(PacketSet) /\ <<>> \in Seq(Seq(PacketSet) \ {<<>>})
<1>1. DOMAIN <<>> = {} /\ <<>> \in Seq(PacketSet) /\ <<>> \in Seq(Seq(PacketSet) \ {<<>>})
  OBVIOUS
<1>2. numbers(<<>>) = {}
  BY <1>1 DEF numbers
<1>3. MessagesIncrease(<<>>)
  BY Zenon, <1>1 DEF MessagesIncrease
<1>4. heads(<<>>) = <<>>
  BY <1>1 DEF heads
<1>. QED BY Zenon, <1>1, <1>2, <1>3, <1>4

InInv == InTypes /\ InOrder

(* Steps that move no message of the peer: the reader takes polling only   *)
(* while that is active.                                                   *)
LEMMA CalmIn ==
  ASSUME InInv, UNCHANGED <<inbox, handled, sent, post, posting, wsIn, upg, current>>,
         reader' = Poll => current = Poll \/ reader = Poll
  PROVE  InInv'
BY Zenon DEF InInv, InTypes, InOrder, onSocketOf

(* A POST is done with a packet, or gives up on the rest of the body.      *)
LEMMA PostShrinks ==
  ASSUME InInv, UNCHANGED <<inbox, handled, sent, wsIn, upg, current, reader>>,
         post' \in Seq(PacketSet), MessagesIncrease(post'), numbers(post') \subseteq numbers(post),
         posting' => post' # <<>> /\ IsMessage(Head(post'))
  PROVE  InInv'
<1>. USE DEF InInv
<1>1. InTypes'
  BY Zenon DEF InTypes
<1>2. /\ UpTo(Range(handled) \cup Range(inbox) \cup numbers(post'), sent)
      /\ Less(Range(inbox), numbers(post'))
      /\ current = Poll \/ reader = Poll => Less(Range(handled), Range(inbox) \cup numbers(post'))
      /\ \A u \in Upgrades : onSocketOf(u) => Less(Range(inbox) \cup numbers(post'), numbers(heads(wsIn[u])))
  BY Zenon DEF InOrder, UpTo, Less
<1>. QED BY Zenon, <1>1, <1>2 DEF InOrder, onSocketOf

(* An upgrade request moves on: a socket that is new has no frames yet.    *)
LEMMA RequestMoves ==
  ASSUME InInv, UNCHANGED <<inbox, handled, sent, post, posting, wsIn, current, reader>>,
         \A v \in Upgrades : onSocketOf(v)' => onSocketOf(v) \/ wsIn[v] = <<>>,
         \A v \in Upgrades : upg'[v] = "idle" => upg[v] = "idle"
  PROVE  InInv'
<1>. USE DEF InInv
<1>1. InTypes'
  BY Zenon DEF InTypes
<1>2. ASSUME NEW v \in Upgrades, onSocketOf(v)'
      PROVE  /\ Less(Range(inbox) \cup numbers(post), numbers(heads(wsIn[v])))
             /\ current \in {Poll, v} => Less(Range(handled), numbers(heads(wsIn[v])))
  <2>1. CASE onSocketOf(v)
    BY Zenon, <2>1 DEF InOrder
  <2>2. CASE wsIn[v] = <<>>
    BY Zenon, <2>2, EmptyFacts DEF Less
  <2>. QED BY Zenon, <1>2, <2>1, <2>2
<1>. QED BY Zenon, <1>1, <1>2 DEF InOrder

(* pollingTransport.Read gives the head of the inbox to the handler.       *)
LEMMA ReadInboxStep == ASSUME InInv, ReadInbox PROVE InInv'
<1>. USE DEF InInv
<1>. DEFINE h == Head(inbox)
            t == Tail(inbox)
<1>1. /\ reader = Poll /\ inbox # <<>> /\ handled' = Append(handled, h) /\ inbox' = t
      /\ UNCHANGED <<sent, post, posting, wsIn, upg, current>>
  BY Zenon DEF ReadInbox, deliver, manager, http
<1>2. /\ h \in Nat /\ t \in Seq(Nat) /\ Increasing(t)
      /\ h \in Range(inbox) /\ Range(t) \subseteq Range(inbox) /\ Less({h}, Range(t))
  BY Zenon, <1>1, NumbersTail DEF InTypes, InOrder
<1>. HIDE DEF h, t
<1>3. Less(Range(handled), Range(inbox) \cup numbers(post))
  BY Zenon, <1>1 DEF InOrder
<1>4. /\ handled' \in Seq(Nat) /\ Range(handled') = Range(handled) \cup {h} /\ Increasing(handled')
  <2>1. Less(Range(handled), {h})
    BY Zenon, <1>2, <1>3 DEF Less
  <2>. QED BY Zenon, <1>1, <1>2, <2>1, NumbersPush DEF InTypes, InOrder
<1>5. InTypes'
  BY Zenon, <1>1, <1>2, <1>4 DEF InTypes
<1>6. Less(Range(handled'), Range(t) \cup numbers(post)) /\ Less(Range(t), numbers(post))
  BY Zenon, <1>2, <1>3, <1>4 DEF Less, InOrder
<1>7. UpTo(Range(handled') \cup Range(t) \cup numbers(post), sent)
  BY Zenon, <1>2, <1>4 DEF UpTo, InOrder
<1>8. ASSUME NEW u \in Upgrades, onSocketOf(u)
      PROVE  /\ Less(Range(t) \cup numbers(post), numbers(heads(wsIn[u])))
             /\ current \in {Poll, u} => Less(Range(handled'), numbers(heads(wsIn[u])))
  BY Zenon, <1>2, <1>4, <1>8 DEF Less, InOrder
<1>. QED BY Zenon, <1>1, <1>2, <1>4, <1>5, <1>6, <1>7, <1>8 DEF InOrder, onSocketOf

(* eioWebSocketTransport.Read takes a frame of the active socket.          *)
LEMMA ReadFrameStep == ASSUME OneWinner, HoldsActive, InInv, NEW u \in Upgrades, ReadFrame(u) PROVE InInv'
<1>. USE DEF InInv
<1>. DEFINE f == wsIn[u]
            p == Head(Head(f))
            N == numbers(heads(f))
            T == numbers(heads(Tail(f)))
<1>1. /\ reader = u /\ f # <<>> /\ wsIn' = [wsIn EXCEPT ![u] = Tail(f)]
      /\ UNCHANGED <<inbox, sent, post, posting, upg, current>>
      /\ reader' \in {"idle", "ended", u}
      /\ handled' = handled \/ (IsMessage(p) /\ handled' = Append(handled, p.n))
  BY Zenon DEF ReadFrame, deliver, IsMessage, manager, polling, http
<1>2. /\ f \in Seq(Seq(PacketSet) \ {<<>>}) /\ heads(f) \in Seq(PacketSet) /\ heads(f) # <<>>
      /\ Head(heads(f)) = p /\ heads(Tail(f)) = Tail(heads(f)) /\ Tail(f) \in Seq(Seq(PacketSet) \ {<<>>})
  BY Zenon, <1>1, HeadsFacts DEF InTypes
<1>3. /\ p \in PacketSet /\ MessagesIncrease(heads(Tail(f))) /\ T \subseteq N
      /\ IsMessage(p) => p.n \in N /\ Less({p.n}, T)
  BY Zenon, <1>2, PacketsTail DEF InOrder
<1>4. /\ current = u /\ u # Poll /\ reader' # Poll /\ onSocketOf(u)
      /\ \A v \in Upgrades : v # u => current \notin {Poll, v}
  BY Zenon, <1>1, TransportsDiffer DEF HoldsActive, OneWinner, Swapped, onSocketOf
<1>5. wsIn' \in [Upgrades -> Seq(Seq(PacketSet) \ {<<>>})] /\ wsIn'[u] = Tail(f)
      /\ \A v \in Upgrades : v # u => wsIn'[v] = wsIn[v]
  BY Zenon, <1>1, <1>2 DEF InTypes
<1>. HIDE DEF f, p
<1>6. Less(Range(handled), N) /\ UpTo(N, sent) /\ Less(Range(inbox) \cup numbers(post), N)
  BY Zenon, <1>4 DEF f, InOrder
<1>7. /\ handled' \in Seq(Nat) /\ Increasing(handled') /\ Less(Range(handled'), T)
      /\ UpTo(Range(handled'), sent)
  <2>0. UpTo(Range(handled), sent)
    BY Zenon DEF InOrder, UpTo
  <2>1. CASE handled' = handled
    BY Zenon, <1>3, <1>6, <2>0, <2>1 DEF InTypes, InOrder, Less
  <2>2. CASE IsMessage(p) /\ handled' = Append(handled, p.n)
    <3>1. p.n \in Nat /\ Less(Range(handled), {p.n})
      BY Zenon, <1>3, <1>6, <2>2 DEF PacketSet, Less
    <3>2. /\ handled' \in Seq(Nat) /\ Increasing(handled') /\ Range(handled') = Range(handled) \cup {p.n}
      BY Zenon, <2>2, <3>1, NumbersPush DEF InTypes, InOrder
    <3>3. Less(Range(handled'), T)
      BY Zenon, <1>3, <1>6, <2>2, <3>2 DEF Less
    <3>4. UpTo(Range(handled'), sent)
      BY Zenon, <1>3, <1>6, <2>0, <2>2, <3>2 DEF UpTo
    <3>. QED BY Zenon, <3>2, <3>3, <3>4
  <2>. QED BY Zenon, <1>1, <2>1, <2>2
<1>8. InTypes'
  BY Zenon, <1>1, <1>5, <1>7 DEF InTypes
<1>9. UpTo(Range(handled') \cup Range(inbox) \cup numbers(post), sent)
  BY Zenon, <1>7 DEF InOrder, UpTo
<1>10. UpTo(T, sent) /\ Less(Range(inbox) \cup numbers(post), T)
  BY Zenon, <1>3, <1>6 DEF UpTo, Less
<1>11. \A v \in Upgrades : MessagesIncrease(heads(wsIn'[v])) /\ UpTo(numbers(heads(wsIn'[v])), sent)
  BY Zenon, <1>3, <1>5, <1>10 DEF InOrder
<1>12. \A v \in Upgrades : onSocketOf(v) => Less(Range(inbox) \cup numbers(post), numbers(heads(wsIn'[v])))
  BY Zenon, <1>5, <1>10 DEF InOrder
<1>13. \A v \in Upgrades : onSocketOf(v) /\ current \in {Poll, v} => Less(Range(handled'), numbers(heads(wsIn'[v])))
  BY Zenon, <1>4, <1>5, <1>7
<1>14. \A v \in Upgrades : upg[v] = "idle" => wsIn'[v] = <<>>
  BY Zenon, <1>4, <1>5 DEF InOrder, onSocketOf
<1>. QED BY Zenon, <1>1, <1>4, <1>7, <1>8, <1>9, <1>11, <1>12, <1>13, <1>14 DEF InOrder, onSocketOf

(* The numbers of what was sent are natural numbers.                       *)
LEMMA NumbersAreNat ==
  ASSUME InTypes
  PROVE  /\ Range(handled) \subseteq Nat /\ Range(inbox) \subseteq Nat /\ numbers(post) \subseteq Nat
         /\ \A u \in Upgrades : numbers(heads(wsIn[u])) \subseteq Nat
<1>1. ASSUME NEW s \in Seq(Nat) PROVE Range(s) \subseteq Nat
  BY DEF Range
<1>2. ASSUME NEW s \in Seq(PacketSet) PROVE numbers(s) \subseteq Nat
  <2>1. \A i \in DOMAIN s : s[i].n \in Nat
    <3>1. \A i \in DOMAIN s : s[i] \in PacketSet
      OBVIOUS
    <3>. QED BY Zenon, <3>1 DEF PacketSet
  <2>. QED BY Zenon, <2>1 DEF numbers
<1>3. \A u \in Upgrades : heads(wsIn[u]) \in Seq(PacketSet)
  BY Zenon, HeadsFacts DEF InTypes
<1>. QED BY Zenon, <1>1, <1>2, <1>3 DEF InTypes

(* What is sent now comes after all that was sent.                         *)
LEMMA NewIsAbove ==
  ASSUME NEW n \in Nat, NEW k \in Nat, NEW A \in SUBSET Nat, UpTo(A, n), NEW B \in SUBSET Nat,
         \A b \in B : n < b /\ b <= n + k
  PROVE  Less(A, B) /\ UpTo(A, n + k) /\ UpTo(B, n + k)
BY DEF Less, UpTo

(* A body or frame of the peer: one control packet, or the next messages.  *)
LEMMA SentPackets ==
  ASSUME InTypes, NEW b,
         \/ \E t \in Controls : b = <<Control(t)>>
         \/ \E k \in {1, 2} : b = [i \in 1..k |-> Packet("message", sent + i)]
  PROVE  /\ b \in Seq(PacketSet) \ {<<>>} /\ messageCount(b) \in Nat /\ MessagesIncrease(b)
         /\ \A a \in numbers(b) : a \in Nat /\ sent < a /\ a <= sent + messageCount(b)
         /\ IsMessage(Head(b)) => Head(b).n \in numbers(b)
         /\ \A t \in Controls : b = <<Control(t)>> => numbers(b) = {}
<1>0. sent \in Nat
  BY Zenon DEF InTypes
<1>1. ASSUME NEW t \in Controls, b = <<Control(t)>>
      PROVE  /\ b \in Seq(PacketSet) \ {<<>>} /\ messageCount(b) \in Nat /\ MessagesIncrease(b)
             /\ numbers(b) = {} /\ ~IsMessage(Head(b))
  <2>1. /\ b \in Seq(PacketSet) \ {<<>>} /\ DOMAIN b = {1} /\ b[1].type = t /\ Head(b) = b[1]
    <3>1. Control(t) \in PacketSet /\ Control(t).type = t
      <4>1. 0 \in Nat
        OBVIOUS
      <4>. QED BY Zenon, <4>1 DEF Control, Packet, PacketSet
    <3>. QED BY <1>1, <3>1
  <2>2. \A i \in DOMAIN b : ~IsMessage(b[i])
    BY Zenon, <2>1 DEF IsMessage, Controls
  <2>3. messageCount(b) = 0 /\ ~IsMessage(Head(b))
    BY Zenon, <2>1, <2>2 DEF messageCount
  <2>. QED BY <2>1, <2>2, <2>3 DEF MessagesIncrease, numbers
<1>2. ASSUME NEW k \in {1, 2}, b = [i \in 1..k |-> Packet("message", sent + i)]
      PROVE  /\ b \in Seq(PacketSet) \ {<<>>} /\ messageCount(b) \in Nat /\ MessagesIncrease(b)
             /\ \A a \in numbers(b) : a \in Nat /\ sent < a /\ a <= sent + messageCount(b)
             /\ IsMessage(Head(b)) => Head(b).n \in numbers(b)
  <2>1. /\ b \in Seq(PacketSet) /\ Len(b) = k /\ b # <<>> /\ DOMAIN b = 1..k /\ Head(b) = b[1] /\ 1 \in 1..k
        /\ \A i \in 1..k : b[i].type = "message" /\ b[i].n = sent + i
    <3>1. \A i \in 1..k : /\ Packet("message", sent + i) \in PacketSet
                          /\ Packet("message", sent + i).type = "message" /\ Packet("message", sent + i).n = sent + i
      <4>1. \A i \in 1..k : sent + i \in Nat
        BY <1>0
      <4>. QED BY Zenon, <4>1 DEF Packet, PacketSet
    <3>2. /\ DOMAIN b = 1..k /\ \A i \in 1..k : b[i] = Packet("message", sent + i)
      BY Zenon, <1>2
    <3>3. \A i \in 1..k : b[i].type = "message" /\ b[i].n = sent + i
      BY Zenon, <3>1, <3>2
    <3>4. b \in Seq(PacketSet) /\ Len(b) = k
      BY <1>2, <3>1
    <3>5. b # <<>> /\ Head(b) = b[1] /\ 1 \in 1..k
      BY <3>4
    <3>. QED BY Zenon, <3>2, <3>3, <3>4, <3>5
  <2>2. messageCount(b) = k
    BY Zenon, <2>1 DEF messageCount, IsMessage
  <2>3. \A i \in 1..k : sent + i \in Nat /\ sent < sent + i /\ sent + i <= sent + k
    BY <1>0
  <2>4. \A i, j \in 1..k : i < j => sent + i < sent + j
    BY <1>0
  <2>9. DOMAIN b = 1..k /\ \A i \in 1..k : b[i].n = sent + i
    BY Zenon, <2>1
  <2>5. MessagesIncrease(b)
    BY <2>4, <2>9 DEF MessagesIncrease
  <2>6. \A a \in numbers(b) : a \in Nat /\ sent < a /\ a <= sent + k
    BY Zenon, <2>3, <2>9 DEF numbers
  <2>7. Head(b).n \in numbers(b)
    BY Zenon, <2>1 DEF numbers, IsMessage
  <2>8. k \in Nat
    OBVIOUS
  <2>. QED BY Zenon, <2>1, <2>2, <2>5, <2>6, <2>7, <2>8
<1>4. CASE \E t \in Controls : b = <<Control(t)>>
  BY Zenon, <1>1, <1>4
<1>5. CASE \E k \in {1, 2} : b = [i \in 1..k |-> Packet("message", sent + i)]
  BY Zenon, <1>1, <1>2, <1>5
<1>. QED BY Zenon, <1>4, <1>5

(* A POST arrives; it has messages only while no socket is open.           *)
LEMMA PostStartStep == ASSUME InInv, NEW b \in Bodies, PostStart(b) PROVE InInv'
<1>. USE DEF InInv
<1>. DEFINE k == messageCount(b)
<1>1. /\ post = <<>> /\ post' = b /\ sent' = sent + k
      /\ UNCHANGED <<inbox, handled, posting, wsIn, upg, current, reader>>
  BY Zenon DEF PostStart, manager, polling, pumps
<1>2. \/ \E t \in Controls : b = <<Control(t)>>
      \/ ~onSocket /\ \E j \in {1, 2} : b = [i \in 1..j |-> Packet("message", sent + i)]
  BY Zenon DEF Bodies, Controls
<1>3. /\ b \in Seq(PacketSet) \ {<<>>} /\ k \in Nat /\ MessagesIncrease(b)
      /\ \A a \in numbers(b) : a \in Nat /\ sent < a /\ a <= sent + k
      /\ numbers(b) = {} \/ ~onSocket
  <2>1. /\ b \in Seq(PacketSet) \ {<<>>} /\ k \in Nat /\ MessagesIncrease(b)
        /\ \A a \in numbers(b) : a \in Nat /\ sent < a /\ a <= sent + k
        /\ \A t \in Controls : b = <<Control(t)>> => numbers(b) = {}
    BY Zenon, <1>2, SentPackets
  <2>. QED BY Zenon, <1>2, <2>1
<1>. HIDE DEF k
<1>4. sent \in Nat /\ sent + k \in Nat /\ b # <<>> /\ b \in Seq(PacketSet)
  BY <1>3 DEF InTypes
<1>5. InTypes'
  BY Zenon, <1>1, <1>3, <1>4 DEF InTypes
<1>6. UpTo(Range(handled), sent) /\ UpTo(Range(inbox), sent) /\ \A u \in Upgrades : UpTo(numbers(heads(wsIn[u])), sent)
  BY Zenon DEF InOrder, UpTo
<1>7. /\ Less(Range(handled), numbers(b)) /\ Less(Range(inbox), numbers(b))
      /\ UpTo(Range(handled), sent + k) /\ UpTo(Range(inbox), sent + k) /\ UpTo(numbers(b), sent + k)
      /\ \A u \in Upgrades : UpTo(numbers(heads(wsIn[u])), sent + k)
  <2>1. numbers(b) \in SUBSET Nat
    BY Zenon, <1>3
  <2>. QED BY Zenon, <1>3, <1>4, <1>6, <2>1, NumbersAreNat, NewIsAbove
<1>8. UpTo(Range(handled) \cup Range(inbox) \cup numbers(b), sent + k)
  BY Zenon, <1>7 DEF UpTo
<1>9. current = Poll \/ reader = Poll => Less(Range(handled), Range(inbox) \cup numbers(b))
  BY Zenon, <1>7 DEF InOrder, Less
<1>10. \A u \in Upgrades : onSocketOf(u) => Less(Range(inbox) \cup numbers(b), numbers(heads(wsIn[u])))
  BY Zenon, <1>3 DEF InOrder, Less, onSocket, onSocketOf
<1>11. ~posting
  BY Zenon, <1>1 DEF InOrder
<1>. QED BY Zenon, <1>1, <1>3, <1>5, <1>7, <1>8, <1>9, <1>10, <1>11 DEF InOrder, onSocketOf

(* deliverInbound puts a message at the end of the inbox, or the POST ends. *)
LEMMA DeliverInboundStep == ASSUME InInv, deliverInbound PROVE InInv'
<1>. USE DEF InInv
<1>. DEFINE h == Head(post).n
            t == Tail(post)
<1>1. /\ posting /\ posting' = FALSE /\ post # <<>> /\ IsMessage(Head(post))
      /\ UNCHANGED <<handled, sent, wsIn, upg, current, reader>>
      /\ \/ inbox' = Append(inbox, h) /\ post' = t
         \/ inbox' = inbox /\ post' = <<>>
  BY Zenon DEF deliverInbound, InOrder, manager, pumps, peer
<1>2. /\ Head(post) \in PacketSet /\ t \in Seq(PacketSet) /\ MessagesIncrease(t)
      /\ numbers(t) \subseteq numbers(post) /\ h \in numbers(post) /\ Less({h}, numbers(t))
  BY Zenon, <1>1, PacketsTail DEF InTypes, InOrder
<1>3. h \in Nat
  BY Zenon, <1>2 DEF PacketSet
<1>. HIDE DEF h, t
<1>4. CASE inbox' = inbox /\ post' = <<>>
  BY Zenon, <1>1, <1>4, EmptyFacts, PostShrinks
<1>5. CASE inbox' = Append(inbox, h) /\ post' = t
  <2>1. Less(Range(inbox), {h})
    BY Zenon, <1>2 DEF InOrder, Less
  <2>2. inbox' \in Seq(Nat) /\ Range(inbox') = Range(inbox) \cup {h} /\ Increasing(inbox')
    BY Zenon, <1>3, <1>5, <2>1, NumbersPush DEF InTypes, InOrder
  <2>3. InTypes'
    BY Zenon, <1>1, <1>2, <1>5, <2>2 DEF InTypes
  <2>4. Range(inbox') \cup numbers(t) \subseteq Range(inbox) \cup numbers(post)
    BY Zenon, <1>2, <2>2
  <2>5. UpTo(Range(handled) \cup Range(inbox') \cup numbers(t), sent)
    BY Zenon, <2>4 DEF InOrder, UpTo
  <2>6. Less(Range(inbox'), numbers(t))
    BY Zenon, <1>2, <2>2 DEF InOrder, Less
  <2>7. current = Poll \/ reader = Poll => Less(Range(handled), Range(inbox') \cup numbers(t))
    BY Zenon, <2>4 DEF InOrder, Less
  <2>8. \A u \in Upgrades : onSocketOf(u) => Less(Range(inbox') \cup numbers(t), numbers(heads(wsIn[u])))
    BY Zenon, <2>4 DEF InOrder, Less
  <2>. QED BY Zenon, <1>1, <1>2, <1>5, <2>2, <2>3, <2>5, <2>6, <2>7, <2>8 DEF InOrder, onSocketOf
<1>. QED BY Zenon, <1>1, <1>4, <1>5

(* The peer sends a frame on an open socket.                               *)
LEMMA PeerSendsStep == ASSUME InInv, NEW u \in Upgrades, NEW f \in Frames, PeerSends(u, f) PROVE InInv'
<1>. USE DEF InInv
<1>. DEFINE k == messageCount(f)
            w == wsIn[u]
            N == numbers(heads(w))
<1>1. /\ onSocketOf(u) /\ wsIn' = [wsIn EXCEPT ![u] = Append(w, f)] /\ sent' = sent + k
      /\ UNCHANGED <<inbox, handled, post, posting, upg, current, reader>>
  BY Zenon DEF PeerSends, onSocketOf, manager, polling, pumps, http
<1>2. /\ f \in Seq(PacketSet) \ {<<>>} /\ k \in Nat
      /\ \A a \in numbers(f) : a \in Nat /\ sent < a /\ a <= sent + k
      /\ IsMessage(Head(f)) => Head(f).n \in numbers(f)
  <2>1. \/ \E t \in Controls : f = <<Control(t)>>
        \/ \E j \in {1, 2} : f = [i \in 1..j |-> Packet("message", sent + i)]
    BY Zenon DEF Frames, Controls
  <2>. QED BY Zenon, <2>1, SentPackets
<1>. HIDE DEF k
<1>3. /\ w \in Seq(Seq(PacketSet) \ {<<>>}) /\ heads(w) \in Seq(PacketSet) /\ Head(f) \in PacketSet
      /\ heads(Append(w, f)) = Append(heads(w), Head(f)) /\ Append(w, f) \in Seq(Seq(PacketSet) \ {<<>>})
  <2>1. w \in Seq(Seq(PacketSet) \ {<<>>})
    BY Zenon DEF InTypes
  <2>2. Head(f) \in PacketSet
    BY <1>2
  <2>. QED BY Zenon, <1>2, <2>1, <2>2, HeadsFacts
<1>4. sent \in Nat /\ sent + k \in Nat
  BY <1>2 DEF InTypes
<1>5. /\ wsIn' \in [Upgrades -> Seq(Seq(PacketSet) \ {<<>>})] /\ wsIn'[u] = Append(w, f)
      /\ \A v \in Upgrades : v # u => wsIn'[v] = wsIn[v]
  BY Zenon, <1>1, <1>3 DEF InTypes
<1>6. InTypes'
  BY Zenon, <1>1, <1>4, <1>5 DEF InTypes
<1>. DEFINE old == Range(handled) \cup Range(inbox) \cup numbers(post)
            new == {a \in numbers(f) : IsMessage(Head(f)) /\ a = Head(f).n}
            N2 == numbers(heads(Append(w, f)))
<1>7. new \in SUBSET Nat /\ \A a \in new : sent < a /\ a <= sent + k
  BY Zenon, <1>2
<1>8. /\ Less(old, new) /\ UpTo(old, sent + k) /\ Less(N, new) /\ UpTo(new, sent + k)
      /\ \A v \in Upgrades : UpTo(numbers(heads(wsIn[v])), sent + k)
  <2>1. old \in SUBSET Nat /\ UpTo(old, sent) /\ \A v \in Upgrades : numbers(heads(wsIn[v])) \in SUBSET Nat
    BY Zenon, NumbersAreNat DEF InOrder
  <2>2. \A v \in Upgrades : UpTo(numbers(heads(wsIn[v])), sent)
    BY Zenon DEF InOrder
  <2>. QED BY Zenon, <1>2, <1>4, <1>7, <2>1, <2>2, NewIsAbove
<1>9. MessagesIncrease(heads(Append(w, f))) /\ \A a \in N2 : a \in N \cup new
  <2>1. IsMessage(Head(f)) => Less(N, {Head(f).n})
    BY Zenon, <1>2, <1>8 DEF Less
  <2>2. MessagesIncrease(heads(w))
    BY Zenon DEF InOrder
  <2>3. /\ MessagesIncrease(Append(heads(w), Head(f)))
        /\ \A a \in numbers(Append(heads(w), Head(f))) : a \in N \/ (IsMessage(Head(f)) /\ a = Head(f).n)
    BY Zenon, <1>3, <2>1, <2>2, PacketsPush
  <2>4. MessagesIncrease(heads(Append(w, f))) /\ \A a \in N2 : a \in N \/ (IsMessage(Head(f)) /\ a = Head(f).n)
    BY Zenon, <1>3, <2>3
  <2>. QED BY Zenon, <1>2, <2>4
<1>. HIDE DEF new, N2
<1>10. UpTo(N2, sent + k)
  BY Zenon, <1>8, <1>9 DEF UpTo
<1>11. \A v \in Upgrades : MessagesIncrease(heads(wsIn'[v])) /\ UpTo(numbers(heads(wsIn'[v])), sent + k)
  BY Zenon, <1>5, <1>8, <1>9, <1>10 DEF N2, InOrder
<1>12. Less(Range(inbox) \cup numbers(post), N2) /\ (current \in {Poll, u} => Less(Range(handled), N2))
  BY Zenon, <1>1, <1>8, <1>9 DEF InOrder, Less
<1>13. \A v \in Upgrades : onSocketOf(v) => Less(Range(inbox) \cup numbers(post), numbers(heads(wsIn'[v])))
  BY Zenon, <1>5, <1>12 DEF N2, InOrder
<1>14. \A v \in Upgrades : onSocketOf(v) /\ current \in {Poll, v} => Less(Range(handled), numbers(heads(wsIn'[v])))
  BY Zenon, <1>5, <1>12 DEF N2, InOrder
<1>15. \A v \in Upgrades : upg[v] = "idle" => wsIn'[v] = <<>>
  BY Zenon, <1>1, <1>5 DEF InOrder, onSocketOf
<1>. QED BY Zenon, <1>1, <1>6, <1>8, <1>11, <1>13, <1>14, <1>15 DEF InOrder, onSocketOf

(* Every step keeps the messages of the peer in order.                     *)
LEMMA InInvStep == OneWinner /\ HoldsActive /\ InInv /\ [Next]_vars => InInv'
<1>. SUFFICES ASSUME OneWinner, HoldsActive, InInv, [Next]_vars PROVE InInv'
  BY Zenon
<1>1. ASSUME UNCHANGED <<inbox, handled, sent, post, posting, wsIn, upg, current>>,
             reader' \in {reader, "armed", "idle", "ended", "done", current}
      PROVE  InInv'
  BY Zenon, <1>1, CalmIn, TransportsDiffer
<1>2. CASE UNCHANGED vars \/ Writing \/ Emit \/ Ping
  <2>1. UNCHANGED <<inbox, handled, sent, post, posting, wsIn, upg, current, reader>>
    BY Zenon, <1>2 DEF vars, manager, polling, pumps, http, peer,
       Writing, WriteCall, Write, WriteEnds, SendClose, Emit, Ping
  <2>. QED BY Zenon, <1>1, <2>1
<1>3. CASE AttachRefused \/ StartPumps \/ OnPong \/ ReadCall \/ ReadEOF \/ ReadUpgraded \/ ReadPumpReturns
  <2>1. UNCHANGED <<inbox, handled, sent, post, posting, wsIn, upg, current>>
    BY Zenon, <1>3 DEF manager, polling, http, peer,
       AttachRefused, StartPumps, OnPong, ReadCall, ReadEOF, ReadUpgraded, ReadPumpReturns
  <2>2. reader' \in {reader, "armed", "idle", "ended", "done", current}
    BY Zenon, <1>3 DEF AttachRefused, StartPumps, OnPong, ReadCall, ReadEOF, ReadUpgraded, ReadPumpReturns
  <2>. QED BY Zenon, <1>1, <2>1, <2>2
<1>4. ASSUME NEW t \in Transports, ReadTimeout(t) \/ ReadFails(t) PROVE InInv'
  <2>1. UNCHANGED <<inbox, handled, sent, post, posting, wsIn, upg, current>>
    BY Zenon, <1>4 DEF manager, polling, http, peer, ReadTimeout, ReadFails
  <2>2. reader' \in {reader, "idle", "ended", "done", current}
    BY Zenon, <1>4 DEF ReadTimeout, ReadFails
  <2>. QED BY Zenon, <1>1, <2>1, <2>2
<1>5. CASE closeRaw \/ CloseActive
  <2>1. UNCHANGED <<inbox, handled, sent, post, posting, wsIn, upg, current, reader>>
    BY Zenon, <1>5 DEF closeRaw, CloseActive, manager, polling, http, peer
  <2>. QED BY Zenon, <1>1, <2>1
<1>6. CASE \E g \in Gets : \/ GetPolling(g) \/ PollStart(g) \/ Abandon(g)
                           \/ PollFrames(g) \/ collectBatch(g) \/ PollEmpty(g) \/ PollTimeout(g)
  <2>1. UNCHANGED <<inbox, handled, sent, post, posting, wsIn, upg, current, reader>>
    BY Zenon, <1>6 DEF manager, polling, pumps, http, peer,
       GetPolling, PollStart, Abandon, PollFrames, collectBatch, PollEmpty, PollTimeout
  <2>. QED BY Zenon, <1>1, <2>1
<1>7. CASE PostPing \/ PostPong \/ PostUpgrade \/ PostClose \/ PostMessage
  <2>1. /\ UNCHANGED <<inbox, handled, sent, wsIn, upg, current, reader>> /\ post # <<>>
        /\ post' \in {post, Tail(post), <<>>}
        /\ posting' => post' = post
        /\ \/ ~IsMessage(Head(post)) /\ posting' = posting
           \/ IsMessage(Head(post))
    <3>1. CASE PostMessage
      BY Zenon, <3>1 DEF PostMessage, manager, polling, pumps, peer, IsMessage
    <3>2. CASE PostPing \/ PostPong \/ PostUpgrade \/ PostClose
      <4>1. ~IsMessage(Head(post)) /\ posting' = posting
        BY Zenon, <3>2 DEF PostPing, PostPong, PostUpgrade, PostClose, IsMessage
      <4>2. ~posting
        BY Zenon, <4>1 DEF InInv, InOrder
      <4>. QED BY Zenon, <3>2, <4>1, <4>2 DEF PostPing, PostPong, PostUpgrade, PostClose, manager, polling, pumps, peer
    <3>. QED BY Zenon, <1>7, <3>1, <3>2
  <2>2. /\ post \in Seq(PacketSet) /\ MessagesIncrease(post) /\ Tail(post) \in Seq(PacketSet)
        /\ MessagesIncrease(Tail(post)) /\ numbers(Tail(post)) \subseteq numbers(post)
    BY Zenon, <2>1, PacketsTail DEF InInv, InTypes, InOrder
  <2>3. post' \in Seq(PacketSet) /\ MessagesIncrease(post') /\ numbers(post') \subseteq numbers(post)
    BY Zenon, <2>1, <2>2, EmptyFacts
  <2>4. posting' => post' # <<>> /\ IsMessage(Head(post'))
    BY Zenon, <2>1 DEF InInv, InOrder
  <2>. QED BY Zenon, <2>1, <2>3, <2>4, PostShrinks
<1>8. ASSUME NEW u \in Upgrades, UpgradeRequest(u) \/ applyUpgrade(u) \/ Noop(u) \/ signalUpgrade(u) PROVE InInv'
  <2>1. /\ UNCHANGED <<inbox, handled, sent, post, posting, wsIn, current, reader>>
        /\ \E s \in Winners \cup {"open", "refused"} : upg' = [upg EXCEPT ![u] = s]
        /\ (upg[u] \in Winners \cup {"open"} \/ upg[u] = "idle")
    BY Zenon, <1>8 DEF UpgradeRequest, applyUpgrade, Noop, signalUpgrade, setStep, Winners, polling, pumps, http, peer
  <2>2. upg[u] = "idle" => wsIn[u] = <<>>
    BY Zenon DEF InInv, InOrder
  <2>3. \A v \in Upgrades : v # u => upg'[v] = upg[v]
    BY Zenon, <2>1 DEF OneWinner
  <2>4. upg'[u] # "idle"
    BY Zenon, <2>1 DEF OneWinner, Winners
  <2>5. onSocketOf(u) \/ wsIn[u] = <<>>
    BY Zenon, <2>1, <2>2 DEF onSocketOf, Winners
  <2>6. \A v \in Upgrades : onSocketOf(v)' => onSocketOf(v) \/ wsIn[v] = <<>>
    BY Zenon, <2>3, <2>5 DEF onSocketOf
  <2>. QED BY Zenon, <2>1, <2>3, <2>4, <2>6, RequestMoves
<1>9. ASSUME NEW u \in Upgrades, Swap(u) PROVE InInv'
  <2>1. /\ upg[u] = "swap" /\ upg' = [upg EXCEPT ![u] = "noop"] /\ current' = u
        /\ UNCHANGED <<inbox, handled, sent, post, posting, wsIn, reader>>
    BY Zenon, <1>9 DEF Swap, setStep, polling, pumps, http, peer
  <2>2. current = Poll /\ u # Poll /\ \A v \in Upgrades : v # u => upg'[v] = upg[v]
    BY Zenon, <2>1, TransportsDiffer DEF OneWinner, Winners, Swapped
  <2>3. upg'[u] = "noop"
    BY Zenon, <2>1 DEF OneWinner
  <2>4. onSocketOf(u) /\ \A v \in Upgrades : onSocketOf(v)' => onSocketOf(v)
    BY Zenon, <2>1, <2>2 DEF onSocketOf
  <2>5. \A v \in Upgrades : current' \in {Poll, v} => v = u
    BY Zenon, <2>1, <2>2
  <2>6. InTypes'
    BY Zenon, <2>1 DEF InInv, InTypes
  <2>7. \A v \in Upgrades : upg'[v] = "idle" => upg[v] = "idle"
    BY Zenon, <2>2, <2>3
  <2>. QED BY Zenon, <2>1, <2>2, <2>4, <2>5, <2>6, <2>7 DEF InInv, InOrder
<1>10. \A u \in Upgrades : u \in Transports
  BY Zenon, TransportsDiffer
<1>. QED BY Zenon, <1>2, <1>3, <1>4, <1>5, <1>6, <1>7, <1>8, <1>9, <1>10, ReadInboxStep, ReadFrameStep,
            PostStartStep, DeliverInboundStep, PeerSendsStep
         DEF Next, Reading, Posting, Upgrading

(* Nothing has been sent.                                                  *)
LEMMA InInvInit == Init => InInv
<1>. SUFFICES ASSUME Init PROVE InInv
  BY Zenon
<1>1. /\ inbox = <<>> /\ handled = <<>> /\ post = <<>> /\ posting = FALSE /\ sent = 0
      /\ wsIn = [u \in Upgrades |-> <<>>] /\ current = Poll
  BY Zenon DEF Init
<1>2. Range(<<>>) = {} /\ Increasing(<<>>) /\ <<>> \in Seq(Nat) /\ 0 \in Nat
  BY DEF Range, Increasing
<1>3. InTypes
  BY Zenon, <1>1, <1>2, EmptyFacts DEF InTypes
<1>. QED BY Zenon, <1>1, <1>2, <1>3, EmptyFacts DEF InInv, InOrder, UpTo, Less

(* Whatever POSTs, upgrade requests and socket frames interleave,          *)
(* onMessage gets the messages of the peer in the order they were sent and *)
(* none twice: the inbox is older than every socket, and the reader that   *)
(* has moved to the socket never comes back to the inbox.                  *)
THEOREM HandledAreInOrder == Spec => []HandledInOrder
<1>1. InInv => HandledInOrder
  BY Zenon DEF InInv, InOrder, HandledInOrder
<1>. QED BY <1>1, AlwaysOneWinner, AlwaysHoldsActive, InInvInit, InInvStep, PTL DEF Spec
-----------------------------------------------------------------------------
(* The messages of an outbox, and that they are in order.                  *)
Queued(s) == Range(s) \ {ControlPacket}
Rises(s) == \A i, j \in DOMAIN s : i < j /\ s[i] # ControlPacket /\ s[j] # ControlPacket => s[i] < s[j]

(* A control packet changes nothing of this; a message above the others is *)
(* one more.                                                               *)
LEMMA OutboxPush ==
  ASSUME NEW s \in Seq(Nat), NEW e \in Nat, Rises(s), e = ControlPacket \/ Less(Queued(s), {e})
  PROVE  /\ Append(s, e) \in Seq(Nat) /\ Rises(Append(s, e))
         /\ Queued(Append(s, e)) = Queued(s) \cup ({e} \ {ControlPacket})
<1>. DEFINE n == Len(s) + 1
            t == Append(s, e)
<1>1. /\ t \in Seq(Nat) /\ DOMAIN t = DOMAIN s \cup {n} /\ t[n] = e
      /\ \A i \in DOMAIN s : t[i] = s[i] /\ ~(n < i)
      /\ ~(n < n)
  BY Zenon, PushFacts
<1>2. Range(t) = Range(s) \cup {e}
  BY Zenon, NumbersPush
<1>. HIDE DEF t, n
<1>3. Queued(t) = Queued(s) \cup ({e} \ {ControlPacket})
  BY Zenon, <1>2 DEF Queued
<1>4. Rises(t)
  <2>. SUFFICES ASSUME NEW i \in DOMAIN t, NEW j \in DOMAIN t, i < j, t[i] # ControlPacket, t[j] # ControlPacket
                PROVE  t[i] < t[j]
    BY Zenon DEF Rises
  <2>1. i \in DOMAIN s /\ t[i] = s[i]
    BY Zenon, <1>1
  <2>2. CASE j \in DOMAIN s
    BY Zenon, <1>1, <2>1, <2>2 DEF Rises
  <2>3. CASE j = n
    <3>1. s[i] \in Queued(s)
      BY Zenon, <2>1 DEF Queued, Range
    <3>. QED BY Zenon, <1>1, <2>1, <2>3, <3>1 DEF Less
  <2>. QED BY Zenon, <1>1, <2>2, <2>3
<1>. QED BY Zenon, <1>1, <1>3, <1>4 DEF t
-----------------------------------------------------------------------------
OutTypes ==
  /\ got \in Seq(Nat) /\ outbox \in Seq(Nat) /\ send \in Seq(Nat) /\ emitted \in Nat
  /\ writer \in {"attach", "idle", "closing", "done", Poll}

(* The first top messages the server queued were written to the outbox and *)
(* are there, at the peer or lost.  The next ones are in the send queue,    *)
(* until a failed write ends WritePump.                                     *)
Written(top) ==
  /\ Increasing(got) /\ Rises(outbox) /\ Less(Range(got), Queued(outbox))
  /\ Range(got) \cup lost \cup Queued(outbox) = 1..top
  /\ writer \in {"attach", "idle", Poll} =>
       emitted = top + Len(send) /\ \A i \in DOMAIN send : send[i] = top + i
  /\ writer = Poll => send # <<>>

OutOrder == OutTypes /\ \E top \in Nat : Written(top)
OutInv == current = Poll => OutOrder

(* Steps that move no message of the server.                               *)
LEMMA CalmOut ==
  ASSUME OutOrder, UNCHANGED <<got, send, emitted, lost>>, outbox' \in {outbox, Append(outbox, ControlPacket)},
         \/ writer' = writer
         \/ writer' = "idle" /\ writer \in {"attach", "idle"}
         \/ writer' \in {"closing", "done"}
         \/ writer' = Poll /\ writer = "idle" /\ send # <<>>
  PROVE  OutOrder'
<1>1. PICK top \in Nat : Written(top)
  BY Zenon DEF OutOrder
<1>2. /\ outbox' \in Seq(Nat) /\ Rises(outbox') /\ Queued(outbox') = Queued(outbox)
  <2>1. ControlPacket \in Nat /\ {ControlPacket} \ {ControlPacket} = {}
    BY DEF ControlPacket
  <2>2. outbox \in Seq(Nat) /\ Rises(outbox)
    BY Zenon, <1>1 DEF OutOrder, OutTypes, Written
  <2>3. /\ Append(outbox, ControlPacket) \in Seq(Nat) /\ Rises(Append(outbox, ControlPacket))
        /\ Queued(Append(outbox, ControlPacket)) = Queued(outbox) \cup ({ControlPacket} \ {ControlPacket})
    BY Zenon, <2>1, <2>2, OutboxPush
  <2>. QED BY Zenon, <2>1, <2>2, <2>3
<1>3. OutTypes'
  BY Zenon, <1>2 DEF OutOrder, OutTypes
<1>4. Poll \notin {"attach", "idle", "closing", "done"}
  BY Zenon, TransportsDiffer
<1>5. writer' \in {"attach", "idle", Poll} => writer \in {"attach", "idle", Poll}
  BY Zenon, <1>4
<1>6. writer' = Poll => send # <<>>
  BY Zenon, <1>1, <1>4 DEF Written
<1>7. Written(top)'
  BY Zenon, <1>1, <1>2, <1>5, <1>6 DEF Written
<1>. QED BY Zenon, <1>3, <1>7 DEF OutOrder

(* The numbers that follow a, when the first is taken or one is appended.  *)
LEMMA FollowTail ==
  ASSUME NEW s \in Seq(Nat), s # <<>>, NEW a \in Nat, \A i \in DOMAIN s : s[i] = a + i
  PROVE  /\ Head(s) = a + 1 /\ a + 1 \in Nat /\ Tail(s) \in Seq(Nat) /\ a + Len(s) = (a + 1) + Len(Tail(s))
         /\ \A i \in DOMAIN Tail(s) : Tail(s)[i] = (a + 1) + i
<1>1. /\ Head(s) = s[1] /\ 1 \in DOMAIN s /\ Tail(s) \in Seq(Nat) /\ Len(s) \in Nat /\ Len(Tail(s)) = Len(s) - 1
      /\ \A i \in DOMAIN Tail(s) : i \in Nat /\ i + 1 \in DOMAIN s /\ Tail(s)[i] = s[i + 1]
  OBVIOUS
<1>2. \A i \in Nat : a + (i + 1) = (a + 1) + i
  OBVIOUS
<1>3. \A i \in DOMAIN Tail(s) : Tail(s)[i] = (a + 1) + i
  BY Zenon, <1>1, <1>2
<1>4. a + Len(s) = (a + 1) + (Len(s) - 1) /\ a + 1 \in Nat
  BY ONLY <1>1, a \in Nat
<1>. QED BY Zenon, <1>1, <1>3, <1>4

(* One message more at the end of a run.                                   *)
LEMMA FollowPush ==
  ASSUME NEW s \in Seq(Nat), NEW a \in Nat, NEW n \in Nat, n = a + Len(s), \A i \in DOMAIN s : s[i] = a + i
  PROVE  /\ n + 1 = a + Len(Append(s, n + 1))
         /\ \A i \in DOMAIN Append(s, n + 1) : Append(s, n + 1)[i] = a + i
<1>1. /\ Len(s) \in Nat /\ Len(Append(s, n + 1)) = Len(s) + 1 /\ Append(s, n + 1)[Len(s) + 1] = n + 1
      /\ \A i \in DOMAIN Append(s, n + 1) : i = Len(s) + 1 \/ (i \in DOMAIN s /\ Append(s, n + 1)[i] = s[i])
  OBVIOUS
<1>2. n + 1 = a + (Len(s) + 1)
  BY ONLY <1>1, a \in Nat, n = a + Len(s)
<1>. QED BY Zenon, <1>1, <1>2

(* A message queued by the server comes after the others.                  *)
LEMMA EmitStep == ASSUME OutOrder, Emit PROVE OutOrder'
<1>1. PICK top \in Nat : Written(top)
  BY Zenon DEF OutOrder
<1>2. /\ writer # "attach" /\ emitted' = emitted + 1 /\ send' = Append(send, emitted + 1)
      /\ UNCHANGED <<outbox, writer, got, lost>>
  BY Zenon DEF Emit, polling
<1>3. send \in Seq(Nat) /\ emitted \in Nat /\ emitted + 1 \in Nat
  <2>1. send \in Seq(Nat) /\ emitted \in Nat
    BY Zenon DEF OutOrder, OutTypes
  <2>. QED BY <2>1
<1>4. send' \in Seq(Nat) /\ send' # <<>> /\ Len(send') = Len(send) + 1
  BY <1>2, <1>3
<1>5. ASSUME emitted = top + Len(send), \A i \in DOMAIN send : send[i] = top + i
      PROVE  emitted' = top + Len(send') /\ \A i \in DOMAIN send' : send'[i] = top + i
  <2>. DEFINE p == Append(send, emitted + 1)
  <2>1. emitted + 1 = top + Len(p) /\ \A i \in DOMAIN p : p[i] = top + i
    BY Zenon, <1>3, <1>5, FollowPush
  <2>. HIDE DEF p
  <2>2. send' = p
    BY Zenon, <1>2 DEF p
  <2>. QED BY Zenon, <1>2, <2>1, <2>2
<1>6. OutTypes'
  BY Zenon, <1>2, <1>3, <1>4 DEF OutOrder, OutTypes
<1>7. Written(top)'
  BY Zenon, <1>1, <1>2, <1>4, <1>5 DEF Written
<1>. QED BY Zenon, <1>6, <1>7 DEF OutOrder

(* WritePump moves the first message of its queue to the outbox, or drops  *)
(* it and ends.                                                            *)
LEMMA WriteStep == ASSUME OutOrder, writer = Poll, Write PROVE OutOrder'
<1>1. PICK top \in Nat : Written(top)
  BY Zenon DEF OutOrder
<1>. DEFINE e == Head(send)
            t == Tail(send)
<1>2. /\ send' = t /\ UNCHANGED <<emitted, got, lost>>
      /\ \/ outbox' = Append(outbox, e) /\ writer' = "idle"
         \/ outbox' = outbox /\ writer' = "closing"
  BY Zenon DEF Write, enqueueOutbound
<1>3. /\ send \in Seq(Nat) /\ send # <<>> /\ emitted \in Nat /\ outbox \in Seq(Nat) /\ got \in Seq(Nat)
      /\ emitted = top + Len(send) /\ \A i \in DOMAIN send : send[i] = top + i
  BY Zenon, <1>1 DEF OutOrder, OutTypes, Written
<1>4. /\ e \in Nat /\ t \in Seq(Nat) /\ e = top + 1 /\ top + 1 \in Nat
      /\ emitted = (top + 1) + Len(t) /\ \A i \in DOMAIN t : t[i] = (top + 1) + i
  <2>1. /\ e = top + 1 /\ top + 1 \in Nat /\ t \in Seq(Nat) /\ top + Len(send) = (top + 1) + Len(t)
        /\ \A i \in DOMAIN t : t[i] = (top + 1) + i
    BY Zenon, <1>3, FollowTail
  <2>. HIDE DEF e, t
  <2>. QED BY Zenon, <1>3, <2>1
<1>5. 1..(top + 1) = 1..top \cup {top + 1} /\ top + 1 # ControlPacket /\ \A a \in 1..top : a < top + 1
  BY DEF ControlPacket
<1>6. Poll \notin {"attach", "idle", "closing", "done"}
  BY Zenon, TransportsDiffer
<1>. HIDE DEF e, t
<1>7. CASE outbox' = Append(outbox, e) /\ writer' = "idle"
  <2>1. Less(Queued(outbox), {e}) /\ Less(Range(got), {e}) /\ {e} \ {ControlPacket} = {e}
    BY Zenon, <1>1, <1>4, <1>5 DEF Written, Less
  <2>2. /\ outbox' \in Seq(Nat) /\ Rises(outbox') /\ Queued(outbox') = Queued(outbox) \cup {e}
    <3>1. Rises(outbox)
      BY Zenon, <1>1 DEF Written
    <3>2. /\ Append(outbox, e) \in Seq(Nat) /\ Rises(Append(outbox, e))
          /\ Queued(Append(outbox, e)) = Queued(outbox) \cup ({e} \ {ControlPacket})
      <4>1. outbox \in Seq(Nat) /\ e \in Nat
        BY Zenon, <1>3, <1>4
      <4>. QED BY Zenon, <2>1, <3>1, <4>1, OutboxPush
    <3>. QED BY Zenon, <1>7, <2>1, <3>2
  <2>3. OutTypes'
    BY Zenon, <1>2, <1>3, <1>4, <1>7, <2>2 DEF OutTypes
  <2>4. Less(Range(got), Queued(outbox'))
    BY Zenon, <1>1, <2>1, <2>2 DEF Written, Less
  <2>5. Range(got) \cup lost \cup Queued(outbox') = 1..(top + 1)
    BY Zenon, <1>1, <1>4, <1>5, <2>2 DEF Written
  <2>6. Written(top + 1)'
    BY Zenon, <1>1, <1>2, <1>4, <1>6, <1>7, <2>2, <2>4, <2>5 DEF Written
  <2>. QED BY Zenon, <1>4, <2>3, <2>6 DEF OutOrder
<1>8. CASE outbox' = outbox /\ writer' = "closing"
  <2>1. OutTypes'
    BY Zenon, <1>2, <1>3, <1>4, <1>8 DEF OutTypes
  <2>2. Written(top)'
    BY Zenon, <1>1, <1>2, <1>6, <1>8 DEF Written
  <2>. QED BY Zenon, <2>1, <2>2 DEF OutOrder
<1>. QED BY Zenon, <1>2, <1>7, <1>8

(* The first packet of an outbox and the rest.                             *)
LEMMA OutboxTail ==
  ASSUME NEW s \in Seq(Nat), s # <<>>, Rises(s)
  PROVE  /\ Head(s) \in Nat /\ Tail(s) \in Seq(Nat) /\ Rises(Tail(s))
         /\ Queued(s) = Queued(Tail(s)) \cup ({Head(s)} \ {ControlPacket})
         /\ Head(s) # ControlPacket => Less({Head(s)}, Queued(Tail(s)))
<1>. DEFINE t == Tail(s)
<1>1. /\ Head(s) \in Nat /\ t \in Seq(Nat) /\ 1 \in DOMAIN s /\ Head(s) = s[1]
      /\ \A i \in DOMAIN t : i + 1 \in DOMAIN s /\ t[i] = s[i + 1] /\ 1 < i + 1
      /\ \A i, j \in DOMAIN t : i < j => i + 1 < j + 1
  BY Zenon, TailFacts
<1>2. \A i \in DOMAIN s : i = 1 \/ (i - 1 \in DOMAIN t /\ t[i - 1] = s[i])
  OBVIOUS
<1>. HIDE DEF t
<1>3. Range(s) = Range(t) \cup {Head(s)}
  <2>1. ASSUME NEW i \in DOMAIN s PROVE s[i] \in Range(t) \cup {Head(s)}
    <3>1. CASE i = 1
      BY Zenon, <1>1, <3>1
    <3>2. CASE i - 1 \in DOMAIN t /\ t[i - 1] = s[i]
      BY Zenon, <3>2 DEF Range
    <3>. QED BY Zenon, <1>2, <3>1, <3>2
  <2>2. ASSUME NEW i \in DOMAIN t PROVE t[i] \in Range(s)
    <3>1. i + 1 \in DOMAIN s /\ t[i] = s[i + 1]
      BY Zenon, <1>1
    <3>. QED BY Zenon, <3>1 DEF Range
  <2>3. Head(s) \in Range(s)
    BY Zenon, <1>1 DEF Range
  <2>. QED BY Zenon, <2>1, <2>2, <2>3 DEF Range
<1>4. Rises(t)
  BY Zenon, <1>1 DEF Rises
<1>5. ASSUME Head(s) # ControlPacket, NEW b \in Queued(t) PROVE Head(s) < b
  <2>1. PICK i \in DOMAIN t : b = t[i]
    BY Zenon DEF Queued, Range
  <2>2. b = s[i + 1] /\ i + 1 \in DOMAIN s /\ 1 < i + 1 /\ b # ControlPacket
    BY Zenon, <1>1, <2>1 DEF Queued
  <2>. QED BY Zenon, <1>1, <1>5, <2>2 DEF Rises
<1>. QED BY Zenon, <1>1, <1>3, <1>4, <1>5 DEF Queued, Less, t

(* A GET takes the next packet of the outbox, for the peer or for nobody.  *)
LEMMA ReceiveStep ==
  ASSUME OutOrder, NEW g, outbox # <<>>, receive(g), UNCHANGED <<writer, send, emitted>>
  PROVE  OutOrder'
<1>1. PICK top \in Nat : Written(top)
  BY Zenon DEF OutOrder
<1>. DEFINE h == Head(outbox)
            t == Tail(outbox)
<1>2. /\ outbox' = t
      /\ \/ h # ControlPacket /\ got' = Append(got, h) /\ lost' = lost
         \/ h = ControlPacket /\ got' = got /\ lost' = lost
         \/ got' = got /\ lost' = lost \cup ({h} \ {ControlPacket})
  <2>1. {h} \ {ControlPacket} = {} <=> h = ControlPacket
    BY Zenon
  <2>. QED BY Zenon, <2>1 DEF receive
<1>3. /\ outbox \in Seq(Nat) /\ got \in Seq(Nat) /\ Rises(outbox) /\ Increasing(got)
      /\ Less(Range(got), Queued(outbox)) /\ Range(got) \cup lost \cup Queued(outbox) = 1..top
  BY Zenon, <1>1 DEF OutOrder, OutTypes, Written
<1>4. /\ h \in Nat /\ t \in Seq(Nat) /\ Rises(t)
      /\ Queued(outbox) = Queued(t) \cup ({h} \ {ControlPacket})
      /\ h # ControlPacket => Less({h}, Queued(t))
  BY Zenon, <1>3, OutboxTail
<1>. HIDE DEF h, t
<1>5. /\ got' \in Seq(Nat) /\ Increasing(got') /\ Less(Range(got'), Queued(t))
      /\ Range(got') \cup lost' \cup Queued(t) = 1..top
  <2>1. CASE h # ControlPacket /\ got' = Append(got, h) /\ lost' = lost
    <3>1. Less(Range(got), {h})
      BY Zenon, <1>3, <1>4, <2>1 DEF Less
    <3>2. /\ Append(got, h) \in Seq(Nat) /\ Range(Append(got, h)) = Range(got) \cup {h}
          /\ Increasing(got) /\ Less(Range(got), {h}) => Increasing(Append(got, h))
      BY Zenon, <1>3, <1>4, NumbersPush
    <3>3. Less(Range(got) \cup {h}, Queued(t))
      BY Zenon, <1>3, <1>4, <2>1 DEF Less
    <3>. QED BY Zenon, <1>3, <1>4, <2>1, <3>1, <3>2, <3>3
  <2>2. CASE h = ControlPacket /\ got' = got /\ lost' = lost
    BY Zenon, <1>3, <1>4, <2>2
  <2>3. CASE got' = got /\ lost' = lost \cup ({h} \ {ControlPacket})
    BY Zenon, <1>3, <1>4, <2>3 DEF Less
  <2>. QED BY Zenon, <1>2, <2>1, <2>2, <2>3
<1>6. OutTypes'
  BY Zenon, <1>2, <1>4, <1>5 DEF OutOrder, OutTypes
<1>7. Written(top)'
  BY Zenon, <1>1, <1>2, <1>4, <1>5 DEF Written
<1>. QED BY Zenon, <1>6, <1>7 DEF OutOrder

(* serveTransport starts both pumps at once.                               *)
PumpsStart == reader = "attach" => writer = "attach"

(* Neither pump starts without the other.                                  *)
LEMMA PumpsStartStep == OneWinner /\ PumpsStart /\ [Next]_vars => PumpsStart'
<1>. SUFFICES ASSUME OneWinner, PumpsStart, [Next]_vars, reader' = "attach" PROVE writer' = "attach"
  BY Zenon DEF PumpsStart
<1>1. \A t \in Transports : t # "attach"
  BY Zenon, TransportsDiffer
<1>2. ASSUME UNCHANGED reader, \/ writer' = writer
                               \/ writer \in Transports \cup {"idle", "closing"}
      PROVE  writer' = "attach"
  BY Zenon, <1>1, <1>2 DEF PumpsStart
<1>3. CASE AttachRefused \/ StartPumps \/ OnPong \/ ReadPumpReturns \/ ReadInbox \/ ReadEOF \/ ReadUpgraded
  BY Zenon, <1>3 DEF AttachRefused, StartPumps, OnPong, ReadPumpReturns, ReadInbox, deliver, ReadEOF, ReadUpgraded
<1>4. CASE UNCHANGED vars \/ closeRaw \/ CloseActive \/ Emit \/ Ping \/ Writing
  BY Zenon, <1>2, <1>4 DEF vars, pumps, closeRaw, CloseActive, Emit, Ping, Writing, WriteCall, Write, WriteEnds, SendClose
<1>5. CASE ReadCall \/ (\E t \in Transports : ReadTimeout(t)) \/ (\E u \in Upgrades : ReadFails(u) \/ ReadFrame(u))
  <2>1. UNCHANGED writer /\ (reader = "idle" \/ reader \in Transports)
    BY Zenon, <1>5, TransportsDiffer DEF ReadCall, ReadTimeout, ReadFails, ReadFrame
  <2>2. reader' = reader \/ reader' \in {"idle", "ended", current}
    BY Zenon, <1>5 DEF ReadCall, ReadTimeout, ReadFails, ReadFrame, deliver
  <2>3. reader # "attach"
    BY Zenon, <1>1, <2>1
  <2>4. reader' = current
    BY Zenon, <2>2, <2>3
  <2>. QED BY Zenon, <1>1, <2>4 DEF OneWinner
<1>6. CASE \E g \in Gets : \/ GetPolling(g) \/ PollStart(g) \/ Abandon(g)
                           \/ PollFrames(g) \/ collectBatch(g) \/ PollEmpty(g) \/ PollTimeout(g)
  BY Zenon, <1>2, <1>6 DEF pumps, GetPolling, PollStart, Abandon, PollFrames, collectBatch, PollEmpty, PollTimeout
<1>7. CASE Posting \/ \E b \in Bodies : PostStart(b)
  BY Zenon, <1>2, <1>7 DEF pumps, Posting, PostPing, PostPong, PostUpgrade, PostClose, PostMessage, deliverInbound, PostStart
<1>8. CASE \E u \in Upgrades : UpgradeRequest(u) \/ Upgrading(u) \/ \E f \in Frames : PeerSends(u, f)
  BY Zenon, <1>2, <1>8 DEF pumps, UpgradeRequest, Upgrading, applyUpgrade, Swap, Noop, signalUpgrade, PeerSends
<1>. QED BY Zenon, <1>3, <1>4, <1>5, <1>6, <1>7, <1>8 DEF Next, Reading

(* While polling is the active transport every step keeps the messages of  *)
(* the server in order.                                                    *)
LEMMA OutInvStep == OneWinner /\ PumpsStart /\ OutInv /\ [Next]_vars => OutInv'
<1>. SUFFICES ASSUME OneWinner, PumpsStart, OutInv, [Next]_vars, current' = Poll PROVE OutOrder'
  BY Zenon DEF OutInv
<1>1. ASSUME NEW u \in Upgrades PROVE ~Swap(u)
  <2>. SUFFICES ASSUME Swap(u) PROVE FALSE
    BY Zenon
  <2>. QED BY Zenon, TransportsDiffer DEF Swap
<1>2. current = Poll
  <2>1. UNCHANGED current \/ \E u \in Upgrades : Swap(u)
    BY Zenon DEF vars, manager, Next, AttachRefused, StartPumps, OnPong, Reading, ReadCall, ReadInbox, ReadEOF, ReadUpgraded, ReadFrame,
       ReadPumpReturns, ReadTimeout, closeRaw, CloseActive, Emit, Writing, WriteCall, Write, WriteEnds, SendClose, Ping,
       GetPolling, PollStart, Abandon, PollFrames, collectBatch, PollEmpty, PollTimeout, Posting, PostPing, PostPong, PostUpgrade,
       PostClose, PostMessage, deliverInbound, PostStart, UpgradeRequest, Upgrading, applyUpgrade, Noop, signalUpgrade,
       ReadFails, PeerSends
  <2>. QED BY Zenon, <1>1, <2>1
<1>3. OutOrder /\ Poll \notin {"attach", "idle", "closing", "done"}
  BY Zenon, <1>2, TransportsDiffer DEF OutInv
<1>4. ASSUME UNCHANGED <<writer, outbox, got, send, emitted, lost>> PROVE OutOrder'
  BY Zenon, <1>3, <1>4, CalmOut
<1>5. CASE UNCHANGED vars \/ ReadPumpReturns \/ closeRaw \/ CloseActive
           \/ OnPong \/ ReadCall \/ ReadInbox \/ ReadEOF \/ ReadUpgraded
  <2>1. UNCHANGED <<writer, outbox, got, send, emitted, lost>>
    BY Zenon, <1>5 DEF vars, polling, pumps, peer, OnPong, ReadCall, ReadInbox, ReadEOF, ReadUpgraded, ReadPumpReturns,
       closeRaw, CloseActive
  <2>. QED BY Zenon, <1>4, <2>1
<1>6. CASE \E t \in Transports : ReadTimeout(t) \/ ReadFails(t)
  <2>1. UNCHANGED <<writer, outbox, got, send, emitted, lost>>
    BY Zenon, <1>6 DEF polling, peer, ReadTimeout, ReadFails
  <2>. QED BY Zenon, <1>4, <2>1
<1>7. CASE \E u \in Upgrades : \/ ReadFrame(u) \/ UpgradeRequest(u) \/ applyUpgrade(u) \/ signalUpgrade(u)
                               \/ \E f \in Frames : PeerSends(u, f)
  <2>1. UNCHANGED <<writer, outbox, got, send, emitted, lost>>
    BY Zenon, <1>7 DEF polling, pumps, peer, ReadFrame, UpgradeRequest, applyUpgrade, signalUpgrade, PeerSends
  <2>. QED BY Zenon, <1>4, <2>1
<1>8. CASE PostPong \/ PostUpgrade \/ PostClose \/ PostMessage \/ deliverInbound \/ \E b \in Bodies : PostStart(b)
  <2>1. UNCHANGED <<writer, outbox, got, send, emitted, lost>>
    BY Zenon, <1>8 DEF polling, pumps, peer, PostPong, PostUpgrade, PostClose, PostMessage, deliverInbound, PostStart
  <2>. QED BY Zenon, <1>4, <2>1
<1>9. CASE \E g \in Gets : GetPolling(g) \/ PollStart(g) \/ Abandon(g) \/ PollEmpty(g) \/ PollTimeout(g)
  <2>1. UNCHANGED <<writer, outbox, got, send, emitted, lost>>
    BY Zenon, <1>9 DEF polling, pumps, peer, GetPolling, PollStart, Abandon, PollEmpty, PollTimeout
  <2>. QED BY Zenon, <1>4, <2>1
<1>10. CASE PostPing \/ \E u \in Upgrades : Noop(u)
  <2>1. /\ UNCHANGED <<writer, got, send, emitted, lost>>
        /\ outbox' \in {outbox, Append(outbox, ControlPacket)}
    BY Zenon, <1>10 DEF pumps, peer, PostPing, Noop, enqueueOutbound
  <2>. QED BY Zenon, <1>3, <2>1, CalmOut
<1>11. CASE AttachRefused \/ StartPumps \/ WriteEnds
  <2>1. /\ UNCHANGED <<got, send, emitted, lost>> /\ outbox' = outbox
        /\ (writer' = "idle" /\ writer = "attach") \/ writer' \in {"closing", "done"}
    BY Zenon, <1>11 DEF PumpsStart, polling, peer, AttachRefused, StartPumps, WriteEnds
  <2>. QED BY Zenon, <1>3, <2>1, CalmOut
<1>12. CASE WriteCall
  <2>1. UNCHANGED <<got, send, emitted, lost>> /\ outbox' = outbox /\ writer' = Poll /\ writer = "idle" /\ send # <<>>
    BY Zenon, <1>2, <1>12 DEF polling, peer, WriteCall
  <2>. QED BY Zenon, <1>3, <2>1, CalmOut
<1>13. CASE Ping \/ SendClose
  <2>1. /\ UNCHANGED <<got, send, emitted, lost>> /\ outbox' \in {outbox, Append(outbox, ControlPacket)}
        /\ (writer' = "idle" /\ writer = "idle") \/ writer' \in {"closing", "done"}
    BY Zenon, <1>13 DEF peer, Ping, SendClose, enqueueOutbound
  <2>. QED BY Zenon, <1>3, <2>1, CalmOut
<1>14. CASE Write
  <2>1. writer = Poll
    BY Zenon, <1>3, <1>14, TransportsDiffer DEF Write, OutOrder, OutTypes
  <2>. QED BY Zenon, <1>3, <1>14, <2>1, WriteStep
<1>15. CASE Emit
  BY Zenon, <1>3, <1>15, EmitStep
<1>16. ASSUME NEW g \in Gets, PollFrames(g) \/ collectBatch(g) PROVE OutOrder'
  <2>1. UNCHANGED <<writer, send, emitted>>
    BY Zenon, <1>16 DEF PollFrames, collectBatch, pumps
  <2>2. \/ outbox # <<>> /\ receive(g)
        \/ UNCHANGED <<outbox, got, lost>>
    BY Zenon, <1>16 DEF PollFrames, collectBatch
  <2>3. CASE outbox # <<>> /\ receive(g)
    BY Zenon, <1>3, <2>1, <2>3, ReceiveStep
  <2>4. CASE UNCHANGED <<outbox, got, lost>>
    BY Zenon, <1>4, <2>1, <2>4
  <2>. QED BY Zenon, <2>2, <2>3, <2>4
<1>. QED BY Zenon, <1>1, <1>5, <1>6, <1>7, <1>8, <1>9, <1>10, <1>11, <1>12, <1>13, <1>14, <1>15, <1>16, TransportsDiffer
         DEF Next, Reading, Writing, Posting, Upgrading

(* Nothing has been queued.                                                *)
LEMMA OutInvInit == Init => OutInv
<1>. SUFFICES ASSUME Init PROVE OutOrder
  BY Zenon DEF OutInv
<1>1. got = <<>> /\ outbox = <<>> /\ send = <<>> /\ emitted = 0 /\ lost = {} /\ writer = "attach"
  BY Zenon DEF Init
<1>2. /\ <<>> \in Seq(Nat) /\ Rises(<<>>) /\ Queued(<<>>) = {} /\ Increasing(<<>>) /\ Range(<<>>) = {} /\ DOMAIN <<>> = {}
      /\ 0 \in Nat /\ 1..0 = {} /\ 0 = 0 + Len(<<>>)
  BY DEF Rises, Queued, Range, Increasing
<1>3. OutTypes
  BY Zenon, <1>1, <1>2 DEF OutTypes
<1>4. "attach" # Poll
  BY Zenon, TransportsDiffer
<1>5. Written(0)
  BY Zenon, <1>1, <1>2, <1>4 DEF Written, Less
<1>. QED BY Zenon, <1>2, <1>3, <1>5 DEF OutOrder

(* What the invariant says of the peer: below a message it has, none is    *)
(* missing.                                                                *)
LEMMA WrittenIsContiguous == OutInv => (current = Poll => WireContiguous)
<1>. SUFFICES ASSUME OutOrder PROVE WireContiguous
  BY Zenon DEF OutInv
<1>1. PICK top \in Nat : Written(top)
  BY Zenon DEF OutOrder
<1>2. got \in Seq(Nat) /\ Less(Range(got), Queued(outbox)) /\ Range(got) \cup lost \cup Queued(outbox) = 1..top
  BY Zenon, <1>1 DEF OutOrder, OutTypes, Written
<1>3. ASSUME NEW i \in DOMAIN got, NEW m \in 1..got[i] PROVE m \in Range(got) \cup lost
  <2>1. got[i] \in Range(got) /\ got[i] \in 1..top
    BY Zenon, <1>2 DEF Range
  <2>2. m \in 1..top /\ ~(got[i] < m)
    BY <2>1
  <2>. QED BY Zenon, <1>2, <2>1, <2>2 DEF Less
<1>. QED BY Zenon, <1>1, <1>3 DEF WireContiguous, Written

(* As long as polling is the active transport, the peer gets what the      *)
(* server queued in order and without a gap, but for what went into the    *)
(* answer to a GET it had abandoned.  (After an upgrade the socket may     *)
(* overtake what is still in the outbox.)                                  *)
THEOREM PollingIsContiguous == Spec => [](current = Poll => WireContiguous)
<1>1. Init => PumpsStart
  BY Zenon DEF Init, PumpsStart
<1>. QED BY <1>1, AlwaysOneWinner, PumpsStartStep, OutInvInit, OutInvStep, WrittenIsContiguous, PTL DEF Spec

(* Without an upgrade request that is so in every state.                   *)
THEOREM NoUpgradeNoGap == ASSUME Upgrades = {} PROVE Spec => []WireContiguous
<1>1. OneWinner => current = Poll
  BY Zenon DEF OneWinner, Transports
<1>. QED BY <1>1, AlwaysOneWinner, PollingIsContiguous, PTL
=============================================================================
