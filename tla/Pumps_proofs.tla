---------------------------- MODULE Pumps_proofs ----------------------------
(***************************************************************************)
(* Theorems about Pumps, for every heartbeat configuration, handler time,   *)
(* read limit and bound.  The argument for the heartbeat: as long as the    *)
(* peer is alive a pong is coming (it is in the stream, or a ping the peer  *)
(* answers in time has been written, or the ticker will write one), and it  *)
(* comes before the deadlines that are left have passed.                    *)
(*                                                                          *)
(* The argument for the messages: the frames on their way take the stream   *)
(* of the peer from the place the reader has reached to the place the peer  *)
(* has reached (StreamInv).  A timeout in the middle of a message puts the  *)
(* reader out of step with it, and the rest of that message is refused.     *)
(***************************************************************************)
EXTENDS Pumps, TLAPS

isPong(f) == f.op = "pong" \/ (f.op = "text" /\ f.fin /\ f.kind = "pong")

HasPong(q) == \E i \in 1..Len(q) : isPong(q[i])

\* The deadlines after the current one that ReadPump still waits for ...
left == IF missedPongs = 0 THEN pongWait + pongWait ELSE IF missedPongs = 1 THEN pongWait ELSE 0

\* ... and the ticks until it gives the peer up, once the socket has a deadline.
slack == deadline + left

PongComing ==
  \/ HasPong(inbox) /\ slack > 0
  \/ \E r \in owed : r < slack
  \/ pump = "ping" /\ RTT < slack
  \/ ticker + RTT < slack

Mutex ==
  /\ writeMu = "pump" <=> pump \in {"frame", "ping"}
  /\ writeMu = "reader" <=> reader = "eioPayload"

HandlerReturns == HandlerTime < pongWait /\ busy > 0 => busy < deadline

QuietInv ==
  /\ ~armed => deadline = pongWait /\ quiet = 0
  /\ reader # "ended" => missedPongs <= 2
  /\ HandlerTime < pongWait /\ reader # "ended" => quiet + slack <= 3 * pongWait

BeatInv ==
  /\ alive /\ pump = "ended" => reader = "ended"
  /\ handler /\ alive /\ reader # "ended" /\ Tuned => PongComing
  /\ ResponsiveSurvives

IInv == TypeOK /\ Mutex /\ LockedWritesWhole /\ HandlerReturns /\ QuietInv /\ BeatInv
-----------------------------------------------------------------------------
(* Sequences of frames *)

\* Append stays within the sequences over a set.
LEMMA AppendType ==
  ASSUME NEW S, NEW q \in Seq(S), NEW e \in S
  PROVE  Append(q, e) \in Seq(S)
OBVIOUS

\* A frame added to the stream keeps the pongs that are in it, and adds itself.
LEMMA AppendPong ==
  ASSUME NEW q \in Seq(Frame), NEW f \in Frame
  PROVE  /\ Append(q, f) \in Seq(Frame)
         /\ HasPong(q) \/ isPong(f) => HasPong(Append(q, f))
<1>1. /\ Append(q, f) \in Seq(Frame) /\ Len(Append(q, f)) = Len(q) + 1
      /\ \A i \in 1..Len(q) : Append(q, f)[i] = q[i]
      /\ Append(q, f)[Len(q) + 1] = f
  OBVIOUS
<1>2. Len(q) \in Nat
  OBVIOUS
<1>3. HasPong(q) => HasPong(Append(q, f))
  BY <1>1, <1>2 DEF HasPong
<1>4. isPong(f) => HasPong(Append(q, f))
  BY <1>1, <1>2 DEF HasPong
<1> QED BY Zenon, <1>1, <1>3, <1>4

\* Reading a frame that is not a pong leaves the pongs behind it.
LEMMA TailPong ==
  ASSUME NEW q \in Seq(Frame), q # <<>>
  PROVE  /\ Tail(q) \in Seq(Frame) /\ Head(q) \in Frame
         /\ HasPong(q) /\ ~isPong(Head(q)) => HasPong(Tail(q))
<1>1. /\ Tail(q) \in Seq(Frame) /\ Head(q) \in Frame /\ Head(q) = q[1]
      /\ Len(q) \in Nat \ {0} /\ Len(Tail(q)) = Len(q) - 1
      /\ \A i \in 1..Len(q) - 1 : Tail(q)[i] = q[i + 1]
  OBVIOUS
<1>2. ASSUME HasPong(q), ~isPong(Head(q)) PROVE HasPong(Tail(q))
  <2>1. PICK i \in 1..Len(q) : isPong(q[i])
    BY Zenon, <1>2 DEF HasPong
  <2>2. i # 1
    BY Zenon, <2>1, <1>2, <1>1
  <2>3. i - 1 \in 1..Len(Tail(q)) /\ Tail(q)[i - 1] = q[i]
    BY <2>2, <1>1
  <2> QED BY Zenon, <2>1, <2>3 DEF HasPong
<1> QED BY Zenon, <1>1, <1>2
-----------------------------------------------------------------------------
(* Type correctness *)

\* The initial values have their types.
LEMMA TypeInit == Init => TypeOK
BY PumpConstants DEF Init, TypeOK

\* Every step keeps the types.
LEMMA TypeStep == TypeOK /\ [Next]_vars => TypeOK'
<1> SUFFICES ASSUME TypeOK, [Next]_vars PROVE TypeOK'
  BY Zenon
<1> USE PumpConstants DEF TypeOK, stack
<1>1. ASSUME NEW k \in {"message", "ping"}, NEW fin \in BOOLEAN, SendPart(k, fin) PROVE TypeOK'
  <2>1. inbox' \in Seq(Frame)
    BY <1>1, AppendPong DEF SendPart, Frame
  <2> DEFINE whole == [i \in 1..part + 1 |-> <<Len(apps) + 1, i>>]
  <2>2. whole \in Seq(Nat \X Nat)
    OBVIOUS
  <2>3. apps' \in Seq(Seq(Nat \X Nat))
    <3>1. apps' = apps \/ apps' = Append(apps, whole)
      BY Zenon, <1>1 DEF SendPart
    <3>2. Append(apps, whole) \in Seq(Seq(Nat \X Nat))
      <4> HIDE DEF whole
      <4> QED BY Zenon, <2>2, AppendType
    <3> QED BY Zenon, <3>1, <3>2
  <2> QED BY <1>1, <2>1, <2>3 DEF SendPart, message, writes, time
<1>2. ASSUME NEW o \in {"ping", "close", "unmasked"}, SendControl(o) PROVE TypeOK'
  <2>1. inbox' \in Seq(Frame)
    BY Zenon, <1>2, AppendPong DEF SendControl, control, Frame
  <2> QED BY <1>2, <2>1 DEF SendControl, message, writes
<1>3. ASSUME NEW r \in owed, Answer(r) PROVE TypeOK'
  <2>1. inbox' \in Seq(Frame)
    BY Zenon, <1>3, AppendPong DEF Answer, control, Frame
  <2>2. owed' \subseteq 0..RTT
    BY Zenon, <1>3 DEF Answer
  <2> QED BY <1>3, <2>1, <2>2 DEF Answer, peer, message, writes
<1>4. ASSUME NEW n \in 0..HandlerTime, ReadMessage(n) PROVE TypeOK'
  <2>1. inbox' \in Seq(Frame) /\ Head(inbox) \in Frame
    BY Zenon, <1>4, TailPong DEF ReadMessage, readsMessage, reads
  <2>2. payload(Head(inbox)) \in Seq(Nat \X Nat)
    BY <2>1 DEF payload, Frame
  <2> QED BY <1>4, <2>1, <2>2 DEF ReadMessage, readsMessage, peer, writes
<1>5. CASE ReadPing
  <2>1. inbox' \in Seq(Frame) /\ Head(inbox) \in Frame
    BY Zenon, <1>5, TailPong DEF ReadPing, reads
  <2> QED BY Zenon, <1>5, <2>1 DEF ReadPing, reads, mixes, halfWritten, peer, message, writes, time
<1>6. CASE WritePong
  BY Zenon, <1>6 DEF WritePong, peer, message, writes, time
<1>7. CASE ReadPong
  <2>1. inbox' \in Seq(Frame) /\ Head(inbox) \in Frame
    BY Zenon, <1>7, TailPong DEF ReadPong, reads
  <2>2. onPong
    BY Zenon, <1>7 DEF ReadPong
  <2>3. missedPongs' \in Nat /\ armed' \in BOOLEAN /\ deadline' \in 0..pongWait /\ quiet' \in Nat
        /\ UNCHANGED <<ticker, owed>>
    <3>1. CASE handler
      BY <2>2, <3>1 DEF onPong
    <3>2. CASE ~handler
      BY Zenon, <2>2, <3>2 DEF onPong, time
    <3> QED BY Zenon, <3>1, <3>2
  <2> QED BY <1>7, <2>1, <2>3 DEF ReadPong, reads, peer, message, writes
<1>8. CASE ReadClose
  <2>1. inbox' \in Seq(Frame) /\ Head(inbox) \in Frame
    BY Zenon, <1>8, TailPong DEF ReadClose, reads
  <2> QED BY Zenon, <1>8, <2>1 DEF ReadClose, reads, mixes, halfWritten, peer, message, writes, time
<1>9. CASE ReadRefused
  <2>1. inbox' \in Seq(Frame) /\ Head(inbox) \in Frame
    BY Zenon, <1>9, TailPong DEF ReadRefused, reads
  <2> QED BY Zenon, <1>9, <2>1 DEF ReadRefused, reads, peer, message, writes, time
<1>10. CASE ReadPart
  <2>1. inbox' \in Seq(Frame) /\ Head(inbox) \in Frame
    BY Zenon, <1>10, TailPong DEF ReadPart, reads
  <2> QED BY <1>10, <2>1 DEF ReadPart, reads, refuses, opcode, payload, peer, message, writes, time, Frame
<1>11. CASE ReadEIOPong
  <2>1. inbox' \in Seq(Frame) /\ Head(inbox) \in Frame
    BY Zenon, <1>11, TailPong DEF ReadEIOPong, readsMessage, reads
  <2>2. onPong
    BY Zenon, <1>11 DEF ReadEIOPong
  <2>3. missedPongs' \in Nat /\ armed' \in BOOLEAN /\ deadline' \in 0..pongWait /\ quiet' \in Nat
        /\ UNCHANGED <<ticker, owed>>
    <3>1. CASE handler
      BY <2>2, <3>1 DEF onPong
    <3>2. CASE ~handler
      BY Zenon, <2>2, <3>2 DEF onPong, time
    <3> QED BY Zenon, <3>1, <3>2
  <2> QED BY <1>11, <2>1, <2>3 DEF ReadEIOPong, readsMessage, reads, peer, message, writes
<1>12. CASE ReadEIOPing
  <2>1. inbox' \in Seq(Frame) /\ Head(inbox) \in Frame
    BY Zenon, <1>12, TailPong DEF ReadEIOPing, readsMessage, reads
  <2> QED BY <1>12, <2>1 DEF ReadEIOPing, readsMessage, reads, peer, message, writes, time
<1>13. CASE WriteEIOPong
  BY Zenon, <1>13 DEF WriteEIOPong, mixes, halfWritten, peer, message, writes, time
<1>14. CASE WriteEIOPayload
  BY Zenon, <1>14 DEF WriteEIOPayload, peer, message, writes, time
<1>15. CASE Timeout
  BY <1>15 DEF Timeout, peer, message, writes, time
<1>16. CASE ReplyFails
  BY Zenon, <1>16 DEF ReplyFails, peer, message, writes, time
<1>17. CASE WriteMessage
  BY <1>17 DEF WriteMessage, mixes, halfWritten, peer, message, writes, time
<1>18. CASE WritePing
  <2>1. mixed' \subseteq {"reply", "locked"}
    <3>1. mixes("pump")
      BY Zenon, <1>18 DEF WritePing
    <3> QED BY Zenon, <3>1 DEF mixes
  <2>2. owed' \subseteq 0..RTT
    <3>1. owed' \in {owed, owed \cup {RTT}}
      BY <1>18, Zenon DEF WritePing, pings
    <3>2. RTT \in 0..RTT
      OBVIOUS
    <3> QED BY Zenon, <3>1, <3>2
  <2>3. pump' \in {"idle", "ping"} /\ writeMu' \in {"free", "pump"} /\ ticker' = pingPeriod
    BY Zenon, <1>18 DEF WritePing
  <2> QED BY <1>18, <2>1, <2>2, <2>3 DEF WritePing, peer, message
<1>19. CASE WritePayload
  BY <1>19 DEF WritePayload, pings, peer, message, writes, time
<1>20. CASE PumpEnds
  BY Zenon, <1>20 DEF PumpEnds, peer, message, writes, time
<1>21. CASE Tick
  BY <1>21 DEF Tick, less, peer, message, writes, time
<1>22. CASE Silence
  <2>1. alive' \in BOOLEAN /\ owed' \subseteq 0..RTT /\ UNCHANGED <<stack, part, kind, apps, events, inbox>>
    BY Zenon, <1>22 DEF Silence
  <2>2. UNCHANGED <<message, reader, busy, writes, missedPongs, armed, deadline, ticker, quiet>>
    BY Zenon, <1>22 DEF Silence
  <2> QED BY <2>1, <2>2 DEF message, writes
<1>23. CASE UNCHANGED vars
  BY <1>23 DEF vars, peer, message, writes, time
<1> QED BY Zenon, <1>1, <1>2, <1>3, <1>4, <1>5, <1>6, <1>7, <1>8, <1>9, <1>10, <1>11, <1>12, <1>13, <1>14, <1>15, <1>16, <1>17, <1>18, <1>19, <1>20, <1>21, <1>22, <1>23 DEF Next, Reader
-----------------------------------------------------------------------------
(* The write lock *)

\* Every step keeps writeMu with the writer that is halfway through a frame, so
\* that a write under the lock never falls into a frame of another such writer.
LEMMA MutexStep ==
  TypeOK /\ Mutex /\ LockedWritesWhole /\ [Next]_vars => Mutex' /\ LockedWritesWhole'
<1> SUFFICES ASSUME TypeOK, Mutex, LockedWritesWhole, [Next]_vars
             PROVE  Mutex' /\ LockedWritesWhole'
  BY Zenon
<1> USE DEF Mutex, LockedWritesWhole
<1>1. CASE UNCHANGED <<reader, pump, writeMu, mixed>>
  BY Zenon, <1>1
<1>2. CASE ReadPing
  BY Zenon, <1>2 DEF TypeOK, ReadPing, reads, mixes, halfWritten
<1>3. CASE ReadClose
  BY Zenon, <1>3 DEF TypeOK, ReadClose, reads, mixes, halfWritten
<1>4. CASE ReadRefused
  BY Zenon, <1>4 DEF TypeOK, ReadRefused, reads, writes
<1>5. CASE ReadEIOPing
  BY Zenon, <1>5 DEF TypeOK, ReadEIOPing, readsMessage, reads, writes
<1>6. CASE Timeout
  BY Zenon, <1>6 DEF TypeOK, Timeout, writes
<1>7. CASE WritePong
  BY Zenon, <1>7 DEF TypeOK, WritePong, writes
<1>8. CASE WriteEIOPong
  BY Zenon, <1>8 DEF TypeOK, WriteEIOPong, mixes, halfWritten
<1>9. CASE WriteEIOPayload
  BY Zenon, <1>9 DEF TypeOK, WriteEIOPayload
<1>10. CASE ReplyFails
  BY Zenon, <1>10 DEF TypeOK, ReplyFails
<1>11. CASE WriteMessage
  BY Zenon, <1>11 DEF TypeOK, WriteMessage, mixes, halfWritten
<1>12. CASE WritePing
  BY Zenon, <1>12 DEF TypeOK, WritePing, mixes, halfWritten
<1>13. CASE WritePayload
  BY Zenon, <1>13 DEF TypeOK, WritePayload
<1>14. CASE PumpEnds
  BY Zenon, <1>14 DEF TypeOK, PumpEnds
<1>15. CASE \/ (\E k \in {"message", "ping"}, fin \in BOOLEAN : SendPart(k, fin))
           \/ (\E o \in {"ping", "close", "unmasked"} : SendControl(o))
           \/ (\E r \in owed : Answer(r))
           \/ (\E n \in 0..HandlerTime : ReadMessage(n))
           \/ Silence \/ ReadPong \/ ReadPart \/ ReadEIOPong \/ Tick \/ UNCHANGED vars
  BY Zenon, <1>1, <1>15 DEF SendPart, SendControl, Answer, Silence, ReadPong, ReadPart, ReadMessage, ReadEIOPong, Tick, vars, writes
<1> QED BY Zenon, <1>2, <1>3, <1>4, <1>5, <1>6, <1>7, <1>8, <1>9, <1>10, <1>11, <1>12, <1>13, <1>14, <1>15 DEF Next, Reader
-----------------------------------------------------------------------------
(* The read deadline *)

\* Every step keeps a running handler within the deadline, and the ticks without
\* a message or a pong within the deadlines that have passed.
LEMMA QuietStep ==
  TypeOK /\ HandlerReturns /\ QuietInv /\ [Next]_vars => HandlerReturns' /\ QuietInv'
<1> SUFFICES ASSUME TypeOK, HandlerReturns, QuietInv, [Next]_vars
             PROVE  HandlerReturns' /\ QuietInv'
  BY Zenon
<1> USE PumpConstants DEF HandlerReturns, QuietInv, slack, left
<1>1. CASE UNCHANGED <<busy, missedPongs, armed, deadline, quiet>> /\ (reader = "ended" => reader' = "ended")
  BY Zenon, <1>1
<1>2. ASSUME NEW n \in 0..HandlerTime, ReadMessage(n) PROVE HandlerReturns' /\ QuietInv'
  BY <1>2 DEF ReadMessage, TypeOK
<1>3. CASE ReadPong \/ ReadEIOPong
  <2>1. busy' = 0 /\ busy = 0 /\ reader' = reader /\ onPong
    BY Zenon, <1>3 DEF ReadPong, ReadEIOPong, readsMessage, reads
  <2>2. CASE handler
    <3>1. armed' /\ deadline' = pongWait /\ missedPongs' = 0 /\ quiet' = 0
      BY Zenon, <2>1, <2>2 DEF onPong
    <3> QED BY <2>1, <3>1
  <2>3. CASE ~handler
    BY Zenon, <1>1, <2>1, <2>3 DEF onPong, time
  <2> QED BY Zenon, <2>2, <2>3
<1>4. CASE Timeout
  <2>1. /\ busy' = 0 /\ quiet' = quiet /\ missedPongs' = missedPongs + 1
        /\ armed' /\ deadline = 0 /\ reader = "read"
    BY Zenon, <1>4 DEF Timeout
  <2>2. CASE missedPongs' > 2
    BY Zenon, <1>4, <2>1, <2>2 DEF Timeout
  <2>3. CASE ~(missedPongs' > 2)
    BY <1>4, <2>1, <2>3 DEF Timeout, TypeOK
  <2> QED BY Zenon, <2>2, <2>3
<1>5. CASE Tick
  <2>1. CASE armed
    BY <1>5, <2>1 DEF Tick, less, TypeOK
  <2>2. CASE ~armed
    BY <1>5, <2>2 DEF Tick, less, TypeOK
  <2> QED BY Zenon, <2>1, <2>2
<1>6. CASE \/ (\E k \in {"message", "ping"}, fin \in BOOLEAN : SendPart(k, fin))
           \/ (\E o \in {"ping", "close", "unmasked"} : SendControl(o))
           \/ (\E r \in owed : Answer(r))
           \/ Silence \/ UNCHANGED vars
  BY Zenon, <1>1, <1>6 DEF SendPart, SendControl, Answer, Silence, vars, time
<1>7. CASE ReadPing \/ WritePong \/ ReadClose \/ ReadRefused \/ ReadPart \/ ReadEIOPing
           \/ WriteEIOPong \/ WriteEIOPayload \/ ReplyFails
  BY Zenon, <1>1, <1>7 DEF ReadPing, WritePong, ReadClose, ReadRefused, ReadPart, ReadEIOPing, readsMessage,
       reads, WriteEIOPong, WriteEIOPayload, ReplyFails, time
<1>8. CASE WriteMessage \/ WritePing \/ WritePayload \/ PumpEnds
  BY Zenon, <1>1, <1>8 DEF WriteMessage, WritePing, WritePayload, PumpEnds, time
<1> QED BY Zenon, <1>2, <1>3, <1>4, <1>5, <1>6, <1>7, <1>8 DEF Next, Reader
-----------------------------------------------------------------------------
(* The heartbeat *)

\* What is left of a step for the heartbeat: an alive peer's pong stays on its
\* way, before the deadlines run out.
LEMMA PongStep ==
  ASSUME TypeOK, HandlerReturns, QuietInv, BeatInv, [Next]_vars,
         handler, alive', reader' # "ended", Tuned
  PROVE  PongComing'
<1> USE PumpConstants DEF slack, left
<1>0. alive /\ reader # "ended" => PongComing
  BY Zenon DEF BeatInv
<1>1. CASE /\ UNCHANGED <<alive, missedPongs, deadline, owed, ticker>> /\ reader # "ended"
           /\ HasPong(inbox) => HasPong(inbox')
           /\ pump = "ping" => pump' = "ping"
  BY Zenon, <1>0, <1>1 DEF PongComing
<1>2. ASSUME NEW k \in {"message", "ping"}, NEW fin \in BOOLEAN, SendPart(k, fin) PROVE PongComing'
  <2>1. HasPong(inbox) => HasPong(inbox')
    <3> DEFINE f == [op |-> IF part = 0 THEN "text" ELSE "cont", fin |-> fin,
                     kind |-> k, msg |-> Len(apps) + 1, part |-> part + 1]
    <3>1. inbox' = Append(inbox, f)
      BY Zenon, <1>2 DEF SendPart
    <3>2. f \in Frame
      BY DEF Frame, TypeOK
    <3> HIDE DEF f
    <3> QED BY Zenon, <3>1, <3>2, AppendPong DEF TypeOK
  <2> QED BY Zenon, <1>1, <1>2, <2>1 DEF SendPart, writes, time
<1>3. ASSUME NEW o \in {"ping", "close", "unmasked"}, SendControl(o) PROVE PongComing'
  <2>1. HasPong(inbox) => HasPong(inbox')
    BY Zenon, <1>3, AppendPong DEF SendControl, control, Frame, TypeOK
  <2> QED BY Zenon, <1>1, <1>3, <2>1 DEF SendControl, writes
<1>4. ASSUME NEW r \in owed, Answer(r) PROVE PongComing'
  <2> DEFINE f == IF layered
                  THEN [op |-> "text", fin |-> TRUE, kind |-> "pong", msg |-> 0, part |-> 1]
                  ELSE control("pong")
  <2>1. f \in Frame /\ isPong(f)
    BY Zenon DEF control, Frame, isPong
  <2>2. HasPong(inbox')
    <3>1. inbox' = Append(inbox, f)
      BY Zenon, <1>4 DEF Answer
    <3> QED BY Zenon, <2>1, <3>1, AppendPong DEF TypeOK
  <2>3. slack > 0
    BY <1>0, <1>4 DEF Answer, PongComing, TypeOK, peer
  <2> QED BY Zenon, <1>4, <2>2, <2>3 DEF Answer, PongComing
<1>5. CASE ReadPong \/ ReadEIOPong
  <2>1. deadline' = pongWait /\ missedPongs' = 0 /\ ticker' = ticker
    BY Zenon, <1>5 DEF ReadPong, ReadEIOPong, onPong
  <2> QED BY <2>1 DEF PongComing, Tuned, TypeOK
<1>6. ASSUME NEW n \in 0..HandlerTime, ReadMessage(n) PROVE PongComing'
  <2>1. HasPong(inbox) => HasPong(inbox')
    BY Zenon, <1>6, TailPong DEF ReadMessage, readsMessage, reads, isPong, TypeOK
  <2>2. alive /\ reader # "ended" /\ deadline <= deadline'
        /\ UNCHANGED <<missedPongs, ticker, owed, pump>>
    BY <1>6 DEF ReadMessage, readsMessage, reads, TypeOK, peer, writes
  <2>3. left' = left /\ left \in Nat /\ deadline' \in Nat /\ deadline \in Nat
    BY <2>2, <1>6 DEF ReadMessage, TypeOK
  <2>4. slack <= slack' /\ slack \in Int /\ slack' \in Int
    <3>1. \A a, b, c \in Nat : a <= b => a + c <= b + c /\ a + c \in Int /\ b + c \in Int
      OBVIOUS
    <3>2. deadline <= deadline'
      BY Zenon, <2>2
    <3>3. slack = deadline + left /\ slack' = deadline' + left
      BY Zenon, <2>3
    <3> QED BY <2>3, <3>1, <3>2, <3>3, Zenon
  <2> HIDE DEF slack
  <2> QED BY <1>0, <2>1, <2>2, <2>4 DEF PongComing, TypeOK
<1>7. CASE Timeout
  <2>0. missedPongs' = missedPongs + 1 /\ ~(missedPongs' > 2)
    BY Zenon, <1>7 DEF Timeout
  <2>1. /\ deadline = 0 /\ deadline' = pongWait
        /\ UNCHANGED <<alive, inbox, owed, ticker, pump>> /\ reader # "ended"
    BY Zenon, <1>7, <2>0 DEF Timeout, peer, writes
  <2>2. slack' = slack
    BY <2>0, <2>1 DEF TypeOK
  <2> HIDE DEF slack
  <2> QED BY Zenon, <1>0, <2>1, <2>2 DEF PongComing
<1>8. CASE ReadPing \/ ReadPart \/ ReadEIOPing
  <2>1. HasPong(inbox) => HasPong(inbox')
    BY Zenon, <1>8, TailPong DEF ReadPing, ReadPart, ReadEIOPing, readsMessage, reads, isPong, TypeOK
  <2> QED BY Zenon, <1>1, <1>8, <2>1
          DEF ReadPing, ReadPart, ReadEIOPing, readsMessage, reads, peer, writes, time
<1>9. CASE WritePong \/ WriteEIOPong \/ WriteEIOPayload \/ WriteMessage \/ UNCHANGED vars
  BY Zenon, <1>1, <1>9 DEF WritePong, WriteEIOPong, WriteEIOPayload, WriteMessage, vars, peer, writes, time
<1>10. CASE WritePing
  <2>1. alive /\ reader # "ended" /\ UNCHANGED <<deadline, missedPongs, inbox>> /\ ticker = 0
        /\ owed \subseteq owed' /\ (pump = "ping" => pump' = "ping")
    BY Zenon, <1>10 DEF WritePing, pings, peer
  <2>2. RTT \in owed' \/ pump' = "ping"
    BY Zenon, <1>10, <2>1 DEF WritePing, pings
  <2> QED BY <1>0, <2>1, <2>2 DEF PongComing, TypeOK
<1>11. CASE WritePayload
  <2>1. alive /\ reader # "ended" /\ UNCHANGED <<deadline, missedPongs, inbox, ticker>>
        /\ owed \subseteq owed'
    BY Zenon, <1>11 DEF WritePayload, pings, peer
  <2>2. pump = "ping" => RTT \in owed'
    BY Zenon, <1>11, <2>1 DEF WritePayload, pings
  <2> QED BY Zenon, <1>0, <2>1, <2>2 DEF PongComing, TypeOK
<1>12. CASE Tick
  <2>1. /\ alive /\ reader # "ended" /\ deadline > 0 /\ deadline' \in {deadline, deadline - 1}
        /\ UNCHANGED <<missedPongs, inbox, pump>> /\ pump # "ping"
    BY <1>12 DEF Tick, less, HandlerReturns, Tuned, TypeOK, peer, writes
  <2>2. slack' \in {slack, slack - 1}
    <3>1. CASE deadline' = deadline
      BY Zenon, <2>1, <3>1
    <3>2. CASE deadline' = deadline - 1
      BY <2>1, <3>2 DEF TypeOK
    <3> QED BY Zenon, <2>1, <3>1, <3>2
  <2>3. CASE HasPong(inbox)
    <3>1. inbox # <<>>
      BY <2>3 DEF HasPong
    <3>2. busy > 0 /\ busy < deadline
      BY Zenon, <1>12, <3>1 DEF Tick, HandlerReturns, Tuned
    <3>3. deadline' > 0 /\ deadline' \in Nat /\ left' \in Nat
      BY <2>1, <3>2 DEF TypeOK
    <3>4. slack' > 0
      <4>1. \A a, b \in Nat : a > 0 => a + b > 0
        OBVIOUS
      <4>2. slack' = deadline' + left'
        BY Zenon
      <4> QED BY Zenon, <3>3, <4>1, <4>2
    <3> QED BY Zenon, <2>1, <2>3, <3>4 DEF PongComing
  <2>4. ASSUME NEW r \in owed, r < slack PROVE PongComing'
    <3>1. r - 1 \in owed'
      BY Zenon, <1>12 DEF Tick
    <3>2. r - 1 < slack'
      BY <2>2, <2>4 DEF TypeOK
    <3> QED BY Zenon, <3>1, <3>2 DEF PongComing
  <2>5. CASE ticker + RTT < slack
    <3>1. ticker' = ticker - 1
      BY Zenon, <1>12, <2>1 DEF Tick, less, BeatInv, TypeOK
    <3>2. ticker' + RTT < slack'
      BY <2>2, <2>5, <3>1 DEF TypeOK
    <3> QED BY Zenon, <3>2 DEF PongComing
  <2> QED BY Zenon, <1>0, <2>1, <2>3, <2>4, <2>5 DEF PongComing
<1>13. CASE Silence \/ ReadClose \/ ReadRefused \/ ReplyFails
  BY Zenon, <1>13 DEF Silence, ReadClose, ReadRefused, ReplyFails
<1>14. CASE PumpEnds
  BY Zenon, <1>14 DEF PumpEnds, peer
<1> QED BY Zenon, <1>2, <1>3, <1>4, <1>5, <1>6, <1>7, <1>8, <1>9, <1>10, <1>11, <1>12, <1>13, <1>14
        DEF Next, Reader

\* The heartbeat's invariant is kept: the third deadline does not pass while a
\* pong is coming.
LEMMA BeatStep ==
  TypeOK /\ HandlerReturns /\ QuietInv /\ BeatInv /\ [Next]_vars => BeatInv'
<1> SUFFICES ASSUME TypeOK, HandlerReturns, QuietInv, BeatInv, [Next]_vars PROVE BeatInv'
  BY Zenon
<1>0. handler' = handler
  BY Zenon DEF Next, Reader, SendPart, SendControl, Answer, Silence, ReadPing, WritePong, ReadPong, ReadClose,
       ReadRefused, ReadPart, ReadMessage, ReadEIOPong, ReadEIOPing, WriteEIOPong, WriteEIOPayload, Timeout,
       ReplyFails, WriteMessage, WritePing, WritePayload, PumpEnds, Tick, vars, peer, stack
<1>1. (handler /\ alive /\ reader # "ended" /\ Tuned => PongComing)'
  BY Zenon, <1>0, PongStep DEF Tuned
<1>2. alive' => alive
  BY Zenon DEF Next, Reader, SendPart, SendControl, Answer, Silence, ReadPing, WritePong, ReadPong, ReadClose,
       ReadRefused, ReadPart, ReadMessage, ReadEIOPong, ReadEIOPing, WriteEIOPong, WriteEIOPayload, Timeout,
       ReplyFails, WriteMessage, WritePing, WritePayload, PumpEnds, Tick, vars, peer
<1>3. (alive /\ pump = "ended" => reader = "ended")'
  <2>1. CASE PumpEnds
    BY Zenon, <2>1 DEF PumpEnds, peer
  <2>2. CASE ~PumpEnds
    <3>1. (pump' = "ended" => pump = "ended") /\ (reader = "ended" => reader' = "ended")
      BY Zenon, <2>2 DEF Next, Reader, SendPart, SendControl, Answer, Silence, ReadPing, WritePong, ReadPong, ReadClose,
           ReadRefused, ReadPart, ReadMessage, ReadEIOPong, ReadEIOPing, WriteEIOPong, WriteEIOPayload, Timeout,
           ReplyFails, WriteMessage, WritePing, WritePayload, Tick, vars, writes, reads, readsMessage
    <3> QED BY Zenon, <1>2, <3>1 DEF BeatInv
  <2> QED BY Zenon, <2>1, <2>2
<1>4. ResponsiveSurvives'
  <2>1. CASE Timeout
    <3> SUFFICES ASSUME handler, Tuned, missedPongs' > 2, alive' PROVE FALSE
      BY Zenon, <1>0 DEF ResponsiveSurvives, Tuned
    <3>1. missedPongs = 2 /\ deadline = 0 /\ reader # "ended"
      BY <2>1 DEF Timeout, QuietInv, TypeOK
    <3>2. PongComing
      BY Zenon, <1>2, <3>1 DEF BeatInv
    <3>3. slack = 0
      BY <3>1 DEF slack, left
    <3> QED BY <3>2, <3>3, PumpConstants DEF PongComing, TypeOK
  <2>2. CASE ~Timeout
    <3>1. missedPongs' = missedPongs \/ missedPongs' = 0
      BY Zenon, <2>2 DEF Next, Reader, SendPart, SendControl, Answer, Silence, ReadPing, WritePong, ReadPong, ReadClose,
           ReadRefused, ReadPart, ReadMessage, ReadEIOPong, ReadEIOPing, WriteEIOPong, WriteEIOPayload,
           ReplyFails, WriteMessage, WritePing, WritePayload, PumpEnds, Tick, vars, time, onPong
    <3> QED BY <1>0, <1>2, <3>1 DEF BeatInv, ResponsiveSurvives, Tuned, TypeOK
  <2> QED BY Zenon, <2>1, <2>2
<1> QED BY Zenon, <1>1, <1>3, <1>4 DEF BeatInv
-----------------------------------------------------------------------------
(* The theorems *)

\* The inductive invariant holds throughout.
THEOREM PumpsInvariant == Spec => []IInv
<1>1. Init => IInv
  <2> SUFFICES ASSUME Init PROVE IInv
    BY Zenon
  <2>1. TypeOK
    BY Zenon, TypeInit
  <2>2. Mutex /\ LockedWritesWhole /\ HandlerReturns /\ QuietInv
    BY PumpConstants DEF Init, Mutex, LockedWritesWhole, HandlerReturns, QuietInv, slack, left
  <2>3. BeatInv
    BY PumpConstants DEF Init, BeatInv, PongComing, ResponsiveSurvives, Tuned, slack, left
  <2> QED BY Zenon, <2>1, <2>2, <2>3 DEF IInv
<1>2. IInv /\ [Next]_vars => IInv'
  BY Zenon, TypeStep, MutexStep, QuietStep, BeatStep DEF IInv
<1> QED BY <1>1, <1>2, PTL DEF Spec

\* A peer that answers its pings is never given up by the heartbeat, for every
\* configuration with pingPeriod + RTT < 3 * pongWait and handlers that return
\* within pongWait, on a WebSocket or on an upgraded socket that ReadPump's OnPong
\* reached: IncrementMissedPongs' limit and OnPong's reset suffice.
THEOREM ResponsivePeerSurvives == Spec => []ResponsiveSurvives
BY PumpsInvariant, PTL DEF IInv, BeatInv

\* ReadPump gives a peer up after three read deadlines without message or pong,
\* counted from the first deadline its socket has.
THEOREM QuietPeerIsGivenUp == Spec => []QuietBounded
<1>1. IInv => QuietBounded
  BY PumpConstants DEF IInv, QuietInv, QuietBounded, slack, left, TypeOK
<1> QED BY PumpsInvariant, <1>1, PTL

\* Writers that take writeMu never interleave their frames.
THEOREM LockedFramesAreWhole == Spec => []LockedWritesWhole
BY PumpsInvariant, PTL DEF IInv

\* Every variable keeps its type.
THEOREM PumpsTypeCorrect == Spec => []TypeOK
BY PumpsInvariant, PTL DEF IInv
-----------------------------------------------------------------------------
(* What the reader gets *)

\* A place in the peer's stream: the number of the message that is next or under
\* way, how many of its fragments came before, and its type.
Pos == [msg : Nat, part : Nat, kind : {"message", "ping"}]

whole(m, p) == [i \in 1..p |-> <<m, i>>]

isData(f) == f.op \in {"text", "cont"}

\* Frame f takes the stream from place s to place t: control frames and Engine.IO
\* pongs fall in between, fragments come in order, and the last one completes a
\* message of a.
Follows(s, f, t, a) ==
  /\ ~isData(f) => t = s
  /\ isData(f) /\ f.kind = "pong" => t = s /\ s.part = 0 /\ f.fin
  /\ isData(f) /\ f.kind # "pong" =>
       /\ f.msg = s.msg /\ f.part = s.part + 1 /\ f.op = (IF s.part = 0 THEN "text" ELSE "cont")
       /\ t.msg = (IF f.fin /\ f.kind = "message" THEN s.msg + 1 ELSE s.msg)
       /\ t.part = (IF f.fin THEN 0 ELSE s.part + 1)
       /\ f.fin /\ f.kind = "message" => f.msg \in 1..Len(a) /\ a[f.msg] = whole(f.msg, f.part)

\* The frames of q take the stream from s to t.
Stream(s, q, t, a) ==
  \E st \in [0..Len(q) -> Pos] :
    /\ st[0] = s /\ st[Len(q)] = t
    /\ \A i \in 1..Len(q) : Follows(st[i - 1], q[i], st[i], a)

peerAt == [msg |-> Len(apps) + 1, part |-> part, kind |-> kind]

\* ReadMessage has read the stream up to s; after a timeout it may be in the
\* middle of a message whose beginning it gave up, and then it never completes it.
ReaderAt(s) ==
  /\ s.msg = Len(delivered) + 1
  /\ s.part = 0 => msgOpcode = "cont" /\ buf = <<>>
  /\ s.part # 0 /\ msgOpcode = "text" => buf = whole(s.msg, s.part)

StreamInv ==
  /\ DeliveredAreSent
  /\ reader # "ended" => \E s \in Pos : ReaderAt(s) /\ Stream(s, inbox, peerAt, apps)

\* Nothing is on its way.
LEMMA StreamEmpty == ASSUME NEW s \in Pos, NEW a PROVE Stream(s, <<>>, s, a)
<1> DEFINE st == [i \in 0..0 |-> s]
<1>1. Len(<<>>) = 0 /\ 0 \in 0..0 /\ \A i \in 1..0 : FALSE
  OBVIOUS
<1>2. st \in [0..0 -> Pos] /\ st[0] = s
  BY Zenon, <1>1
<1> HIDE DEF st
<1> QED BY Zenon, <1>1, <1>2 DEF Stream

\* The reader takes the first frame ...
LEMMA StreamHead ==
  ASSUME NEW s \in Pos, NEW q \in Seq(Frame), q # <<>>, NEW t, NEW a, Stream(s, q, t, a)
  PROVE  \E u \in Pos : Follows(s, Head(q), u, a) /\ Stream(u, Tail(q), t, a)
<1> DEFINE n == Len(q)
           r == Tail(q)
<1>1. /\ n \in Nat \ {0} /\ Head(q) = q[1] /\ Len(r) = n - 1 /\ \A i \in 1..n - 1 : r[i] = q[i + 1]
  OBVIOUS
<1>2. PICK st \in [0..n -> Pos] :
        /\ st[0] = s /\ st[n] = t
        /\ \A i \in 1..n : Follows(st[i - 1], q[i], st[i], a)
  BY Zenon DEF Stream
<1> HIDE DEF n, r
<1> DEFINE su == [i \in 0..n - 1 |-> st[i + 1]]
<1>3. /\ 1 \in 1..n /\ 1 \in 0..n /\ 1 - 1 = 0 /\ 0 \in 0..n - 1 /\ n - 1 \in 0..n - 1 /\ 0 + 1 = 1 /\ (n - 1) + 1 = n
      /\ \A i \in 0..n - 1 : i + 1 \in 0..n
      /\ \A i \in 1..n - 1 : i + 1 \in 1..n /\ (i + 1) - 1 = i /\ i - 1 \in 0..n - 1 /\ i \in 0..n - 1 /\ (i - 1) + 1 = i
  BY ONLY <1>1
<1>4. su \in [0..n - 1 -> Pos] /\ su[0] = st[1] /\ su[n - 1] = t
  BY Zenon, <1>2, <1>3
<1>5. \A i \in 1..n - 1 : su[i - 1] = st[i] /\ su[i] = st[i + 1]
  BY Zenon, <1>3
<1> HIDE DEF su
<1>6. ASSUME NEW i \in 1..n - 1 PROVE Follows(su[i - 1], r[i], su[i], a)
  <2>1. Follows(st[(i + 1) - 1], q[i + 1], st[i + 1], a)
    BY Zenon, <1>2, <1>3
  <2> QED BY Zenon, <2>1, <1>1, <1>3, <1>5
<1>7. Stream(st[1], r, t, a)
  BY Zenon, <1>1, <1>4, <1>6 DEF Stream
<1>8. st[1] \in Pos
  BY Zenon, <1>3
<1>9. Follows(s, Head(q), st[1], a)
  <2>1. Follows(st[1 - 1], q[1], st[1], a)
    BY Zenon, <1>2, <1>3
  <2> QED BY Zenon, <2>1, <1>1, <1>2, <1>3
<1> QED BY Zenon, <1>7, <1>8, <1>9 DEF r

\* ... and the peer adds one at the end.
LEMMA StreamAppend ==
  ASSUME NEW s \in Pos, NEW q \in Seq(Frame), NEW t, NEW a, Stream(s, q, t, a),
         NEW f \in Frame, NEW u \in Pos, Follows(t, f, u, a)
  PROVE  Stream(s, Append(q, f), u, a)
<1> DEFINE n == Len(q)
           r == Append(q, f)
<1>1. /\ n \in Nat /\ Len(r) = n + 1 /\ r[n + 1] = f /\ \A i \in 1..n : r[i] = q[i]
  OBVIOUS
<1>2. PICK st \in [0..n -> Pos] :
        /\ st[0] = s /\ st[n] = t
        /\ \A i \in 1..n : Follows(st[i - 1], q[i], st[i], a)
  BY Zenon DEF Stream
<1> HIDE DEF n, r
<1> DEFINE su == [i \in 0..n + 1 |-> IF i = n + 1 THEN u ELSE st[i]]
<1>3. /\ n + 1 \in 0..n + 1 /\ 0 \in 0..n + 1 /\ 0 # n + 1 /\ n \in 0..n + 1 /\ n # n + 1 /\ (n + 1) - 1 = n
      /\ \A i \in 0..n + 1 : i # n + 1 => i \in 0..n
      /\ \A i \in 1..n + 1 : i \in 1..n \/ i = n + 1
      /\ \A i \in 1..n : i - 1 \in 0..n + 1 /\ i \in 0..n + 1 /\ i - 1 # n + 1 /\ i # n + 1
  BY ONLY <1>1
<1>4. su \in [0..n + 1 -> Pos] /\ su[0] = s /\ su[n + 1] = u /\ su[n] = t
  BY Zenon, <1>2, <1>3
<1>5. \A i \in 1..n : su[i - 1] = st[i - 1] /\ su[i] = st[i]
  BY Zenon, <1>3
<1> HIDE DEF su
<1>6. ASSUME NEW i \in 1..n + 1 PROVE Follows(su[i - 1], r[i], su[i], a)
  <2>1. CASE i \in 1..n
    BY Zenon, <2>1, <1>1, <1>2, <1>5
  <2>2. CASE i = n + 1
    BY Zenon, <2>2, <1>1, <1>3, <1>4
  <2> QED BY Zenon, <2>1, <2>2, <1>3
<1>7. Stream(s, r, u, a)
  BY Zenon, <1>1, <1>4, <1>6 DEF Stream
<1> QED BY Zenon, <1>7 DEF r

\* A message more at the peer changes nothing for the frames on their way.
LEMMA StreamMore ==
  ASSUME NEW s, NEW q, NEW t, NEW a \in Seq(Seq(Nat \X Nat)), NEW w, Stream(s, q, t, a)
  PROVE  Stream(s, q, t, Append(a, w))
<1>1. \A m \in 1..Len(a) : m \in 1..Len(Append(a, w)) /\ Append(a, w)[m] = a[m]
  OBVIOUS
<1>2. ASSUME NEW x, NEW f, NEW y, Follows(x, f, y, a) PROVE Follows(x, f, y, Append(a, w))
  BY Zenon, <1>1, <1>2 DEF Follows
<1> QED BY Zenon, <1>2 DEF Stream

\* One fragment more of a message.
LEMMA WholeAppend ==
  ASSUME NEW m \in Nat, NEW p \in Nat
  PROVE  whole(m, 0) = <<>> /\ Append(whole(m, p), <<m, p + 1>>) = whole(m, p + 1)
BY DEF whole

\* A prefix has its length.
LEMMA PrefixLen ==
  ASSUME NEW S, NEW a \in Seq(S), NEW n \in 0..Len(a)
  PROVE  Len(SubSeq(a, 1, n)) = n /\ n \in Nat /\ Len(a) \in Nat
OBVIOUS

\* The next element makes it the next prefix.
LEMMA PrefixNext ==
  ASSUME NEW S, NEW a \in Seq(S), NEW n \in 0..Len(a), n < Len(a)
  PROVE  n + 1 \in 0..Len(a) /\ Append(SubSeq(a, 1, n), a[n + 1]) = SubSeq(a, 1, n + 1)
OBVIOUS

\* A step that neither reads nor sends.
LEMMA StillStep ==
  ASSUME StreamInv, UNCHANGED <<delivered, apps>>,
         reader' = "ended" \/ (reader # "ended" /\ UNCHANGED <<part, kind, inbox, msgOpcode, buf>>)
  PROVE  StreamInv'
<1>1. DeliveredAreSent'
  BY Zenon DEF StreamInv, DeliveredAreSent
<1>2. CASE reader' = "ended"
  BY Zenon, <1>1, <1>2 DEF StreamInv
<1>3. CASE reader # "ended" /\ UNCHANGED <<part, kind, inbox, msgOpcode, buf>>
  <2>1. PICK s \in Pos : ReaderAt(s) /\ Stream(s, inbox, peerAt, apps)
    BY Zenon, <1>3 DEF StreamInv
  <2>2. peerAt' = peerAt /\ inbox' = inbox /\ apps' = apps
    BY Zenon, <1>3 DEF peerAt
  <2>3. ReaderAt(s)'
    BY Zenon, <1>3, <2>1 DEF ReaderAt
  <2>4. Stream(s, inbox', peerAt', apps')
    BY Zenon, <2>1, <2>2
  <2> QED BY Zenon, <1>1, <2>3, <2>4 DEF StreamInv
<1> QED BY Zenon, <1>2, <1>3

\* A step of the peer that adds the next frame of its stream.
LEMMA SendStep ==
  ASSUME TypeOK, TypeOK', StreamInv, UNCHANGED <<delivered, msgOpcode, buf, reader>>,
         NEW f \in Frame, inbox' = Append(inbox, f),
         NEW w \in Seq(Nat \X Nat), apps' = apps \/ apps' = Append(apps, w),
         Follows(peerAt, f, peerAt', apps')
  PROVE  StreamInv'
<1>1. /\ apps \in Seq(Seq(Nat \X Nat)) /\ inbox \in Seq(Frame)
      /\ apps' \in Seq(Seq(Nat \X Nat)) /\ part' \in Nat /\ kind' \in {"message", "ping"}
  BY Zenon DEF TypeOK
<1>2. peerAt' \in Pos
  <2>1. Len(apps') + 1 \in Nat
    BY ONLY <1>1
  <2> QED BY Zenon, <1>1, <2>1 DEF peerAt, Pos
<1>3. DeliveredAreSent'
  <2>1. PICK n \in 0..Len(apps) : delivered = SubSeq(apps, 1, n)
    BY Zenon DEF StreamInv, DeliveredAreSent
  <2>2. n \in 0..Len(Append(apps, w)) /\ delivered = SubSeq(Append(apps, w), 1, n)
    <3>1. n \in 0..Len(Append(apps, w)) /\ SubSeq(apps, 1, n) = SubSeq(Append(apps, w), 1, n)
      <4> DEFINE T == Seq(Nat \X Nat)
      <4>1. apps \in Seq(T) /\ w \in T
        BY Zenon, <1>1
      <4> HIDE DEF T
      <4> QED BY ONLY <4>1, n \in 0..Len(apps), SMTT(30)
    <3> QED BY Zenon, <2>1, <3>1
  <2>3. n \in 0..Len(apps') /\ delivered' = SubSeq(apps', 1, n)
    BY Zenon, <2>1, <2>2
  <2> QED BY Zenon, <2>3 DEF DeliveredAreSent
<1>4. ASSUME reader' # "ended" PROVE \E s \in Pos : ReaderAt(s)' /\ Stream(s, inbox', peerAt', apps')
  <2>1. PICK s \in Pos : ReaderAt(s) /\ Stream(s, inbox, peerAt, apps)
    BY Zenon, <1>4 DEF StreamInv
  <2>2. Stream(s, inbox, peerAt, apps')
    <3>1. Stream(s, inbox, peerAt, Append(apps, w))
      BY Zenon, <1>1, <2>1, StreamMore
    <3> QED BY Zenon, <2>1, <3>1
  <2>3. Stream(s, Append(inbox, f), peerAt', apps')
    BY Zenon, <1>1, <1>2, <2>2, StreamAppend
  <2>4. ReaderAt(s)'
    BY Zenon, <2>1 DEF ReaderAt
  <2> QED BY Zenon, <2>3, <2>4
<1> QED BY Zenon, <1>3, <1>4 DEF StreamInv

\* What a step of the reader that takes a frame has at hand.
LEMMA ReadStep ==
  ASSUME TypeOK, StreamInv, reader # "ended", inbox # <<>>, inbox' = Tail(inbox), UNCHANGED <<part, kind, apps>>
  PROVE  \E s, u \in Pos :
           /\ ReaderAt(s) /\ Follows(s, Head(inbox), u, apps)
           /\ ReaderAt(u)' /\ DeliveredAreSent' => StreamInv'
<1>1. inbox \in Seq(Frame)
  BY Zenon DEF TypeOK
<1>2. PICK s \in Pos : ReaderAt(s) /\ Stream(s, inbox, peerAt, apps)
  BY Zenon DEF StreamInv
<1>3. PICK u \in Pos : Follows(s, Head(inbox), u, apps) /\ Stream(u, Tail(inbox), peerAt, apps)
  BY Zenon, <1>1, <1>2, StreamHead
<1>4. peerAt' = peerAt
  BY Zenon DEF peerAt
<1>5. Stream(u, inbox', peerAt', apps')
  BY Zenon, <1>3, <1>4
<1>6. ReaderAt(u)' /\ DeliveredAreSent' => StreamInv'
  BY Zenon, <1>5 DEF StreamInv
<1> QED BY Zenon, <1>2, <1>3, <1>6

\* A data frame that is not refused continues what ReadMessage holds: if it was
\* out of step the last fragment would be refused.
LEMMA PayloadIsWhole ==
  ASSUME TypeOK, NEW s \in Pos, NEW u \in Pos, NEW f \in Frame, NEW a, ReaderAt(s), Follows(s, f, u, a),
         isData(f), f.kind # "pong", ~refuses(f), f.fin \/ opcode(f) = "text"
  PROVE  payload(f) = whole(s.msg, s.part + 1)
<1>1. opcode(f) = "text"
  BY Zenon DEF refuses
<1>2. s.msg \in Nat /\ s.part \in Nat
  BY Zenon DEF Pos
<1>3. f.msg = s.msg /\ f.part = s.part + 1 /\ (s.part # 0 => f.op = "cont")
  BY Zenon DEF Follows
<1>4. buf = whole(s.msg, s.part)
  <2>1. CASE s.part = 0
    <3>1. buf = <<>> /\ whole(s.msg, 0) = <<>>
      BY Zenon, <1>2, <2>1, WholeAppend DEF ReaderAt
    <3> QED BY Zenon, <2>1, <3>1
  <2>2. CASE s.part # 0
    <3>1. msgOpcode = "text"
      BY Zenon, <1>1, <1>3, <2>2 DEF opcode, TypeOK
    <3> QED BY Zenon, <2>2, <3>1 DEF ReaderAt
  <2> QED BY Zenon, <2>1, <2>2
<1> QED BY Zenon, <1>2, <1>3, <1>4, WholeAppend DEF payload

\* At first the reader and the peer are at the beginning of the stream.
LEMMA StreamInit == Init => StreamInv
<1> SUFFICES ASSUME Init PROVE StreamInv
  BY Zenon
<1>1. apps = <<>> /\ delivered = <<>> /\ inbox = <<>> /\ part = 0 /\ kind = "message" /\ msgOpcode = "cont" /\ buf = <<>>
  BY Zenon DEF Init
<1>2. Len(<<>>) = 0 /\ 0 \in 0..0 /\ SubSeq(<<>>, 1, 0) = <<>> /\ 0 + 1 \in Nat /\ 0 \in Nat
  OBVIOUS
<1>3. DeliveredAreSent
  BY Zenon, <1>1, <1>2 DEF DeliveredAreSent
<1>4. peerAt \in Pos /\ peerAt.msg = 0 + 1 /\ peerAt.part = 0
  BY Zenon, <1>1, <1>2 DEF peerAt, Pos
<1>5. ReaderAt(peerAt)
  BY Zenon, <1>1, <1>2, <1>4 DEF ReaderAt
<1>6. Stream(peerAt, inbox, peerAt, apps)
  BY Zenon, <1>1, <1>4, StreamEmpty
<1> QED BY Zenon, <1>3, <1>4, <1>5, <1>6 DEF StreamInv

\* Every step keeps the reader and the peer on the same stream.
LEMMA StreamStep == TypeOK /\ TypeOK' /\ StreamInv /\ [Next]_vars => StreamInv'
<1> SUFFICES ASSUME TypeOK, TypeOK', StreamInv, [Next]_vars PROVE StreamInv'
  BY Zenon
<1>1. CASE WritePong \/ WriteEIOPong \/ WriteEIOPayload \/ ReplyFails
  <2>1. UNCHANGED <<peer, message, inbox>> /\ reader # "ended"
    BY Zenon, <1>1 DEF WritePong, WriteEIOPong, WriteEIOPayload, ReplyFails
  <2> QED BY Zenon, <2>1, StillStep DEF peer, message
<1>2. CASE Silence \/ WriteMessage \/ WritePing \/ WritePayload \/ PumpEnds \/ Tick \/ UNCHANGED vars
  <2>1. UNCHANGED <<part, kind, apps, message, inbox, reader>>
    BY Zenon, <1>2 DEF Silence, WriteMessage, WritePing, WritePayload, PumpEnds, Tick, vars, peer
  <2> QED BY Zenon, <2>1, StillStep DEF message
<1>3. CASE ReadClose \/ ReadRefused
  <2>1. UNCHANGED <<delivered, apps>> /\ reader' = "ended"
    BY Zenon, <1>3 DEF ReadClose, ReadRefused, peer, message
  <2> QED BY Zenon, <2>1, StillStep
<1>4. CASE Timeout
  <2>1. /\ reader # "ended" /\ msgOpcode' = "cont" /\ buf' = <<>> /\ UNCHANGED <<part, kind, apps, inbox, delivered>>
    BY Zenon, <1>4 DEF Timeout, peer
  <2>2. PICK s \in Pos : ReaderAt(s) /\ Stream(s, inbox, peerAt, apps)
    BY Zenon, <2>1 DEF StreamInv
  <2>3. ReaderAt(s)'
    BY Zenon, <2>1, <2>2 DEF ReaderAt
  <2>4. peerAt' = peerAt
    BY Zenon, <2>1 DEF peerAt
  <2>5. Stream(s, inbox', peerAt', apps')
    BY Zenon, <2>1, <2>2, <2>4
  <2>6. DeliveredAreSent'
    BY Zenon, <2>1 DEF StreamInv, DeliveredAreSent
  <2> QED BY Zenon, <2>3, <2>5, <2>6 DEF StreamInv
<1>5. CASE ReadPing \/ ReadPong
  <2>1. /\ reader # "ended" /\ inbox # <<>> /\ inbox' = Tail(inbox) /\ ~isData(Head(inbox))
        /\ UNCHANGED <<part, kind, apps, msgOpcode, buf, delivered>>
    BY Zenon, <1>5 DEF ReadPing, ReadPong, reads, peer, message, isData
  <2>2. PICK s, u \in Pos : /\ ReaderAt(s) /\ Follows(s, Head(inbox), u, apps)
                            /\ ReaderAt(u)' /\ DeliveredAreSent' => StreamInv'
    BY Zenon, <2>1, ReadStep
  <2>3. u = s
    BY Zenon, <2>1, <2>2 DEF Follows
  <2>4. ReaderAt(u)' /\ DeliveredAreSent'
    BY Zenon, <2>1, <2>2, <2>3 DEF ReaderAt, StreamInv, DeliveredAreSent
  <2> QED BY Zenon, <2>2, <2>4
<1>6. CASE ReadPart
  <2> DEFINE f == Head(inbox)
  <2>1. /\ reader # "ended" /\ inbox # <<>> /\ inbox' = Tail(inbox) /\ isData(f) /\ ~f.fin /\ ~refuses(f)
        /\ msgOpcode' = opcode(f) /\ buf' = payload(f) /\ UNCHANGED <<part, kind, apps, delivered>>
    BY Zenon, <1>6 DEF ReadPart, reads, peer, isData
  <2>2. PICK s, u \in Pos : /\ ReaderAt(s) /\ Follows(s, f, u, apps)
                            /\ ReaderAt(u)' /\ DeliveredAreSent' => StreamInv'
    BY Zenon, <2>1, ReadStep
  <2>3. f \in Frame
    BY Zenon, <2>1, TailPong DEF TypeOK
  <2> HIDE DEF f
  <2>4. f.kind # "pong" /\ u.msg = s.msg /\ u.part = s.part + 1
    BY Zenon, <2>1, <2>2 DEF Follows
  <2>5. s.part + 1 # 0
    <3>1. s.part \in Nat
      BY Zenon DEF Pos
    <3> QED BY ONLY <3>1
  <2>6. opcode(f) = "text" => payload(f) = whole(s.msg, s.part + 1)
    BY Zenon, <2>1, <2>2, <2>3, <2>4, PayloadIsWhole
  <2>7. ReaderAt(u)'
    BY Zenon, <2>1, <2>2, <2>4, <2>5, <2>6 DEF ReaderAt
  <2>8. DeliveredAreSent'
    BY Zenon, <2>1 DEF StreamInv, DeliveredAreSent
  <2> QED BY Zenon, <2>2, <2>7, <2>8
<1>7. CASE ReadEIOPong \/ ReadEIOPing
  <2> DEFINE f == Head(inbox)
  <2>1. /\ reader # "ended" /\ inbox # <<>> /\ inbox' = Tail(inbox) /\ isData(f) /\ f.fin /\ f.kind \in {"pong", "ping"}
        /\ msgOpcode' = "cont" /\ buf' = <<>> /\ UNCHANGED <<part, kind, apps, delivered>>
    BY Zenon, <1>7 DEF ReadEIOPong, ReadEIOPing, readsMessage, reads, peer, isData
  <2>2. PICK s, u \in Pos : /\ ReaderAt(s) /\ Follows(s, f, u, apps)
                            /\ ReaderAt(u)' /\ DeliveredAreSent' => StreamInv'
    BY Zenon, <2>1, ReadStep
  <2> HIDE DEF f
  <2>3. u.msg = s.msg /\ u.part = 0
    <3>1. CASE f.kind = "pong"
      BY Zenon, <2>1, <2>2, <3>1 DEF Follows
    <3>2. CASE f.kind = "ping"
      <4>1. f.kind # "pong" /\ ~(f.fin /\ f.kind = "message")
        BY <3>2
      <4> QED BY Zenon, <2>1, <2>2, <4>1 DEF Follows
    <3> QED BY Zenon, <2>1, <3>1, <3>2
  <2>4. ReaderAt(u)'
    BY Zenon, <2>1, <2>2, <2>3 DEF ReaderAt
  <2>5. DeliveredAreSent'
    BY Zenon, <2>1 DEF StreamInv, DeliveredAreSent
  <2> QED BY Zenon, <2>2, <2>4, <2>5
<1>8. ASSUME NEW ticks \in 0..HandlerTime, ReadMessage(ticks) PROVE StreamInv'
  <2> DEFINE f == Head(inbox)
  <2>1. /\ reader # "ended" /\ inbox # <<>> /\ inbox' = Tail(inbox) /\ isData(f) /\ f.fin /\ f.kind = "message"
        /\ ~refuses(f) /\ msgOpcode' = "cont" /\ buf' = <<>> /\ delivered' = Append(delivered, payload(f))
        /\ UNCHANGED <<part, kind, apps>>
    BY Zenon, <1>8 DEF ReadMessage, readsMessage, reads, peer, isData
  <2>2. PICK s, u \in Pos : /\ ReaderAt(s) /\ Follows(s, f, u, apps)
                            /\ ReaderAt(u)' /\ DeliveredAreSent' => StreamInv'
    BY Zenon, <2>1, ReadStep
  <2>3. f \in Frame
    BY Zenon, <2>1, TailPong DEF TypeOK
  <2> HIDE DEF f
  <2>4. /\ f.kind # "pong" /\ u.msg = s.msg + 1 /\ u.part = 0 /\ f.msg = s.msg /\ f.part = s.part + 1
        /\ f.msg \in 1..Len(apps) /\ apps[f.msg] = whole(f.msg, f.part)
    BY Zenon, <2>1, <2>2 DEF Follows
  <2>5. payload(f) = apps[s.msg]
    BY Zenon, <2>1, <2>2, <2>3, <2>4, PayloadIsWhole
  <2>6. PICK n \in 0..Len(apps) : delivered = SubSeq(apps, 1, n)
    BY Zenon DEF StreamInv, DeliveredAreSent
  <2>7. apps \in Seq(Seq(Nat \X Nat)) /\ Len(delivered) = n /\ n \in Nat /\ Len(apps) \in Nat
    <3>1. apps \in Seq(Seq(Nat \X Nat))
      BY Zenon DEF TypeOK
    <3>2. Len(SubSeq(apps, 1, n)) = n /\ n \in Nat /\ Len(apps) \in Nat
      BY Zenon, <3>1, PrefixLen
    <3> QED BY Zenon, <2>6, <3>1, <3>2
  <2>8. s.msg = n + 1 /\ n < Len(apps)
    <3>1. s.msg = n + 1 /\ s.msg \in 1..Len(apps)
      BY Zenon, <2>2, <2>4, <2>7 DEF ReaderAt
    <3>2. n \in Nat /\ Len(apps) \in Nat
      BY Zenon, <2>7
    <3> QED BY ONLY <3>1, <3>2
  <2>9. delivered' = SubSeq(apps, 1, n + 1) /\ n + 1 \in 0..Len(apps)
    <3>1. n + 1 \in 0..Len(apps) /\ Append(SubSeq(apps, 1, n), apps[n + 1]) = SubSeq(apps, 1, n + 1)
      BY Zenon, <2>7, <2>8, PrefixNext
    <3> QED BY Zenon, <2>1, <2>5, <2>6, <2>8, <3>1
  <2>10. DeliveredAreSent'
    BY Zenon, <2>1, <2>9 DEF DeliveredAreSent
  <2>11. Len(delivered') = n + 1
    <3>1. Len(SubSeq(apps, 1, n + 1)) = n + 1
      BY Zenon, <2>7, <2>9, PrefixLen
    <3> QED BY Zenon, <2>9, <3>1
  <2>12. ReaderAt(u)'
    BY Zenon, <2>1, <2>4, <2>8, <2>11 DEF ReaderAt
  <2> QED BY Zenon, <2>2, <2>10, <2>12
<1>9. ASSUME NEW k \in {"message", "ping"}, NEW fin \in BOOLEAN, SendPart(k, fin) PROVE StreamInv'
  <2> DEFINE f == [op |-> IF part = 0 THEN "text" ELSE "cont", fin |-> fin,
                   kind |-> k, msg |-> Len(apps) + 1, part |-> part + 1]
             w == whole(Len(apps) + 1, part + 1)
  <2>1. /\ UNCHANGED <<delivered, msgOpcode, buf, reader>> /\ inbox' = Append(inbox, f)
        /\ kind' = k /\ part' = (IF fin THEN 0 ELSE part + 1)
        /\ apps' = (IF fin /\ k = "message" THEN Append(apps, w) ELSE apps)
    BY Zenon, <1>9 DEF SendPart, message, whole
  <2>2. /\ apps \in Seq(Seq(Nat \X Nat)) /\ part \in Nat
    BY Zenon DEF TypeOK
  <2>3. Len(apps) + 1 \in Nat /\ part + 1 \in Nat
    BY ONLY <2>2
  <2>4. f \in Frame
    BY Zenon, <2>3 DEF Frame
  <2>5. w \in Seq(Nat \X Nat)
    BY <2>3 DEF whole
  <2>6. /\ f.op = (IF part = 0 THEN "text" ELSE "cont") /\ f.fin = fin /\ f.kind = k /\ f.msg = Len(apps) + 1
        /\ f.part = part + 1
    BY Zenon
  <2>7. /\ isData(f) /\ f.kind # "pong"
    <3>1. "message" # "pong" /\ "ping" # "pong"
      OBVIOUS
    <3> QED BY Zenon, <2>6, <3>1 DEF isData
  <2> HIDE DEF f, w
  <2>8. /\ Len(Append(apps, w)) = Len(apps) + 1 /\ Len(apps) + 1 \in 1..Len(Append(apps, w))
        /\ Append(apps, w)[Len(apps) + 1] = w
    BY ONLY <2>2, <2>5
  <2>9. Follows(peerAt, f, peerAt', apps')
    <3>1. /\ peerAt.msg = Len(apps) + 1 /\ peerAt.part = part
          /\ peerAt'.msg = Len(apps') + 1 /\ peerAt'.part = part'
      BY Zenon DEF peerAt
    <3>2. CASE fin /\ k = "message"
      <4>1. apps' = Append(apps, w) /\ apps'[Len(apps) + 1] = w /\ Len(apps) + 1 \in 1..Len(apps')
            /\ Len(apps') = Len(apps) + 1
        BY Zenon, <2>1, <2>8, <3>2
      <4> QED BY Zenon, <2>1, <2>6, <2>7, <3>1, <3>2, <4>1 DEF Follows, w
    <3>3. CASE ~(fin /\ k = "message")
      <4>1. apps' = apps
        BY Zenon, <2>1, <3>3
      <4> QED BY Zenon, <2>1, <2>6, <2>7, <3>1, <3>3, <4>1 DEF Follows
    <3> QED BY Zenon, <3>2, <3>3
  <2>10. apps' = apps \/ apps' = Append(apps, w)
    BY Zenon, <2>1
  <2> QED BY Zenon, <2>1, <2>4, <2>5, <2>9, <2>10, SendStep
<1>10. ASSUME NEW o \in {"ping", "close", "unmasked"}, SendControl(o) PROVE StreamInv'
  <2>1. /\ UNCHANGED <<delivered, msgOpcode, buf, reader, apps, part, kind>> /\ inbox' = Append(inbox, control(o))
    BY Zenon, <1>10 DEF SendControl, message
  <2>2. control(o) \in Frame /\ ~isData(control(o)) /\ <<>> \in Seq(Nat \X Nat)
    BY DEF control, Frame, isData
  <2>3. Follows(peerAt, control(o), peerAt', apps')
    BY Zenon, <2>1, <2>2 DEF Follows, peerAt
  <2> QED BY Zenon, <2>1, <2>2, <2>3, SendStep
<1>11. ASSUME NEW r \in owed, Answer(r) PROVE StreamInv'
  <2> DEFINE p == [op |-> "text", fin |-> TRUE, kind |-> "pong", msg |-> 0, part |-> 1]
             f == IF layered THEN p ELSE control("pong")
  <2>1. /\ UNCHANGED <<delivered, msgOpcode, buf, reader, apps, part, kind>> /\ inbox' = Append(inbox, f)
        /\ layered => part = 0
    BY Zenon, <1>11 DEF Answer, message, peer
  <2>2. /\ control("pong") \in Frame /\ ~isData(control("pong")) /\ <<>> \in Seq(Nat \X Nat)
        /\ p \in Frame /\ p.kind = "pong" /\ p.fin
    BY DEF control, Frame, isData
  <2>3. peerAt' = peerAt /\ peerAt.part = part
    BY Zenon, <2>1 DEF peerAt
  <2> HIDE DEF p
  <2>4. f \in Frame
    BY Zenon, <2>2
  <2>5. Follows(peerAt, f, peerAt', apps')
    BY Zenon, <2>1, <2>2, <2>3 DEF Follows
  <2> HIDE DEF f
  <2> QED BY Zenon, <2>1, <2>2, <2>4, <2>5, SendStep
<1> QED BY Zenon, <1>1, <1>2, <1>3, <1>4, <1>5, <1>6, <1>7, <1>8, <1>9, <1>10, <1>11 DEF Next, Reader

\* Conn.ReadMessage and ReadPump: whatever is fragmented, put in between, refused
\* or timed out, onMessage has got the first messages of the peer, whole and once.
THEOREM MessagesArriveWhole == Spec => []DeliveredAreSent
<1>1. StreamInv => DeliveredAreSent
  BY Zenon DEF StreamInv
<1> QED BY <1>1, PumpsTypeCorrect, StreamInit, StreamStep, PTL DEF Spec
=============================================================================
