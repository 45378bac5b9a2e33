--------------------------- MODULE Session_proofs ---------------------------
(***************************************************************************)
(* Theorems about Session for every set of connections, payloads, limits    *)
(* and bounds: the replay buffer of a session is a contiguous run of what   *)
(* was sequenced, within its limits and never shorter than they force it to *)
(* be, the peer's input is a prefix of it, and the session implements       *)
(* ReliableStream.                                                          *)
(*                                                                          *)
(* PeerPrefix is not inductive: that the next frame written is the next one *)
(* the peer needs follows from UnseenInFlight, which at a resume follows    *)
(* from BufferRun, and which needs that one transport at most is in use and *)
(* that a recycled slot starts empty (SlotInv).  The facts about the replay *)
(* buffer that the steps rest on are in ReplayRing_proofs.                  *)
(*                                                                          *)
(* That a gap is beyond the window speaks of the frames the peer misses,    *)
(* some of which left the buffer long ago.  WindowInv remembers the reason  *)
(* at the moment one leaves: the peer has it, or it would not fit together  *)
(* with what was sent after it.                                             *)
(***************************************************************************)
EXTENDS Session, ReplayRing_proofs

(* The entries of the frames of a log l after the first n.                 *)
Run(l, n) == [i \in 1..(Len(l) - n) |-> [seq |-> n + i, data |-> l[n + i]]]

(* Its entries, and how many there are.                                    *)
LEMMA RunProps ==
  ASSUME NEW l \in Seq(Data), NEW n \in 0..Len(l)
  PROVE  /\ Run(l, n) \in Seq(Entry) /\ Len(Run(l, n)) = Len(l) - n
         /\ \A i \in 1..Len(l) - n : Run(l, n)[i] = [seq |-> n + i, data |-> l[n + i]]
<1>1. Len(l) \in Nat /\ \A i \in 1..Len(l) : l[i] \in Data
  BY Zenon, LenProperties, ElementOfSeq
<1>2. Len(l) - n \in Nat /\ \A i \in 1..Len(l) - n : n + i \in Nat /\ n + i \in 1..Len(l)
  BY <1>1
<1>3. \A i \in 1..Len(l) - n : [seq |-> n + i, data |-> l[n + i]] \in Entry
  BY Zenon, <1>1, <1>2 DEF Entry
<1>. QED BY <1>2, <1>3 DEF Run

(* A later run is what remains of an earlier one.                          *)
LEMMA RunSuffix ==
  ASSUME NEW l \in Seq(Data), NEW n \in 0..Len(l), NEW m \in n..Len(l)
  PROVE  Run(l, m) = DropOldest(Run(l, n), m - n)
<1>. DEFINE a == Run(l, n)
            c == Run(l, m)
            d == DropOldest(a, m - n)
            k == Len(l) - m
<1>1. Len(l) \in Nat
  BY Zenon, LenProperties
<1>2. /\ m \in 0..Len(l) /\ m - n \in 0..(Len(l) - n) /\ (Len(l) - n) - (m - n) = k
      /\ \A i \in 1..k : (m - n) + i \in 1..Len(l) - n /\ n + ((m - n) + i) = m + i
  BY <1>1
<1>3. /\ a \in Seq(Entry) /\ Len(a) = Len(l) - n
      /\ \A i \in 1..Len(l) - n : a[i] = [seq |-> n + i, data |-> l[n + i]]
  BY Zenon, RunProps
<1>4. /\ c \in Seq(Entry) /\ Len(c) = k
      /\ \A i \in 1..k : c[i] = [seq |-> m + i, data |-> l[m + i]]
  BY Zenon, <1>2, RunProps
<1>. HIDE DEF a, c, k
<1>5. /\ d \in Seq(Entry) /\ Len(d) = Len(a) - (m - n)
      /\ \A i \in 1..Len(a) - (m - n) : d[i] = a[(m - n) + i]
  <2>1. m - n \in 0..Len(a)
    BY Zenon, <1>2, <1>3
  <2>. QED BY Zenon, <1>3, <2>1, DropOldestProps
<1>. HIDE DEF d
<1>6. Len(d) = k /\ \A i \in 1..k : c[i] = d[i]
  BY Zenon, <1>2, <1>3, <1>4, <1>5
<1>7. c = d
  BY Zenon, <1>4, <1>5, <1>6, SameElements
<1>. QED BY Zenon, <1>7 DEF a, c, d

(* One frame more at the end of the log is one entry more.                 *)
LEMMA RunAppend ==
  ASSUME NEW l \in Seq(Data), NEW d \in Data, NEW n \in 0..Len(l)
  PROVE  Run(Append(l, d), n) = Append(Run(l, n), [seq |-> Len(l) + 1, data |-> d])
<1>. DEFINE h == Append(l, d)
            x == [seq |-> Len(l) + 1, data |-> d]
            a == Run(l, n)
            g == Run(h, n)
            f == Append(a, x)
            k == Len(l) - n
<1>1. /\ Len(l) \in Nat /\ h \in Seq(Data) /\ Len(h) = Len(l) + 1 /\ h[Len(l) + 1] = d
      /\ \A i \in 1..Len(l) : h[i] = l[i]
  BY AppendProperties, LenProperties
<1>. HIDE DEF h
<1>2. /\ k \in Nat /\ n \in 0..Len(h) /\ Len(h) - n = k + 1 /\ n + (k + 1) = Len(l) + 1
      /\ \A i \in 1..k : i \in 1..k + 1 /\ n + i \in 1..Len(l)
      /\ \A i \in 1..k + 1 : i = k + 1 \/ i \in 1..k
  BY <1>1
<1>3. a \in Seq(Entry) /\ Len(a) = k /\ \A i \in 1..k : a[i] = [seq |-> n + i, data |-> l[n + i]]
  BY Zenon, RunProps
<1>4. g \in Seq(Entry) /\ Len(g) = k + 1 /\ \A i \in 1..k + 1 : g[i] = [seq |-> n + i, data |-> h[n + i]]
  <2>1. /\ g \in Seq(Entry) /\ Len(g) = Len(h) - n
        /\ \A i \in 1..Len(h) - n : g[i] = [seq |-> n + i, data |-> h[n + i]]
    BY Zenon, <1>1, <1>2, RunProps
  <2>. HIDE DEF g, k
  <2>. QED BY Zenon, <1>2, <2>1
<1>5. x \in Entry
  BY <1>1 DEF Entry
<1>. HIDE DEF a, g, k
<1>6. /\ f \in Seq(Entry) /\ Len(f) = k + 1 /\ f[k + 1] = x /\ \A i \in 1..k : f[i] = a[i]
  <2>. HIDE DEF x
  <2>. QED BY <1>3, <1>5, AppendProperties
<1>. HIDE DEF f
<1>7. ASSUME NEW i \in 1..k + 1 PROVE g[i] = f[i]
  <2>1. CASE i = k + 1
    <3>1. g[k + 1] = [seq |-> n + (k + 1), data |-> h[n + (k + 1)]]
      BY Zenon, <1>4, <2>1
    <3>. QED BY Zenon, <1>1, <1>2, <1>6, <2>1, <3>1
  <2>2. CASE i \in 1..k
    <3>1. h[n + i] = l[n + i]
      BY Zenon, <1>1, <1>2, <2>2
    <3>. QED BY Zenon, <1>3, <1>4, <1>6, <2>2, <3>1
  <2>. QED BY Zenon, <1>2, <2>1, <2>2
<1>8. g = f
  BY Zenon, <1>4, <1>6, <1>7, SameElements
<1>. QED BY Zenon, <1>8 DEF g, f, a, h
-----------------------------------------------------------------------------

(* The peer uses one transport at most, the live connection of an open     *)
(* session has not left, and a free slot has nothing queued.               *)
SlotInv ==
  /\ \A c, d \in Conns : up[c] /\ up[d] => c = d
  /\ state # "closed" /\ live # NoConn => phase[live] = "open"
  /\ \A c \in Conns : phase[c] = "idle" => send[c] = << >>

IInv == TypeOK /\ BufferRun /\ PeerPrefix /\ UnseenInFlight /\ SlotInv

(* The initial state of a fresh session satisfies the invariant.           *)
LEMMA InitIInv == Init => IInv
<1>. SUFFICES ASSUME Init PROVE IInv
  BY Zenon
<1>. USE SessionConstants
<1>1. TypeOK
  <2>1. PICK c \in Conns :
          /\ live = c
          /\ phase = [x \in Conns |-> IF x = c THEN "open" ELSE "idle"]
          /\ up    = [x \in Conns |-> x = c]
          /\ chan  = [x \in Conns |-> x = c]
          /\ pump  = [x \in Conns |-> x = c]
    BY Zenon DEF Init
  <2>2. /\ up \in [Conns -> BOOLEAN] /\ chan \in [Conns -> BOOLEAN]
        /\ pump \in [Conns -> BOOLEAN]
    BY <2>1, Zenon
  <2>3. /\ phase \in [Conns -> {"idle", "open", "left"}]
        /\ live \in Conns \cup {NoConn}
    BY Zenon, <2>1
  <2>4. /\ state \in States /\ next \in Nat \ {0} /\ lastSeq \in Nat
        /\ hello \in [Conns -> Nat]
    BY DEF Init, States
  <2>6. /\ stalled \in BOOLEAN /\ astray \in BOOLEAN
        /\ dying \in [Conns -> BOOLEAN] /\ noResume \in [Conns -> BOOLEAN]
    BY ZenonT(30) DEF Init
  <2>5. /\ buf \in Seq(Entry) /\ log \in Seq(Data) /\ seen \in Seq(Data)
        /\ replay \in [Conns -> Seq(Frame)] /\ send \in [Conns -> Seq(Frame)]
    BY EmptySeq DEF Init
  <2>. QED BY Zenon, <2>2, <2>3, <2>4, <2>5, <2>6 DEF TypeOK
<1>2. BufferRun /\ PeerPrefix
  BY EmptySeq DEF Init, BufferRun, PeerPrefix
<1>3. UnseenInFlight
  <2>. SUFFICES ASSUME NEW c \in Conns PROVE InFlight(c)
    BY Zenon DEF UnseenInFlight
  <2>1. replay[c] = << >> /\ send[c] = << >> /\ hello[c] = 0 /\ next = 1 /\ lastSeq = 0
    BY Zenon DEF Init
  <2>. QED BY <2>1 DEF InFlight
<1>4. SlotInv
  BY ZenonT(30) DEF Init, SlotInv
<1>. QED BY Zenon, <1>1, <1>2, <1>3, <1>4 DEF IInv

(* commit extends the log by one frame and keeps the buffer a run.         *)
LEMMA CommitRun ==
  ASSUME TypeOK, BufferRun, NEW d \in Data, commit(d)
  PROVE  /\ next' = next + 1 /\ next' \in Nat \ {0}
         /\ buf' \in Seq(Entry) /\ log' \in Seq(Data)
         /\ \A i \in 1..next - 1 : log'[i] = log[i]
         /\ log'[next] = d
         /\ BufferRun'
<1>. DEFINE x == [seq |-> next, data |-> d]
            e == Append(buf, x)
<1>1. /\ next \in Nat \ {0} /\ buf \in Seq(Entry) /\ log \in Seq(Data)
      /\ Len(buf) \in Nat /\ Len(log) = next - 1 /\ Len(buf) < next
  BY Zenon, LenProperties DEF TypeOK, BufferRun
<1>2. /\ log' \in Seq(Data) /\ Len(log') = next /\ log'[next] = d
      /\ \A i \in 1..next - 1 : log'[i] = log[i]
  BY <1>1, AppendProperties DEF commit
<1>3. /\ x \in Entry /\ e \in Seq(Entry) /\ Len(e) = Len(buf) + 1
      /\ e[Len(buf) + 1] = x /\ \A i \in 1..Len(buf) : e[i] = buf[i]
  BY <1>1, AppendProperties DEF Entry
<1>4. PICK k \in 0..Len(e) : buf' = DropOldest(e, k)
  BY <1>1, BufferConstants, PushProps DEF commit
<1>5. /\ buf' \in Seq(Entry) /\ Len(buf') = Len(e) - k
      /\ \A i \in 1..Len(buf') : buf'[i] = e[k + i]
  <2>. HIDE DEF e
  <2>. QED BY SMTT(30), <1>3, <1>4, DropOldestProps
<1>6. \A i \in 1..Len(e) : e[i].seq = next - Len(e) + i /\ e[i].data = log'[e[i].seq]
  <2>. SUFFICES ASSUME NEW i \in 1..Len(e)
                PROVE  e[i].seq = next - Len(e) + i /\ e[i].data = log'[e[i].seq]
    BY Zenon
  <2>1. CASE i = Len(buf) + 1
    BY <1>1, <1>2, <1>3, <2>1
  <2>2. CASE i \in 1..Len(buf)
    <3>1. buf[i].seq = next - 1 - Len(buf) + i /\ buf[i].data = log[buf[i].seq]
      BY Zenon, <1>1, <2>2 DEF BufferRun
    <3>2. buf[i].seq \in 1..next - 1
      BY <1>1, <2>2, <3>1
    <3>3. e[i] = buf[i]
      BY Zenon, <1>3, <2>2
    <3>4. log'[buf[i].seq] = log[buf[i].seq]
      BY Zenon, <1>2, <3>2
    <3>5. Len(e) = Len(buf) + 1
      BY Zenon, <1>3
    <3>. HIDE DEF e
    <3>. QED BY <1>1, <3>1, <3>3, <3>4, <3>5
  <2>. QED BY <1>1, <1>3, <2>1, <2>2
<1>7. next' = next + 1
  BY Zenon DEF commit
<1>8. BufferRun'
  <2>. HIDE DEF e
  <2>1. Len(buf') \in Nat /\ DOMAIN buf' = 1..Len(buf')
    BY Zenon, <1>5, LenProperties
  <2>2. Len(log') = next' - 1 /\ Len(buf') < next'
    BY SMTT(30), <1>1, <1>2, <1>3, <1>5, <1>7, <2>1
  <2>3. ASSUME NEW i \in 1..Len(buf')
        PROVE  buf'[i].seq = next' - 1 - Len(buf') + i /\ buf'[i].data = log'[buf'[i].seq]
    <3>1. k + i \in 1..Len(e) /\ buf'[i] = e[k + i]
      BY <1>1, <1>3, <1>5, <2>1
    <3>2. e[k + i].seq = next - Len(e) + (k + i) /\ e[k + i].data = log'[e[k + i].seq]
      BY Zenon, <1>6, <3>1
    <3>3. buf'[i].seq = next - Len(e) + (k + i) /\ buf'[i].data = log'[buf'[i].seq]
      BY Zenon, <3>1, <3>2
    <3>4. Len(e) \in Nat /\ Len(buf') = Len(e) - k
      BY <1>1, <1>3, <1>5
    <3>. QED BY <1>1, <1>7, <3>3, <3>4
  <2>. QED BY Zenon, <2>1, <2>2, <2>3 DEF BufferRun
<1>. QED BY <1>1, <1>2, <1>5, <1>7, <1>8

(* ackUpTo(b, n) of a run is the run above n.                              *)
LEMMA AckUpToRun ==
  ASSUME NEW b \in Seq(Entry), NEW nx \in Nat, Len(b) < nx, NEW n \in Nat,
         \A i \in 1..Len(b) : b[i].seq = nx - 1 - Len(b) + i
  PROVE  \E k \in 0..Len(b) :
           /\ ackUpTo(b, n) \in Seq(Entry)
           /\ Len(ackUpTo(b, n)) = Len(b) - k
           /\ \A i \in 1..Len(b) - k : ackUpTo(b, n)[i] = b[k + i]
           /\ k = Len(b) \/ nx - Len(b) + k > n
           /\ k = 0 \/ nx - 1 - Len(b) + k <= n
<1>1. PICK k \in 0..Len(b) :
        /\ ackUpTo(b, n) = DropOldest(b, k)
        /\ k = Len(b) \/ b[k + 1].seq > n
        /\ \A j \in 1..k : b[j].seq <= n
  BY Zenon, AckUpToProps
<1>2. Len(b) \in Nat
  BY Zenon, LenProperties
<1>3. k = Len(b) \/ nx - Len(b) + k > n
  BY <1>1, <1>2
<1>4. k = 0 \/ nx - 1 - Len(b) + k <= n
  BY <1>1, <1>2
<1>. QED BY ZenonT(30), <1>1, <1>3, <1>4, DropOldestProps

(* Session.Ack and the ack part of a resume keep the buffer a run.         *)
LEMMA AckRun ==
  ASSUME TypeOK, BufferRun, NEW n \in Nat,
         buf' = ackUpTo(buf, n), next' = next, log' = log
  PROVE  buf' \in Seq(Entry) /\ BufferRun'
<1>1. /\ next \in Nat \ {0} /\ buf \in Seq(Entry) /\ Len(buf) \in Nat
      /\ Len(log) = next - 1 /\ Len(buf) < next
  BY Zenon, LenProperties DEF TypeOK, BufferRun
<1>2. \A i \in 1..Len(buf) : /\ buf[i].seq = next - 1 - Len(buf) + i
                             /\ buf[i].data = log[buf[i].seq]
  BY Zenon DEF BufferRun
<1>3. PICK k \in 0..Len(buf) :
        /\ buf' \in Seq(Entry) /\ Len(buf') = Len(buf) - k
        /\ \A i \in 1..Len(buf) - k : buf'[i] = buf[k + i]
  <2>. DEFINE a == ackUpTo(buf, n)
  <2>1. \E k \in 0..Len(buf) :
          /\ a \in Seq(Entry) /\ Len(a) = Len(buf) - k
          /\ \A i \in 1..Len(buf) - k : a[i] = buf[k + i]
    BY ZenonT(30), <1>1, <1>2, AckUpToRun
  <2>. HIDE DEF a
  <2>2. buf' = a
    BY Zenon DEF a
  <2>. QED BY Zenon, <2>1, <2>2
<1>4. ASSUME NEW i \in 1..Len(buf')
      PROVE  buf'[i].seq = next - 1 - Len(buf') + i /\ buf'[i].data = log[buf'[i].seq]
  <2>1. k + i \in 1..Len(buf) /\ buf'[i] = buf[k + i]
    BY <1>1, <1>3
  <2>2. buf'[i].seq = next - 1 - Len(buf) + (k + i) /\ buf'[i].data = log[buf'[i].seq]
    BY Zenon, <1>2, <2>1
  <2>. QED BY <1>1, <1>3, <2>2
<1>. QED BY <1>1, <1>3, <1>4 DEF BufferRun

(* An accepted resume replays exactly the frames after r, in order and     *)
(* with their payloads: verdict, covers, ackUpTo and after agree.          *)
THEOREM ReplayIsExact ==
  ASSUME TypeOK, BufferRun, NEW r \in Nat, verdict(r, FALSE) = "none"
  PROVE  LET R == after(ackUpTo(buf, r), r)
         IN  /\ r < next
             /\ R \in Seq(Entry) /\ Len(R) = next - 1 - r
             /\ \A i \in 1..Len(R) : R[i].seq = r + i /\ R[i].data = log[r + i]
<1>. DEFINE kept == ackUpTo(buf, r)
            R == after(kept, r)
<1>1. /\ next \in Nat \ {0} /\ buf \in Seq(Entry) /\ Len(buf) \in Nat /\ Len(buf) < next
  BY Zenon, LenProperties DEF TypeOK, BufferRun
<1>2. \A i \in 1..Len(buf) : /\ buf[i].seq = next - 1 - Len(buf) + i
                             /\ buf[i].data = log[buf[i].seq]
  BY Zenon DEF BufferRun
<1>3. r < next /\ (r >= next - 1 \/ covers(buf, r))
  BY <1>1 DEF verdict
<1>4. r = next - 1 \/ (Len(buf) > 0 /\ next - Len(buf) <= r + 1)
  BY <1>1, <1>2, <1>3 DEF covers
<1>5. PICK k \in 0..Len(buf) :
        /\ kept \in Seq(Entry) /\ Len(kept) = Len(buf) - k
        /\ \A i \in 1..Len(buf) - k : kept[i] = buf[k + i]
        /\ k = Len(buf) \/ next - Len(buf) + k > r
        /\ k = 0 \/ next - 1 - Len(buf) + k <= r
  BY Zenon, <1>1, <1>2, AckUpToRun
<1>. DEFINE n == Len(buf)
<1>. HIDE DEF kept, n
<1>51. n \in Nat /\ n < next /\ k \in 0..n /\ Len(kept) = n - k
  BY Zenon, <1>1, <1>5 DEF n
<1>52. /\ k = n \/ next - n + k > r
       /\ k = 0 \/ next - 1 - n + k <= r
       /\ r = next - 1 \/ next - n <= r + 1
       /\ r < next
  BY Zenon, <1>3, <1>4, <1>5 DEF n
<1>6. Len(kept) = next - 1 - r
  BY <1>1, <1>51, <1>52
<1>7. ASSUME NEW i \in 1..Len(kept)
      PROVE  kept[i].seq = r + i /\ kept[i].data = log[r + i]
  <2>1. k + i \in 1..n /\ i \in 1..n - k
    BY <1>51
  <2>2. kept[i] = buf[k + i]
    BY Zenon, <1>5, <2>1 DEF n
  <2>3. kept[i].seq = next - 1 - n + (k + i) /\ kept[i].data = log[kept[i].seq]
    BY Zenon, <1>2, <2>1, <2>2 DEF n
  <2>4. kept[i].seq = r + i
    BY SMTT(30), <1>1, <1>51, <1>6, <2>3
  <2>. QED BY Zenon, <2>3, <2>4
<1>9. Len(kept) < next /\ Len(kept) \in Nat
  BY <1>1, <1>51
<1>8. \A i \in 1..Len(kept) : kept[i].seq = next - 1 - Len(kept) + i
  BY <1>1, <1>6, <1>7
<1>10. PICK m \in 0..Len(kept) :
        /\ R \in Seq(Entry) /\ Len(R) = Len(kept) - m
        /\ \A i \in 1..Len(kept) - m : R[i] = kept[m + i]
        /\ m = 0 \/ next - 1 - Len(kept) + m <= r
  <2>1. after(kept, r) = ackUpTo(kept, r)
    BY Zenon, AfterIsAckUpTo
  <2>2. \E m \in 0..Len(kept) :
        /\ ackUpTo(kept, r) \in Seq(Entry) /\ Len(ackUpTo(kept, r)) = Len(kept) - m
        /\ \A i \in 1..Len(kept) - m : ackUpTo(kept, r)[i] = kept[m + i]
        /\ m = Len(kept) \/ next - Len(kept) + m > r
        /\ m = 0 \/ next - 1 - Len(kept) + m <= r
    BY ZenonT(30), <1>1, <1>5, <1>8, <1>9, AckUpToRun
  <2>. QED BY Zenon, <2>1, <2>2
<1>11. m = 0
  BY <1>1, <1>6, <1>9, <1>10
<1>. QED
  <2>. HIDE DEF R
  <2>1. /\ r < next /\ R \in Seq(Entry) /\ Len(R) = next - 1 - r
    BY <1>3, <1>6, <1>9, <1>10, <1>11
  <2>2. \A i \in 1..Len(R) : R[i] = kept[i]
    BY <1>9, <1>10, <1>11
  <2>3. \A i \in 1..Len(R) : R[i].seq = r + i /\ R[i].data = log[r + i]
    BY Zenon, <1>6, <1>7, <2>1, <2>2
  <2>. QED BY Zenon, <2>1, <2>3 DEF R, kept
-----------------------------------------------------------------------------
(* InFlight(c) survives every step that leaves c's queues and the peer     *)
(* alone, if frames are only appended to the log and, while c is live and  *)
(* not stalled, none is.                                                   *)
LEMMA InFlightKept ==
  ASSUME TypeOK, BufferRun, NEW c \in Conns, InFlight(c),
         next' \in Nat, next' >= next, \A i \in 1..next - 1 : log'[i] = log[i],
         hello'[c] = hello[c], replay'[c] = replay[c], send'[c] = send[c],
         lastSeq' = lastSeq,
         live' = c /\ ~stalled' /\ state' # "closed" =>
           next' = next /\ live = c /\ ~stalled /\ state # "closed"
  PROVE  InFlight(c)'
<1>1. /\ next \in Nat \ {0} /\ lastSeq \in Nat /\ hello[c] \in Nat
      /\ replay[c] \in Seq(Frame) /\ send[c] \in Seq(Frame)
      /\ Len(replay[c]) \in Nat /\ Len(send[c]) \in Nat
  BY Zenon, LenProperties DEF TypeOK
<1>2. /\ hello'[c] < next' /\ Len(replay'[c]) <= hello'[c]
      /\ hello'[c] - Len(replay'[c]) <= lastSeq'
      /\ replay'[c] # << >> => lastSeq' <= hello'[c]
  BY <1>1 DEF InFlight
<1>3. ASSUME NEW i \in 1..Len(replay'[c])
      PROVE  /\ replay'[c][i].seq = hello'[c] - Len(replay'[c]) + i
             /\ replay'[c][i].data = log'[replay'[c][i].seq]
  <2>1. /\ replay[c][i].seq = hello[c] - Len(replay[c]) + i
        /\ replay[c][i].data = log[replay[c][i].seq]
        /\ hello[c] < next /\ Len(replay[c]) <= hello[c]
    BY Zenon DEF InFlight
  <2>2. replay[c][i].seq \in 1..next - 1
    BY <1>1, <2>1
  <2>. QED BY SMTT(30), <2>1, <2>2
<1>4. ASSUME NEW j \in 1..Len(send'[c]), send'[c][j].seq # 0
      PROVE  /\ send'[c][j].seq > hello'[c] /\ send'[c][j].seq < next'
             /\ send'[c][j].data = log'[send'[c][j].seq]
             /\ \A k \in 1..j - 1 : send'[c][k].seq < send'[c][j].seq
             /\ \A m \in hello'[c] + 1..send'[c][j].seq - 1 :
                  m > lastSeq' => \E k \in 1..Len(send'[c]) : send'[c][k].seq = m
  <2>1. /\ send[c][j].seq > hello[c] /\ send[c][j].seq < next
        /\ send[c][j].data = log[send[c][j].seq]
        /\ \A k \in 1..j - 1 : send[c][k].seq < send[c][j].seq
        /\ \A m \in hello[c] + 1..send[c][j].seq - 1 :
             m > lastSeq => \E k \in 1..Len(send[c]) : send[c][k].seq = m
    BY Zenon, <1>4 DEF InFlight
  <2>2. send[c][j].seq \in Nat
    <3>1. j \in 1..Len(send[c])
      BY Zenon
    <3>2. send[c][j] \in Frame
      BY Zenon, <1>1, <3>1, ElementOfSeq
    <3>. QED BY Zenon, <3>2 DEF Frame
  <2>3. send[c][j].seq \in 1..next - 1
    BY <1>1, <2>1, <2>2
  <2>. QED BY <1>1, <2>1, <2>2, <2>3
<1>5. live' = c /\ ~stalled' /\ state' # "closed" =>
        \A m \in hello'[c] + 1..next' - 1 :
          m > lastSeq' => \E k \in 1..Len(send'[c]) : send'[c][k].seq = m
  BY Zenon DEF InFlight
<1>. QED BY Zenon, <1>2, <1>3, <1>4, <1>5 DEF InFlight

(* The peer's prefix does not depend on what is appended to the log.       *)
LEMMA PeerPrefixKept ==
  ASSUME TypeOK, PeerPrefix, UNCHANGED peer, next' \in Nat, next' >= next,
         \A i \in 1..next - 1 : log'[i] = log[i]
  PROVE  PeerPrefix'
<1>1. /\ next \in Nat /\ lastSeq \in Nat /\ lastSeq' = lastSeq /\ seen' = seen
      /\ Len(seen) = lastSeq /\ lastSeq < next
      /\ \A i \in 1..lastSeq : seen[i] = log[i]
  BY Zenon DEF TypeOK, PeerPrefix, peer
<1>2. \A i \in 1..lastSeq : i \in 1..next - 1
  BY <1>1
<1>3. \A i \in 1..lastSeq : seen'[i] = log'[i]
  BY Zenon, <1>1, <1>2
<1>. QED BY <1>1, <1>3 DEF PeerPrefix

(* The branches of deliver that only commit: offline, closed channel, full. *)
LEMMA CommitOnlyStep ==
  ASSUME IInv, NEW d \in Data, commit(d), UNCHANGED <<state, live, queues, peer>>,
         UNCHANGED <<phase, up, chan, pump, noResume, hello>>,
         dying' \in [Conns -> BOOLEAN],
         astray' \in BOOLEAN, stalled' \in BOOLEAN, live # NoConn => stalled'
  PROVE  IInv'
<1>1. /\ next' = next + 1 /\ next' \in Nat \ {0} /\ next \in Nat
      /\ buf' \in Seq(Entry) /\ log' \in Seq(Data)
      /\ \A i \in 1..next - 1 : log'[i] = log[i]
      /\ BufferRun'
  BY Zenon, CommitRun DEF IInv, TypeOK
<1>2. TypeOK'
  BY Zenon, <1>1 DEF IInv, TypeOK, queues, peer
<1>3. PeerPrefix'
  BY <1>1, PeerPrefixKept DEF IInv
<1>4. UnseenInFlight'
  <2>. SUFFICES ASSUME NEW c \in Conns, up'[c], pump'[c] PROVE InFlight(c)'
    BY Zenon DEF UnseenInFlight
  <2>1. InFlight(c)
    BY Zenon DEF IInv, UnseenInFlight
  <2>2. live' = c => stalled'
    BY Zenon, SessionConstants
  <2>3. /\ hello'[c] = hello[c] /\ replay'[c] = replay[c] /\ send'[c] = send[c]
        /\ lastSeq' = lastSeq /\ next' >= next /\ next' \in Nat
    BY <1>1 DEF queues, peer
  <2>. QED BY Zenon, <1>1, <2>1, <2>2, <2>3, InFlightKept DEF IInv
<1>5. SlotInv'
  BY Zenon DEF IInv, SlotInv, queues
<1>. QED BY Zenon, <1>1, <1>2, <1>3, <1>4, <1>5 DEF IInv

(* Steps that touch neither the log, the buffer, the peer nor the queues   *)
(* of a served connection, and do not make a session live again.           *)
LEMMA WiringStep ==
  ASSUME IInv, TypeOK', UNCHANGED <<next, log, peer>>, BufferRun',
         \A c \in Conns : up'[c] => up[c],
         \A c \in Conns : pump'[c] => pump[c],
         \A c \in Conns : up'[c] /\ pump'[c] =>
            hello'[c] = hello[c] /\ replay'[c] = replay[c] /\ send'[c] = send[c],
         live' # NoConn /\ ~stalled' /\ state' # "closed" =>
            live' = live /\ ~stalled /\ state # "closed",
         SlotInv'
  PROVE  IInv'
<1>1. next \in Nat /\ next' = next /\ log' = log
  BY Zenon DEF IInv, TypeOK
<1>2. PeerPrefix'
  BY SMTT(30), <1>1, PeerPrefixKept DEF IInv
<1>3. UnseenInFlight'
  <2>. SUFFICES ASSUME NEW c \in Conns, up'[c], pump'[c] PROVE InFlight(c)'
    BY Zenon DEF UnseenInFlight
  <2>1. InFlight(c)
    BY Zenon DEF IInv, UnseenInFlight
  <2>2. /\ hello'[c] = hello[c] /\ replay'[c] = replay[c] /\ send'[c] = send[c]
        /\ lastSeq' = lastSeq /\ next' >= next /\ next' \in Nat
    BY <1>1 DEF peer
  <2>3. live' = c /\ ~stalled' /\ state' # "closed" =>
          next' = next /\ live = c /\ ~stalled /\ state # "closed"
    BY Zenon, <1>1, SessionConstants
  <2>. QED BY Zenon, <1>1, <2>1, <2>2, <2>3, InFlightKept DEF IInv
<1>. QED BY Zenon, <1>2, <1>3 DEF IInv
-----------------------------------------------------------------------------

(* A step of the write pump that loses a frame, or a broken transport.     *)
LEMMA WriteLostStep == ASSUME IInv, NEW c \in Conns, WriteLost(c) PROVE IInv'
<1>. USE DEF IInv
<1>1. /\ replay' \in [Conns -> Seq(Frame)] /\ send' \in [Conns -> Seq(Frame)]
      /\ \A x \in Conns \ {c} : replay'[x] = replay[x] /\ send'[x] = send[x]
      /\ send[c] = << >> => send'[c] = << >>
  <2>1. /\ replay \in [Conns -> Seq(Frame)] /\ send \in [Conns -> Seq(Frame)]
        /\ replay[c] \in Seq(Frame) /\ send[c] \in Seq(Frame)
    BY Zenon DEF TypeOK
  <2>2. CASE replay[c] # << >>
    <3>1. Tail(replay[c]) \in Seq(Frame)
      BY Zenon, <2>1, <2>2, HeadTailProperties
    <3>. QED BY Zenon, <2>1, <2>2, <3>1 DEF WriteLost, pop
  <2>3. CASE replay[c] = << >>
    <3>1. send[c] # << >>
      BY Zenon, <2>3 DEF WriteLost, Pending
    <3>2. Tail(send[c]) \in Seq(Frame)
      BY Zenon, <2>1, <3>1, HeadTailProperties
    <3>. QED BY Zenon, <2>1, <2>3, <3>1, <3>2 DEF WriteLost, pop
  <2>. QED BY Zenon, <2>2, <2>3
<1>2. pump' \in [Conns -> BOOLEAN] /\ \A x \in Conns : pump'[x] => pump[x]
  BY Zenon DEF WriteLost, TypeOK
<1>3. up[c] => ~pump'[c]
  BY Zenon DEF WriteLost, TypeOK
<1>4. UNCHANGED <<session, phase, up, chan, dying, noResume, hello, log, peer>>
  BY Zenon DEF WriteLost
<1>5. TypeOK'
  BY Zenon, <1>1, <1>2, <1>4 DEF TypeOK, session, peer
<1>6. BufferRun'
  BY Zenon, <1>4 DEF BufferRun, session
<1>7. SlotInv'
  BY Zenon, <1>1, <1>4 DEF SlotInv, session
<1>. QED BY Zenon, <1>1, <1>2, <1>3, <1>4, <1>5, <1>6, <1>7, WiringStep DEF session

(* The effect of closeRaw on the types.                                    *)
LEMMA CloseRawTypes ==
  ASSUME TypeOK, NEW c \in Conns, closeRaw(c)
  PROVE  /\ up' \in [Conns -> BOOLEAN] /\ chan' \in [Conns -> BOOLEAN]
         /\ pump' \in [Conns -> BOOLEAN]
         /\ replay' \in [Conns -> Seq(Frame)] /\ send' \in [Conns -> Seq(Frame)]
         /\ ~up'[c] /\ send'[c] = << >>
         /\ \A x \in Conns \ {c} : /\ up'[x] = up[x] /\ pump'[x] = pump[x]
                                   /\ replay'[x] = replay[x] /\ send'[x] = send[x]
         /\ \A x \in Conns : pump'[x] => pump[x]
<1>1. /\ up' \in [Conns -> BOOLEAN] /\ chan' \in [Conns -> BOOLEAN]
      /\ pump' \in [Conns -> BOOLEAN]
  BY Zenon DEF TypeOK, closeRaw
<1>2. << >> \in Seq(Frame)
  BY Zenon, EmptySeq
<1>3. replay' \in [Conns -> Seq(Frame)] /\ send' \in [Conns -> Seq(Frame)]
  BY Zenon, <1>2 DEF TypeOK, closeRaw
<1>4. ~up'[c] /\ ~pump'[c] /\ send'[c] = << >>
  BY Zenon DEF TypeOK, closeRaw
<1>5. \A x \in Conns \ {c} : /\ up'[x] = up[x] /\ pump'[x] = pump[x]
                            /\ replay'[x] = replay[x] /\ send'[x] = send[x]
  BY Zenon DEF TypeOK, closeRaw
<1>. QED BY Zenon, <1>1, <1>3, <1>4, <1>5

(* The steps that close a transport or end a session.                      *)
LEMMA ClosingSteps ==
  ASSUME IInv, NEW c \in Conns,
         ShutdownResumable(c) \/ Disconnect(c) \/ Finish(c)
  PROVE  IInv'
<1>. USE DEF IInv
<1>1. closeRaw(c) /\ UNCHANGED <<session, log, peer>>
  BY Zenon DEF ShutdownResumable, Disconnect, Finish
<1>2. /\ phase' \in [Conns -> {"idle", "open", "left"}]
      /\ \A x \in Conns : phase'[x] = phase[x] \/ (phase[x] = "left" /\ x = c)
      /\ hello' \in [Conns -> Nat]
      /\ \A x \in Conns \ {c} : hello'[x] = hello[x]
  <2>1. CASE ShutdownResumable(c)
    BY Zenon, <2>1 DEF ShutdownResumable, TypeOK
  <2>2. CASE Disconnect(c)
    BY Zenon, <2>2 DEF Disconnect, TypeOK
  <2>3. CASE Finish(c)
    BY Zenon, <2>3 DEF Finish, TypeOK
  <2>. QED BY Zenon, <2>1, <2>2, <2>3
<1>3. dying' \in [Conns -> BOOLEAN] /\ noResume' \in [Conns -> BOOLEAN]
  BY Zenon DEF ShutdownResumable, Disconnect, Finish, TypeOK
<1>4. TypeOK'
  BY SMTT(30), <1>1, <1>2, <1>3, CloseRawTypes DEF TypeOK, session, peer
<1>5. BufferRun'
  BY Zenon, <1>1 DEF BufferRun, session
<1>6. \A x \in Conns : up'[x] => x # c /\ up[x]
  BY Zenon, <1>1, CloseRawTypes
<1>7. SlotInv'
  BY ZenonT(30), <1>1, <1>2, <1>6, CloseRawTypes DEF SlotInv, session, TypeOK
<1>8. \A x \in Conns : up'[x] /\ pump'[x] =>
        hello'[x] = hello[x] /\ replay'[x] = replay[x] /\ send'[x] = send[x]
  BY Zenon, <1>1, <1>2, <1>6, CloseRawTypes
<1>9. \A x \in Conns : pump'[x] => pump[x]
  BY Zenon, <1>1, CloseRawTypes
<1>. QED BY Zenon, <1>1, <1>4, <1>5, <1>6, <1>7, <1>8, <1>9, WiringStep DEF session

(* The transport breaks while frames are queued: nothing the session holds changes.*)
LEMMA DropStep == ASSUME IInv, NEW c \in Conns, Drop(c) PROVE IInv'
<1>. USE DEF IInv
<1>1. up' \in [Conns -> BOOLEAN] /\ \A x \in Conns : up'[x] => up[x]
  BY Zenon DEF Drop, TypeOK
<1>2. UNCHANGED <<session, phase, chan, pump, dying, noResume, hello, queues, log, peer>>
  BY Zenon DEF Drop
<1>3. TypeOK'
  BY Zenon, <1>1, <1>2 DEF TypeOK, session, queues, peer
<1>4. BufferRun' /\ SlotInv'
  BY Zenon, <1>1, <1>2 DEF BufferRun, SlotInv, session, queues
<1>. QED BY Zenon, <1>1, <1>2, <1>3, <1>4, WiringStep DEF session, queues

(* retire: SessionStore.Leave in its four outcomes.                        *)
LEMMA LeaveStep == ASSUME IInv, NEW c \in Conns, Leave(c) PROVE IInv'
<1>. USE DEF IInv
<1>1. /\ phase' \in [Conns -> {"idle", "open", "left"}]
      /\ phase'[c] = "left" /\ \A x \in Conns \ {c} : phase'[x] = phase[x]
      /\ UNCHANGED <<next, buf, up, chan, pump, dying, noResume, hello, queues, log, peer>>
  BY Zenon DEF Leave, TypeOK, session
<1>2. \/ UNCHANGED <<state, live, stalled, astray>> /\ (state = "closed" \/ live # c)
      \/ state' \in {"closed", "parked"} /\ live' = NoConn
         /\ stalled' \in BOOLEAN /\ astray' \in BOOLEAN
  BY Zenon DEF Leave, session, TypeOK
<1>3. TypeOK'
  BY Zenon, <1>1, <1>2 DEF TypeOK, States, queues, peer
<1>4. BufferRun'
  BY Zenon, <1>1 DEF BufferRun
<1>5. SlotInv'
  BY Zenon, <1>1, <1>2, SessionConstants DEF SlotInv, queues, TypeOK
<1>. QED BY <1>1, <1>2, <1>3, <1>4, <1>5, WiringStep DEF queues

(* A resume the verdict refuses leaves the session as it was.              *)
LEMMA ResumeRefusedStep ==
  ASSUME IInv, NEW r, NEW expired, ResumeRefused(r, expired) PROVE IInv'
<1>. USE DEF IInv
<1>1. /\ up' = [x \in Conns |-> FALSE] /\ state' = "closed"
      /\ UNCHANGED <<next, buf, live, stalled, astray, phase, chan, pump, dying, noResume, hello,
                     queues, log, peer>>
  BY Zenon DEF ResumeRefused
<1>2. up' \in [Conns -> BOOLEAN] /\ \A x \in Conns : ~up'[x]
  BY <1>1, Zenon
<1>3. TypeOK'
  BY Zenon, <1>1, <1>2 DEF TypeOK, States, queues, peer
<1>4. BufferRun' /\ SlotInv'
  BY Zenon, <1>1, <1>2 DEF BufferRun, SlotInv, queues
<1>. QED BY Zenon, <1>1, <1>2, <1>3, <1>4, WiringStep DEF queues

(* Sweep closes a parked session; the peer can only start afresh.          *)
LEMMA ExpireStep == ASSUME IInv, Expire PROVE IInv'
<1>. USE DEF IInv
<1>1. /\ state' = "closed"
      /\ UNCHANGED <<next, buf, live, stalled, astray, wiring, queues, log, peer>>
  BY Zenon DEF Expire
<1>2. TypeOK'
  BY Zenon, <1>1 DEF TypeOK, States, wiring, queues, peer
<1>3. BufferRun' /\ SlotInv'
  BY Zenon, <1>1 DEF BufferRun, SlotInv, wiring, queues
<1>. QED BY Zenon, <1>1, <1>2, <1>3, WiringStep DEF wiring, queues

(* Session.Ack prunes the buffer of frames the peer has seen.              *)
LEMMA AckStep == ASSUME IInv, NEW n \in 0..lastSeq, Ack(n) PROVE IInv'
<1>. USE DEF IInv
<1>1. /\ buf' = ackUpTo(buf, n)
      /\ UNCHANGED <<state, next, live, stalled, astray, wiring, queues, log, peer>>
  BY Zenon DEF Ack
<1>2. n \in Nat
  BY DEF TypeOK
<1>3. buf' \in Seq(Entry) /\ BufferRun'
  BY Zenon, <1>1, <1>2, AckRun
<1>4. TypeOK'
  BY Zenon, <1>1, <1>3 DEF TypeOK, wiring, queues, peer
<1>5. SlotInv'
  BY Zenon, <1>1 DEF SlotInv, wiring, queues
<1>. QED BY Zenon, <1>1, <1>3, <1>4, <1>5, WiringStep DEF wiring, queues

(* deliver when nothing reaches the queue: offline, closed channel, full.  *)
LEMMA DeliverCommitSteps ==
  ASSUME IInv, NEW d \in Data,
         \/ DeliverOffline(d) \/ DeliverClosedChannel(d)
         \/ \E via \in Emitters : DeliverFull(d, via)
  PROVE  IInv'
<1>1. /\ commit(d) /\ UNCHANGED <<state, live, queues, peer>>
      /\ UNCHANGED <<phase, up, chan, pump, noResume, hello>>
  BY Zenon DEF DeliverOffline, DeliverClosedChannel, DeliverFull, wiring
<1>2. stalled' \in BOOLEAN /\ (live # NoConn => stalled')
  <2>1. CASE DeliverOffline(d)
    BY Zenon, <2>1 DEF DeliverOffline, offline, IInv, TypeOK
  <2>2. CASE DeliverClosedChannel(d)
    BY Zenon, <2>2 DEF DeliverClosedChannel
  <2>3. CASE \E via \in Emitters : DeliverFull(d, via)
    BY Zenon, <2>3 DEF DeliverFull
  <2>. QED BY Zenon, <2>1, <2>2, <2>3
<1>3. dying' \in [Conns -> BOOLEAN] /\ astray' \in BOOLEAN
  <2>1. CASE DeliverOffline(d) \/ DeliverClosedChannel(d)
    BY Zenon, <2>1 DEF DeliverOffline, DeliverClosedChannel, wiring, IInv, TypeOK
  <2>2. CASE \E via \in Emitters : DeliverFull(d, via)
    BY Zenon, <2>2 DEF DeliverFull, blame, IInv, TypeOK
  <2>. QED BY Zenon, <2>1, <2>2
<1>. QED BY Zenon, <1>1, <1>2, <1>3, CommitOnlyStep

(* The members of an integer interval.                                     *)
LEMMA IntervalMember ==
  \A h, x \in Nat : \A m \in h + 1..x - 1 : m \in Nat /\ m <= x - 1
OBVIOUS

(* deliver into the live queue: a sequenced frame (seq = next) or a        *)
(* volatile one (seq = 0).                                                 *)
LEMMA EnqueueStep ==
  ASSUME IInv, NEW d \in Data, NEW n \in Nat, ~offline, state # "closed",
         enqueue(n, d), UNCHANGED <<state, live, stalled, astray, wiring, replay, peer>>,
         \/ n = next /\ commit(d)
         \/ n = 0 /\ UNCHANGED <<next, buf, log>>
  PROVE  IInv'
<1>. USE DEF IInv
<1>. DEFINE f == [seq |-> n, data |-> d]
<1>1. live \in Conns /\ ~stalled /\ next \in Nat /\ lastSeq \in Nat
  BY Zenon DEF offline, TypeOK
<1>2. /\ next' \in Nat \ {0} /\ next' >= next /\ buf' \in Seq(Entry) /\ log' \in Seq(Data)
      /\ \A i \in 1..next - 1 : log'[i] = log[i]
      /\ BufferRun'
      /\ n = 0 => next' = next
      /\ n # 0 => n = next /\ next' = next + 1 /\ log'[n] = d
  <2>1. CASE n = next /\ commit(d)
    BY <1>1, <2>1, CommitRun DEF TypeOK
  <2>2. CASE n = 0 /\ UNCHANGED <<next, buf, log>>
    BY <1>1, <2>2 DEF TypeOK, BufferRun
  <2>. QED BY Zenon, <2>1, <2>2
<1>3. f \in Frame
  BY Zenon DEF Frame
<1>. HIDE DEF f
<1>4. send[live] \in Seq(Frame) /\ Len(send[live]) \in Nat
  BY Zenon, <1>1, LenProperties DEF TypeOK
<1>5. send'[live] = Append(send[live], f) /\ \A x \in Conns \ {live} : send'[x] = send[x]
  BY Zenon, <1>1 DEF enqueue, TypeOK, f
<1>6. /\ send'[live] \in Seq(Frame) /\ Len(send'[live]) = Len(send[live]) + 1
      /\ \A i \in 1..Len(send[live]) : send'[live][i] = send[live][i]
      /\ send'[live][Len(send[live]) + 1] = f
  BY <1>3, <1>4, <1>5, AppendProperties
<1>7. send' \in [Conns -> Seq(Frame)]
  BY Zenon, <1>1, <1>5, <1>6 DEF enqueue, TypeOK
<1>8. TypeOK'
  BY SMTT(30), <1>2, <1>7 DEF TypeOK, wiring, peer
<1>9. PeerPrefix'
  BY Zenon, <1>2, PeerPrefixKept
<1>10. SlotInv'
  <2>1. phase[live] = "open" /\ live' = live /\ phase' = phase /\ up' = up /\ state' = state
    BY Zenon, <1>1, SessionConstants DEF SlotInv, wiring
  <2>2. ASSUME NEW x \in Conns, phase'[x] = "idle" PROVE send'[x] = << >>
    <3>1. x # live /\ phase[x] = "idle"
      BY Zenon, <2>1, <2>2
    <3>. QED BY Zenon, <1>5, <3>1 DEF SlotInv
  <2>. QED BY Zenon, <2>1, <2>2 DEF SlotInv
<1>11. ASSUME NEW c \in Conns, up'[c], pump'[c], c # live PROVE InFlight(c)'
  <2>1. InFlight(c)
    BY Zenon, <1>11 DEF UnseenInFlight, wiring
  <2>2. /\ hello'[c] = hello[c] /\ replay'[c] = replay[c] /\ send'[c] = send[c]
        /\ lastSeq' = lastSeq /\ next' >= next /\ next' \in Nat /\ live' # c
    BY Zenon, <1>2, <1>5, <1>11 DEF wiring, peer
  <2>. QED BY Zenon, <1>2, <2>1, <2>2, InFlightKept
<1>12. ASSUME NEW c \in Conns, up'[c], pump'[c], c = live PROVE InFlight(c)'
  <2>. DEFINE q == send[c]
              w == send'[c]
  <2>1. InFlight(c)
    BY Zenon, <1>12 DEF UnseenInFlight, wiring
  <2>2. /\ q \in Seq(Frame) /\ Len(q) \in Nat /\ Len(w) = Len(q) + 1
        /\ \A i \in 1..Len(q) : w[i] = q[i]
        /\ w[Len(q) + 1].seq = n /\ w[Len(q) + 1].data = d
    BY <1>4, <1>6, <1>12 DEF f
  <2>3. ASSUME NEW i \in 1..Len(q) PROVE q[i].seq \in Nat
    <3>1. q[i] \in Frame
      BY Zenon, <2>2, ElementOfSeq
    <3>. QED BY Zenon, <3>1 DEF Frame
  <2>4. /\ hello'[c] = hello[c] /\ replay'[c] = replay[c] /\ lastSeq' = lastSeq
        /\ live' = live /\ stalled' = stalled /\ state' = state
        /\ hello[c] \in Nat /\ replay[c] \in Seq(Frame) /\ Len(replay[c]) \in Nat
    BY Zenon, LenProperties DEF wiring, peer, TypeOK
  <2>5. /\ hello[c] < next /\ Len(replay[c]) <= hello[c]
        /\ hello[c] - Len(replay[c]) <= lastSeq
        /\ replay[c] # << >> => lastSeq <= hello[c]
    BY Zenon, <2>1 DEF InFlight
  <2>6. ASSUME NEW i \in 1..Len(replay[c])
        PROVE  /\ replay[c][i].seq = hello[c] - Len(replay[c]) + i
               /\ replay[c][i].data = log'[replay[c][i].seq]
    <3>1. /\ replay[c][i].seq = hello[c] - Len(replay[c]) + i
          /\ replay[c][i].data = log[replay[c][i].seq]
      BY Zenon, <2>1 DEF InFlight
    <3>2. replay[c][i].seq \in 1..next - 1
      BY SMTT(30), <1>1, <2>4, <2>5, <3>1
    <3>. QED BY SMTT(30), <1>2, <3>1, <3>2
  <2>7. \A j \in 1..Len(q) : q[j].seq # 0 =>
          /\ q[j].seq > hello[c] /\ q[j].seq < next
          /\ q[j].data = log[q[j].seq]
          /\ \A k \in 1..j - 1 : q[k].seq < q[j].seq
          /\ \A m \in hello[c] + 1..q[j].seq - 1 :
               m > lastSeq => \E k \in 1..Len(q) : q[k].seq = m
    BY Zenon, <2>1 DEF InFlight
  <2>8. \A m \in hello[c] + 1..next - 1 :
          m > lastSeq => \E k \in 1..Len(q) : q[k].seq = m
    BY Zenon, <1>1, <1>12, <2>1 DEF InFlight
  <2>. HIDE DEF q, w
  <2>9. \A m \in hello[c] + 1..next' - 1 :
          m > lastSeq => \E k \in 1..Len(w) : w[k].seq = m
    <3>. SUFFICES ASSUME NEW m \in hello[c] + 1..next' - 1, m > lastSeq
                  PROVE  \E k \in 1..Len(w) : w[k].seq = m
      BY Zenon
    <3>1. CASE m < next
      <4>1. PICK k \in 1..Len(q) : q[k].seq = m
        BY <1>1, <2>4, <2>8, <3>1
      <4>. QED BY <2>2, <4>1
    <3>2. CASE m = next /\ n # 0
      BY <1>2, <2>2, <3>2
    <3>3. m \in Nat /\ m <= next' - 1
      <4>1. hello[c] \in Nat /\ next' \in Nat
        BY Zenon, <1>2, <2>4
      <4>. QED BY Zenon, <4>1, IntervalMember
    <3>4. CASE n = 0
      BY <1>1, <1>2, <3>1, <3>3, <3>4
    <3>5. CASE n # 0
      <4>1. m < next \/ m = next
        BY <1>1, <1>2, <3>3, <3>5
      <4>. QED BY Zenon, <3>1, <3>2, <3>5, <4>1
    <3>. QED BY Zenon, <3>4, <3>5
  <2>10. ASSUME NEW j \in 1..Len(w), w[j].seq # 0
         PROVE  /\ w[j].seq > hello[c] /\ w[j].seq < next'
                /\ w[j].data = log'[w[j].seq]
                /\ \A k \in 1..j - 1 : w[k].seq < w[j].seq
                /\ \A m \in hello[c] + 1..w[j].seq - 1 :
                     m > lastSeq => \E k \in 1..Len(w) : w[k].seq = m
    <3>1. CASE j = Len(q) + 1
      <4>1. w[j].seq = n /\ n = next /\ next' = next + 1 /\ w[j].data = log'[n]
        BY Zenon, <1>2, <2>2, <2>10, <3>1
      <4>2. ASSUME NEW k \in 1..j - 1 PROVE w[k].seq < w[j].seq
        <5>1. k \in 1..Len(q) /\ w[k] = q[k] /\ q[k].seq \in Nat
          BY SMTT(30), <2>2, <2>3, <3>1
        <5>2. q[k].seq = 0 \/ q[k].seq < next
          BY Zenon, <2>7, <5>1
        <5>. QED BY <1>1, <4>1, <5>1, <5>2, <2>4, <2>5
      <4>3. \A m \in hello[c] + 1..w[j].seq - 1 : m \in hello[c] + 1..next' - 1
        BY <1>1, <2>4, <4>1
      <4>. QED BY <1>1, <2>4, <2>5, <2>9, <4>1, <4>2, <4>3
    <3>2. CASE j \in 1..Len(q)
      <4>1. w[j] = q[j] /\ q[j].seq # 0 /\ q[j].seq \in Nat
        BY Zenon, <2>2, <2>3, <2>10, <3>2
      <4>2. /\ q[j].seq > hello[c] /\ q[j].seq < next /\ q[j].data = log[q[j].seq]
            /\ \A k \in 1..j - 1 : q[k].seq < q[j].seq
        BY Zenon, <2>7, <3>2, <4>1
      <4>3. q[j].seq \in 1..next - 1 /\ q[j].seq < next'
        BY SMTT(30), <1>1, <1>2, <2>4, <4>1, <4>2
      <4>4. \A k \in 1..j - 1 : k \in 1..Len(q) /\ w[k] = q[k]
        BY <2>2, <3>2
      <4>5. \A m \in hello[c] + 1..w[j].seq - 1 : m \in hello[c] + 1..next' - 1
        BY SMTT(30), <1>1, <1>2, <2>4, <4>1, <4>3
      <4>. QED BY ZenonT(30), <1>2, <2>9, <4>1, <4>2, <4>3, <4>4, <4>5
    <3>. QED BY SMTT(30), <2>2, <3>1, <3>2
  <2>11. hello[c] < next'
    BY <1>1, <1>2, <2>4, <2>5
  <2>. QED BY SMTT(30), <2>4, <2>5, <2>6, <2>9, <2>10, <2>11 DEF InFlight, w
<1>13. UnseenInFlight'
  BY Zenon, <1>11, <1>12 DEF UnseenInFlight
<1>. QED BY Zenon, <1>2, <1>8, <1>9, <1>10, <1>13
-----------------------------------------------------------------------------

(* The peer takes a frame that is not beyond the next one it needs.        *)
LEMMA OnFrameStep ==
  ASSUME TypeOK, BufferRun, PeerPrefix, UNCHANGED <<next, log>>,
         NEW f \in Frame, onFrame(f), f.seq <= lastSeq + 1,
         f.seq > lastSeq => f.seq < next /\ f.data = log[f.seq]
  PROVE  /\ lastSeq' \in Nat /\ seen' \in Seq(Data) /\ PeerPrefix'
         /\ lastSeq' = IF f.seq > lastSeq THEN f.seq ELSE lastSeq
<1>1. /\ lastSeq \in Nat /\ seen \in Seq(Data) /\ f.seq \in Nat /\ f.data \in Data
      /\ next \in Nat /\ Len(seen) = lastSeq /\ lastSeq < next
      /\ \A i \in 1..lastSeq : seen[i] = log[i]
  BY Zenon DEF TypeOK, PeerPrefix, Frame
<1>2. CASE f.seq > lastSeq
  <2>1. lastSeq' = f.seq /\ f.seq = lastSeq + 1 /\ seen' = Append(seen, f.data)
    BY <1>1, <1>2 DEF onFrame
  <2>2. /\ seen' \in Seq(Data) /\ Len(seen') = lastSeq + 1
        /\ seen'[lastSeq + 1] = f.data /\ \A i \in 1..lastSeq : seen'[i] = seen[i]
    BY <1>1, <2>1, AppendProperties
  <2>3. ASSUME NEW i \in 1..lastSeq' PROVE seen'[i] = log'[i]
    <3>1. i \in 1..lastSeq \/ i = lastSeq + 1
      BY <1>1, <2>1
    <3>. QED BY Zenon, <1>1, <1>2, <2>1, <2>2, <3>1
  <2>. QED BY Zenon, <1>1, <1>2, <2>1, <2>2, <2>3 DEF PeerPrefix
<1>3. CASE ~(f.seq > lastSeq)
  BY Zenon, <1>1, <1>3 DEF onFrame, peer, PeerPrefix
<1>. QED BY Zenon, <1>2, <1>3

(* WritePump hands the next frame to the peer: it is the next one the peer *)
(* needs, or one it has already seen, or not sequenced.                    *)
LEMMA WriteFrameStep == ASSUME IInv, NEW c \in Conns, WriteFrame(c) PROVE IInv'
<1>. USE DEF IInv
<1>. DEFINE R == replay[c]
            q == send[c]
            f == NextFrame(c)
<1>1. /\ up[c] /\ pump[c] /\ UNCHANGED <<session, wiring, log>>
      /\ (R # << >> \/ q # << >>)
      /\ onFrame(f) /\ pop(c)
  BY Zenon DEF WriteFrame, Pending
<1>2. /\ R \in Seq(Frame) /\ q \in Seq(Frame) /\ Len(R) \in Nat /\ Len(q) \in Nat
      /\ hello[c] \in Nat /\ next \in Nat \ {0} /\ lastSeq \in Nat
      /\ log \in Seq(Data) /\ Len(log) = next - 1
  BY Zenon, LenProperties DEF TypeOK, BufferRun
<1>3. InFlight(c)
  BY Zenon, <1>1 DEF UnseenInFlight
<1>4. /\ hello[c] < next /\ Len(R) <= hello[c] /\ hello[c] - Len(R) <= lastSeq
      /\ R # << >> => lastSeq <= hello[c]
      /\ \A i \in 1..Len(R) : R[i].seq = hello[c] - Len(R) + i /\ R[i].data = log[R[i].seq]
  BY Zenon, <1>3 DEF InFlight
<1>5. \A j \in 1..Len(q) : q[j].seq # 0 =>
        /\ q[j].seq > hello[c] /\ q[j].seq < next
        /\ q[j].data = log[q[j].seq]
        /\ \A k \in 1..j - 1 : q[k].seq < q[j].seq
        /\ \A m \in hello[c] + 1..q[j].seq - 1 :
             m > lastSeq => \E k \in 1..Len(q) : q[k].seq = m
  BY Zenon, <1>3 DEF InFlight
<1>6. ASSUME NEW i \in 1..Len(q) PROVE q[i].seq \in Nat
  <2>1. q[i] \in Frame
    BY Zenon, <1>2, ElementOfSeq
  <2>. QED BY Zenon, <2>1 DEF Frame
<1>7. live = c /\ ~stalled /\ state # "closed" =>
        \A m \in hello[c] + 1..next - 1 :
          m > lastSeq => \E k \in 1..Len(q) : q[k].seq = m
  BY Zenon, <1>3 DEF InFlight
<1>8. \A x \in Conns \ {c} : ~up[x]
  BY Zenon, <1>1 DEF SlotInv
<1>9. CASE R # << >>
  <2>1. /\ replay' = [replay EXCEPT ![c] = Tail(R)] /\ send' = send /\ f = Head(R)
    BY Zenon, <1>1, <1>9 DEF pop, NextFrame
  <2>2. /\ Tail(R) \in Seq(Frame) /\ Len(Tail(R)) = Len(R) - 1 /\ Len(R) \in Nat \ {0}
        /\ \A i \in 1..Len(R) - 1 : Tail(R)[i] = R[i + 1]
        /\ Head(R) \in Frame /\ Head(R) = R[1]
    BY <1>2, <1>9, HeadTailProperties, EmptySeq
  <2>3. /\ f \in Frame /\ f.seq = hello[c] - Len(R) + 1 /\ f.data = log[f.seq]
    BY <1>4, <2>1, <2>2
  <2>4. f.seq \in Nat /\ f.seq < next /\ f.seq <= lastSeq + 1 /\ f.seq <= hello[c]
    BY SMTT(30), <1>2, <1>4, <2>2, <2>3
  <2>. HIDE DEF f
  <2>5. /\ lastSeq' \in Nat /\ seen' \in Seq(Data) /\ PeerPrefix'
        /\ lastSeq' = IF f.seq > lastSeq THEN f.seq ELSE lastSeq
    <3>1. UNCHANGED <<next, log>>
      BY Zenon, <1>1 DEF session
    <3>. QED BY Zenon, <1>1, <2>3, <2>4, <3>1, OnFrameStep
  <2>6. /\ replay' \in [Conns -> Seq(Frame)] /\ replay'[c] = Tail(R)
        /\ send'[c] = q
    BY Zenon, <2>1, <2>2 DEF TypeOK
  <2>7. TypeOK'
    BY SMTT(30), <1>1, <2>1, <2>5, <2>6 DEF TypeOK, session, wiring
  <2>8. lastSeq' >= lastSeq /\ lastSeq' <= hello[c] /\ hello[c] - (Len(R) - 1) <= lastSeq'
    <3>1. CASE f.seq > lastSeq
      <4>1. lastSeq' = f.seq
        BY Zenon, <2>5, <3>1
      <4>. QED BY SMTT(30), <1>2, <2>2, <2>3, <2>4, <3>1, <4>1
    <3>2. CASE ~(f.seq > lastSeq)
      <4>1. lastSeq' = lastSeq
        BY Zenon, <2>5, <3>2
      <4>. QED BY SMTT(30), <1>2, <1>4, <1>9, <2>2, <2>3, <2>4, <3>2, <4>1
    <3>. QED BY Zenon, <3>1, <3>2
  <2>9. InFlight(c)'
    <3>. DEFINE T == Tail(R)
    <3>1. /\ hello'[c] = hello[c] /\ next' = next /\ log' = log
          /\ live' = live /\ stalled' = stalled /\ state' = state
      BY Zenon, <1>1 DEF session, wiring
    <3>2. Len(T) <= hello[c] /\ hello[c] - Len(T) <= lastSeq'
      BY <1>2, <1>4, <2>2, <2>8
    <3>3. ASSUME NEW i \in 1..Len(T)
          PROVE  T[i].seq = hello[c] - Len(T) + i /\ T[i].data = log[T[i].seq]
      <4>1. i + 1 \in 1..Len(R) /\ T[i] = R[i + 1]
        BY <2>2
      <4>2. R[i + 1].seq = hello[c] - Len(R) + (i + 1) /\ R[i + 1].data = log[R[i + 1].seq]
        BY Zenon, <1>4, <4>1
      <4>. QED BY SMTT(30), <1>2, <2>2, <4>1, <4>2
    <3>4. ASSUME NEW j \in 1..Len(q), q[j].seq # 0
          PROVE  \A m \in hello[c] + 1..q[j].seq - 1 :
                   m > lastSeq' => \E k \in 1..Len(q) : q[k].seq = m
      <4>1. \A m \in hello[c] + 1..q[j].seq - 1 : m > lastSeq' => m > lastSeq
        BY <1>2, <1>6, <2>5, <2>8
      <4>. QED BY Zenon, <1>5, <3>4, <4>1
    <3>5. live = c /\ ~stalled /\ state # "closed" =>
            \A m \in hello[c] + 1..next - 1 :
              m > lastSeq' => \E k \in 1..Len(q) : q[k].seq = m
      <4>1. \A m \in hello[c] + 1..next - 1 : m > lastSeq' => m > lastSeq
        BY <1>2, <2>5, <2>8
      <4>. QED BY Zenon, <1>7, <4>1
    <3>. HIDE DEF T
    <3>6. replay'[c] = T /\ send'[c] = q
      BY Zenon, <2>6 DEF T
    <3>. HIDE DEF q
    <3>. QED BY SMTT(30), <1>4, <1>5, <2>8, <3>1, <3>2, <3>3, <3>4, <3>5, <3>6 DEF InFlight
  <2>10. UnseenInFlight'
    BY Zenon, <1>1, <1>8, <2>9 DEF UnseenInFlight, wiring
  <2>11. BufferRun' /\ SlotInv'
    BY Zenon, <1>1, <2>1 DEF BufferRun, SlotInv, session, wiring
  <2>. QED BY Zenon, <2>5, <2>7, <2>10, <2>11
<1>10. CASE R = << >>
  <2>1. replay' = replay /\ send' = [send EXCEPT ![c] = Tail(q)] /\ f = Head(q) /\ q # << >>
    BY Zenon, <1>1, <1>10 DEF pop, NextFrame
  <2>2. /\ Tail(q) \in Seq(Frame) /\ Len(Tail(q)) = Len(q) - 1 /\ Len(q) \in Nat \ {0}
        /\ \A i \in 1..Len(q) - 1 : Tail(q)[i] = q[i + 1]
        /\ Head(q) \in Frame /\ Head(q) = q[1]
    BY <1>2, <2>1, HeadTailProperties, EmptySeq
  <2>3. f \in Frame /\ f = q[1] /\ f.seq \in Nat /\ 1 \in 1..Len(q)
    BY <2>1, <2>2, <1>6
  <2>4. hello[c] <= lastSeq
    BY <1>2, <1>4, <1>10
  <2>. HIDE DEF f
  <2>5. f.seq > lastSeq => f.seq < next /\ f.data = log[f.seq]
    BY <1>2, <1>5, <2>3
  <2>6. f.seq <= lastSeq + 1
    <3>. SUFFICES ASSUME f.seq > lastSeq + 1 PROVE FALSE
      BY <1>2, <2>3
    <3>1. q[1].seq # 0 /\ lastSeq + 1 \in hello[c] + 1..q[1].seq - 1
      BY SMTT(30), <1>2, <2>3, <2>4
    <3>5. \A m \in hello[c] + 1..q[1].seq - 1 :
            m > lastSeq => \E k \in 1..Len(q) : q[k].seq = m
      BY Zenon, <1>5, <2>3, <3>1
    <3>6. lastSeq + 1 > lastSeq
      BY <1>2
    <3>2. PICK k \in 1..Len(q) : q[k].seq = lastSeq + 1
      BY Zenon, <3>1, <3>5, <3>6
    <3>3. k # 1 /\ q[k].seq # 0 /\ 1 \in 1..k - 1
      BY <1>2, <2>3, <3>2
    <3>4. q[1].seq < q[k].seq
      BY Zenon, <1>5, <3>3
    <3>. QED BY <1>2, <2>3, <3>2, <3>4
  <2>7. /\ lastSeq' \in Nat /\ seen' \in Seq(Data) /\ PeerPrefix'
        /\ lastSeq' = IF f.seq > lastSeq THEN f.seq ELSE lastSeq
    <3>1. UNCHANGED <<next, log>>
      BY Zenon, <1>1 DEF session
    <3>. QED BY Zenon, <1>1, <2>3, <2>5, <2>6, <3>1, OnFrameStep
  <2>8. /\ send' \in [Conns -> Seq(Frame)] /\ send'[c] = Tail(q)
        /\ \A x \in Conns \ {c} : send'[x] = send[x]
    BY Zenon, <2>1, <2>2 DEF TypeOK
  <2>9. TypeOK'
    BY SMTT(30), <1>1, <2>1, <2>7, <2>8 DEF TypeOK, session, wiring
  <2>10. lastSeq' >= lastSeq /\ lastSeq' >= f.seq
    BY <1>2, <2>3, <2>7
  <2>11. InFlight(c)'
    <3>. DEFINE T == Tail(q)
    <3>1. /\ hello'[c] = hello[c] /\ next' = next /\ log' = log
          /\ live' = live /\ stalled' = stalled /\ state' = state
      BY Zenon, <1>1 DEF session, wiring
    <3>2. Len(T) = Len(q) - 1 /\ \A i \in 1..Len(T) : i + 1 \in 1..Len(q) /\ T[i] = q[i + 1]
      BY <2>2
    <3>. HIDE DEF T
    <3>3. ASSUME NEW m \in Nat, m > lastSeq', \E k \in 1..Len(q) : q[k].seq = m
          PROVE  \E k \in 1..Len(T) : T[k].seq = m
      <4>1. PICK k \in 1..Len(q) : q[k].seq = m
        BY Zenon, <3>3
      <4>2. k # 1
        BY <2>3, <2>7, <2>10, <3>3, <4>1
      <4>3. k - 1 \in 1..Len(T) /\ T[k - 1] = q[k]
        BY <1>2, <3>2, <4>2
      <4>. QED BY Zenon, <4>1, <4>3
    <3>4. ASSUME NEW j \in 1..Len(T), T[j].seq # 0
          PROVE  /\ T[j].seq > hello[c] /\ T[j].seq < next
                 /\ T[j].data = log[T[j].seq]
                 /\ \A k \in 1..j - 1 : T[k].seq < T[j].seq
                 /\ \A m \in hello[c] + 1..T[j].seq - 1 :
                      m > lastSeq' => \E k \in 1..Len(T) : T[k].seq = m
      <4>1. j + 1 \in 1..Len(q) /\ T[j] = q[j + 1] /\ q[j + 1].seq # 0
        BY Zenon, <3>2, <3>4
      <4>2. /\ q[j + 1].seq > hello[c] /\ q[j + 1].seq < next
            /\ q[j + 1].data = log[q[j + 1].seq]
            /\ \A k \in 1..(j + 1) - 1 : q[k].seq < q[j + 1].seq
            /\ \A m \in hello[c] + 1..q[j + 1].seq - 1 :
                 m > lastSeq => \E k \in 1..Len(q) : q[k].seq = m
        BY SMTT(30), <1>5, <4>1
      <4>3. \A k \in 1..j - 1 : k \in 1..Len(T) /\ k + 1 \in 1..(j + 1) - 1
        BY <1>2, <3>2
      <4>4. \A k \in 1..j - 1 : T[k].seq < T[j].seq
        BY Zenon, <3>2, <4>1, <4>2, <4>3
      <4>5. ASSUME NEW m \in hello[c] + 1..T[j].seq - 1, m > lastSeq'
            PROVE  \E k \in 1..Len(T) : T[k].seq = m
        <5>1. q[j + 1].seq \in Nat
          BY Zenon, <1>6, <4>1
        <5>2. m \in Nat /\ m > lastSeq /\ m \in hello[c] + 1..q[j + 1].seq - 1
          BY <1>2, <2>7, <2>10, <4>1, <4>5, <5>1
        <5>. QED BY Zenon, <3>3, <4>2, <4>5, <5>2
      <4>. QED BY Zenon, <4>1, <4>2, <4>4, <4>5
    <3>5. ASSUME live = c, ~stalled, state # "closed",
                 NEW m \in hello[c] + 1..next - 1, m > lastSeq'
          PROVE  \E k \in 1..Len(T) : T[k].seq = m
      <4>1. m \in Nat /\ m > lastSeq
        BY <1>2, <2>7, <2>10, <3>5
      <4>. QED BY Zenon, <1>7, <3>3, <3>5, <4>1
    <3>6. replay'[c] = R /\ send'[c] = T
      BY Zenon, <2>1, <2>8 DEF T
    <3>7. hello[c] - Len(R) <= lastSeq'
      BY <1>2, <1>4, <2>7, <2>10
    <3>. HIDE DEF R
    <3>8. /\ hello'[c] < next' /\ Len(replay'[c]) <= hello'[c]
          /\ hello'[c] - Len(replay'[c]) <= lastSeq' /\ replay'[c] = << >>
          /\ \A i \in 1..Len(replay'[c]) :
               /\ replay'[c][i].seq = hello'[c] - Len(replay'[c]) + i
               /\ replay'[c][i].data = log'[replay'[c][i].seq]
      BY Zenon, <1>4, <1>10, <3>1, <3>6, <3>7
    <3>9. \A j \in 1..Len(send'[c]) : send'[c][j].seq # 0 =>
            /\ send'[c][j].seq > hello'[c] /\ send'[c][j].seq < next'
            /\ send'[c][j].data = log'[send'[c][j].seq]
            /\ \A k \in 1..j - 1 : send'[c][k].seq < send'[c][j].seq
            /\ \A m \in hello'[c] + 1..send'[c][j].seq - 1 :
                 m > lastSeq' => \E k \in 1..Len(send'[c]) : send'[c][k].seq = m
      BY Zenon, <3>1, <3>4, <3>6
    <3>10. live' = c /\ ~stalled' /\ state' # "closed" =>
             \A m \in hello'[c] + 1..next' - 1 :
               m > lastSeq' => \E k \in 1..Len(send'[c]) : send'[c][k].seq = m
      BY Zenon, <3>1, <3>5, <3>6
    <3>. QED BY Zenon, <3>8, <3>9, <3>10 DEF InFlight
  <2>12. UnseenInFlight'
    BY Zenon, <1>1, <1>8, <2>11 DEF UnseenInFlight, wiring
  <2>13. BufferRun'
    BY Zenon, <1>1 DEF BufferRun, session
  <2>14. SlotInv'
    <3>1. q # << >> => phase[c] # "idle"
      BY Zenon DEF SlotInv
    <3>. QED BY Zenon, <1>1, <2>1, <2>8, <3>1 DEF SlotInv, session, wiring
  <2>. QED BY Zenon, <2>7, <2>9, <2>12, <2>13, <2>14
<1>. QED BY Zenon, <1>9, <1>10

(* The peer resumes on a free slot: the replay it gets starts at the first *)
(* frame it has not seen and ends with the newest one.                     *)
LEMMA ResumeStep ==
  ASSUME IInv, NEW c \in Conns, NEW r \in Requests, Resume(c, r) PROVE IInv'
<1>. USE DEF IInv
<1>. DEFINE R == after(ackUpTo(buf, r), r)
<1>1. /\ phase[c] = "idle" /\ verdict(r, FALSE) = "none"
      /\ buf' = ackUpTo(buf, r) /\ replay' = [replay EXCEPT ![c] = R]
      /\ hello' = [hello EXCEPT ![c] = next - 1]
      /\ live' = c /\ state' = "attached" /\ stalled' = FALSE /\ astray' = FALSE
      /\ phase' = [phase EXCEPT ![c] = "open"] /\ up' = [x \in Conns |-> x = c]
      /\ chan' = [chan EXCEPT ![c] = TRUE] /\ pump' = [pump EXCEPT ![c] = TRUE]
      /\ dying' = IF live = NoConn THEN dying ELSE [dying EXCEPT ![live] = TRUE]
      /\ UNCHANGED <<next, noResume, send, log, peer>>
  BY Zenon DEF Resume, attachLocked
<1>2. next \in Nat \ {0} /\ lastSeq \in Nat /\ lastSeq < next
  BY Zenon DEF TypeOK, PeerPrefix
<1>3. r \in Nat /\ r <= lastSeq
  <2>1. r # next
    BY <1>1, <1>2 DEF verdict
  <2>. QED BY <1>2, <2>1 DEF Requests
<1>4. /\ r < next /\ R \in Seq(Entry) /\ Len(R) = next - 1 - r
      /\ \A i \in 1..Len(R) : R[i].seq = r + i /\ R[i].data = log[r + i]
  BY Zenon, <1>1, <1>3, ReplayIsExact
<1>5. buf' \in Seq(Entry) /\ BufferRun'
  BY Zenon, <1>1, <1>3, AckRun
<1>. HIDE DEF R
<1>6. R \in Seq(Frame)
  BY Zenon, <1>4 DEF Entry, Frame
<1>7. /\ replay' \in [Conns -> Seq(Frame)] /\ replay'[c] = R
      /\ hello' \in [Conns -> Nat] /\ hello'[c] = next - 1
      /\ phase' \in [Conns -> {"idle", "open", "left"}] /\ phase'[c] = "open"
      /\ \A x \in Conns \ {c} : phase'[x] = phase[x]
  BY <1>1, <1>2, <1>6 DEF TypeOK
<1>8. /\ up' \in [Conns -> BOOLEAN] /\ chan' \in [Conns -> BOOLEAN]
      /\ pump' \in [Conns -> BOOLEAN] /\ dying' \in [Conns -> BOOLEAN]
  <2>1. dying' \in [Conns -> BOOLEAN]
    BY <1>1, Zenon DEF TypeOK
  <2>2. chan' \in [Conns -> BOOLEAN] /\ pump' \in [Conns -> BOOLEAN]
    BY <1>1, Zenon DEF TypeOK
  <2>. QED BY <1>1, <2>1, <2>2, Zenon
<1>9. TypeOK'
  BY Zenon, <1>1, <1>5, <1>7, <1>8 DEF TypeOK, States, peer
<1>10. PeerPrefix'
  BY <1>1, <1>2, PeerPrefixKept
<1>11. \A x \in Conns : up'[x] => x = c
  BY ZenonT(30), <1>1
<1>12. SlotInv'
  <2>1. ASSUME NEW x \in Conns, phase'[x] = "idle" PROVE send'[x] = << >>
    BY Zenon, <1>1, <1>7, <2>1 DEF SlotInv
  <2>. QED BY Zenon, <1>1, <1>7, <1>11, <2>1 DEF SlotInv
<1>13. InFlight(c)'
  <2>. DEFINE h == next - 1
  <2>1. /\ h \in Nat /\ h < next /\ Len(R) \in Nat /\ Len(R) <= h
        /\ h - Len(R) = r /\ r <= lastSeq /\ lastSeq <= h
    BY <1>2, <1>3, <1>4
  <2>2. \A i \in 1..Len(R) : R[i].seq = h - Len(R) + i /\ R[i].data = log[R[i].seq]
    BY Zenon, <1>4, <2>1
  <2>3. send'[c] = << >> /\ Len(send'[c]) = 0
    BY <1>1 DEF SlotInv
  <2>4. \A m \in h + 1..next - 1 : FALSE
    BY <1>2
  <2>5. hello'[c] = h /\ replay'[c] = R /\ next' = next /\ log' = log /\ lastSeq' = lastSeq
    BY Zenon, <1>1, <1>7 DEF peer
  <2>. HIDE DEF h
  <2>6. \A j \in 1..Len(send'[c]) : FALSE
    BY <2>3
  <2>7. hello'[c] + 1..next' - 1 = h + 1..next - 1
    BY Zenon, <2>5
  <2>8. \A i \in 1..Len(replay'[c]) :
          /\ replay'[c][i].seq = hello'[c] - Len(replay'[c]) + i
          /\ replay'[c][i].data = log'[replay'[c][i].seq]
    BY Zenon, <2>2, <2>5
  <2>9. /\ hello'[c] < next' /\ Len(replay'[c]) <= hello'[c]
        /\ hello'[c] - Len(replay'[c]) <= lastSeq' /\ lastSeq' <= hello'[c]
    BY Zenon, <2>1, <2>5
  <2>. QED BY Zenon, <2>4, <2>6, <2>7, <2>8, <2>9 DEF InFlight
<1>14. UnseenInFlight'
  BY SMTT(30), <1>11, <1>13 DEF UnseenInFlight
<1>. QED BY Zenon, <1>5, <1>9, <1>10, <1>12, <1>14

(* A step that changes nothing keeps the invariant.                        *)
LEMMA StutterStep == ASSUME IInv, UNCHANGED vars PROVE IInv'
<1>1. /\ UNCHANGED <<state, next, buf, live, stalled, astray, phase, up, chan, pump, dying>>
      /\ UNCHANGED <<noResume, hello, replay, send, log, lastSeq, seen>>
  BY Zenon DEF vars, session, wiring, queues, peer
<1>. QED BY <1>1 DEF IInv, TypeOK, BufferRun, PeerPrefix, UnseenInFlight, InFlight, SlotInv

(* Every step of the session, its connections and its peer keeps the       *)
(* invariant: one case per action of Next.                                 *)
LEMMA NextIInv == ASSUME IInv, Next PROVE IInv'
<1>1. ASSUME NEW d \in Data, NEW pol \in Policies, Deliver(d, pol) PROVE IInv'
  <2>1. CASE DeliverVolatile(d)
    <3>1. /\ ~offline /\ state # "closed" /\ enqueue(0, d) /\ UNCHANGED <<next, buf, log>>
          /\ UNCHANGED <<state, live, stalled, astray, wiring, replay, peer>>
      BY Zenon, <2>1 DEF DeliverVolatile, session
    <3>. QED BY Zenon, <3>1, EnqueueStep
  <2>2. CASE DeliverQueued(d)
    <3>1. /\ ~offline /\ state # "closed" /\ enqueue(next, d) /\ commit(d) /\ next \in Nat
          /\ UNCHANGED <<state, live, stalled, astray, wiring, replay, peer>>
      BY Zenon, <2>2 DEF DeliverQueued, IInv, TypeOK
    <3>. QED BY Zenon, <3>1, EnqueueStep
  <2>3. CASE \/ DeliverOffline(d) \/ DeliverClosedChannel(d)
             \/ \E via \in Emitters : DeliverFull(d, via)
    BY Zenon, <2>3, DeliverCommitSteps
  <2>. QED BY Zenon, <1>1, <2>1, <2>2, <2>3 DEF Deliver
<1>2. ASSUME NEW c \in Conns, WriteFrame(c) \/ WriteLost(c) \/ Drop(c) PROVE IInv'
  BY Zenon, <1>2, WriteFrameStep, WriteLostStep, DropStep
<1>3. ASSUME NEW c \in Conns,
             ShutdownResumable(c) \/ Disconnect(c) \/ Leave(c) \/ Finish(c)
      PROVE  IInv'
  BY Zenon, <1>3, ClosingSteps, LeaveStep
<1>4. ASSUME NEW c \in Conns, NEW r \in Requests, Resume(c, r) PROVE IInv'
  BY Zenon, <1>4, ResumeStep
<1>5. ASSUME NEW r \in Requests, NEW expired \in BOOLEAN, ResumeRefused(r, expired) PROVE IInv'
  BY Zenon, <1>5, ResumeRefusedStep
<1>6. ASSUME NEW n \in 0..lastSeq, Ack(n) PROVE IInv'
  BY Zenon, <1>6, AckStep
<1>. QED BY Zenon, <1>1, <1>2, <1>3, <1>4, <1>5, <1>6, ExpireStep DEF Next

(* The inductive invariant holds in every reachable state.                 *)
THEOREM InductiveInvariant == Spec => []IInv
<1>1. IInv /\ [Next]_vars => IInv'
  BY Zenon, NextIInv, StutterStep
<1>. QED BY InitIInv, <1>1, PTL DEF Spec

(* Every variable keeps its type: no handler, in any interleaving, leaves  *)
(* a malformed session, queue or connection.                               *)
THEOREM TypeCorrect == Spec => []TypeOK
BY InductiveInvariant, PTL DEF IInv

(* replayBuffer (session.go) always holds a contiguous run of frames that  *)
(* ends with the newest one, so that covers and after answer correctly.    *)
THEOREM BufferIsRun == Spec => []BufferRun
BY InductiveInvariant, PTL DEF IInv

(* docs/RECOVERY.md, delivery guarantees: for any number of connections,   *)
(* any limits and any lag, a peer that follows the client algorithm        *)
(* handles exactly a prefix of the sequenced frames.                       *)
THEOREM PeerSeesPrefix == Spec => []PeerPrefix
BY InductiveInvariant, PTL DEF IInv

(* WritePump and deliver: on the transport in use every frame the peer has *)
(* not seen is in the replay or in the queue, unless the session stalled.  *)
THEOREM NothingMissing == Spec => []UnseenInFlight
BY InductiveInvariant, PTL DEF IInv

(* Every step of the session is a step of the reliable stream or leaves it *)
(* alone: deliver emits, WriteFrame handles, Leave, a refused resume and   *)
(* an expiry close.                                                        *)
LEMMA StepRefines ==
  ASSUME IInv, IInv', Next PROVE Abstract!SNext \/ UNCHANGED Abstract!svars
<1>. USE DEF Abstract!SNext, Abstract!svars
<1>1. ASSUME NEW d \in Data, NEW pol \in Policies, Deliver(d, pol)
      PROVE  Abstract!Emit \/ UNCHANGED <<log, seen, state>>
  <2>1. CASE DeliverVolatile(d)
    BY Zenon, <2>1 DEF DeliverVolatile, session, peer
  <2>2. CASE \/ DeliverOffline(d) \/ DeliverQueued(d) \/ DeliverClosedChannel(d)
             \/ \E via \in Emitters : DeliverFull(d, via)
    <3>1. state # "closed" /\ state' = state /\ seen' = seen /\ log' = Append(log, d)
      BY Zenon, <2>2 DEF DeliverOffline, DeliverQueued, DeliverClosedChannel, DeliverFull, commit, peer
    <3>. QED BY Zenon, <3>1 DEF Abstract!Emit
  <2>. QED BY Zenon, <1>1, <2>1, <2>2 DEF Deliver
<1>2. ASSUME NEW c \in Conns, WriteFrame(c)
      PROVE  Abstract!Handle \/ UNCHANGED <<log, seen, state>>
  <2>. DEFINE f == NextFrame(c)
  <2>1. log' = log /\ state' = state /\ next' = next /\ onFrame(f)
    BY Zenon, <1>2 DEF WriteFrame, session
  <2>. HIDE DEF f
  <2>2. CASE ~(f.seq > lastSeq)
    BY Zenon, <2>1, <2>2 DEF onFrame, peer
  <2>3. CASE f.seq > lastSeq
    <3>1. seen' = Append(seen, f.data) /\ lastSeq' = f.seq
      BY Zenon, <2>1, <2>3 DEF onFrame
    <3>2. /\ seen \in Seq(Data) /\ Len(seen) = lastSeq /\ Len(log) = next - 1
          /\ lastSeq \in Nat /\ next \in Nat
      BY Zenon DEF IInv, TypeOK, PeerPrefix, BufferRun
    <3>3. /\ seen' \in Seq(Data) /\ Len(seen') = lastSeq' /\ lastSeq' < next
          /\ lastSeq' \in Nat /\ \A i \in 1..lastSeq' : seen'[i] = log[i]
      BY Zenon, <2>1 DEF IInv, TypeOK, PeerPrefix
    <3>4. Len(seen') = Len(seen) + 1 /\ seen'[Len(seen) + 1] = f.data
      <4>1. f.data \in Data
        <5>1. c \in Conns /\ replay[c] \in Seq(Frame) /\ send[c] \in Seq(Frame)
          BY Zenon DEF IInv, TypeOK
        <5>2. replay[c] # << >> \/ send[c] # << >>
          BY Zenon, <1>2 DEF WriteFrame, Pending
        <5>3. f \in Frame
          BY Zenon, <5>1, <5>2, HeadTailProperties DEF f, NextFrame
        <5>. QED BY Zenon, <5>3 DEF Frame
      <4>. QED BY <3>1, <3>2, <4>1, AppendProperties
    <3>5. Len(seen) < Len(log) /\ f.data = log[Len(seen) + 1]
      BY <3>2, <3>3, <3>4
    <3>. QED BY Zenon, <2>1, <3>1, <3>5 DEF Abstract!Handle
  <2>. QED BY Zenon, <2>2, <2>3
<1>3. ASSUME NEW c \in Conns, WriteLost(c) \/ Drop(c)
      PROVE  UNCHANGED <<log, seen, state>>
  BY Zenon, <1>3 DEF WriteLost, Drop, session, peer
<1>4. ASSUME NEW c \in Conns, ShutdownResumable(c) \/ Disconnect(c) \/ Finish(c)
      PROVE  UNCHANGED <<log, seen, state>>
  BY Zenon, <1>4 DEF ShutdownResumable, Disconnect, Finish, session, peer
<1>5. ASSUME NEW c \in Conns, Leave(c)
      PROVE  Abstract!Close \/ (UNCHANGED <<log, seen>> /\ (state # "closed") = (state' # "closed"))
  BY Zenon, <1>5 DEF Leave, Abstract!Close, session, peer
<1>6. ASSUME NEW c \in Conns, NEW r \in Requests, Resume(c, r)
      PROVE  UNCHANGED <<log, seen>> /\ (state # "closed") = (state' # "closed")
  BY Zenon, <1>6 DEF Resume, attachLocked, peer
<1>7. ASSUME NEW r \in Requests, NEW expired \in BOOLEAN, ResumeRefused(r, expired)
      PROVE  Abstract!Close
  BY Zenon, <1>7 DEF ResumeRefused, Abstract!Close, peer
<1>8. ASSUME Expire PROVE Abstract!Close
  BY Zenon, <1>8 DEF Expire, Abstract!Close, peer
<1>9. ASSUME NEW n \in 0..lastSeq, Ack(n) PROVE UNCHANGED <<log, seen, state>>
  BY Zenon, <1>9 DEF Ack, peer
<1>. QED BY Zenon, <1>1, <1>2, <1>3, <1>4, <1>5, <1>6, <1>7, <1>8, <1>9 DEF Next

(* The session of internal/session.go, with its connections, queues and    *)
(* resumes, implements the reliable stream docs/RECOVERY.md promises.      *)
THEOREM SessionRefinesStream == Spec => ImplementsReliableStream
<1>1. Init => Abstract!SInit
  BY Zenon DEF Init, Abstract!SInit
<1>2. IInv /\ IInv' /\ [Next]_vars => [Abstract!SNext]_(Abstract!svars)
  <2>1. ASSUME UNCHANGED vars PROVE UNCHANGED Abstract!svars
    BY Zenon, <2>1 DEF vars, session, peer, Abstract!svars
  <2>. QED BY Zenon, <2>1, StepRefines
<1>. QED BY <1>1, <1>2, InductiveInvariant, PTL
        DEF Spec, ImplementsReliableStream, Abstract!SSpec
-----------------------------------------------------------------------------
(* The newest frame that is not in the buffer.                             *)
dropped == next - 1 - Len(buf)

(* The peer has seen it, or it would not fit together with the buffer.     *)
WindowInv == BufferCaps /\ (dropped <= lastSeq \/ ~Fits(Run(log, dropped - 1)))

(* The buffer holds the frames after dropped.                              *)
LEMMA BufferIsTheRun ==
  ASSUME TypeOK, BufferRun
  PROVE  /\ next \in Nat \ {0} /\ log \in Seq(Data) /\ Len(log) = next - 1 /\ Len(buf) \in Nat
         /\ dropped \in 0..Len(log) /\ buf = Run(log, dropped)
<1>1. /\ next \in Nat \ {0} /\ buf \in Seq(Entry) /\ Len(buf) \in Nat /\ Len(buf) < next
      /\ log \in Seq(Data) /\ Len(log) = next - 1
      /\ \A i \in 1..Len(buf) : /\ buf[i] \in Entry /\ buf[i].seq = dropped + i
                                /\ buf[i].data = log[buf[i].seq]
  BY Zenon, LenProperties, ElementOfSeq DEF TypeOK, BufferRun, dropped
<1>2. dropped \in 0..Len(log) /\ Len(log) - dropped = Len(buf)
  BY <1>1 DEF dropped
<1>. DEFINE c == Run(log, dropped)
<1>3. /\ c \in Seq(Entry) /\ Len(c) = Len(buf)
      /\ \A i \in 1..Len(buf) : c[i] = [seq |-> dropped + i, data |-> log[dropped + i]]
  <2>1. /\ c \in Seq(Entry) /\ Len(c) = Len(log) - dropped
        /\ \A i \in 1..Len(log) - dropped : c[i] = [seq |-> dropped + i, data |-> log[dropped + i]]
    BY Zenon, <1>1, <1>2, RunProps
  <2>. HIDE DEF c
  <2>. QED BY Zenon, <1>2, <2>1
<1>. HIDE DEF c
<1>4. ASSUME NEW i \in 1..Len(buf) PROVE buf[i] = c[i]
  <2>1. buf[i] = [seq |-> buf[i].seq, data |-> buf[i].data]
    <3>1. buf[i] \in Entry
      BY Zenon, <1>1
    <3>. QED BY <3>1 DEF Entry
  <2>2. buf[i].seq = dropped + i /\ buf[i].data = log[dropped + i]
    BY Zenon, <1>1
  <2>. QED BY Zenon, <1>3, <2>1, <2>2
<1>5. buf = c
  BY Zenon, <1>1, <1>3, <1>4, SameElements
<1>. QED BY Zenon, <1>1, <1>2, <1>5 DEF c

(* commit keeps the window.                                                *)
LEMMA CommitWindow ==
  ASSUME TypeOK, BufferRun, lastSeq \in Nat, WindowInv, NEW d \in Data, commit(d), UNCHANGED lastSeq
  PROVE  WindowInv'
<1>. DEFINE x == [seq |-> next, data |-> d]
            e == Append(buf, x)
            b == dropped
<1>1. /\ next \in Nat \ {0} /\ log \in Seq(Data) /\ Len(log) = next - 1 /\ Len(buf) \in Nat
      /\ b \in 0..Len(log) /\ buf = Run(log, b) /\ Len(log) + 1 = next
  BY BufferIsTheRun
<1>2. buf \in Seq(Entry) /\ x \in Entry /\ x.seq = next /\ x.data = d
  <2>1. buf \in Seq(Entry)
    BY Zenon DEF TypeOK
  <2>. QED BY <1>1, <2>1 DEF Entry
<1>3. log' = Append(log, d) /\ log' \in Seq(Data) /\ Len(log') = next /\ next' = next + 1 /\ buf' = push(buf, next, d)
  BY <1>1, AppendProperties DEF commit
<1>4. PICK k \in 0..Len(buf) + 1 :
        /\ push(buf, next, d) = DropOldest(e, k) /\ Fits(DropOldest(e, k))
        /\ k = 0 \/ ~Fits(DropOldest(e, k - 1))
  <2>. HIDE DEF x
  <2>. QED BY Zenon, <1>2, PushFits
<1>5. e \in Seq(Entry) /\ Len(e) = Len(buf) + 1
  <2>. HIDE DEF x
  <2>. QED BY <1>2, AppendProperties
<1>6. \A n \in 0..Len(log) : Run(log', n) = Append(Run(log, n), x)
  BY Zenon, <1>1, <1>3, RunAppend
<1>7. Run(log', b) = e
  BY Zenon, <1>1, <1>6
<1>. HIDE DEF e, x
<1>8. Len(buf') = Len(e) - k
  BY Zenon, <1>3, <1>4, <1>5, DropOldestProps
<1>9. dropped' = b + k
  <2>1. dropped' = next' - 1 - Len(buf') /\ b = next - 1 - Len(buf)
    BY Zenon DEF dropped
  <2>2. next \in Nat /\ Len(buf) \in Nat /\ next' = next + 1 /\ Len(buf') = (Len(buf) + 1) - k
    BY Zenon, <1>1, <1>3, <1>5, <1>8
  <2>. HIDE DEF b
  <2>. QED BY ONLY <2>1, <2>2, k \in 0..Len(buf) + 1
<1>10. BufferCaps'
  BY Zenon, <1>3, <1>4 DEF BufferCaps
<1>11. ASSUME dropped' <= lastSeq' \/ ~Fits(Run(log', dropped' - 1)) PROVE WindowInv'
  BY Zenon, <1>10, <1>11 DEF WindowInv
<1>12. CASE k = 0
  <2>1. dropped' = b
    <3>. HIDE DEF b
    <3>. QED BY ONLY <1>1, <1>9, <1>12
  <2>2. CASE b <= lastSeq
    BY Zenon, <1>11, <2>1, <2>2
  <2>3. CASE ~(b <= lastSeq)
    <3>1. b - 1 \in 0..Len(log)
      <4>. HIDE DEF b
      <4>. QED BY ONLY <1>1, <2>3, lastSeq \in Nat
    <3>2. Run(log, b - 1) \in Seq(Entry) /\ ~Fits(Run(log, b - 1))
      BY Zenon, <1>1, <2>3, <3>1, RunProps DEF WindowInv
    <3>3. ~Fits(Append(Run(log, b - 1), x))
      BY Zenon, <1>2, <3>2, FitsLess
    <3>4. ~Fits(Run(log', b - 1))
      BY Zenon, <1>6, <3>1, <3>3
    <3>. QED BY Zenon, <1>11, <2>1, <3>4
  <2>. QED BY Zenon, <2>2, <2>3
<1>13. CASE k # 0
  <2>1. b \in 0..Len(log') /\ (b + k) - 1 \in b..Len(log') /\ ((b + k) - 1) - b = k - 1
    <3>1. b = next - 1 - Len(buf)
      BY Zenon DEF dropped
    <3>. HIDE DEF b
    <3>. QED BY ONLY <1>1, <1>3, <1>13, <3>1, k \in 0..Len(buf) + 1
  <2>2. Run(log', (b + k) - 1) = DropOldest(Run(log', b), ((b + k) - 1) - b)
    <3>. HIDE DEF b
    <3>. QED BY Zenon, <1>3, <2>1, RunSuffix
  <2>3. ~Fits(Run(log', (b + k) - 1))
    BY Zenon, <1>4, <1>7, <1>13, <2>1, <2>2
  <2>. QED BY Zenon, <1>9, <1>11, <2>3
<1>. QED BY Zenon, <1>12, <1>13

(* An ack of what the peer has seen keeps the window.                      *)
LEMMA AckWindow ==
  ASSUME TypeOK, BufferRun, lastSeq \in Nat, WindowInv, NEW n \in 0..lastSeq,
         buf' = ackUpTo(buf, n), UNCHANGED <<next, log, lastSeq>>
  PROVE  WindowInv'
<1>1. buf \in Seq(Entry) /\ next \in Nat /\ Len(buf) \in Nat /\ Len(buf) < next /\ n \in Nat /\ n <= lastSeq
      /\ \A i \in 1..Len(buf) : buf[i].seq = next - 1 - Len(buf) + i
  <2>1. buf \in Seq(Entry) /\ next \in Nat /\ Len(buf) \in Nat /\ Len(buf) < next
        /\ \A i \in 1..Len(buf) : buf[i].seq = next - 1 - Len(buf) + i
    BY Zenon, LenProperties DEF TypeOK, BufferRun
  <2>2. n \in Nat /\ n <= lastSeq
    OBVIOUS
  <2>. QED BY Zenon, <2>1, <2>2
<1>2. PICK k \in 0..Len(buf) : /\ buf' = DropOldest(buf, k) /\ \A j \in 1..k : buf[j].seq <= n
  <2>1. \E k \in 0..Len(buf) : /\ ackUpTo(buf, n) = DropOldest(buf, k) /\ \A j \in 1..k : buf[j].seq <= n
    BY Zenon, <1>1, AckUpToProps
  <2>. QED BY Zenon, <2>1
<1>3. BufferCaps'
  <2>1. Fits(buf)
    BY Zenon DEF WindowInv, BufferCaps
  <2>2. \A j \in 0..Len(buf) : Fits(buf) => Fits(DropOldest(buf, j))
    BY Zenon, <1>1, FitsLess
  <2>3. Fits(DropOldest(buf, k))
    BY Zenon, <2>1, <2>2
  <2>4. Fits(buf')
    BY Zenon, <1>2, <2>3
  <2>. QED BY Zenon, <2>4 DEF BufferCaps
<1>4. Len(buf') = Len(buf) - k
  BY Zenon, <1>1, <1>2, DropOldestProps
<1>5. dropped = next - 1 - Len(buf) /\ dropped' = next - 1 - Len(buf')
  BY Zenon DEF dropped
<1>6. CASE k = 0
  <2>1. dropped' = dropped
    BY ONLY <1>1, <1>4, <1>5, <1>6
  <2>. QED BY Zenon, <1>3, <2>1 DEF WindowInv
<1>7. CASE k # 0
  <2>1. buf[k].seq = next - 1 - Len(buf) + k /\ buf[k].seq <= n
    <3>1. k \in 1..Len(buf) /\ k \in 1..k
      BY ONLY <1>1, <1>7, k \in 0..Len(buf)
    <3>. QED BY Zenon, <1>1, <1>2, <3>1
  <2>2. next - 1 - Len(buf) + k <= n
    BY Zenon, <2>1
  <2>3. next \in Nat /\ Len(buf) \in Nat /\ n \in Nat /\ n <= lastSeq /\ k \in Nat
    <3>1. k \in Nat
      BY ONLY <1>1, k \in 0..Len(buf)
    <3>. QED BY Zenon, <1>1, <3>1
  <2>4. dropped' <= lastSeq
    BY ONLY <1>4, <1>5, <2>2, <2>3, lastSeq \in Nat
  <2>. QED BY Zenon, <1>3, <2>4 DEF WindowInv
<1>. QED BY Zenon, <1>6, <1>7

(* Steps that leave the buffer alone keep it: the peer only sees more.     *)
LEMMA CalmWindow ==
  ASSUME TypeOK, BufferRun, lastSeq \in Nat, WindowInv, UNCHANGED <<next, buf, log>>,
         lastSeq' \in Nat, lastSeq <= lastSeq'
  PROVE  WindowInv'
<1>1. dropped' = dropped
  BY Zenon DEF dropped
<1>2. dropped \in Nat
  <2>1. dropped \in 0..Len(log) /\ Len(log) = next - 1 /\ next \in Nat
    BY Zenon, BufferIsTheRun
  <2>. QED BY ONLY <2>1
<1>3. dropped <= lastSeq => dropped <= lastSeq'
  BY ONLY <1>2, lastSeq \in Nat, lastSeq' \in Nat, lastSeq <= lastSeq'
<1>. QED BY Zenon, <1>1, <1>3 DEF WindowInv, BufferCaps

(* Every step keeps the window.                                            *)
LEMMA WindowStep == IInv /\ IInv' /\ WindowInv /\ [Next]_vars => WindowInv'
<1>. SUFFICES ASSUME IInv, IInv', WindowInv, [Next]_vars PROVE WindowInv'
  BY Zenon
<1>1. TypeOK /\ BufferRun /\ lastSeq \in Nat /\ lastSeq' \in Nat /\ lastSeq <= lastSeq
  <2>1. TypeOK /\ BufferRun /\ lastSeq \in Nat /\ lastSeq' \in Nat
    BY Zenon DEF IInv, TypeOK
  <2>. QED BY <2>1
<1>2. ASSUME UNCHANGED <<next, buf, log, lastSeq>> PROVE WindowInv'
  BY Zenon, <1>1, <1>2, CalmWindow
<1>3. CASE UNCHANGED vars \/ Expire \/ \E r \in Requests, expired \in BOOLEAN : ResumeRefused(r, expired)
  <2>1. UNCHANGED <<next, buf, log, lastSeq>>
    BY Zenon, <1>3 DEF vars, session, peer, Expire, ResumeRefused
  <2>. QED BY Zenon, <1>2, <2>1
<1>4. CASE \E c \in Conns : WriteLost(c) \/ Drop(c) \/ ShutdownResumable(c) \/ Disconnect(c) \/ Leave(c) \/ Finish(c)
  <2>1. UNCHANGED <<next, buf, log, lastSeq>>
    BY Zenon, <1>4 DEF session, peer, WriteLost, Drop, ShutdownResumable, Disconnect, Leave, Finish
  <2>. QED BY Zenon, <1>2, <2>1
<1>5. ASSUME NEW c \in Conns, WriteFrame(c) PROVE WindowInv'
  <2>1. UNCHANGED <<next, buf, log>> /\ (lastSeq' = lastSeq \/ lastSeq' > lastSeq)
    BY Zenon, <1>5 DEF WriteFrame, onFrame, session, peer
  <2>2. lastSeq <= lastSeq'
    BY <1>1, <2>1
  <2>. QED BY Zenon, <1>1, <2>1, <2>2, CalmWindow
<1>6. ASSUME NEW d \in Data, NEW pol \in Policies, Deliver(d, pol) PROVE WindowInv'
  <2>1. (commit(d) /\ UNCHANGED lastSeq) \/ UNCHANGED <<next, buf, log, lastSeq>>
    BY Zenon, <1>6 DEF Deliver, DeliverVolatile, DeliverOffline, DeliverQueued, DeliverClosedChannel, DeliverFull, session, peer
  <2>. QED BY Zenon, <1>1, <1>2, <2>1, CommitWindow
<1>7. ASSUME NEW c \in Conns, NEW r \in Requests, Resume(c, r) PROVE WindowInv'
  <2>1. /\ verdict(r, FALSE) = "none" /\ buf' = ackUpTo(buf, r) /\ UNCHANGED <<next, log, lastSeq>>
    BY Zenon, <1>7 DEF Resume, attachLocked, peer
  <2>2. r # next
    <3>1. next \in Nat
      BY Zenon, <1>1 DEF TypeOK
    <3>2. next >= next
      BY ONLY <3>1
    <3>. QED BY Zenon, <2>1, <3>2 DEF verdict
  <2>3. r \in 0..lastSeq
    BY Zenon, <2>2 DEF Requests
  <2>. QED BY Zenon, <1>1, <2>1, <2>3, AckWindow
<1>8. ASSUME NEW n \in 0..lastSeq, Ack(n) PROVE WindowInv'
  <2>1. buf' = ackUpTo(buf, n) /\ UNCHANGED <<next, log, lastSeq>>
    BY Zenon, <1>8 DEF Ack, peer
  <2>. QED BY Zenon, <1>1, <2>1, AckWindow
<1>. QED BY Zenon, <1>3, <1>4, <1>5, <1>6, <1>7, <1>8 DEF Next

(* A new session has an empty buffer, which is within the limits.          *)
LEMMA WindowInit == Init => WindowInv
<1>. SUFFICES ASSUME Init PROVE WindowInv
  BY Zenon
<1>1. buf = << >> /\ next = 1 /\ lastSeq = 0
  BY Zenon DEF Init
<1>2. Fits(<< >>) /\ 1 - 1 - Len(<< >>) <= 0
  <2>1. << >> \in Seq(Entry) /\ 1 - 1 - Len(<< >>) <= 0
    OBVIOUS
  <2>. QED BY Zenon, <2>1, FitsLess
<1>. QED BY Zenon, <1>1, <1>2 DEF WindowInv, BufferCaps, dropped

(* The window holds in every reachable state.                              *)
LEMMA AlwaysWindow == Spec => []WindowInv
BY InductiveInvariant, WindowInit, WindowStep, PTL DEF Spec

(* ReplayBufferMessages and ReplayBufferBytes are hard caps: no mix of     *)
(* pushes, acks, oversized frames and resumes exceeds either.              *)
THEOREM BufferIsCapped == Spec => []BufferCaps
BY AlwaysWindow, PTL DEF WindowInv

(* verdict refuses a resume for a gap only if the frames the peer has not  *)
(* seen exceed the limits: push evicts a frame only when it must.          *)
THEOREM GapIsBeyondWindow == Spec => []GapOnlyBeyondWindow
<1>1. IInv /\ WindowInv => GapOnlyBeyondWindow
  <2>. SUFFICES ASSUME IInv, WindowInv PROVE GapOnlyBeyondWindow
    BY Zenon
  <2>. SUFFICES ASSUME verdict(lastSeq, FALSE) = "gap_exceeded" PROVE ~Fits(Run(log, lastSeq))
    <3>1. Len(log) = next - 1
      BY Zenon, BufferIsTheRun DEF IInv
    <3>2. Run(log, lastSeq) = [i \in 1..(next - 1 - lastSeq) |-> [seq |-> lastSeq + i, data |-> log[lastSeq + i]]]
      BY Zenon, <3>1 DEF Run
    <3>. QED BY Zenon, <3>2 DEF GapOnlyBeyondWindow
  <2>1. ~covers(buf, lastSeq) /\ lastSeq < next - 1
    BY Zenon DEF verdict
  <2>2. /\ next \in Nat \ {0} /\ log \in Seq(Data) /\ Len(log) = next - 1 /\ Len(buf) \in Nat
        /\ dropped \in 0..Len(log) /\ buf = Run(log, dropped) /\ lastSeq \in Nat
    BY Zenon, BufferIsTheRun DEF IInv, TypeOK
  <2>3. dropped > lastSeq
    <3>1. CASE Len(buf) = 0
      BY <2>1, <2>2, <3>1 DEF dropped
    <3>2. CASE Len(buf) > 0
      <4>1. 1 \in 1..Len(buf) /\ dropped + 1 = next - 1 - Len(buf) + 1
        BY ONLY <2>2, <3>2 DEF dropped
      <4>2. buf[1].seq = dropped + 1
        BY Zenon, <4>1 DEF IInv, BufferRun
      <4>3. ~(dropped + 1 <= lastSeq + 1)
        BY Zenon, <2>1, <3>2, <4>2 DEF covers
      <4>4. dropped \in Nat /\ lastSeq \in Nat
        BY ONLY <2>2
      <4>. HIDE DEF dropped
      <4>. QED BY ONLY <4>3, <4>4
    <3>. QED BY <2>2, <3>1, <3>2
  <2>4. lastSeq \in 0..Len(log) /\ dropped - 1 \in lastSeq..Len(log) /\ (dropped - 1) - lastSeq \in 0..Len(log) - lastSeq
    <3>. HIDE DEF dropped
    <3>1. next \in Nat /\ Len(log) = next - 1 /\ dropped \in 0..Len(log) /\ lastSeq \in Nat
      BY Zenon, <2>2
    <3>. QED BY ONLY <2>1, <2>3, <3>1
  <2>5. Run(log, dropped - 1) = DropOldest(Run(log, lastSeq), (dropped - 1) - lastSeq)
    BY Zenon, <2>2, <2>4, RunSuffix
  <2>6. ~Fits(Run(log, dropped - 1))
    <3>1. ~(dropped <= lastSeq)
      <4>. HIDE DEF dropped
      <4>1. next \in Nat /\ Len(log) = next - 1 /\ dropped \in 0..Len(log) /\ lastSeq \in Nat
        BY Zenon, <2>2
      <4>. QED BY ONLY <2>3, <4>1
    <3>. QED BY Zenon, <3>1 DEF WindowInv
  <2>7. Run(log, lastSeq) \in Seq(Entry) /\ Len(Run(log, lastSeq)) = Len(log) - lastSeq
    BY Zenon, <2>2, <2>4, RunProps
  <2>8. (dropped - 1) - lastSeq \in 0..Len(Run(log, lastSeq))
    BY Zenon, <2>4, <2>7
  <2>9. \A k \in 0..Len(Run(log, lastSeq)) : Fits(Run(log, lastSeq)) => Fits(DropOldest(Run(log, lastSeq), k))
    BY Zenon, <2>7, FitsLess
  <2>10. ~Fits(DropOldest(Run(log, lastSeq), (dropped - 1) - lastSeq))
    BY Zenon, <2>5, <2>6
  <2>. QED BY Zenon, <2>8, <2>9, <2>10
<1>. QED BY <1>1, InductiveInvariant, AlwaysWindow, PTL
=============================================================================
