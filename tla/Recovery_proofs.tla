-------------------------- MODULE Recovery_proofs --------------------------
(***************************************************************************)
(* The store and the hub, for any number of connections, sessions and      *)
(* rooms, any park limit, TTL and clock lag: the inductive invariant,      *)
(* whose first half is what the session store knows and whose second half  *)
(* what the hub knows, one lemma per action that can disturb a half, and   *)
(* the theorems that rest on the whole of it.                              *)
(***************************************************************************)
EXTENDS Recovery, SequenceTheorems, TLAPS

Steps ==
  {"new", "registered", "rejected", "opening", "opened", "transferred", "connect", "panicked",
   "reading", "leaving", "gone", "retired", "disconnect", "idle", "sweep"}

Serving == {"opened", "transferred", "connect", "panicked", "reading", "leaving"}
Over == {"retired", "rejected", "disconnect"}

TypeOK ==
  /\ state \in [Sessions -> {"unused", "attached", "parked", "closed"}]
  /\ live \in [Sessions -> Clients \cup {Nil}] /\ member \in [Sessions -> Clients \cup {Nil}]
  /\ age \in [Sessions -> 0..MaxAge]
  /\ parked \in Seq(Sessions)
  /\ pc \in [Threads -> Steps] /\ lag \in [Threads -> 0..MaxLag]
  /\ bound \in [Clients -> Sessions \cup {Nil}] /\ prev \in [Clients -> Clients \cup {Nil}]
  /\ hidden \in [Clients -> BOOLEAN]
  /\ DOMAIN release = Threads /\ \A t \in Threads : release[t] \in Seq(Sessions)
  /\ expires \in [Sessions -> Nat]

(* The maps of the hub and the history of rooms, in the same way. *)
HubTypeOK ==
  /\ \A c \in clients : c \in Clients
  /\ DOMAIN rooms = Rooms /\ \A r \in Rooms : \A c \in rooms[r] : c \in Clients
  /\ DOMAIN joined = Sessions /\ \A s \in Sessions : \A r \in joined[s] : r \in Rooms

(* A session that is not attached has no live client, unless it was killed *)
(* under it.                                                               *)
NotLive == \A s \in Sessions : state[s] \in {"unused", "parked"} => live[s] = Nil

(* A client is bound once, by Open, to a session that exists from then on; *)
(* it leaves the hub only for want of a session.                           *)
BoundOnce ==
  \A c \in Clients :
    /\ pc[c] \in {"new", "registered", "opening"} => bound[c] = Nil /\ prev[c] = Nil
    /\ pc[c] = "leaving" => bound[c] # Nil
    /\ bound[c] # Nil => state[bound[c]] # "unused"
    /\ pc[c] = "gone" /\ bound[c] # Nil => state[bound[c]] = "closed"

(* What is waiting to be released is closed, and is released before its    *)
(* goroutine calls into the store again.                                   *)
ReleasedAreClosed ==
  \A t \in Threads :
    /\ release[t] # << >> => pc[t] \in {"opened", "retired", "idle"}
    /\ \A i \in DOMAIN release[t] : state[release[t][i]] = "closed"

ExpiredAreClosed == \A s \in Sessions : expires[s] > 0 => state[s] = "closed"

(* The member of a session is the last client bound to it: the live one,   *)
(* or the hidden one that parked it.                                       *)
MemberIsLast ==
  /\ \A s \in Sessions :
       /\ member[s] # Nil => bound[member[s]] = s
       /\ state[s] = "attached" => member[s] = live[s]
       /\ state[s] = "parked" => member[s] # Nil /\ hidden[member[s]]
  /\ \A c \in Clients : hidden[c] => pc[c] \in Over

(* A client whose membership is still to be transferred was the session's  *)
(* member before the client that takes it over, and is so no more.         *)
PrevWasMember ==
  \A c \in Clients : prev[c] # Nil =>
    /\ prev[c] # c /\ bound[c] # Nil /\ bound[prev[c]] = bound[c]
    /\ member[bound[c]] # prev[c]

(* Who is in Hub.clients. *)
Registered ==
  /\ \A c \in Clients : pc[c] \in {"registered", "opening"} => c \in clients
  /\ \A c \in Clients : pc[c] \in Over /\ bound[c] = Nil => c \notin clients
  /\ \A s \in Sessions : Open(s) => member[s] \in clients

(* A client that is not its session's member any more is still to be taken *)
(* out of Hub.clients by a transfer.                                       *)
TransferPending ==
  \A c \in clients : bound[c] # Nil => member[bound[c]] = c \/ \E d \in Clients : prev[d] = c

(* The member of a closed session is still to be taken out by a release,   *)
(* or does so itself.                                                      *)
ReleasePending ==
  \A s \in Sessions : state[s] = "closed" /\ member[s] \in clients /\ pc[member[s]] \in Over =>
    \E t \in Threads : \E i \in DOMAIN release[t] : release[t][i] = s

(* The rooms of a session are those of the clients bound to it.            *)
SessionInRooms ==
  \A s \in Sessions : Open(s) => \A r \in joined[s] : \E c \in rooms[r] : bound[c] = s

(* A connection that is over is in Hub.clients only hidden or superseded.  *)
OverInHub ==
  \A c \in clients : pc[c] \in Over => bound[c] # Nil /\ (hidden[c] \/ member[bound[c]] # c)

(* Hub.rooms has clients of Hub.clients, but for those that came too late. *)
InRooms == \A r \in Rooms : \A c \in rooms[r] : c \in clients \/ c \in stray

StoreInv ==
  /\ TypeOK /\ ParkedExact /\ OldestFirst /\ AttachedIsServed /\ NotLive
  /\ BoundOnce /\ ReleasedAreClosed /\ ExpiredAreClosed

HubInv ==
  /\ HubTypeOK /\ MemberIsLast /\ PrevWasMember /\ Registered
  /\ TransferPending /\ ReleasePending /\ SessionInRooms /\ OverInHub /\ InRooms

IInv == StoreInv /\ HubInv
-----------------------------------------------------------------------------
(* Sequences.                                                              *)

(* Cutting a sequence after its n-th element.                              *)
LEMMA CutProps ==
  ASSUME NEW S, NEW q \in Seq(S), NEW n \in 0..Len(q)
  PROVE  /\ SubSeq(q, 1, n) \in Seq(S) /\ Len(SubSeq(q, 1, n)) = n
         /\ \A i \in 1..n : SubSeq(q, 1, n)[i] = q[i]
         /\ SubSeq(q, n + 1, Len(q)) \in Seq(S) /\ Len(SubSeq(q, n + 1, Len(q))) = Len(q) - n
         /\ \A i \in 1..Len(q) - n : SubSeq(q, n + 1, Len(q))[i] = q[n + i]
<1>1. Len(q) \in Nat /\ \A i \in 1..Len(q) : q[i] \in S
  BY Zenon, LenProperties, ElementOfSeq
<1>2. /\ SubSeq(q, 1, n) \in Seq(S)
      /\ Len(SubSeq(q, 1, n)) = IF 1 <= n THEN n - 1 + 1 ELSE 0
      /\ \A i \in 1..n - 1 + 1 : SubSeq(q, 1, n)[i] = q[1 + i - 1]
  BY <1>1, SubSeqProperties
<1>3. /\ SubSeq(q, n + 1, Len(q)) \in Seq(S)
      /\ Len(SubSeq(q, n + 1, Len(q))) = IF n + 1 <= Len(q) THEN Len(q) - (n + 1) + 1 ELSE 0
      /\ \A i \in 1..Len(q) - (n + 1) + 1 : SubSeq(q, n + 1, Len(q))[i] = q[n + 1 + i - 1]
  BY <1>1, SubSeqProperties
<1>. QED BY <1>1, <1>2, <1>3

(* The sequence q without its k-th element.                                *)
Without(q, k) == SubSeq(q, 1, k - 1) \o SubSeq(q, k + 1, Len(q))

(* list.Remove takes out one element and keeps the order of the others.    *)
LEMMA WithoutProps ==
  ASSUME NEW S, NEW q \in Seq(S), NEW k \in 1..Len(q)
  PROVE  /\ Without(q, k) \in Seq(S) /\ Len(Without(q, k)) = Len(q) - 1
         /\ \A i \in 1..Len(q) - 1 : Without(q, k)[i] = IF i < k THEN q[i] ELSE q[i + 1]
<1>. DEFINE a == SubSeq(q, 1, k - 1)
            b == SubSeq(q, k + 1, Len(q))
<1>1. Len(q) \in Nat
  BY Zenon, LenProperties
<1>2. a \in Seq(S) /\ Len(a) = k - 1 /\ \A i \in 1..k - 1 : a[i] = q[i]
  BY <1>1, k - 1 \in 0..Len(q), CutProps
<1>3. b \in Seq(S) /\ Len(b) = Len(q) - k /\ \A i \in 1..Len(q) - k : b[i] = q[k + i]
  BY <1>1, CutProps
<1>. HIDE DEF a, b
<1>4. /\ a \o b \in Seq(S) /\ Len(a \o b) = Len(a) + Len(b)
      /\ \A i \in 1..Len(a) + Len(b) : (a \o b)[i] = IF i <= Len(a) THEN a[i] ELSE b[i - Len(a)]
  BY Zenon, <1>2, <1>3, ConcatProperties
<1>5. Without(q, k) = a \o b
  BY Zenon DEF Without, a, b
<1>6. ASSUME NEW i \in 1..Len(q) - 1
      PROVE  (a \o b)[i] = IF i < k THEN q[i] ELSE q[i + 1]
  <2>1. CASE i < k
    BY <1>1, <1>2, <1>3, <1>4, <2>1
  <2>2. CASE ~(i < k)
    <3>1. i - (k - 1) \in 1..Len(q) - k /\ k + (i - (k - 1)) = i + 1
      BY <1>1, <2>2
    <3>2. b[i - (k - 1)] = q[i + 1]
      BY Zenon, <1>3, <3>1
    <3>. QED BY <1>1, <1>2, <1>3, <1>4, <2>2, <3>2
  <2>. QED BY Zenon, <2>1, <2>2
<1>. QED BY <1>1, <1>2, <1>3, <1>4, <1>5, <1>6

(* q has its elements in the order they have in p.                         *)
Thins(q, p) ==
  \A i, j \in DOMAIN q : i < j => \E a, b \in DOMAIN p : a < b /\ p[a] = q[i] /\ p[b] = q[j]

(* What removing a session from the parked list leaves.                    *)
LEMMA UnparkedProps ==
  ASSUME parked \in Seq(Sessions), IsInjective(parked), NEW s
  PROVE  /\ unparked(s) \in Seq(Sessions) /\ Len(unparked(s)) <= Len(parked)
         /\ Range(unparked(s)) = Range(parked) \ {s}
         /\ IsInjective(unparked(s)) /\ Thins(unparked(s), parked)
<1>1. Len(parked) \in Nat /\ DOMAIN parked = 1..Len(parked)
  BY Zenon, LenProperties
<1>2. CASE s \notin Range(parked)
  BY <1>1, <1>2 DEF unparked, Thins
<1>3. CASE s \in Range(parked)
  <2>. DEFINE k == CHOOSE i \in DOMAIN parked : parked[i] = s
              q == Without(parked, k)
  <2>1. k \in DOMAIN parked /\ parked[k] = s
    BY Zenon, <1>3 DEF Range
  <2>2. unparked(s) = q
    BY Zenon, <1>3 DEF unparked, Without
  <2>. HIDE DEF k
  <2>3. /\ q \in Seq(Sessions) /\ Len(q) = Len(parked) - 1
        /\ \A i \in 1..Len(parked) - 1 : q[i] = IF i < k THEN parked[i] ELSE parked[i + 1]
    BY Zenon, <1>1, <2>1, WithoutProps
  <2>. HIDE DEF q
  <2>4. DOMAIN q = 1..Len(parked) - 1
    BY Zenon, <2>3, LenProperties
  <2>5. DEFINE up(i) == IF i < k THEN i ELSE i + 1
  <2>6. \A i \in DOMAIN q : up(i) \in DOMAIN parked /\ up(i) # k /\ q[i] = parked[up(i)]
    BY <1>1, <2>1, <2>3, <2>4
  <2>7. \A i, j \in DOMAIN q : (i < j => up(i) < up(j)) /\ (up(i) = up(j) => i = j)
    BY <1>1, <2>1, <2>4
  <2>8. ASSUME NEW j \in DOMAIN parked, j # k PROVE \E i \in DOMAIN q : up(i) = j
    <3>1. CASE j < k
      BY <1>1, <2>1, <2>4, <3>1, j \in DOMAIN q
    <3>2. CASE j > k
      BY <1>1, <2>1, <2>4, <3>2, j - 1 \in DOMAIN q
    <3>. QED BY <1>1, <2>1, <2>8, <3>1, <3>2
  <2>. HIDE DEF up
  <2>9. Thins(q, parked)
    BY Zenon, <2>6, <2>7 DEF Thins
  <2>10. IsInjective(q)
    BY Zenon, <2>6, <2>7 DEF IsInjective
  <2>11. Range(q) = Range(parked) \ {s}
    <3>1. ASSUME NEW x \in Range(q) PROVE x \in Range(parked) /\ x # s
      BY <2>1, <2>6 DEF Range, IsInjective
    <3>2. ASSUME NEW x \in Range(parked), x # s PROVE x \in Range(q)
      <4>1. PICK j \in DOMAIN parked : parked[j] = x
        BY Zenon DEF Range
      <4>2. PICK i \in DOMAIN q : up(i) = j
        BY Zenon, <2>1, <2>8, <3>2, <4>1
      <4>. QED BY Zenon, <2>6, <4>1, <4>2 DEF Range
    <3>. QED BY Zenon, <3>1, <3>2
  <2>. QED BY <1>1, <2>2, <2>3, <2>9, <2>10, <2>11
<1>. QED BY Zenon, <1>2, <1>3

(* Taking n elements off the front.                                        *)
LEMMA DropProps ==
  ASSUME NEW S, NEW q \in Seq(S), IsInjective(q), NEW n \in 0..Len(q)
  PROVE  /\ SubSeq(q, 1, n) \in Seq(S) /\ Range(SubSeq(q, 1, n)) \subseteq Range(q)
         /\ SubSeq(q, n + 1, Len(q)) \in Seq(S) /\ Len(SubSeq(q, n + 1, Len(q))) = Len(q) - n
         /\ Range(SubSeq(q, n + 1, Len(q))) = Range(q) \ Range(SubSeq(q, 1, n))
         /\ IsInjective(SubSeq(q, n + 1, Len(q))) /\ Thins(SubSeq(q, n + 1, Len(q)), q)
<1>. DEFINE gone == SubSeq(q, 1, n)
            kept == SubSeq(q, n + 1, Len(q))
<1>1. Len(q) \in Nat /\ DOMAIN q = 1..Len(q)
  BY Zenon, LenProperties
<1>2. /\ gone \in Seq(S) /\ Len(gone) = n /\ \A i \in 1..n : gone[i] = q[i]
      /\ kept \in Seq(S) /\ Len(kept) = Len(q) - n /\ \A i \in 1..Len(q) - n : kept[i] = q[n + i]
  BY <1>1, CutProps
<1>. HIDE DEF gone, kept
<1>3. DOMAIN gone = 1..n /\ DOMAIN kept = 1..Len(q) - n
  BY Zenon, <1>2, LenProperties
<1>4. \A i \in DOMAIN gone : i \in DOMAIN q /\ i <= n /\ gone[i] = q[i]
  BY <1>1, <1>2, <1>3
<1>5. \A i \in DOMAIN kept : n + i \in DOMAIN q /\ n + i > n /\ kept[i] = q[n + i]
  BY <1>1, <1>2, <1>3
<1>6. \A i, j \in DOMAIN kept : (i < j => n + i < n + j) /\ (n + i = n + j => i = j)
  BY <1>3
<1>7. Thins(kept, q)
  BY Zenon, <1>5, <1>6 DEF Thins
<1>8. IsInjective(kept)
  BY Zenon, <1>5, <1>6 DEF IsInjective
<1>9. Range(gone) \subseteq Range(q)
  BY Zenon, <1>4 DEF Range
<1>10. ASSUME NEW x \in Range(kept) PROVE x \in Range(q) /\ x \notin Range(gone)
  <2>1. PICK i \in DOMAIN kept : x = kept[i]
    BY Zenon DEF Range
  <2>2. n + i \in DOMAIN q /\ n + i > n /\ x = q[n + i]
    BY Zenon, <1>5, <2>1
  <2>3. ASSUME NEW j \in DOMAIN gone PROVE x # gone[j]
    BY <1>4, <2>2 DEF IsInjective
  <2>. QED BY Zenon, <2>2, <2>3 DEF Range
<1>11. ASSUME NEW x \in Range(q), x \notin Range(gone) PROVE x \in Range(kept)
  <2>1. PICK j \in DOMAIN q : x = q[j]
    BY Zenon DEF Range
  <2>2. j \notin 1..n
    BY Zenon, <1>2, <1>3, <1>11, <2>1 DEF Range
  <2>3. j - n \in DOMAIN kept /\ n + (j - n) = j
    BY <1>1, <1>3, <2>2
  <2>4. kept[j - n] = x
    BY Zenon, <1>5, <2>1, <2>3
  <2>. QED BY Zenon, <2>3, <2>4 DEF Range
<1>12. Range(kept) = Range(q) \ Range(gone)
  BY Zenon, <1>10, <1>11
<1>. QED BY Zenon, <1>2, <1>7, <1>8, <1>9, <1>12 DEF gone, kept

(* Appending a session that is not in the list.                            *)
LEMMA PushProps ==
  ASSUME NEW S, NEW p \in Seq(S), IsInjective(p), NEW s \in S, s \notin Range(p)
  PROVE  /\ Append(p, s) \in Seq(S) /\ Len(Append(p, s)) = Len(p) + 1
         /\ IsInjective(Append(p, s)) /\ Range(Append(p, s)) = Range(p) \cup {s}
         /\ \A i \in 1..Len(p) : Append(p, s)[i] = p[i] /\ Append(p, s)[i] # s
         /\ \A i, j \in DOMAIN Append(p, s) : i < j =>
              /\ Append(p, s)[i] # s
              /\ \/ Append(p, s)[j] = s
                 \/ \E a, b \in DOMAIN p : a < b /\ p[a] = Append(p, s)[i] /\ p[b] = Append(p, s)[j]
<1>. DEFINE q == Append(p, s)
<1>1. Len(p) \in Nat /\ DOMAIN p = 1..Len(p)
  BY Zenon, LenProperties
<1>2. /\ q \in Seq(S) /\ Len(q) = Len(p) + 1 /\ q[Len(p) + 1] = s
      /\ \A i \in 1..Len(p) : q[i] = p[i]
  BY <1>1, AppendProperties
<1>. HIDE DEF q
<1>3. DOMAIN q = 1..Len(p) + 1
  BY Zenon, <1>2, LenProperties
<1>4. \A i \in DOMAIN p : i \in DOMAIN q /\ q[i] = p[i] /\ p[i] # s
  BY <1>1, <1>2, <1>3 DEF Range
<1>5. \A i \in DOMAIN q : i \in DOMAIN p \/ (i = Len(p) + 1 /\ q[i] = s)
  BY <1>1, <1>2, <1>3
<1>6. IsInjective(q)
  BY Zenon, <1>4, <1>5 DEF IsInjective
<1>7. Range(q) = Range(p) \cup {s}
  <2>1. s \in Range(q)
    BY <1>1, <1>2, <1>3 DEF Range
  <2>2. \A x : x \in Range(q) <=> x \in Range(p) \/ x = s
    BY Zenon, <1>4, <1>5, <2>1 DEF Range
  <2>. QED BY Zenon, <2>2
<1>8. \A i, j \in DOMAIN q : i < j => i \in DOMAIN p
  BY <1>1, <1>3
<1>9. \A i, j \in DOMAIN q : i < j =>
        /\ q[i] # s
        /\ q[j] = s \/ \E a, b \in DOMAIN p : a < b /\ p[a] = q[i] /\ p[b] = q[j]
  BY Zenon, <1>4, <1>5, <1>8
<1>. QED BY Zenon, <1>1, <1>2, <1>4, <1>6, <1>7, <1>9 DEF q

(* How many sessions Leave evicts: with a park limit of at least one,      *)
(* never the one it has just parked.                                       *)
LEMMA EvictCount ==
  ASSUME NEW S, NEW q \in Seq(S), NEW m \in Nat \ {0}, Len(q) <= m + 1, Len(q) > 0
  PROVE  \E n \in 0..Len(q) - 1 :
           SubSeq(q, 1, Len(q) - m) = SubSeq(q, 1, n) /\ Len(SubSeq(q, 1, Len(q) - m)) = n /\ Len(q) - n <= m
<1>1. Len(q) \in Nat
  BY Zenon, LenProperties
<1>2. CASE Len(q) = m + 1
  <2>1. 1 \in 0..Len(q) - 1 /\ Len(q) - m = 1 /\ Len(q) - 1 <= m
    BY <1>1, <1>2
  <2>2. Len(SubSeq(q, 1, 1)) = 1
    BY <1>1, <2>1, CutProps
  <2>. QED BY Zenon, <2>1, <2>2
<1>3. CASE Len(q) # m + 1
  <2>1. 0 \in 0..Len(q) - 1 /\ Len(q) - m < 1 /\ Len(q) - m \in Int /\ Len(q) - 0 <= m
    BY <1>1, <1>3
  <2>2. SubSeq(q, 1, Len(q) - m) = << >> /\ SubSeq(q, 1, 0) = << >>
    BY <2>1, SubSeqEmpty
  <2>. QED BY Zenon, <2>1, <2>2
<1>. QED BY Zenon, <1>2, <1>3
-----------------------------------------------------------------------------
(* What the steps that rearrange the parked list do to it.                 *)

(* LeaveParked parks the attached session of its client, at the back, and  *)
(* evicts other parked ones from the front.                                *)
LEMMA ParkEffect ==
  ASSUME StoreInv, NEW c \in Clients, LeaveParked(c)
  PROVE  /\ bound[c] \in Sessions /\ state[bound[c]] = "attached" /\ live[bound[c]] = c
         /\ release'[c] \in Seq(Sessions) /\ Range(release'[c]) \subseteq Range(parked)
         /\ Range(parked') = (Range(parked) \ Range(release'[c])) \cup {bound[c]}
         /\ parked' \in Seq(Sessions) /\ IsInjective(parked') /\ Len(parked') <= MaxParked
         /\ \A i, j \in DOMAIN parked' : i < j =>
              /\ parked'[i] # bound[c]
              /\ \/ parked'[j] = bound[c]
                 \/ \E a, b \in DOMAIN parked : a < b /\ parked[a] = parked'[i] /\ parked[b] = parked'[j]
<1>. USE RecoveryConstants
<1>. DEFINE s == bound[c]
            q == Append(parked, s)
            evicted == SubSeq(q, 1, Len(q) - MaxParked)
<1>1. s \in Sessions /\ state[s] = "attached" /\ live[s] = c
  BY Zenon DEF StoreInv, TypeOK, BoundOnce, NotLive, LeaveParked, Threads
<1>2. /\ parked \in Seq(Sessions) /\ IsInjective(parked) /\ Len(parked) <= MaxParked
      /\ Len(parked) \in Nat /\ s \notin Range(parked)
  BY Zenon, <1>1, LenProperties DEF StoreInv, TypeOK, ParkedExact
<1>3. release'[c] = evicted /\ parked' = SubSeq(q, Len(evicted) + 1, Len(q))
  BY Zenon DEF LeaveParked, StoreInv, TypeOK, Threads
<1>4. /\ q \in Seq(Sessions) /\ Len(q) = Len(parked) + 1
      /\ IsInjective(q) /\ Range(q) = Range(parked) \cup {s}
      /\ \A i \in 1..Len(parked) : q[i] # s
      /\ \A i, j \in DOMAIN q : i < j =>
           /\ q[i] # s
           /\ q[j] = s \/ \E a, b \in DOMAIN parked : a < b /\ parked[a] = q[i] /\ parked[b] = q[j]
  BY <1>1, <1>2, PushProps
<1>. HIDE DEF q
<1>5. PICK n \in 0..Len(q) - 1 : evicted = SubSeq(q, 1, n) /\ Len(evicted) = n /\ Len(q) - n <= MaxParked
  <2>1. Len(q) <= MaxParked + 1 /\ Len(q) > 0 /\ MaxParked \in Nat \ {0}
    BY <1>2, <1>4
  <2>. QED BY Zenon, <1>4, <2>1, EvictCount
<1>. HIDE DEF evicted
<1>6. /\ evicted \in Seq(Sessions) /\ Range(evicted) \subseteq Range(q)
      /\ parked' \in Seq(Sessions) /\ Len(parked') = Len(q) - n
      /\ Range(parked') = Range(q) \ Range(evicted) /\ IsInjective(parked') /\ Thins(parked', q)
  <2>1. n \in 0..Len(q)
    BY <1>2, <1>4, <1>5
  <2>. QED BY <1>3, <1>4, <1>5, <2>1, DropProps
<1>7. s \notin Range(evicted)
  <2>1. n \in 0..Len(q) /\ \A i \in 1..n : i \in 1..Len(parked)
    BY <1>2, <1>4, <1>5
  <2>2. \A i \in 1..n : evicted[i] = q[i]
    BY <1>4, <1>5, <2>1, CutProps
  <2>3. DOMAIN evicted = 1..n
    BY Zenon, <1>5, <1>6, LenProperties
  <2>. QED BY <1>4, <2>1, <2>2, <2>3 DEF Range
<1>8. Range(evicted) \subseteq Range(parked) /\ Range(parked') = (Range(parked) \ Range(evicted)) \cup {s}
  BY Zenon, <1>4, <1>6, <1>7
<1>9. Len(parked') <= MaxParked
  BY Zenon, <1>5, <1>6
<1>10. \A i, j \in DOMAIN parked' : i < j =>
         /\ parked'[i] # s
         /\ \/ parked'[j] = s
            \/ \E a, b \in DOMAIN parked : a < b /\ parked[a] = parked'[i] /\ parked[b] = parked'[j]
  BY <1>4, <1>6 DEF Thins
<1>. QED BY Zenon, <1>1, <1>3, <1>6, <1>8, <1>9, <1>10

(* Sweep takes a prefix off the parked list and releases it.               *)
LEMMA SweepEffect ==
  ASSUME StoreInv, Sweep
  PROVE  /\ release'[Sweeper] \in Seq(Sessions) /\ Range(release'[Sweeper]) \subseteq Range(parked)
         /\ Range(parked') = Range(parked) \ Range(release'[Sweeper])
         /\ parked' \in Seq(Sessions) /\ IsInjective(parked') /\ Len(parked') <= MaxParked
         /\ Thins(parked', parked)
         /\ release' = [release EXCEPT ![Sweeper] = release'[Sweeper]]
         /\ state' = [s \in Sessions |-> IF s \in Range(release'[Sweeper]) THEN "closed" ELSE state[s]]
         /\ age' = [s \in Sessions |-> IF s \in Range(release'[Sweeper]) THEN 0 ELSE age[s]]
<1>. USE RecoveryConstants
<1>1. PICK n \in 0..Len(parked) :
        /\ state' = [s \in Sessions |-> IF s \in Range(SubSeq(parked, 1, n)) THEN "closed" ELSE state[s]]
        /\ age' = [s \in Sessions |-> IF s \in Range(SubSeq(parked, 1, n)) THEN 0 ELSE age[s]]
        /\ parked' = SubSeq(parked, n + 1, Len(parked))
        /\ release' = [release EXCEPT ![Sweeper] = SubSeq(parked, 1, n)]
  BY Zenon DEF Sweep
<1>. DEFINE gone == SubSeq(parked, 1, n)
<1>2. parked \in Seq(Sessions) /\ IsInjective(parked) /\ Len(parked) <= MaxParked /\ Len(parked) \in Nat
  BY Zenon, LenProperties DEF StoreInv, TypeOK, ParkedExact
<1>3. release'[Sweeper] = gone
  BY Zenon, <1>1 DEF StoreInv, TypeOK, Threads
<1>4. /\ gone \in Seq(Sessions) /\ Range(gone) \subseteq Range(parked)
      /\ parked' \in Seq(Sessions) /\ Len(parked') = Len(parked) - n
      /\ Range(parked') = Range(parked) \ Range(gone) /\ IsInjective(parked') /\ Thins(parked', parked)
  BY <1>1, <1>2, DropProps
<1>. HIDE DEF gone
<1>5. Len(parked') <= MaxParked
  BY <1>2, <1>4
<1>. QED BY Zenon, <1>1, <1>3, <1>4, <1>5 DEF gone
-----------------------------------------------------------------------------
(* One lemma per kind of step: the store's half of the invariant.          *)

(* No step opens a closed session again.                                   *)
KeptClosed == \A s \in Sessions : state[s] = "closed" => state'[s] = "closed"

(* The parked list keeps its order when it only loses elements.            *)
LEMMA OrderKept ==
  ASSUME OldestFirst, Thins(parked', parked), \A s \in Range(parked') : age'[s] = age[s]
  PROVE  OldestFirst'
  BY DEF OldestFirst, Thins, Range

(* Taking a session off the parked list, as its state says.                *)
LEMMA Unpark ==
  ASSUME StoreInv, NEW v, parked' = unparked(v),
         \A x \in Sessions : state'[x] = "parked" <=> state[x] = "parked" /\ x # v,
         \A x \in Sessions : x # v => age'[x] = age[x]
  PROVE  parked' \in Seq(Sessions) /\ ParkedExact' /\ OldestFirst'
<1>1. /\ parked \in Seq(Sessions) /\ IsInjective(parked) /\ Len(parked) <= MaxParked /\ Len(parked) \in Nat
      /\ \A s : s \in Range(parked) <=> s \in Sessions /\ state[s] = "parked"
  BY Zenon, LenProperties DEF StoreInv, TypeOK, ParkedExact
<1>2. /\ parked' \in Seq(Sessions) /\ Range(parked') = Range(parked) \ {v} /\ IsInjective(parked')
      /\ Len(parked') <= Len(parked) /\ Thins(parked', parked)
  BY Zenon, <1>1, UnparkedProps
<1>3. Len(parked') <= MaxParked
  BY <1>1, <1>2, LenProperties, RecoveryConstants
<1>4. \A x : x \in Range(parked') <=> x \in Sessions /\ state'[x] = "parked"
  BY Zenon, <1>1, <1>2
<1>5. ParkedExact'
  BY Zenon, <1>2, <1>3, <1>4 DEF ParkedExact
<1>6. \A s \in Range(parked') : age'[s] = age[s]
  BY Zenon, <1>1, <1>2
<1>. QED BY Zenon, <1>2, <1>5, <1>6, OrderKept DEF StoreInv

(* Goroutine t moves, and its list of sessions to release changes.         *)
LEMMA ReleasedKept ==
  ASSUME TypeOK, ReleasedAreClosed, KeptClosed, NEW t \in Threads,
         \A u \in Threads : u # t => release'[u] = release[u] /\ pc'[u] = pc[u],
         release'[t] # << >> => pc'[t] \in {"opened", "retired", "idle"},
         \A i \in DOMAIN release'[t] : state'[release'[t][i]] = "closed"
  PROVE  ReleasedAreClosed'
<1>1. \A u \in Threads : \A i \in DOMAIN release[u] : state'[release[u][i]] = "closed"
  BY DEF TypeOK, KeptClosed, ReleasedAreClosed
<1>. QED BY <1>1 DEF ReleasedAreClosed

(* A step that leaves the store alone and ends no service of an attached   *)
(* session.                                                                *)
Calm ==
  /\ UNCHANGED <<state, live, member, age, parked, bound, hidden, release, expires>>
  /\ pc' \in [Threads -> Steps] /\ lag' \in [Threads -> 0..MaxLag] /\ prev' \in [Clients -> Clients \cup {Nil}]
  /\ \A c \in Clients :
       /\ pc[c] \in Serving => pc'[c] \in Serving \/ \A s \in Sessions : state[s] = "attached" => live[s] # c
       /\ pc'[c] \in {"new", "registered", "opening"} => pc[c] \in {"new", "registered", "opening"}
       /\ prev'[c] \in {prev[c], Nil}
       /\ pc'[c] = "leaving" => bound[c] # Nil
       /\ pc'[c] = "gone" => bound[c] = Nil \/ pc[c] = "gone"
  /\ \A t \in Threads : release[t] # << >> => pc'[t] = pc[t]

(* What a connection does between its calls into the store.                *)
LEMMA CalmSteps ==
  ASSUME StoreInv,
         \/ \E c \in Clients : \/ Register(c) \/ Reject(c) \/ OpenNow(c) \/ Transfer(c) \/ Displace(c)
                               \/ StartReadPump(c) \/ Disconnect(c) \/ ReadEnds(c) \/ LeaveDisplaced(c)
                               \/ Unregister(c) \/ Finish(c) \/ ConnectPanics(c)
                               \/ \E r \in Rooms : JoinRoom(c, r) \/ LeaveRoom(c, r)
         \/ SweepNow \/ UNCHANGED vars
  PROVE  Calm
<1>. USE RecoveryConstants DEF store, hub, conn, history, Threads, goto, gotoLate, leaveTo, Steps, Serving
<1>. /\ pc \in [Threads -> Steps] /\ lag \in [Threads -> 0..MaxLag] /\ prev \in [Clients -> Clients \cup {Nil}]
     /\ BoundOnce /\ \A t \in Threads : release[t] # << >> => pc[t] \in {"opened", "retired", "idle"}
  BY Zenon DEF StoreInv, TypeOK, ReleasedAreClosed
<1>1. ASSUME NEW c \in Clients, Register(c) PROVE Calm
  BY Zenon, <1>1 DEF Register, Calm, BoundOnce
<1>2. ASSUME NEW c \in Clients, Reject(c) PROVE Calm
  BY Zenon, <1>2 DEF Reject, Calm, BoundOnce
<1>3. ASSUME NEW c \in Clients, OpenNow(c) PROVE Calm
  BY Zenon, <1>3 DEF OpenNow, Calm, BoundOnce
<1>4. ASSUME NEW c \in Clients, Transfer(c) PROVE Calm
  BY Zenon, <1>4 DEF Transfer, Calm, BoundOnce
<1>5. ASSUME NEW c \in Clients, Displace(c) PROVE Calm
  BY Zenon, <1>5 DEF Displace, Calm, BoundOnce
<1>6. ASSUME NEW c \in Clients, StartReadPump(c) PROVE Calm
  BY Zenon, <1>6 DEF StartReadPump, Calm, BoundOnce
<1>7. ASSUME NEW c \in Clients, Disconnect(c) PROVE Calm
  BY Zenon, <1>7 DEF Disconnect, Calm, BoundOnce
<1>8. ASSUME NEW c \in Clients, ReadEnds(c) PROVE Calm
  <2>1. bound[c] = Nil => \A s \in Sessions : state[s] = "attached" => live[s] # c
    BY DEF StoreInv, AttachedIsServed
  <2>. QED BY Zenon, <1>8, <2>1 DEF ReadEnds, Calm, BoundOnce
<1>9. ASSUME NEW c \in Clients, LeaveDisplaced(c) PROVE Calm
  <2>1. \A s \in Sessions : state[s] = "attached" => live[s] # c
    BY <1>9 DEF StoreInv, AttachedIsServed, LeaveDisplaced
  <2>. QED BY <1>9, <2>1 DEF LeaveDisplaced, Calm, BoundOnce
<1>10. ASSUME NEW c \in Clients, Unregister(c) PROVE Calm
  BY Zenon, <1>10 DEF Unregister, Calm, BoundOnce
<1>11. ASSUME NEW c \in Clients, Finish(c) PROVE Calm
  BY Zenon, <1>11 DEF Finish, Calm, BoundOnce
<1>12. ASSUME NEW c \in Clients, NEW r \in Rooms, JoinRoom(c, r) \/ LeaveRoom(c, r) PROVE Calm
  BY Zenon, <1>12 DEF JoinRoom, LeaveRoom, Calm, BoundOnce
<1>13. CASE SweepNow
  BY Zenon, <1>13 DEF SweepNow, Calm, BoundOnce
<1>14. CASE UNCHANGED vars
  BY Zenon, <1>14 DEF vars, Calm, BoundOnce
<1>15. ASSUME NEW c \in Clients, ConnectPanics(c) PROVE Calm
  BY Zenon, <1>15 DEF ConnectPanics, Calm, BoundOnce
<1>. QED BY Zenon, <1>1, <1>2, <1>3, <1>4, <1>5, <1>6, <1>7, <1>8, <1>9, <1>10, <1>11, <1>12, <1>13, <1>14, <1>15

(* Such a step changes nothing the store knows.                            *)
LEMMA CalmStore == ASSUME StoreInv, Calm PROVE StoreInv' /\ KeptClosed
<1>. USE DEF StoreInv
<1>1. TypeOK'
  BY Zenon DEF Calm, TypeOK
<1>2. ParkedExact' /\ OldestFirst' /\ NotLive' /\ ExpiredAreClosed' /\ KeptClosed
  BY Zenon DEF Calm, ParkedExact, OldestFirst, NotLive, ExpiredAreClosed, KeptClosed
<1>3. AttachedIsServed'
  BY DEF Calm, AttachedIsServed, Serving, TypeOK
<1>4. BoundOnce'
  BY Zenon DEF Calm, BoundOnce
<1>5. ReleasedAreClosed'
  BY DEF Calm, ReleasedAreClosed
<1>. QED BY Zenon, <1>1, <1>2, <1>3, <1>4, <1>5

(* Open of a fresh session, which may kill the one that was asked for.     *)
LEMMA OpenFreshStore ==
  ASSUME StoreInv, NEW c \in Clients, NEW s \in Sessions \cup {Nil}, NEW v \in Victims, OpenFresh(c, s, v)
  PROVE  StoreInv' /\ KeptClosed
<1>. USE RecoveryConstants DEF StoreInv, Threads, goto, gotoLate
<1>1. /\ pc[c] = "opening" /\ (s # Nil => state[s] = "unused") /\ gotoLate(c, "opened")
      /\ state' = [x \in Sessions |-> IF x = v THEN "closed" ELSE IF x = s THEN "attached" ELSE state[x]]
      /\ age' = [x \in Sessions |-> IF x = v THEN 0 ELSE age[x]]
      /\ live' = [x \in Sessions |-> IF x = s THEN c ELSE live[x]]
      /\ member' = [x \in Sessions |-> IF x = s THEN c ELSE member[x]]
      /\ bound' = [bound EXCEPT ![c] = s]
      /\ release' = [release EXCEPT ![c] = IF v = Nil THEN << >> ELSE <<v>>]
      /\ parked' = unparked(v) /\ UNCHANGED <<prev, hidden, expires>>
  BY Zenon DEF OpenFresh
<1>2. v \in Sessions \cup {Nil} /\ (v # Nil => state[v] \in {"attached", "parked"})
  BY Zenon DEF Victims
<1>3. KeptClosed
  BY Zenon, <1>1, <1>2 DEF KeptClosed
<1>4. parked' \in Seq(Sessions) /\ ParkedExact' /\ OldestFirst'
  <2>1. \A x \in Sessions : state'[x] = "parked" <=> state[x] = "parked" /\ x # v
    BY Zenon, <1>1
  <2>2. \A x \in Sessions : x # v => age'[x] = age[x]
    BY Zenon, <1>1
  <2>. QED BY Zenon, <1>1, <2>1, <2>2, Unpark
<1>5. TypeOK'
  <2>1. v # Nil => <<v>> \in Seq(Sessions)
    BY <1>2
  <2>2. DOMAIN release' = Threads /\ \A t \in Threads : release'[t] \in Seq(Sessions)
    BY <1>1, <2>1 DEF TypeOK
  <2>. QED BY <1>1, <1>4, <2>2 DEF TypeOK, Steps, MaxAge
<1>6. AttachedIsServed' /\ NotLive'
  BY <1>1 DEF TypeOK, AttachedIsServed, NotLive, BoundOnce
<1>7. BoundOnce'
  BY Zenon, <1>1, <1>2 DEF TypeOK, BoundOnce
<1>8. ReleasedAreClosed'
  <2>1. release'[c] = IF v = Nil THEN << >> ELSE <<v>>
    BY Zenon, <1>1 DEF TypeOK
  <2>2. \A i \in DOMAIN release'[c] : state'[release'[c][i]] = "closed"
    BY <1>1, <1>2, <2>1
  <2>3. \A u \in Threads : u # c => release'[u] = release[u] /\ pc'[u] = pc[u]
    BY Zenon, <1>1 DEF TypeOK
  <2>4. pc'[c] = "opened"
    BY Zenon, <1>1 DEF TypeOK
  <2>. QED BY Zenon, <1>3, <2>2, <2>3, <2>4, ReleasedKept
<1>9. ExpiredAreClosed'
  BY Zenon, <1>1, <1>3 DEF ExpiredAreClosed, KeptClosed
<1>. QED BY Zenon, <1>3, <1>4, <1>5, <1>6, <1>7, <1>8, <1>9

(* Open of a session that is resumed.                                      *)
LEMMA OpenResumeStore ==
  ASSUME StoreInv, NEW c \in Clients, NEW s \in Sessions, OpenResume(c, s)
  PROVE  StoreInv' /\ KeptClosed
<1>. USE RecoveryConstants DEF StoreInv, Threads, goto, gotoLate
<1>1. /\ pc[c] = "opening" /\ state[s] \in {"attached", "parked"} /\ gotoLate(c, "opened")
      /\ state' = [state EXCEPT ![s] = "attached"] /\ age' = [age EXCEPT ![s] = 0]
      /\ live' = [live EXCEPT ![s] = c] /\ member' = [member EXCEPT ![s] = c]
      /\ bound' = [bound EXCEPT ![c] = s] /\ prev' = [prev EXCEPT ![c] = member[s]]
      /\ parked' = unparked(s) /\ UNCHANGED <<hidden, release, expires>>
  BY Zenon DEF OpenResume, attachLocked
<1>2. KeptClosed
  BY Zenon, <1>1 DEF TypeOK, KeptClosed
<1>3. parked' \in Seq(Sessions) /\ ParkedExact' /\ OldestFirst'
  <2>1. \A x \in Sessions : state'[x] = "parked" <=> state[x] = "parked" /\ x # s
    BY Zenon, <1>1 DEF TypeOK
  <2>2. \A x \in Sessions : x # s => age'[x] = age[x]
    BY Zenon, <1>1 DEF TypeOK
  <2>. QED BY Zenon, <1>1, <2>1, <2>2, Unpark
<1>4. TypeOK'
  BY <1>1, <1>3 DEF TypeOK, Steps, MaxAge
<1>5. AttachedIsServed' /\ NotLive'
  BY SMTT(30), <1>1 DEF TypeOK, AttachedIsServed, NotLive, BoundOnce
<1>6. BoundOnce'
  BY Zenon, <1>1 DEF TypeOK, BoundOnce
<1>7. ReleasedAreClosed'
  <2>1. release'[c] = << >>
    BY Zenon, <1>1 DEF ReleasedAreClosed
  <2>2. \A u \in Threads : u # c => release'[u] = release[u] /\ pc'[u] = pc[u]
    BY Zenon, <1>1 DEF TypeOK
  <2>. QED BY <1>2, <2>1, <2>2, ReleasedKept
<1>8. ExpiredAreClosed'
  BY Zenon, <1>1, <1>2 DEF ExpiredAreClosed, KeptClosed
<1>. QED BY Zenon, <1>2, <1>3, <1>4, <1>5, <1>6, <1>7, <1>8

(* A session is closed when its release comes.                             *)
LEMMA ReleaseHead ==
  ASSUME StoreInv, NEW t \in Threads, release[t] # << >>
  PROVE  /\ Head(release[t]) \in Sessions /\ state[Head(release[t])] = "closed"
         /\ Tail(release[t]) \in Seq(Sessions)
         /\ \A j \in DOMAIN Tail(release[t]) : \E i \in DOMAIN release[t] : Tail(release[t])[j] = release[t][i]
         /\ \A i \in DOMAIN release[t] :
              release[t][i] = Head(release[t]) \/ \E j \in DOMAIN Tail(release[t]) : Tail(release[t])[j] = release[t][i]
<1>1. release[t] \in Seq(Sessions) /\ Len(release[t]) \in Nat /\ DOMAIN release[t] = 1..Len(release[t])
  BY Zenon, LenProperties DEF StoreInv, TypeOK
<1>2. Head(release[t]) \in Sessions /\ Head(release[t]) = release[t][1] /\ 1 \in DOMAIN release[t]
  BY <1>1, HeadTailProperties
<1>3. state[Head(release[t])] = "closed"
  BY <1>2 DEF StoreInv, ReleasedAreClosed
<1>4. /\ Tail(release[t]) \in Seq(Sessions) /\ Len(Tail(release[t])) = Len(release[t]) - 1
      /\ \A j \in 1..Len(Tail(release[t])) : Tail(release[t])[j] = release[t][j + 1]
  BY Zenon, <1>1, HeadTailProperties
<1>5. DOMAIN Tail(release[t]) = 1..Len(release[t]) - 1
  BY Zenon, <1>4, LenProperties
<1>6. \A j \in DOMAIN Tail(release[t]) : j + 1 \in DOMAIN release[t] /\ Tail(release[t])[j] = release[t][j + 1]
  BY <1>1, <1>4, <1>5
<1>7. ASSUME NEW i \in DOMAIN release[t], i # 1
      PROVE  i - 1 \in DOMAIN Tail(release[t]) /\ Tail(release[t])[i - 1] = release[t][i]
  BY <1>1, <1>4, <1>5, <1>7
<1>. QED BY Zenon, <1>2, <1>3, <1>4, <1>6, <1>7

(* The release of a discarded session, and the report of its expiry.       *)
LEMMA ReleaseStore ==
  ASSUME StoreInv, NEW t \in Threads, Release(t)
  PROVE  StoreInv' /\ KeptClosed
<1>. USE RecoveryConstants DEF StoreInv
<1>1. /\ release[t] # << >> /\ release' = [release EXCEPT ![t] = Tail(@)]
      /\ expires' = [expires EXCEPT ![Head(release[t])] = IF pc[t] = "opened" THEN @ ELSE @ + 1]
      /\ UNCHANGED <<state, live, member, age, parked, pc, bound, prev, hidden, lag>>
  BY Zenon DEF Release, store, conn
<1>2. /\ Head(release[t]) \in Sessions /\ state[Head(release[t])] = "closed" /\ Tail(release[t]) \in Seq(Sessions)
      /\ \A j \in DOMAIN Tail(release[t]) : \E i \in DOMAIN release[t] : Tail(release[t])[j] = release[t][i]
  BY Zenon, <1>1, ReleaseHead
<1>3. release'[t] = Tail(release[t]) /\ \A u \in Threads : u # t => release'[u] = release[u]
  BY Zenon, <1>1 DEF TypeOK
<1>4. TypeOK'
  <2>1. DOMAIN release' = Threads /\ \A u \in Threads : release'[u] \in Seq(Sessions)
    BY Zenon, <1>1, <1>2, <1>3 DEF TypeOK
  <2>2. expires' \in [Sessions -> Nat]
    <3>. DEFINE s == Head(release[t])
                k == IF pc[t] = "opened" THEN expires[s] ELSE expires[s] + 1
    <3>1. expires \in [Sessions -> Nat] /\ s \in Sessions /\ expires' = [expires EXCEPT ![s] = k]
      BY Zenon, <1>1, <1>2 DEF TypeOK
    <3>2. expires[s] \in Nat
      BY Zenon, <3>1
    <3>. HIDE DEF s
    <3>3. k \in Nat
      BY ONLY <3>2
    <3>. HIDE DEF k
    <3>. QED BY Zenon, <3>1, <3>3
  <2>. QED BY Zenon, <1>1, <2>1, <2>2 DEF TypeOK
<1>5. ParkedExact' /\ OldestFirst' /\ AttachedIsServed' /\ NotLive' /\ BoundOnce' /\ KeptClosed
  BY Zenon, <1>1 DEF ParkedExact, OldestFirst, AttachedIsServed, NotLive, BoundOnce, KeptClosed
<1>6. ReleasedAreClosed'
  <2>1. \A i \in DOMAIN release'[t] : state'[release'[t][i]] = "closed"
    BY <1>1, <1>2, <1>3 DEF ReleasedAreClosed
  <2>2. pc[t] \in {"opened", "retired", "idle"}
    BY Zenon, <1>1 DEF ReleasedAreClosed
  <2>. QED BY Zenon, <1>1, <1>3, <1>5, <2>1, <2>2, ReleasedKept
<1>7. ExpiredAreClosed'
  BY Zenon, <1>1, <1>2 DEF TypeOK, ExpiredAreClosed
<1>. QED BY Zenon, <1>4, <1>5, <1>6, <1>7

(* Leave without a way back: the session is closed, or was so already.     *)
LEMMA LeaveGoneStore ==
  ASSUME StoreInv, NEW c \in Clients, LeaveGone(c)
  PROVE  StoreInv' /\ KeptClosed
<1>. USE RecoveryConstants DEF StoreInv, Threads, goto, gotoLate
<1>1. pc[c] = "leaving" /\ gotoLate(c, "gone") /\ UNCHANGED <<member, age, bound, prev, hidden, release, expires>>
  BY Zenon DEF LeaveGone, leaveTo, store, conn, history
<1>2. bound[c] \in Sessions
  BY Zenon, <1>1 DEF TypeOK, BoundOnce
<1>3. \/ state[bound[c]] = "closed" /\ UNCHANGED <<state, live, parked>>
      \/ /\ state[bound[c]] # "closed" /\ live[bound[c]] = c /\ parked' = unparked(bound[c])
         /\ state' = [state EXCEPT ![bound[c]] = "closed"] /\ live' = [live EXCEPT ![bound[c]] = Nil]
  BY Zenon DEF LeaveGone, store
<1>4. KeptClosed /\ state'[bound[c]] = "closed"
  BY Zenon, <1>2, <1>3 DEF TypeOK, KeptClosed
<1>5. parked' \in Seq(Sessions) /\ ParkedExact' /\ OldestFirst'
  <2>1. CASE UNCHANGED <<state, live, parked>>
    BY Zenon, <1>1, <2>1 DEF TypeOK, ParkedExact, OldestFirst
  <2>2. CASE parked' = unparked(bound[c]) /\ state' = [state EXCEPT ![bound[c]] = "closed"]
    <3>1. \A x \in Sessions : state'[x] = "parked" <=> state[x] = "parked" /\ x # bound[c]
      BY Zenon, <1>2, <2>2 DEF TypeOK
    <3>. QED BY Zenon, <1>1, <2>2, <3>1, Unpark
  <2>. QED BY Zenon, <1>3, <2>1, <2>2
<1>6. TypeOK'
  <2>1. state' \in [Sessions -> {"unused", "attached", "parked", "closed"}] /\ live' \in [Sessions -> Clients \cup {Nil}]
    BY Zenon, <1>2, <1>3 DEF TypeOK
  <2>. QED BY <1>1, <1>5, <2>1 DEF TypeOK, Steps
<1>7. AttachedIsServed' /\ NotLive'
  <2>1. ASSUME NEW s \in Sessions, state'[s] = "attached"
        PROVE  state[s] = "attached" /\ live'[s] = live[s] /\ live[s] # c
    BY <1>1, <1>2, <1>3, <2>1 DEF TypeOK, AttachedIsServed
  <2>2. \A s \in Sessions : state'[s] \in {"unused", "parked"} => state[s] = state'[s] /\ live'[s] = live[s]
    BY Zenon, <1>2, <1>3 DEF TypeOK
  <2>. QED BY <1>1, <2>1, <2>2 DEF TypeOK, AttachedIsServed, NotLive
<1>8. BoundOnce'
  BY Zenon, <1>1, <1>2, <1>3, <1>4 DEF TypeOK, BoundOnce
<1>9. ReleasedAreClosed'
  <2>1. release'[c] = << >>
    BY Zenon, <1>1 DEF ReleasedAreClosed
  <2>2. \A u \in Threads : u # c => release'[u] = release[u] /\ pc'[u] = pc[u]
    BY Zenon, <1>1 DEF TypeOK
  <2>. QED BY <1>4, <2>1, <2>2, ReleasedKept
<1>10. ExpiredAreClosed'
  BY Zenon, <1>1, <1>4 DEF ExpiredAreClosed, KeptClosed
<1>. QED BY Zenon, <1>4, <1>5, <1>6, <1>7, <1>8, <1>9, <1>10

(* Leave parks the session and evicts what is over the limit.              *)
LEMMA LeaveParkedStore ==
  ASSUME StoreInv, NEW c \in Clients, LeaveParked(c)
  PROVE  StoreInv' /\ KeptClosed
<1>. USE RecoveryConstants DEF StoreInv, Threads, goto, gotoLate
<1>. DEFINE E == Range(release'[c])
            s == bound[c]
<1>1. /\ pc[c] = "leaving" /\ gotoLate(c, "retired")
      /\ state' = [x \in Sessions |-> IF x \in E THEN "closed" ELSE IF x = s THEN "parked" ELSE state[x]]
      /\ age' = [x \in Sessions |-> IF x \in E THEN 0 ELSE IF x = s THEN lag[c] ELSE age[x]]
      /\ live' = [live EXCEPT ![s] = Nil] /\ hidden' = [hidden EXCEPT ![c] = TRUE]
      /\ release' = [release EXCEPT ![c] = release'[c]]
      /\ UNCHANGED <<member, bound, prev, expires>>
  BY Zenon DEF LeaveParked, leaveTo, TypeOK, history
<1>2. /\ s \in Sessions /\ state[s] = "attached" /\ live[s] = c
      /\ release'[c] \in Seq(Sessions) /\ E \subseteq Range(parked)
      /\ Range(parked') = (Range(parked) \ E) \cup {s}
      /\ parked' \in Seq(Sessions) /\ IsInjective(parked') /\ Len(parked') <= MaxParked
      /\ \A i, j \in DOMAIN parked' : i < j =>
           /\ parked'[i] # s
           /\ \/ parked'[j] = s
              \/ \E a, b \in DOMAIN parked : a < b /\ parked[a] = parked'[i] /\ parked[b] = parked'[j]
  BY Zenon, ParkEffect
<1>3. \A i \in DOMAIN release'[c] : release'[c][i] \in Sessions /\ release'[c][i] \in E
  BY <1>2 DEF Range
<1>. HIDE DEF E, s
<1>4. \A x : x \in Range(parked) <=> x \in Sessions /\ state[x] = "parked"
  BY Zenon DEF ParkedExact
<1>5. KeptClosed
  BY Zenon, <1>1, <1>2 DEF KeptClosed
<1>6. ParkedExact'
  <2>1. \A x : x \in Range(parked') <=> x \in Sessions /\ state'[x] = "parked"
    BY Zenon, <1>1, <1>2, <1>4
  <2>. QED BY <1>2, <2>1 DEF ParkedExact
<1>7. OldestFirst'
  <2>1. MaxLag \in Nat /\ lag[c] \in 0..MaxLag /\ \A x \in Sessions : age[x] \in Nat
    BY DEF TypeOK, MaxAge
  <2>2. age'[s] = lag[c]
    BY Zenon, <1>1, <1>2, <1>4
  <2>3. \A x \in Range(parked') : x # s => x \in Range(parked) /\ age'[x] = age[x] /\ age[x] \in Nat
    BY Zenon, <1>1, <1>2, <1>4, <2>1
  <2>. SUFFICES ASSUME NEW i \in DOMAIN parked', NEW j \in DOMAIN parked', i < j
                PROVE  age'[parked'[i]] + MaxLag >= age'[parked'[j]]
    BY Zenon DEF OldestFirst
  <2>4. parked'[i] # s /\ parked'[i] \in Range(parked') /\ parked'[j] \in Range(parked')
    BY Zenon, <1>2 DEF Range
  <2>5. CASE parked'[j] = s
    BY <2>1, <2>2, <2>3, <2>4, <2>5
  <2>6. CASE parked'[j] # s
    <3>1. PICK a, b \in DOMAIN parked : a < b /\ parked[a] = parked'[i] /\ parked[b] = parked'[j]
      BY Zenon, <1>2, <2>6
    <3>2. age[parked[a]] + MaxLag >= age[parked[b]]
      BY Zenon, <3>1 DEF OldestFirst
    <3>. QED BY Zenon, <2>3, <2>4, <2>6, <3>1, <3>2
  <2>. QED BY Zenon, <2>5, <2>6
<1>8. TypeOK'
  <2>1. DOMAIN release' = Threads /\ \A t \in Threads : release'[t] \in Seq(Sessions)
    BY Zenon, <1>1, <1>2 DEF TypeOK
  <2>2. age' \in [Sessions -> 0..MaxAge]
    BY <1>1 DEF TypeOK, MaxAge
  <2>. QED BY SMTT(30), <1>1, <1>2, <2>1, <2>2 DEF TypeOK, Steps
<1>9. AttachedIsServed' /\ NotLive'
  BY SMTT(30), <1>1, <1>2, <1>4 DEF TypeOK, AttachedIsServed, NotLive, s
<1>10. BoundOnce'
  BY <1>1, <1>2, <1>4 DEF TypeOK, BoundOnce
<1>11. ReleasedAreClosed'
  <2>1. \A u \in Threads : u # c => release'[u] = release[u] /\ pc'[u] = pc[u]
    BY Zenon, <1>1 DEF TypeOK
  <2>2. pc'[c] = "retired" /\ \A i \in DOMAIN release'[c] : state'[release'[c][i]] = "closed"
    BY Zenon, <1>1, <1>3 DEF TypeOK
  <2>. QED BY Zenon, <1>5, <2>1, <2>2, ReleasedKept
<1>12. ExpiredAreClosed'
  BY Zenon, <1>1, <1>5 DEF ExpiredAreClosed, KeptClosed
<1>. QED BY Zenon, <1>5, <1>6, <1>7, <1>8, <1>9, <1>10, <1>11, <1>12

(* Sweep discards from the front.                                          *)
LEMMA SweepStore == ASSUME StoreInv, Sweep PROVE StoreInv' /\ KeptClosed
<1>. USE RecoveryConstants DEF StoreInv, Threads, goto, gotoLate
<1>. DEFINE E == Range(release'[Sweeper])
<1>1. /\ release'[Sweeper] \in Seq(Sessions) /\ E \subseteq Range(parked) /\ Range(parked') = Range(parked) \ E
      /\ parked' \in Seq(Sessions) /\ IsInjective(parked') /\ Len(parked') <= MaxParked /\ Thins(parked', parked)
      /\ release' = [release EXCEPT ![Sweeper] = release'[Sweeper]]
      /\ state' = [s \in Sessions |-> IF s \in E THEN "closed" ELSE state[s]]
      /\ age' = [s \in Sessions |-> IF s \in E THEN 0 ELSE age[s]]
  BY Zenon, SweepEffect
<1>2. gotoLate(Sweeper, "idle") /\ UNCHANGED <<live, member, bound, prev, hidden, expires>>
  BY Zenon DEF Sweep, conn, history
<1>3. \A i \in DOMAIN release'[Sweeper] : release'[Sweeper][i] \in Sessions /\ release'[Sweeper][i] \in E
  BY <1>1 DEF Range
<1>. HIDE DEF E
<1>4. \A x : x \in Range(parked) <=> x \in Sessions /\ state[x] = "parked"
  BY Zenon DEF ParkedExact
<1>5. KeptClosed
  BY Zenon, <1>1 DEF KeptClosed
<1>6. ParkedExact'
  <2>1. \A x : x \in Range(parked') <=> x \in Sessions /\ state'[x] = "parked"
    BY Zenon, <1>1, <1>4
  <2>. QED BY Zenon, <1>1, <2>1 DEF ParkedExact
<1>7. OldestFirst'
  <2>1. \A x \in Range(parked') : age'[x] = age[x]
    BY Zenon, <1>1, <1>4
  <2>. QED BY Zenon, <1>1, <2>1, OrderKept
<1>8. TypeOK'
  BY <1>1, <1>2 DEF TypeOK, Steps, MaxAge
<1>9. AttachedIsServed' /\ NotLive'
  BY <1>1, <1>2 DEF TypeOK, AttachedIsServed, NotLive
<1>10. BoundOnce'
  BY <1>1, <1>2, <1>4 DEF TypeOK, BoundOnce
<1>11. ReleasedAreClosed'
  <2>1. \A u \in Threads : u # Sweeper => release'[u] = release[u] /\ pc'[u] = pc[u]
    BY Zenon, <1>1, <1>2 DEF TypeOK
  <2>2. pc'[Sweeper] = "idle" /\ \A i \in DOMAIN release'[Sweeper] : state'[release'[Sweeper][i]] = "closed"
    BY Zenon, <1>1, <1>2, <1>3 DEF TypeOK
  <2>. QED BY Zenon, <1>5, <2>1, <2>2, ReleasedKept
<1>12. ExpiredAreClosed'
  BY Zenon, <1>2, <1>5 DEF ExpiredAreClosed, KeptClosed
<1>. QED BY Zenon, <1>5, <1>6, <1>7, <1>8, <1>9, <1>10, <1>11, <1>12

(* Time passes: the ages of the parked sessions grow together.             *)
LEMMA TickStore == ASSUME StoreInv, Tick PROVE StoreInv' /\ KeptClosed
<1>. USE RecoveryConstants DEF StoreInv
<1>1. /\ UNCHANGED <<state, live, member, parked, pc, bound, prev, hidden, release, expires>>
      /\ age' = [s \in Sessions |-> IF state[s] = "parked" /\ age[s] < MaxAge THEN age[s] + 1 ELSE age[s]]
      /\ lag' \in [Threads -> 0..MaxLag]
  BY DEF Tick, TypeOK, conn, history
<1>2. TypeOK'
  BY <1>1 DEF TypeOK, MaxAge
<1>3. OldestFirst'
  <2>. SUFFICES ASSUME NEW i \in DOMAIN parked, NEW j \in DOMAIN parked, i < j
                PROVE  age'[parked[i]] + MaxLag >= age'[parked[j]]
    BY Zenon, <1>1 DEF OldestFirst
  <2>1. \A k \in DOMAIN parked : parked[k] \in Sessions /\ state[parked[k]] = "parked"
    BY Zenon DEF ParkedExact, Range
  <2>2. age[parked[i]] \in 0..MaxAge /\ age[parked[j]] \in 0..MaxAge /\ MaxAge \in Nat /\ MaxLag \in Nat
    BY <2>1 DEF TypeOK, MaxAge
  <2>3. age[parked[i]] + MaxLag >= age[parked[j]]
    BY Zenon DEF OldestFirst
  <2>4. /\ age'[parked[i]] = IF age[parked[i]] < MaxAge THEN age[parked[i]] + 1 ELSE age[parked[i]]
        /\ age'[parked[j]] = IF age[parked[j]] < MaxAge THEN age[parked[j]] + 1 ELSE age[parked[j]]
    BY Zenon, <1>1, <2>1
  <2>. QED BY <2>2, <2>3, <2>4
<1>4. ParkedExact' /\ AttachedIsServed' /\ NotLive' /\ BoundOnce' /\ ReleasedAreClosed' /\ ExpiredAreClosed' /\ KeptClosed
  BY <1>1 DEF ParkedExact, AttachedIsServed, NotLive, BoundOnce, ReleasedAreClosed, ExpiredAreClosed, KeptClosed
<1>. QED BY Zenon, <1>2, <1>3, <1>4

(* Every step keeps the store's half of the invariant.                     *)
LEMMA StoreStep == ASSUME StoreInv, [Next]_vars PROVE StoreInv' /\ KeptClosed
<1>1. CASE Calm
  BY Zenon, <1>1, CalmStore
<1>2. CASE ~Calm
  <2>1. ~SweepNow /\ ~UNCHANGED vars
    BY Zenon, <1>2, CalmSteps
  <2>2. \A c \in Clients : ~(\/ Register(c) \/ Reject(c) \/ OpenNow(c) \/ Transfer(c) \/ Displace(c)
                             \/ StartReadPump(c) \/ Disconnect(c) \/ ReadEnds(c) \/ LeaveDisplaced(c)
                             \/ Unregister(c) \/ Finish(c) \/ ConnectPanics(c)
                             \/ \E r \in Rooms : JoinRoom(c, r) \/ LeaveRoom(c, r))
    BY Zenon, <1>2, CalmSteps
  <2>3. CASE Sweep \/ Tick \/ \E t \in Threads : Release(t)
    BY Zenon, <2>3, SweepStore, TickStore, ReleaseStore
  <2>4. ASSUME NEW c \in Clients,
               \/ \E s \in Sessions \cup {Nil}, v \in Victims : OpenFresh(c, s, v)
               \/ \E s \in Sessions : OpenResume(c, s)
        PROVE  StoreInv' /\ KeptClosed
    BY Zenon, <2>4, OpenFreshStore, OpenResumeStore
  <2>5. ASSUME NEW c \in Clients, LeaveGone(c) \/ LeaveParked(c) PROVE StoreInv' /\ KeptClosed
    BY Zenon, <2>5, LeaveGoneStore, LeaveParkedStore
  <2>. QED BY Zenon, <2>1, <2>2, <2>3, <2>4, <2>5 DEF Next, Serve, Threads
<1>. QED BY Zenon, <1>1, <1>2
-----------------------------------------------------------------------------
(* What the hub knows                                                      *)

(* A step that moves a goroutine along without touching what the store and *)
(* the hub know of the connections, and ends none of them.                 *)
Quiet ==
  /\ UNCHANGED <<state, live, member, clients, rooms, bound, prev, hidden, release, joined, stray>>
  /\ \A c \in Clients :
       /\ (pc'[c] \in Over => pc[c] \in Over) /\ (pc[c] \in Over => pc'[c] \in Over)
       /\ pc'[c] \in {"registered", "opening"} => pc[c] \in {"registered", "opening"}

(* The steps of a connection between its calls into store and hub, those   *)
(* of the clock and the stuttering steps are of this kind.                 *)
LEMMA QuietSteps ==
  ASSUME TypeOK,
         \/ \E c \in Clients : \/ OpenNow(c) \/ Displace(c) \/ StartReadPump(c)
                               \/ Disconnect(c) \/ ReadEnds(c) \/ Finish(c) \/ ConnectPanics(c)
         \/ SweepNow \/ Tick \/ UNCHANGED vars
  PROVE  Quiet
<1>. USE RecoveryConstants DEF store, hub, conn, history, Threads, Over, goto
<1>. pc \in [Threads -> Steps]
  BY Zenon DEF TypeOK
<1>1. ASSUME NEW c \in Clients, OpenNow(c) PROVE Quiet
  BY Zenon, <1>1 DEF OpenNow, Quiet
<1>2. ASSUME NEW c \in Clients, Displace(c) PROVE Quiet
  BY Zenon, <1>2 DEF Displace, Quiet
<1>3. ASSUME NEW c \in Clients, StartReadPump(c) PROVE Quiet
  BY Zenon, <1>3 DEF StartReadPump, Quiet
<1>4. ASSUME NEW c \in Clients, Disconnect(c) PROVE Quiet
  BY Zenon, <1>4 DEF Disconnect, Quiet
<1>5. ASSUME NEW c \in Clients, ReadEnds(c) PROVE Quiet
  BY Zenon, <1>5 DEF ReadEnds, Quiet
<1>6. ASSUME NEW c \in Clients, Finish(c) PROVE Quiet
  BY Zenon, <1>6 DEF Finish, Quiet
<1>7. CASE SweepNow
  BY Zenon, <1>7 DEF SweepNow, Quiet
<1>8. CASE Tick
  BY Zenon, <1>8 DEF Tick, Quiet
<1>9. CASE UNCHANGED vars
  BY Zenon, <1>9 DEF vars, Quiet
<1>10. ASSUME NEW c \in Clients, ConnectPanics(c) PROVE Quiet
  BY Zenon, <1>10 DEF ConnectPanics, Quiet
<1>. QED BY Zenon, <1>1, <1>2, <1>3, <1>4, <1>5, <1>6, <1>7, <1>8, <1>9, <1>10

(* Such a step changes nothing the hub knows.                              *)
LEMMA QuietHub == ASSUME TypeOK, HubInv, Quiet PROVE HubInv'
<1>. USE DEF HubInv
<1>1. HubTypeOK' /\ PrevWasMember' /\ TransferPending' /\ SessionInRooms'
  BY DEF Quiet, HubTypeOK, PrevWasMember, TransferPending, SessionInRooms, Open
<1>2. MemberIsLast'
  BY Zenon DEF Quiet, MemberIsLast
<1>3. Registered'
  BY Zenon DEF Quiet, Registered, Open
<1>4. ReleasePending'
  <2>. SUFFICES ASSUME NEW s \in Sessions, state[s] = "closed", member[s] \in clients, pc'[member[s]] \in Over
                PROVE  \E t \in Threads : \E i \in DOMAIN release[t] : release[t][i] = s
    BY Zenon DEF Quiet, ReleasePending
  <2>1. member[s] \in Clients
    BY Zenon DEF HubTypeOK
  <2>. QED BY Zenon, <2>1 DEF Quiet, ReleasePending
<1>5. OverInHub' /\ InRooms'
  BY Zenon DEF Quiet, OverInHub, InRooms, HubTypeOK
<1>. QED BY Zenon, <1>1, <1>2, <1>3, <1>4, <1>5

(* Hub.register, before there is a session.                                *)
LEMMA RegisterHub ==
  ASSUME StoreInv, HubInv, NEW c \in Clients, Register(c)
  PROVE  HubInv'
<1>. USE RecoveryConstants DEF StoreInv, HubInv, Threads, Over, goto
<1>1. /\ pc[c] = "new" /\ clients' = clients \cup {c} /\ goto(c, "registered")
      /\ UNCHANGED <<state, live, member, rooms, bound, prev, hidden, release, joined, stray>>
  BY Zenon DEF Register, store, conn, history
<1>2. bound[c] = Nil /\ ~hidden[c]
  <2>1. bound[c] = Nil
    BY Zenon, <1>1 DEF BoundOnce
  <2>2. ~hidden[c]
    BY Zenon, <1>1 DEF MemberIsLast
  <2>. QED BY Zenon, <2>1, <2>2
<1>3. HubTypeOK' /\ PrevWasMember' /\ SessionInRooms'
  BY <1>1 DEF HubTypeOK, PrevWasMember, SessionInRooms, Open
<1>4. MemberIsLast'
  BY Zenon, <1>1, <1>2 DEF TypeOK, MemberIsLast
<1>5. Registered'
  BY Zenon, <1>1, <1>2 DEF TypeOK, Registered, Open
<1>6. TransferPending' /\ ReleasePending' /\ OverInHub'
  BY <1>1, <1>2 DEF TypeOK, HubTypeOK, TransferPending, ReleasePending, OverInHub
<1>7. InRooms'
  BY Zenon, <1>1 DEF InRooms
<1>. QED BY Zenon, <1>3, <1>4, <1>5, <1>6, <1>7

(* removeClientMaps for a connection that middleware refused, or that      *)
(* leaves for want of a session: it is the member of no open one.          *)
LEMMA RemovedHub ==
  ASSUME StoreInv, HubInv, NEW c \in Clients, Reject(c) \/ Unregister(c)
  PROVE  HubInv'
<1>. USE RecoveryConstants DEF StoreInv, HubInv, Threads, Over, goto
<1>1. /\ pc[c] \in {"registered", "gone"} /\ removeClientMaps(c) /\ (goto(c, "rejected") \/ goto(c, "retired"))
      /\ UNCHANGED <<state, live, member, bound, prev, hidden, release, joined, stray>>
  BY Zenon DEF Reject, Unregister, store, conn, history
<1>2. \A s \in Sessions : Open(s) => bound[c] # s
  BY Zenon, <1>1 DEF BoundOnce, Open
<1>3. \A s \in Sessions : Open(s) => member[s] # c
  <2>1. \A s \in Sessions : member[s] # Nil => bound[member[s]] = s
    BY Zenon DEF MemberIsLast
  <2>. QED BY Zenon, <1>2, <2>1
<1>4. HubTypeOK' /\ PrevWasMember'
  BY Zenon, <1>1 DEF HubTypeOK, PrevWasMember, removeClientMaps
<1>5. MemberIsLast'
  BY Zenon, <1>1 DEF TypeOK, MemberIsLast
<1>6. Registered'
  BY Zenon, <1>1, <1>3 DEF TypeOK, Registered, Open, removeClientMaps
<1>7. TransferPending' /\ ReleasePending'
  BY <1>1 DEF TypeOK, HubTypeOK, TransferPending, ReleasePending, removeClientMaps
<1>8. SessionInRooms'
  BY Zenon, <1>1, <1>2 DEF HubTypeOK, SessionInRooms, Open, removeClientMaps
<1>9. OverInHub' /\ InRooms'
  BY Zenon, <1>1 DEF TypeOK, HubTypeOK, OverInHub, InRooms, removeClientMaps
<1>. QED BY Zenon, <1>4, <1>5, <1>6, <1>7, <1>8, <1>9

(* Transfer hands the rooms of the old client to the new one, which is     *)
(* bound to the same session, and unregisters the old one.                 *)
LEMMA TransferHub ==
  ASSUME StoreInv, HubInv, NEW c \in Clients, Transfer(c)
  PROVE  HubInv'
<1>. USE RecoveryConstants DEF StoreInv, HubInv, Threads, Over, goto
<1>1. /\ pc[c] = "opened" /\ goto(c, "transferred") /\ prev' = [prev EXCEPT ![c] = Nil]
      /\ UNCHANGED <<state, live, member, bound, hidden, release, joined>>
  BY Zenon DEF Transfer, store, history
<1>2. prev[c] # c
  BY Zenon DEF PrevWasMember
<1>3. prev[c] \in Clients \cup {Nil}
  BY Zenon DEF TypeOK
<1>4. /\ clients' = clients \ {prev[c]}
      /\ DOMAIN rooms' = Rooms /\ \A r \in Rooms : rooms'[r] = moved(rooms[r], prev[c], c)
  <2>1. CASE prev[c] = Nil
    <3>1. UNCHANGED <<clients, rooms>> /\ Nil \notin clients /\ \A r \in Rooms : Nil \notin rooms[r]
      BY Zenon, <2>1 DEF Transfer, hub, HubTypeOK
    <3>. QED BY Zenon, <2>1, <3>1 DEF moved, HubTypeOK
  <2>2. CASE prev[c] # Nil
    BY Zenon, <1>2, <2>2 DEF Transfer, transferMembership
  <2>. QED BY Zenon, <2>1, <2>2
<1>5. HubTypeOK'
  BY Zenon, <1>1, <1>4 DEF HubTypeOK, moved
<1>6. MemberIsLast'
  BY Zenon, <1>1 DEF TypeOK, MemberIsLast
<1>7. PrevWasMember'
  BY Zenon, <1>1 DEF TypeOK, PrevWasMember
<1>8. Registered'
  <2>1. \A s \in Sessions : Open(s) => member[s] # prev[c]
    <3>. SUFFICES ASSUME NEW s \in Sessions, Open(s), member[s] = prev[c] PROVE FALSE
      BY Zenon
    <3>1. prev[c] \in Clients /\ bound[prev[c]] = s
      BY <1>3 DEF Registered, HubTypeOK, MemberIsLast
    <3>. QED BY Zenon, <3>1 DEF PrevWasMember
  <2>2. \A d \in Clients : pc[d] \in {"registered", "opening"} => d # prev[c]
    <3>. SUFFICES ASSUME prev[c] \in Clients, pc[prev[c]] \in {"registered", "opening"} PROVE FALSE
      BY Zenon
    <3>. QED BY Zenon DEF PrevWasMember, BoundOnce
  <2>. QED BY Zenon, <1>1, <1>4, <2>1, <2>2 DEF TypeOK, Registered, Open
<1>9. TransferPending'
  BY Zenon, <1>1, <1>4 DEF TypeOK, HubTypeOK, TransferPending
<1>10. ReleasePending'
  <2>1. \A x \in clients' : x \in Clients /\ x \in clients /\ (pc'[x] \in Over => pc[x] \in Over)
    BY Zenon, <1>1, <1>4 DEF TypeOK, HubTypeOK
  <2>. QED BY <1>1, <2>1 DEF ReleasePending
<1>11. SessionInRooms'
  <2>. SUFFICES ASSUME NEW s \in Sessions, Open(s), NEW r \in joined[s]
                PROVE  \E x \in rooms'[r] : bound[x] = s
    BY Zenon, <1>1 DEF SessionInRooms, Open
  <2>1. r \in Rooms
    BY Zenon DEF HubTypeOK
  <2>2. PICK x \in rooms[r] : bound[x] = s
    BY Zenon DEF SessionInRooms
  <2>3. rooms'[r] = IF prev[c] \in rooms[r] THEN (rooms[r] \ {prev[c]}) \cup {c} ELSE rooms[r]
    BY Zenon, <1>4, <2>1 DEF moved
  <2>4. CASE x = prev[c]
    <3>1. bound[prev[c]] = bound[c]
      BY Zenon, <2>1, <2>4 DEF PrevWasMember, HubTypeOK
    <3>. QED BY Zenon, <2>2, <2>3, <2>4, <3>1
  <2>5. CASE x # prev[c]
    BY Zenon, <2>2, <2>3, <2>5
  <2>. QED BY Zenon, <2>4, <2>5
<1>12. OverInHub'
  BY <1>1, <1>4 DEF TypeOK, HubTypeOK, OverInHub
<1>13. InRooms'
  <2>. SUFFICES ASSUME NEW r \in Rooms, NEW x \in rooms'[r] PROVE x \in clients' \/ x \in stray'
    BY Zenon DEF InRooms
  <2>1. rooms'[r] = IF prev[c] \in rooms[r] THEN (rooms[r] \ {prev[c]}) \cup {c} ELSE rooms[r]
    BY Zenon, <1>4 DEF moved
  <2>2. stray' = stray \/ stray' = stray \cup ({c} \ clients)
    BY Zenon DEF Transfer
  <2>3. CASE x = c /\ prev[c] \in rooms[r]
    <3>1. prev[c] # Nil /\ r \in roomsOf(prev[c])
      BY Zenon, <2>3 DEF HubTypeOK, roomsOf
    <3>2. stray' = stray \cup ({c} \ clients)
      BY Zenon, <1>2, <3>1 DEF Transfer
    <3>. QED BY Zenon, <1>2, <1>4, <2>3, <3>2
  <2>4. CASE ~(x = c /\ prev[c] \in rooms[r])
    <3>1. x \in rooms[r] /\ x # prev[c]
      BY Zenon, <2>1, <2>4
    <3>. QED BY Zenon, <1>4, <2>2, <3>1 DEF InRooms
  <2>. QED BY Zenon, <2>3, <2>4
<1>. QED BY Zenon, <1>5, <1>6, <1>7, <1>8, <1>9, <1>10, <1>11, <1>12, <1>13

(* JoinRoom and LeaveRoom, from a handler or a callback of the connection.  *)
LEMMA RoomsHub ==
  ASSUME StoreInv, HubInv, NEW c \in Clients, NEW r \in Rooms, JoinRoom(c, r) \/ LeaveRoom(c, r)
  PROVE  HubInv'
<1>. USE RecoveryConstants DEF StoreInv, HubInv, Threads, Over
<1>1. /\ UNCHANGED <<state, live, member, clients, pc, bound, prev, hidden, release>>
      /\ \/ /\ rooms' = [rooms EXCEPT ![r] = @ \cup {c}] /\ stray' = stray \cup ({c} \ clients)
            /\ joined' = [s \in Sessions |-> IF s = bound[c] THEN joined[s] \cup {r} ELSE joined[s]]
         \/ /\ rooms' = [rooms EXCEPT ![r] = @ \ {c}] /\ stray' = stray
            /\ joined' = [s \in Sessions |-> IF s = bound[c] THEN joined[s] \ {r} ELSE joined[s]]
  BY Zenon DEF JoinRoom, LeaveRoom, store, conn
<1>2. HubTypeOK'
  BY SMTT(30), <1>1 DEF HubTypeOK
<1>3. MemberIsLast' /\ PrevWasMember' /\ Registered' /\ TransferPending' /\ ReleasePending'
  BY <1>1 DEF MemberIsLast, PrevWasMember, Registered, Open, TransferPending, ReleasePending
<1>4. SessionInRooms'
  <2>. SUFFICES ASSUME NEW s \in Sessions, Open(s), NEW q \in joined'[s]
                PROVE  \E x \in rooms'[q] : bound[x] = s
    BY Zenon, <1>1 DEF SessionInRooms, Open
  <2>1. CASE s = bound[c] /\ q = r
    <3>1. r \in joined'[bound[c]] /\ bound[c] \in Sessions
      BY Zenon, <2>1
    <3>2. rooms' = [rooms EXCEPT ![r] = @ \cup {c}]
      BY Zenon, <1>1, <3>1
    <3>3. c \in rooms'[r]
      BY Zenon, <3>2 DEF HubTypeOK
    <3>. QED BY Zenon, <2>1, <3>3
  <2>2. CASE ~(s = bound[c] /\ q = r)
    <3>1. q \in joined[s] /\ q \in Rooms
      BY <1>1, <2>2 DEF HubTypeOK
    <3>2. PICK x \in rooms[q] : bound[x] = s
      BY Zenon, <3>1 DEF SessionInRooms
    <3>3. q = r => x # c
      BY Zenon, <2>2, <3>2
    <3>4. x \in rooms'[q]
      <4>1. CASE rooms' = [rooms EXCEPT ![r] = @ \cup {c}]
        BY Zenon, <3>1, <4>1 DEF HubTypeOK
      <4>2. CASE rooms' = [rooms EXCEPT ![r] = @ \ {c}]
        BY Zenon, <3>1, <3>3, <4>2 DEF HubTypeOK
      <4>. QED BY Zenon, <1>1, <4>1, <4>2
    <3>. QED BY Zenon, <3>2, <3>4
  <2>. QED BY Zenon, <2>1, <2>2
<1>5. OverInHub'
  BY Zenon, <1>1 DEF OverInHub
<1>6. InRooms'
  <2>1. CASE rooms' = [rooms EXCEPT ![r] = @ \cup {c}] /\ stray' = stray \cup ({c} \ clients)
    BY Zenon, <1>1, <2>1 DEF HubTypeOK, InRooms
  <2>2. CASE rooms' = [rooms EXCEPT ![r] = @ \ {c}] /\ stray' = stray
    BY Zenon, <1>1, <2>2 DEF HubTypeOK, InRooms
  <2>. QED BY Zenon, <1>1, <2>1, <2>2
<1>. QED BY Zenon, <1>2, <1>3, <1>4, <1>5, <1>6

(* Open of a fresh session, which may kill the one whose resume it refuses. *)
LEMMA OpenFreshHub ==
  ASSUME StoreInv, HubInv, NEW c \in Clients, NEW s \in Sessions \cup {Nil}, NEW v \in Victims,
         OpenFresh(c, s, v)
  PROVE  HubInv'
<1>. USE RecoveryConstants DEF StoreInv, HubInv, Threads, Over, goto, gotoLate
<1>1. /\ pc[c] = "opening" /\ gotoLate(c, "opened") /\ (s # Nil => state[s] = "unused")
      /\ state' = [x \in Sessions |-> IF x = v THEN "closed" ELSE IF x = s THEN "attached" ELSE state[x]]
      /\ live' = [x \in Sessions |-> IF x = s THEN c ELSE live[x]]
      /\ member' = [x \in Sessions |-> IF x = s THEN c ELSE member[x]]
      /\ bound' = [bound EXCEPT ![c] = s]
      /\ release' = [release EXCEPT ![c] = IF v = Nil THEN << >> ELSE <<v>>]
      /\ joined' = [x \in Sessions |-> IF x = s THEN roomsOf(c) ELSE joined[x]]
      /\ UNCHANGED <<clients, rooms, prev, hidden, stray>>
  BY Zenon DEF OpenFresh, hub
<1>2. bound[c] = Nil /\ prev[c] = Nil /\ release[c] = << >>
  BY Zenon, <1>1 DEF BoundOnce, ReleasedAreClosed
<1>3. v # Nil => v \in Sessions /\ Open(v) /\ v # s
  BY Zenon, <1>1 DEF Victims, Open
<1>4. HubTypeOK'
  BY Zenon, <1>1 DEF HubTypeOK, roomsOf
<1>5. MemberIsLast'
  <2>1. ~hidden[c]
    BY Zenon, <1>1 DEF MemberIsLast
  <2>. QED BY <1>1, <1>2, <1>3, <2>1 DEF TypeOK, MemberIsLast
<1>6. PrevWasMember'
  BY <1>1, <1>2 DEF TypeOK, PrevWasMember
<1>7. Registered'
  BY Zenon, <1>1, <1>3 DEF TypeOK, Registered, Open
<1>8. TransferPending'
  BY Zenon, <1>1, <1>2 DEF TypeOK, HubTypeOK, TransferPending, BoundOnce
<1>9. ReleasePending'
  <2>. SUFFICES ASSUME NEW x \in Sessions, state'[x] = "closed", member'[x] \in clients, pc'[member'[x]] \in Over
                PROVE  \E t \in Threads : \E i \in DOMAIN release'[t] : release'[t][i] = x
    BY Zenon, <1>1 DEF ReleasePending
  <2>1. CASE x = v
    <3>1. release'[c] = <<x>>
      BY Zenon, <1>1, <2>1 DEF TypeOK
    <3>2. 1 \in DOMAIN release'[c] /\ release'[c][1] = x
      BY <3>1
    <3>. QED BY Zenon, <3>2
  <2>2. CASE x # v
    <3>1. state[x] = "closed" /\ member[x] \in clients /\ pc[member[x]] \in Over
      BY Zenon, <1>1, <2>2 DEF TypeOK, HubTypeOK
    <3>2. PICK t \in Threads : \E i \in DOMAIN release[t] : release[t][i] = x
      BY Zenon, <3>1 DEF ReleasePending
    <3>3. t # c
      BY <1>2, <3>2
    <3>. QED BY Zenon, <1>1, <3>2, <3>3 DEF TypeOK
  <2>. QED BY Zenon, <2>1, <2>2
<1>10. SessionInRooms'
  <2>. SUFFICES ASSUME NEW x \in Sessions, Open(x)', NEW r \in joined'[x]
                PROVE  \E d \in rooms[r] : bound'[d] = x
    BY Zenon, <1>1 DEF SessionInRooms
  <2>1. CASE x = s
    BY Zenon, <1>1, <2>1 DEF TypeOK, roomsOf
  <2>2. CASE x # s
    <3>1. Open(x) /\ r \in joined[x]
      BY Zenon, <1>1, <2>2 DEF Open
    <3>2. PICK d \in rooms[r] : bound[d] = x
      BY Zenon, <3>1 DEF SessionInRooms
    <3>3. bound'[d] = bound[d]
      BY <1>1, <1>2, <3>2 DEF TypeOK
    <3>. QED BY Zenon, <3>2, <3>3
  <2>. QED BY Zenon, <2>1, <2>2
<1>11. OverInHub'
  BY <1>1 DEF TypeOK, HubTypeOK, OverInHub
<1>12. InRooms'
  BY Zenon, <1>1 DEF InRooms
<1>. QED BY Zenon, <1>4, <1>5, <1>6, <1>7, <1>8, <1>9, <1>10, <1>11, <1>12

(* Open of a resumed session: the client becomes its member, and the old   *)
(* member is left to the transfer.                                         *)
LEMMA OpenResumeHub ==
  ASSUME StoreInv, HubInv, NEW c \in Clients, NEW s \in Sessions, OpenResume(c, s)
  PROVE  HubInv'
<1>. USE RecoveryConstants DEF StoreInv, HubInv, Threads, Over, goto, gotoLate
<1>1. /\ pc[c] = "opening" /\ gotoLate(c, "opened") /\ Open(s)
      /\ state' = [state EXCEPT ![s] = "attached"] /\ live' = [live EXCEPT ![s] = c]
      /\ member' = [member EXCEPT ![s] = c] /\ prev' = [prev EXCEPT ![c] = member[s]]
      /\ bound' = [bound EXCEPT ![c] = s] /\ joined' = [joined EXCEPT ![s] = @ \cup roomsOf(c)]
      /\ UNCHANGED <<clients, rooms, hidden, release, stray>>
  BY Zenon DEF OpenResume, attachLocked, hub, Open
<1>2. bound[c] = Nil /\ prev[c] = Nil
  BY Zenon, <1>1 DEF BoundOnce
<1>3. member[s] \in Clients /\ bound[member[s]] = s
  <2>1. \A x \in Sessions : member[x] # Nil => bound[member[x]] = x
    BY Zenon DEF MemberIsLast
  <2>2. member[s] \in clients /\ member[s] \in Clients
    BY Zenon, <1>1 DEF Registered, HubTypeOK
  <2>. QED BY Zenon, <2>1, <2>2
<1>4. HubTypeOK'
  BY Zenon, <1>1 DEF HubTypeOK, roomsOf
<1>5. MemberIsLast'
  <2>1. ~hidden[c]
    BY Zenon, <1>1 DEF MemberIsLast
  <2>. QED BY <1>1, <1>2, <2>1 DEF TypeOK, MemberIsLast
<1>6. PrevWasMember'
  BY <1>1, <1>2, <1>3 DEF TypeOK, PrevWasMember
<1>7. Registered'
  BY Zenon, <1>1 DEF TypeOK, Registered, Open
<1>8. TransferPending'
  <2>. SUFFICES ASSUME NEW x \in clients, bound'[x] # Nil
                PROVE  member'[bound'[x]] = x \/ \E d \in Clients : prev'[d] = x
    BY Zenon, <1>1 DEF TransferPending
  <2>1. x \in Clients
    BY Zenon DEF HubTypeOK
  <2>2. CASE x = c
    BY Zenon, <1>1, <2>2 DEF TypeOK
  <2>3. CASE x # c /\ member[bound[x]] = x
    BY Zenon, <1>1, <2>1, <2>3 DEF TypeOK
  <2>4. ASSUME NEW d \in Clients, prev[d] = x PROVE prev'[d] = x
    BY Zenon, <1>1, <1>2, <2>1, <2>4 DEF TypeOK
  <2>5. CASE x # c /\ member[bound[x]] # x
    <3>1. \E d \in Clients : prev[d] = x
      BY Zenon, <1>1, <2>1, <2>5 DEF TypeOK, TransferPending
    <3>. QED BY Zenon, <2>4, <3>1
  <2>. QED BY Zenon, <2>2, <2>3, <2>5
<1>9. ReleasePending'
  BY <1>1 DEF TypeOK, HubTypeOK, ReleasePending, Open
<1>10. SessionInRooms'
  <2>. SUFFICES ASSUME NEW x \in Sessions, Open(x)', NEW r \in joined'[x]
                PROVE  \E d \in rooms[r] : bound'[d] = x
    BY Zenon, <1>1 DEF SessionInRooms
  <2>1. CASE x = s /\ r \in roomsOf(c)
    BY Zenon, <1>1, <2>1 DEF TypeOK, roomsOf
  <2>2. CASE ~(x = s /\ r \in roomsOf(c))
    <3>1. Open(x) /\ r \in joined[x]
      BY Zenon, <1>1, <2>2 DEF Open, TypeOK, HubTypeOK
    <3>2. PICK d \in rooms[r] : bound[d] = x
      BY Zenon, <3>1 DEF SessionInRooms
    <3>3. bound'[d] = bound[d]
      BY <1>1, <1>2, <3>2 DEF TypeOK
    <3>. QED BY Zenon, <3>2, <3>3
  <2>. QED BY Zenon, <2>1, <2>2
<1>11. OverInHub'
  BY <1>1 DEF TypeOK, HubTypeOK, OverInHub
<1>12. InRooms'
  BY Zenon, <1>1 DEF InRooms
<1>. QED BY Zenon, <1>4, <1>5, <1>6, <1>7, <1>8, <1>9, <1>10, <1>11, <1>12

(* releaseOne takes out the member of a closed session.                    *)
LEMMA ReleaseHub ==
  ASSUME StoreInv, HubInv, NEW t \in Threads, Release(t)
  PROVE  HubInv'
<1>. USE RecoveryConstants DEF StoreInv, HubInv, Over
<1>. DEFINE v == Head(release[t])
<1>1. /\ release[t] # << >> /\ removeClientMaps(member[v])
      /\ release' = [release EXCEPT ![t] = Tail(@)]
      /\ UNCHANGED <<state, live, member, pc, bound, prev, hidden, joined, stray>>
  BY Zenon DEF Release, store, conn
<1>2. v \in Sessions /\ state[v] = "closed"
  BY Zenon, <1>1, ReleaseHead
<1>11. \A i \in DOMAIN release[t] :
          release[t][i] = v \/ \E j \in DOMAIN Tail(release[t]) : Tail(release[t])[j] = release[t][i]
  BY Zenon, <1>1, ReleaseHead
<1>. HIDE DEF v
<1>3. \A s \in Sessions : member[s] # Nil => member[s] \in Clients /\ bound[member[s]] = s
  <2>1. \A s \in Sessions : member[s] # Nil => bound[member[s]] = s
    BY Zenon DEF MemberIsLast
  <2>. QED BY <2>1 DEF TypeOK
<1>4. HubTypeOK' /\ PrevWasMember'
  BY Zenon, <1>1 DEF HubTypeOK, PrevWasMember, removeClientMaps
<1>5. MemberIsLast'
  BY Zenon, <1>1 DEF MemberIsLast
<1>6. Registered'
  <2>1. ASSUME NEW s \in Sessions, Open(s) PROVE member[s] # member[v]
    <3>1. member[s] # Nil
      BY <2>1 DEF Registered, HubTypeOK
    <3>. QED BY Zenon, <1>2, <1>3, <2>1, <3>1 DEF Open
  <2>2. ASSUME NEW c \in Clients, pc[c] \in {"registered", "opening"} PROVE c # member[v]
    BY <1>2, <1>3, <2>2 DEF BoundOnce
  <2>. QED BY Zenon, <1>1, <2>1, <2>2 DEF Registered, Open, removeClientMaps
<1>7. TransferPending'
  BY Zenon, <1>1 DEF TransferPending, removeClientMaps
<1>8. ReleasePending'
  <2>. SUFFICES ASSUME NEW s \in Sessions, state[s] = "closed", member[s] \in clients', pc[member[s]] \in Over
                PROVE  \E u \in Threads : \E i \in DOMAIN release'[u] : release'[u][i] = s
    BY Zenon, <1>1 DEF ReleasePending
  <2>1. s # v /\ member[s] \in clients
    BY Zenon, <1>1 DEF removeClientMaps
  <2>2. PICK u \in Threads : \E i \in DOMAIN release[u] : release[u][i] = s
    BY Zenon, <2>1 DEF ReleasePending
  <2>3. CASE u = t
    <3>1. \E j \in DOMAIN Tail(release[t]) : Tail(release[t])[j] = s
      BY Zenon, <1>11, <2>1, <2>2, <2>3
    <3>. QED BY Zenon, <1>1, <3>1 DEF TypeOK
  <2>4. CASE u # t
    BY Zenon, <1>1, <2>2, <2>4 DEF TypeOK
  <2>. QED BY Zenon, <2>3, <2>4
<1>9. SessionInRooms'
  <2>1. \A s \in Sessions : Open(s) => bound[member[v]] # s \/ member[v] = Nil
    BY Zenon, <1>2, <1>3 DEF Open
  <2>2. \A r \in Rooms : Nil \notin rooms[r]
    BY Zenon DEF HubTypeOK
  <2>. QED BY <1>1, <2>1, <2>2 DEF HubTypeOK, SessionInRooms, Open, removeClientMaps
<1>10. OverInHub' /\ InRooms'
  BY Zenon, <1>1 DEF OverInHub, InRooms, removeClientMaps
<1>. QED BY Zenon, <1>4, <1>5, <1>6, <1>7, <1>8, <1>9, <1>10

(* Leave of a client that another connection displaced.                    *)
LEMMA LeaveDisplacedHub ==
  ASSUME StoreInv, HubInv, NEW c \in Clients, LeaveDisplaced(c)
  PROVE  HubInv'
<1>. USE RecoveryConstants DEF StoreInv, HubInv, Threads, Over, goto, gotoLate
<1>1. /\ pc[c] = "leaving" /\ state[bound[c]] # "closed" /\ live[bound[c]] # c /\ gotoLate(c, "retired")
      /\ UNCHANGED <<state, live, member, clients, rooms, bound, prev, hidden, release, joined, stray>>
  BY Zenon DEF LeaveDisplaced, leaveTo, store, hub, conn, history
<1>2. bound[c] \in Sessions /\ state[bound[c]] \in {"attached", "parked"}
  BY Zenon, <1>1 DEF TypeOK, BoundOnce
<1>3. member[bound[c]] # c
  <2>1. ~hidden[c]
    BY Zenon, <1>1 DEF MemberIsLast
  <2>2. \A s \in Sessions : /\ state[s] = "attached" => member[s] = live[s]
                            /\ state[s] = "parked" => member[s] # Nil /\ hidden[member[s]]
    BY Zenon DEF MemberIsLast
  <2>. QED BY Zenon, <1>1, <1>2, <2>1, <2>2
<1>4. \A s \in Sessions : member[s] # c
  <2>1. \A s \in Sessions : member[s] # Nil => bound[member[s]] = s
    BY Zenon DEF MemberIsLast
  <2>. QED BY Zenon, <1>3, <2>1
<1>5. HubTypeOK' /\ PrevWasMember' /\ TransferPending' /\ SessionInRooms'
  BY <1>1 DEF HubTypeOK, PrevWasMember, TransferPending, SessionInRooms, Open
<1>6. MemberIsLast'
  BY Zenon, <1>1 DEF TypeOK, MemberIsLast
<1>7. Registered'
  BY <1>1, <1>2 DEF TypeOK, Registered, Open
<1>8. ReleasePending'
  BY <1>1, <1>4 DEF TypeOK, HubTypeOK, ReleasePending
<1>9. OverInHub' /\ InRooms'
  BY <1>1, <1>2, <1>3 DEF TypeOK, HubTypeOK, OverInHub, InRooms
<1>. QED BY Zenon, <1>5, <1>6, <1>7, <1>8, <1>9

(* Leave of a client whose session is closed, or ends with it: the client  *)
(* takes itself out of the hub next.                                       *)
LEMMA LeaveGoneHub ==
  ASSUME StoreInv, HubInv, NEW c \in Clients, LeaveGone(c)
  PROVE  HubInv'
<1>. USE RecoveryConstants DEF StoreInv, HubInv, Threads, Over, goto, gotoLate
<1>1. /\ pc[c] = "leaving" /\ gotoLate(c, "gone")
      /\ UNCHANGED <<member, clients, rooms, bound, prev, hidden, release, joined, stray>>
      /\ \/ UNCHANGED <<state, live>>
         \/ /\ state[bound[c]] # "closed" /\ live[bound[c]] = c
            /\ state' = [state EXCEPT ![bound[c]] = "closed"] /\ live' = [live EXCEPT ![bound[c]] = Nil]
  BY Zenon DEF LeaveGone, leaveTo, store, hub, conn, history
<1>2. bound[c] \in Sessions
  BY Zenon, <1>1 DEF TypeOK, BoundOnce
<1>3. state[bound[c]] # "closed" /\ live[bound[c]] = c => member[bound[c]] = c
  <2>1. state[bound[c]] # "closed" /\ live[bound[c]] = c => state[bound[c]] = "attached"
    BY Zenon, <1>2 DEF TypeOK, NotLive
  <2>2. state[bound[c]] = "attached" => member[bound[c]] = live[bound[c]]
    BY Zenon, <1>2 DEF MemberIsLast
  <2>. QED BY Zenon, <2>1, <2>2
<1>4. HubTypeOK' /\ PrevWasMember' /\ TransferPending'
  BY Zenon, <1>1 DEF HubTypeOK, PrevWasMember, TransferPending
<1>5. MemberIsLast'
  BY <1>1, <1>2 DEF TypeOK, MemberIsLast
<1>6. Registered'
  BY <1>1, <1>2 DEF TypeOK, Registered, Open
<1>7. ReleasePending'
  <2>1. \A x \in Clients : pc'[x] \in Over => pc[x] \in Over /\ x # c
    BY Zenon, <1>1 DEF TypeOK
  <2>2. \A s \in Sessions : state'[s] = "closed" => state[s] = "closed" \/ member[s] = c
    BY Zenon, <1>1, <1>2, <1>3 DEF TypeOK
  <2>. QED BY <1>1, <2>1, <2>2 DEF HubTypeOK, ReleasePending
<1>8. SessionInRooms'
  <2>1. \A s \in Sessions : Open(s)' => Open(s)
    BY Zenon, <1>1, <1>2 DEF TypeOK, Open
  <2>. QED BY Zenon, <1>1, <2>1 DEF SessionInRooms
<1>9. OverInHub' /\ InRooms'
  BY Zenon, <1>1 DEF TypeOK, HubTypeOK, OverInHub, InRooms
<1>. QED BY Zenon, <1>4, <1>5, <1>6, <1>7, <1>8, <1>9

(* Discarding parked sessions E: goroutine t has still to release them.    *)
LEMMA DiscardRelease ==
  ASSUME TypeOK, HubTypeOK, ReleasePending, NEW t \in Threads, release[t] = << >>,
         release' = [release EXCEPT ![t] = release'[t]], UNCHANGED <<clients, member>>,
         \A s \in Sessions : state'[s] = "closed" => state[s] = "closed" \/ s \in Range(release'[t]),
         \A s \in Sessions : \/ state[s] # "closed" \/ member[s] \notin clients
                             \/ pc'[member[s]] \in Over => pc[member[s]] \in Over
  PROVE  ReleasePending'
<1>. SUFFICES ASSUME NEW s \in Sessions, state'[s] = "closed", member[s] \in clients, pc'[member[s]] \in Over
              PROVE  \E u \in Threads : \E i \in DOMAIN release'[u] : release'[u][i] = s
  BY Zenon DEF ReleasePending
<1>1. CASE s \in Range(release'[t])
  BY Zenon, <1>1 DEF Range
<1>2. CASE s \notin Range(release'[t])
  <2>1. PICK u \in Threads : \E i \in DOMAIN release[u] : release[u][i] = s
    BY Zenon, <1>2 DEF ReleasePending
  <2>2. u # t
    BY <2>1
  <2>. QED BY Zenon, <2>1, <2>2 DEF TypeOK
<1>. QED BY Zenon, <1>1, <1>2

(* Leave parks the session under its hidden client; what it evicts is      *)
(* still to be released.                                                   *)
LEMMA LeaveParkedHub ==
  ASSUME StoreInv, HubInv, NEW c \in Clients, LeaveParked(c)
  PROVE  HubInv'
<1>. USE RecoveryConstants DEF StoreInv, HubInv, Threads, Over, goto, gotoLate
<1>. DEFINE E == Range(release'[c])
<1>1. /\ bound[c] \in Sessions /\ state[bound[c]] = "attached" /\ live[bound[c]] = c
      /\ \A x \in Sessions : x \in E => state[x] = "parked"
  BY ParkEffect DEF ParkedExact
<1>2. /\ pc[c] = "leaving" /\ gotoLate(c, "retired")
      /\ state' = [x \in Sessions |-> IF x \in E THEN "closed" ELSE IF x = bound[c] THEN "parked" ELSE state[x]]
      /\ live' = [live EXCEPT ![bound[c]] = Nil] /\ hidden' = [hidden EXCEPT ![c] = TRUE]
      /\ release' = [release EXCEPT ![c] = release'[c]]
      /\ UNCHANGED <<member, clients, rooms, bound, prev, joined, stray>>
  BY Zenon DEF LeaveParked, leaveTo, TypeOK, hub, history
<1>. HIDE DEF E
<1>3. \A s \in Sessions : member[s] = c => s = bound[c]
  <2>1. \A s \in Sessions : member[s] # Nil => bound[member[s]] = s
    BY Zenon DEF MemberIsLast
  <2>. QED BY Zenon, <2>1
<1>4. HubTypeOK' /\ PrevWasMember' /\ TransferPending'
  BY Zenon, <1>2 DEF HubTypeOK, PrevWasMember, TransferPending
<1>5. MemberIsLast'
  BY <1>1, <1>2 DEF TypeOK, MemberIsLast
<1>6. Registered'
  BY <1>1, <1>2 DEF TypeOK, Registered, Open
<1>7. ReleasePending'
  <2>1. release[c] = << >>
    BY Zenon, <1>2 DEF ReleasedAreClosed
  <2>2. \A s \in Sessions : state'[s] = "closed" => state[s] = "closed" \/ s \in Range(release'[c])
    BY Zenon, <1>2 DEF E
  <2>3. \A s \in Sessions : \/ state[s] # "closed" \/ member[s] \notin clients
                            \/ pc'[member[s]] \in Over => pc[member[s]] \in Over
    BY Zenon, <1>1, <1>2, <1>3 DEF TypeOK, HubTypeOK
  <2>. QED BY Zenon, <1>2, <2>1, <2>2, <2>3, DiscardRelease
<1>8. SessionInRooms'
  <2>1. \A s \in Sessions : Open(s)' => Open(s)
    BY Zenon, <1>1, <1>2 DEF Open
  <2>. QED BY Zenon, <1>2, <2>1 DEF SessionInRooms
<1>9. OverInHub' /\ InRooms'
  BY <1>1, <1>2 DEF TypeOK, HubTypeOK, OverInHub, InRooms
<1>. QED BY Zenon, <1>4, <1>5, <1>6, <1>7, <1>8, <1>9

(* Sweep discards parked sessions and leaves them to be released.          *)
LEMMA SweepHub ==
  ASSUME StoreInv, HubInv, Sweep
  PROVE  HubInv'
<1>. USE RecoveryConstants DEF StoreInv, HubInv, Threads, Over, goto, gotoLate
<1>1. /\ \A x \in Sessions : x \in Range(release'[Sweeper]) => state[x] = "parked"
      /\ release' = [release EXCEPT ![Sweeper] = release'[Sweeper]]
      /\ state' = [s \in Sessions |-> IF s \in Range(release'[Sweeper]) THEN "closed" ELSE state[s]]
  BY Zenon, SweepEffect DEF ParkedExact
<1>2. /\ pc[Sweeper] = "sweep" /\ gotoLate(Sweeper, "idle")
      /\ UNCHANGED <<live, member, clients, rooms, bound, prev, hidden, joined, stray>>
  BY Zenon DEF Sweep, hub, conn, history
<1>3. \A c \in Clients : pc'[c] = pc[c]
  BY Zenon, <1>2 DEF TypeOK
<1>4. \A s \in Sessions : state'[s] \in {state[s], "closed"}
  BY Zenon, <1>1
<1>5. HubTypeOK' /\ PrevWasMember' /\ TransferPending'
  BY Zenon, <1>2 DEF HubTypeOK, PrevWasMember, TransferPending
<1>6. MemberIsLast'
  BY Zenon, <1>2, <1>3, <1>4 DEF MemberIsLast
<1>7. Registered'
  BY Zenon, <1>2, <1>3, <1>4 DEF Registered, Open
<1>8. ReleasePending'
  <2>1. release[Sweeper] = << >>
    BY Zenon, <1>2 DEF ReleasedAreClosed
  <2>2. \A s \in Sessions : state'[s] = "closed" => state[s] = "closed" \/ s \in Range(release'[Sweeper])
    BY Zenon, <1>1
  <2>3. \A s \in Sessions : \/ state[s] # "closed" \/ member[s] \notin clients
                            \/ pc'[member[s]] \in Over => pc[member[s]] \in Over
    BY Zenon, <1>3 DEF HubTypeOK
  <2>. QED BY Zenon, <1>1, <1>2, <2>1, <2>2, <2>3, DiscardRelease
<1>9. SessionInRooms'
  BY Zenon, <1>2, <1>4 DEF SessionInRooms, Open
<1>10. OverInHub' /\ InRooms'
  BY Zenon, <1>2, <1>3 DEF HubTypeOK, OverInHub, InRooms
<1>. QED BY Zenon, <1>5, <1>6, <1>7, <1>8, <1>9, <1>10

(* Every step keeps the hub's half of the invariant.                       *)
LEMMA HubStep == ASSUME StoreInv, HubInv, [Next]_vars PROVE HubInv'
<1>1. TypeOK
  BY Zenon DEF StoreInv
<1>2. CASE Quiet
  BY Zenon, <1>1, <1>2, QuietHub
<1>3. CASE ~Quiet
  <2>1. ~UNCHANGED vars /\ ~SweepNow /\ ~Tick
    BY Zenon, <1>1, <1>3, QuietSteps
  <2>2. \A c \in Clients : ~(OpenNow(c) \/ Displace(c) \/ StartReadPump(c) \/ Disconnect(c)
                             \/ ReadEnds(c) \/ Finish(c) \/ ConnectPanics(c))
    BY Zenon, <1>1, <1>3, QuietSteps
  <2>3. CASE Sweep \/ \E t \in Threads : Release(t)
    BY Zenon, <2>3, SweepHub, ReleaseHub
  <2>4. ASSUME NEW c \in Clients,
               \/ Register(c) \/ Reject(c) \/ Unregister(c) \/ Transfer(c)
               \/ \E r \in Rooms : JoinRoom(c, r) \/ LeaveRoom(c, r)
        PROVE  HubInv'
    BY Zenon, <2>4, RegisterHub, RemovedHub, TransferHub, RoomsHub
  <2>5. ASSUME NEW c \in Clients,
               \/ \E s \in Sessions \cup {Nil}, v \in Victims : OpenFresh(c, s, v)
               \/ \E s \in Sessions : OpenResume(c, s)
        PROVE  HubInv'
    BY Zenon, <2>5, OpenFreshHub, OpenResumeHub
  <2>6. ASSUME NEW c \in Clients, LeaveGone(c) \/ LeaveDisplaced(c) \/ LeaveParked(c)
        PROVE  HubInv'
    BY Zenon, <2>6, LeaveGoneHub, LeaveDisplacedHub, LeaveParkedHub
  <2>. QED BY Zenon, <2>1, <2>2, <2>3, <2>4, <2>5, <2>6 DEF Next, Serve, Threads
<1>. QED BY Zenon, <1>2, <1>3
-----------------------------------------------------------------------------
(* The invariants hold.                                                    *)

(* At first there are no sessions and no clients.                          *)
LEMMA InitInv == Init => IInv
<1>. SUFFICES ASSUME Init PROVE IInv
  BY Zenon
<1>. USE RecoveryConstants DEF Init
<1>1. << >> \in Seq(Sessions) /\ DOMAIN << >> = {} /\ Len(<< >>) = 0
  OBVIOUS
<1>2. TypeOK
  <2>1. age \in [Sessions -> 0..MaxAge] /\ lag \in [Threads -> 0..MaxLag]
    BY DEF MaxAge
  <2>2. DOMAIN release = Threads /\ \A t \in Threads : release[t] \in Seq(Sessions)
    BY Zenon, <1>1
  <2>. QED BY Zenon, <1>1, <2>1, <2>2 DEF TypeOK, Steps
<1>3. ParkedExact
  <2>1. Range(parked) = {} /\ IsInjective(parked)
    BY Zenon, <1>1 DEF Range, IsInjective
  <2>. QED BY <1>1, <2>1 DEF ParkedExact
<1>4. AttachedIsServed /\ NotLive /\ BoundOnce
  BY Zenon DEF AttachedIsServed, NotLive, BoundOnce, Threads
<1>5. ReleasedAreClosed /\ ExpiredAreClosed
  BY <1>1 DEF ReleasedAreClosed, ExpiredAreClosed
<1>6. OldestFirst
  BY Zenon, <1>1 DEF OldestFirst
<1>7. HubTypeOK /\ MemberIsLast /\ PrevWasMember
  BY Zenon DEF HubTypeOK, MemberIsLast, PrevWasMember, Over
<1>8. Registered /\ TransferPending /\ ReleasePending
  BY Zenon DEF Registered, TransferPending, ReleasePending, Open, Over, Threads
<1>9. SessionInRooms /\ OverInHub /\ InRooms
  BY Zenon DEF SessionInRooms, OverInHub, InRooms, Open
<1>. QED BY Zenon, <1>2, <1>3, <1>4, <1>5, <1>6, <1>7, <1>8, <1>9 DEF IInv, StoreInv, HubInv

(* Both halves together are inductive.                                     *)
LEMMA StepInv == IInv /\ [Next]_vars => IInv'
<1>. SUFFICES ASSUME IInv, [Next]_vars PROVE IInv'
  BY Zenon
<1>1. StoreInv /\ HubInv
  BY Zenon DEF IInv
<1>2. StoreInv'
  BY Zenon, <1>1, StoreStep
<1>3. HubInv'
  BY Zenon, <1>1, HubStep
<1>. QED BY Zenon, <1>2, <1>3 DEF IInv

(* They hold in every reachable state.                                     *)
LEMMA AlwaysInv == Spec => []IInv
  BY InitInv, StepInv, PTL DEF Spec

(* The parked list of the store is exact, whatever resumes, kills,         *)
(* evictions and sweeps interleave: every parked session has one element,  *)
(* no other session has any, and the limit MaxParked holds.                *)
THEOREM ParkedListIsExact == Spec => []ParkedExact
<1>1. IInv => ParkedExact
  BY Zenon DEF IInv, StoreInv
<1>. QED BY <1>1, AlwaysInv, PTL

(* The park times are in the order of the list up to the lag of the clock, *)
(* so Sweep may stop at the first young session and Leave may evict from   *)
(* the front.                                                              *)
THEOREM ParkOrder == Spec => []OldestFirst
<1>1. IInv => OldestFirst
  BY Zenon DEF IInv, StoreInv
<1>. QED BY <1>1, AlwaysInv, PTL

(* An attached session is served by its live client, whose ReadPump has    *)
(* still to call Leave, or whose OnConnect callback panicked.              *)
THEOREM AttachedAreServed == Spec => []AttachedIsServed
<1>1. IInv => AttachedIsServed
  BY Zenon DEF IInv, StoreInv
<1>. QED BY <1>1, AlwaysInv, PTL

(* A session that was discarded, or whose expiry OnSessionExpire reported, *)
(* is never attached or parked again.                                      *)
THEOREM ClosedStaysClosed == Spec => ClosedForGood
<1>1. IInv /\ [Next]_vars =>
        [\A s \in Sessions : state[s] = "closed" \/ expires[s] > 0 => state'[s] = "closed"]_vars
  BY Zenon, StoreStep DEF IInv, StoreInv, ExpiredAreClosed, KeptClosed
<1>. QED BY <1>1, AlwaysInv, PTL DEF Spec, ClosedForGood

(* The hub follows the sessions: the member of an open session is          *)
(* registered, the rooms its peer joined have a client of it, and a        *)
(* connection that is over is in a room only hidden, or until its rooms    *)
(* are handed on, or because the room was given to it when the hub no      *)
(* longer had it.                                                          *)
THEOREM HubFollows == Spec => []HubFollowsSessions
<1>1. IInv => HubFollowsSessions
  <2>. SUFFICES ASSUME IInv PROVE HubFollowsSessions
    BY Zenon
  <2>1. Registered /\ SessionInRooms /\ OverInHub /\ InRooms /\ TransferPending
    BY Zenon DEF IInv, HubInv
  <2>2. ASSUME NEW r \in Rooms, NEW c \in rooms[r], over(c)
        PROVE  hidden[c] \/ c \in stray \/ \E d \in Clients : prev[d] = c
    BY Zenon, <2>1, <2>2 DEF OverInHub, InRooms, TransferPending, over, Over
  <2>. QED BY Zenon, <2>1, <2>2 DEF Registered, SessionInRooms, HubFollowsSessions
<1>. QED BY <1>1, AlwaysInv, PTL

(* Hub.clients does not leak: a connection that is over is in it only as   *)
(* the member of an open session or while its removal is under way.        *)
THEOREM HubDoesNotLeak == Spec => []NoClientLeak
<1>1. IInv => NoClientLeak
  <2>. SUFFICES ASSUME IInv, NEW c \in clients, over(c)
                PROVE  \/ \E s \in Sessions : Open(s) /\ member[s] = c
                       \/ \E d \in Clients : prev[d] = c
                       \/ \E t \in Threads : \E i \in DOMAIN release[t] : member[release[t][i]] = c
    BY Zenon DEF NoClientLeak
  <2>1. TypeOK /\ BoundOnce /\ HubTypeOK /\ Registered /\ TransferPending /\ ReleasePending
    BY Zenon DEF IInv, StoreInv, HubInv
  <2>2. c \in Clients /\ bound[c] \in Sessions
    BY Zenon, <2>1 DEF TypeOK, HubTypeOK, Registered, Over, over
  <2>3. CASE \E d \in Clients : prev[d] = c
    BY Zenon, <2>3
  <2>4. CASE member[bound[c]] = c /\ Open(bound[c])
    BY Zenon, <2>2, <2>4
  <2>5. CASE member[bound[c]] = c /\ ~Open(bound[c])
    <3>1. state[bound[c]] = "closed"
      BY Zenon, <2>1, <2>2, <2>5, RecoveryConstants DEF TypeOK, BoundOnce, Open
    <3>2. \E t \in Threads : \E i \in DOMAIN release[t] : release[t][i] = bound[c]
      BY Zenon, <2>1, <2>2, <2>5, <3>1 DEF ReleasePending, Over, over
    <3>. QED BY Zenon, <2>5, <3>2
  <2>. QED BY Zenon, <2>1, <2>2, <2>3, <2>4, <2>5, RecoveryConstants DEF TransferPending
<1>. QED BY <1>1, AlwaysInv, PTL
=============================================================================
