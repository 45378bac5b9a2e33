------------------------- MODULE ReplayRing_proofs -------------------------
(***************************************************************************)
(* The replay buffer, for every limit, payload size and compaction         *)
(* threshold.  The first section has the facts about the operators of      *)
(* ReplayBuffer that all proofs about the buffer rest on; those about the  *)
(* byte count go by induction on the number of entries.  The second shows  *)
(* that the slice with head, cleared elements and running byte count       *)
(* implements the sequence: one drop does, so any number of drops does,    *)
(* and the loops of push and ackUpTo stop after equally many.              *)
(***************************************************************************)
EXTENDS ReplayRing, SequenceTheorems, WellFoundedInduction, TLAPS

(* A non-empty set of naturals has a least element, which Min returns.     *)
LEMMA MinOfNats ==
  ASSUME NEW S \in SUBSET Nat, S # {}
  PROVE  Min(S) \in S /\ \A y \in S : Min(S) <= y
<1>1. PICK x \in S : \A y \in S : ~(<<y, x>> \in OpToRel(<, Nat))
  BY Zenon, NatLessThanWellFounded, WFMin
<1>2. ASSUME NEW y \in S PROVE x <= y
  <2>1. <<y, x>> \in Nat \X Nat
    BY Zenon
  <2>2. ~(y < x)
    <3>. SUFFICES ASSUME y < x PROVE <<y, x>> \in OpToRel(<, Nat)
      BY Zenon, <1>1
    <3>. QED BY Zenon, <2>1 DEF OpToRel
  <2>. QED BY <2>2
<1>. QED
  BY Zenon, <1>2 DEF Min

(* Induction over the natural numbers, for a set.                          *)
LEMMA SetInduction ==
  ASSUME NEW S \in SUBSET Nat, 0 \in S, \A n \in S : n + 1 \in S
  PROVE  S = Nat
<1>. SUFFICES ASSUME Nat \ S # {} PROVE FALSE
  BY Zenon
<1>1. PICK x \in Nat \ S : \A y \in Nat \ S : ~(<<y, x>> \in OpToRel(<, Nat))
  BY Zenon, NatLessThanWellFounded, WFMin
<1>2. x # 0 /\ x - 1 \in Nat /\ x - 1 < x /\ (x - 1) + 1 = x
  <2>1. x \in Nat /\ x # 0
    BY Zenon, <1>1
  <2>. QED BY ONLY <2>1
<1>3. x - 1 \notin S
  BY Zenon, <1>1, <1>2
<1>4. <<x - 1, x>> \in OpToRel(<, Nat)
  <2>1. <<x - 1, x>> \in Nat \X Nat
    BY Zenon, <1>1, <1>2
  <2>. QED BY Zenon, <1>2, <2>1 DEF OpToRel
<1>. QED BY Zenon, <1>1, <1>2, <1>3, <1>4

(* dropOldest removes exactly the k oldest entries.                        *)
LEMMA DropOldestProps ==
  ASSUME NEW b \in Seq(Entry), NEW k \in 0..Len(b)
  PROVE  /\ DropOldest(b, k) \in Seq(Entry)
         /\ Len(DropOldest(b, k)) = Len(b) - k
         /\ \A i \in 1..Len(b) - k : DropOldest(b, k)[i] = b[k + i]
<1>1. Len(b) \in Nat /\ \A i \in 1..Len(b) : b[i] \in Entry
  BY Zenon, LenProperties, ElementOfSeq
<1>2. \A i \in k + 1..Len(b) : b[i] \in Entry
  BY <1>1
<1>3. /\ SubSeq(b, k + 1, Len(b)) \in Seq(Entry)
      /\ Len(SubSeq(b, k + 1, Len(b))) = IF k + 1 <= Len(b) THEN Len(b) - (k + 1) + 1 ELSE 0
      /\ \A i \in 1..Len(b) - (k + 1) + 1 : SubSeq(b, k + 1, Len(b))[i] = b[k + 1 + i - 1]
  BY <1>1, <1>2, SubSeqProperties
<1>. QED
  BY <1>1, <1>3 DEF DropOldest

(* ackUpTo(b, n) drops a prefix: everything it drops has a seq of at most  *)
(* n, and the first entry it keeps has a larger one.                       *)
LEMMA AckUpToProps ==
  ASSUME NEW b \in Seq(Entry), NEW n \in Nat
  PROVE  \E k \in 0..Len(b) :
           /\ ackUpTo(b, n) = DropOldest(b, k)
           /\ k = Len(b) \/ b[k + 1].seq > n
           /\ \A j \in 1..k : b[j].seq <= n
<1>. DEFINE S == {k \in 0..Len(b) : k = Len(b) \/ b[k + 1].seq > n}
<1>1. Len(b) \in Nat /\ \A i \in 1..Len(b) : b[i] \in Entry
  BY Zenon, LenProperties, ElementOfSeq
<1>2. S \in SUBSET Nat /\ Len(b) \in S
  BY <1>1
<1>3. PICK m \in S : m = Min(S) /\ \A y \in S : m <= y
  <2>. HIDE DEF S
  <2>. QED BY Zenon, <1>2, MinOfNats
<1>4. ASSUME NEW j \in 1..m PROVE b[j].seq <= n
  <2>1. m \in 0..Len(b)
    BY Zenon, <1>3
  <2>2. b[j].seq \in Nat
    BY <1>1, <2>1 DEF Entry
  <2>3. j - 1 \notin S
    <3>. HIDE DEF S
    <3>. QED BY <1>3, <2>1
  <2>. QED BY <1>1, <2>1, <2>2, <2>3
<1>. QED
  BY Zenon, <1>3, <1>4 DEF ackUpTo

(* after(b, n) is the same suffix as ackUpTo(b, n).                        *)
LEMMA AfterIsAckUpTo == \A b, n : after(b, n) = ackUpTo(b, n)
  BY Zenon DEF after, ackUpTo

(* push keeps a suffix of the buffer extended with the new entry.          *)
LEMMA PushProps ==
  ASSUME BufferConstants, NEW b \in Seq(Entry), NEW seq \in Nat, NEW d \in Data
  PROVE  LET e == Append(b, [seq |-> seq, data |-> d])
         IN  /\ e \in Seq(Entry)
             /\ \E k \in 0..Len(e) :
                  /\ push(b, seq, d) = DropOldest(e, k)
                  /\ Len(e) - k <= MaxMsgs
<1>. DEFINE e == Append(b, [seq |-> seq, data |-> d])
            S == {k \in 0..Len(e) : k = Len(e) \/ Fits(DropOldest(e, k))}
<1>1. [seq |-> seq, data |-> d] \in Entry
  BY Zenon DEF Entry
<1>2. e \in Seq(Entry) /\ Len(e) \in Nat
  BY Zenon, <1>1, AppendProperties, LenProperties
<1>. HIDE DEF e
<1>3. CASE Size[d] > MaxBytes
  <2>1. push(b, seq, d) = << >>
    BY Zenon, <1>3 DEF push
  <2>2. DropOldest(e, Len(e)) = << >>
    BY <1>2, SubSeqEmpty DEF DropOldest
  <2>. QED BY <1>2, <2>1, <2>2 DEF BufferConstants, e
<1>4. CASE ~(Size[d] > MaxBytes)
  <2>1. S \in SUBSET Nat /\ Len(e) \in S
    BY <1>2
  <2>2. PICK m \in S : m = Min(S)
    <3>. HIDE DEF S
    <3>. QED BY Zenon, <2>1, MinOfNats
  <2>3. push(b, seq, d) = DropOldest(e, m)
    BY Zenon, <1>4, <2>2 DEF push, e
  <2>4. m \in 0..Len(e) /\ (m = Len(e) \/ Fits(DropOldest(e, m)))
    BY Zenon
  <2>5. Len(e) - m <= MaxMsgs
    <3>. HIDE DEF S
    <3>1. CASE m = Len(e)
      BY <1>2, <3>1 DEF BufferConstants
    <3>2. CASE Fits(DropOldest(e, m))
      <4>1. Len(DropOldest(e, m)) <= MaxMsgs
        BY <3>2, Zenon DEF Fits
      <4>2. Len(DropOldest(e, m)) = Len(e) - m
        BY Zenon, <1>2, <2>4, DropOldestProps
      <4>. QED BY Zenon, <4>1, <4>2
    <3>. QED BY Zenon, <2>4, <3>1, <3>2
  <2>. QED BY Zenon, <1>2, <2>3, <2>4, <2>5 DEF e
<1>. QED BY Zenon, <1>3, <1>4

(* f holds the running byte counts of the first n entries of b.            *)
Counts(f, b, n) == f = [i \in 0..n |-> IF i = 0 THEN 0 ELSE f[i - 1] + Size[b[i].data]]

(* There are such counts for every number of entries.                      *)
LEMMA CountsExists ==
  ASSUME NEW b, NEW n \in Nat
  PROVE  \E f : Counts(f, b, n)
<1>. DEFINE S == {k \in Nat : \E f : Counts(f, b, k)}
<1>1. 0 \in S
  <2>. DEFINE f == [i \in 0..0 |-> 0]
  <2>1. \A i \in 0..0 : i = 0
    OBVIOUS
  <2>2. Counts(f, b, 0)
    BY <2>1 DEF Counts
  <2>. QED BY Zenon, <2>2
<1>2. ASSUME NEW k \in S PROVE k + 1 \in S
  <2>1. PICK f : Counts(f, b, k)
    BY Zenon
  <2>. DEFINE g == [i \in 0..(k + 1) |-> IF i = k + 1 THEN f[k] + Size[b[k + 1].data] ELSE f[i]]
              h == [i \in 0..(k + 1) |-> IF i = 0 THEN 0 ELSE g[i - 1] + Size[b[i].data]]
  <2>2. ASSUME NEW i \in 0..(k + 1) PROVE g[i] = h[i]
    <3>1. CASE i = k + 1
      <4>1. i # 0 /\ k \in 0..(k + 1) /\ k # k + 1 /\ k + 1 \in 0..(k + 1) /\ k + 1 # 0 /\ (k + 1) - 1 = k
        BY <3>1
      <4>2. g[k] = f[k] /\ g[k + 1] = f[k] + Size[b[k + 1].data]
        BY Zenon, <4>1
      <4>. HIDE DEF g
      <4>3. h[k + 1] = g[k] + Size[b[k + 1].data]
        BY Zenon, <4>1
      <4>. QED BY Zenon, <3>1, <4>2, <4>3
    <3>2. CASE i # k + 1
      <4>1. i \in 0..k /\ (i # 0 => i - 1 \in 0..(k + 1) /\ i - 1 # k + 1)
        BY <3>2
      <4>2. g[i] = f[i] /\ (i # 0 => g[i - 1] = f[i - 1])
        BY Zenon, <3>2, <4>1
      <4>. HIDE DEF g
      <4>3. f[i] = IF i = 0 THEN 0 ELSE f[i - 1] + Size[b[i].data]
        BY Zenon, <2>1, <4>1 DEF Counts
      <4>4. h[i] = IF i = 0 THEN 0 ELSE g[i - 1] + Size[b[i].data]
        BY Zenon
      <4>. QED BY Zenon, <4>2, <4>3, <4>4
    <3>. QED BY Zenon, <3>1, <3>2
  <2>3. g = h
    BY Zenon, <2>2
  <2>4. Counts(g, b, k + 1)
    BY Zenon, <2>3 DEF Counts
  <2>5. k + 1 \in Nat
    OBVIOUS
  <2>. QED BY Zenon, <2>4, <2>5
<1>. HIDE DEF S
<1>3. S \in SUBSET Nat
  BY Zenon DEF S
<1>4. S = Nat
  BY Zenon, <1>1, <1>2, <1>3, SetInduction
<1>. QED BY Zenon, <1>4 DEF S

(* The counts are those of Bytes, step by step.                            *)
LEMMA CountsOfBytes ==
  ASSUME NEW b
  PROVE  Len(b) \in Nat =>
         \E f : /\ Bytes(b) = f[Len(b)] /\ f[0] = 0
                /\ \A i \in 0..Len(b) : i # 0 => f[i] = f[i - 1] + Size[b[i].data]
<1>. SUFFICES ASSUME Len(b) \in Nat
              PROVE  \E f : /\ Bytes(b) = f[Len(b)] /\ f[0] = 0
                            /\ \A i \in 0..Len(b) : i # 0 => f[i] = f[i - 1] + Size[b[i].data]
  BY Zenon
<1>. DEFINE n == Len(b)
            f == CHOOSE g : Counts(g, b, n)
<1>1. Bytes(b) = f[n]
  BY Zenon DEF Bytes, Counts
<1>2. Counts(f, b, n)
  BY Zenon, CountsExists
<1>. HIDE DEF f
<1>3. 0 \in 0..n
  OBVIOUS
<1>4. f[0] = 0 /\ \A i \in 0..n : i # 0 => f[i] = f[i - 1] + Size[b[i].data]
  BY Zenon, <1>2, <1>3 DEF Counts
<1>. QED BY Zenon, <1>1, <1>4

(* Bytes counts an entry when it is appended, and what is dropped from the *)
(* front is counted no more.                                               *)
LEMMA BytesAppend ==
  ASSUME NEW b \in Seq(Entry), NEW e \in Entry
  PROVE  Bytes(b) \in Nat /\ Bytes(Append(b, e)) = Bytes(b) + Size[e.data]
<1>. DEFINE n == Len(b)
            c == Append(b, e)
<1>1. /\ n \in Nat /\ Len(c) = n + 1 /\ c[n + 1] = e /\ \A i \in 1..n : c[i] = b[i] /\ b[i] \in Entry
  OBVIOUS
<1>. HIDE DEF c
<1>2. PICK f : /\ Bytes(b) = f[n] /\ f[0] = 0
               /\ \A i \in 0..n : i # 0 => f[i] = f[i - 1] + Size[b[i].data]
  BY Zenon, <1>1, CountsOfBytes
<1>3. PICK g : /\ Bytes(c) = g[Len(c)] /\ g[0] = 0
               /\ \A i \in 0..Len(c) : i # 0 => g[i] = g[i - 1] + Size[c[i].data]
  <2>1. Len(c) \in Nat
    BY <1>1
  <2>. QED BY Zenon, <2>1, CountsOfBytes
<1>4. \A d \in Data : Size[d] \in Nat
  BY Zenon, BufferConstants
<1>. DEFINE S == {k \in Nat : k <= n => f[k] \in Nat /\ g[k] = f[k]}
<1>5. 0 \in S
  BY <1>2, <1>3
<1>6. ASSUME NEW k \in S PROVE k + 1 \in S
  <2>. SUFFICES ASSUME k + 1 <= n PROVE f[k + 1] \in Nat /\ g[k + 1] = f[k + 1]
    BY <1>1
  <2>1. k \in Nat
    BY Zenon
  <2>2. /\ k <= n /\ k + 1 \in 0..n /\ k + 1 \in 1..n /\ k + 1 \in 0..Len(c) /\ k + 1 # 0 /\ (k + 1) - 1 = k
    BY ONLY <1>1, <2>1, k + 1 <= n
  <2>3. f[k] \in Nat /\ g[k] = f[k]
    BY Zenon, <2>2
  <2>4. f[k + 1] = f[k] + Size[b[k + 1].data] /\ g[k + 1] = g[k] + Size[b[k + 1].data] /\ b[k + 1].data \in Data
    BY Zenon, <1>1, <1>2, <1>3, <2>2 DEF Entry
  <2>5. Size[b[k + 1].data] \in Nat
    BY Zenon, <1>4, <2>4
  <2>. QED BY ONLY <2>3, <2>4, <2>5
<1>7. S = Nat
  <2>. HIDE DEF S
  <2>1. S \in SUBSET Nat
    BY Zenon DEF S
  <2>. QED BY Zenon, <1>5, <1>6, <2>1, SetInduction
<1>8. f[n] \in Nat /\ g[n] = f[n]
  <2>1. n <= n
    BY ONLY <1>1
  <2>. QED BY Zenon, <1>1, <1>7, <2>1
<1>9. g[n + 1] = g[n] + Size[e.data]
  <2>1. n + 1 \in 0..Len(c) /\ n + 1 # 0 /\ (n + 1) - 1 = n
    BY ONLY <1>1
  <2>. QED BY Zenon, <1>1, <1>3, <2>1
<1>. QED BY Zenon, <1>1, <1>2, <1>3, <1>8, <1>9 DEF c

(* Dropping entries never adds bytes.                                      *)
LEMMA BytesDrop ==
  ASSUME NEW b \in Seq(Entry), NEW k \in 0..Len(b)
  PROVE  /\ Bytes(b) \in Nat /\ Bytes(DropOldest(b, k)) \in Nat /\ Bytes(DropOldest(b, k)) <= Bytes(b)
         /\ k = 1 => Bytes(b) = Size[b[1].data] + Bytes(DropOldest(b, k))
<1>. DEFINE n == Len(b)
            c == DropOldest(b, k)
            m == n - k
<1>1. /\ n \in Nat /\ k \in Nat /\ k <= n /\ m \in Nat /\ Len(c) = m
      /\ \A i \in 1..n : b[i] \in Entry
      /\ \A i \in 1..m : c[i] = b[k + i]
  <2>1. n \in Nat /\ \A i \in 1..n : b[i] \in Entry
    BY Zenon, LenProperties, ElementOfSeq
  <2>2. k \in Nat /\ k <= n /\ m \in Nat
    BY <2>1
  <2>. HIDE DEF n, m, c
  <2>3. Len(c) = m /\ \A i \in 1..m : c[i] = b[k + i]
    BY Zenon, DropOldestProps DEF c, m, n
  <2>. QED BY Zenon, <2>1, <2>2, <2>3
<1>. HIDE DEF c, m
<1>2. PICK f : /\ Bytes(b) = f[n] /\ f[0] = 0
               /\ \A i \in 0..n : i # 0 => f[i] = f[i - 1] + Size[b[i].data]
  BY Zenon, <1>1, CountsOfBytes
<1>3. PICK g : /\ Bytes(c) = g[m] /\ g[0] = 0
               /\ \A i \in 0..m : i # 0 => g[i] = g[i - 1] + Size[c[i].data]
  <2>1. PICK g : /\ Bytes(c) = g[Len(c)] /\ g[0] = 0
                 /\ \A i \in 0..Len(c) : i # 0 => g[i] = g[i - 1] + Size[c[i].data]
    BY Zenon, <1>1, CountsOfBytes
  <2>. QED BY Zenon, <1>1, <2>1
<1>4. \A i \in 1..n : Size[b[i].data] \in Nat
  BY Zenon, <1>1, BufferConstants DEF Entry
<1>. DEFINE R == {i \in Nat : i <= n => f[i] \in Nat}
            S == {i \in Nat : i <= m => g[i] \in Nat /\ f[k + i] = f[k] + g[i]}
<1>5. R = Nat
  <2>1. 0 \in R
    BY <1>2
  <2>2. ASSUME NEW i \in R PROVE i + 1 \in R
    <3>. SUFFICES ASSUME i + 1 <= n PROVE f[i + 1] \in Nat
      BY <1>1
    <3>1. i \in Nat
      BY Zenon
    <3>2. i <= n /\ i + 1 \in 0..n /\ i + 1 \in 1..n /\ i + 1 # 0 /\ (i + 1) - 1 = i
      BY ONLY <1>1, <3>1, i + 1 <= n
    <3>3. f[i] \in Nat /\ Size[b[i + 1].data] \in Nat /\ f[i + 1] = f[i] + Size[b[i + 1].data]
      BY Zenon, <1>2, <1>4, <3>2
    <3>. QED BY ONLY <3>3
  <2>3. R \in SUBSET Nat
    BY Zenon
  <2>. HIDE DEF R
  <2>. QED BY Zenon, <2>1, <2>2, <2>3, SetInduction
<1>6. f[k] \in Nat /\ f[n] \in Nat
  <2>1. n <= n
    BY ONLY <1>1
  <2>2. k \in R /\ n \in R
    <3>. HIDE DEF R
    <3>. QED BY Zenon, <1>1, <1>5
  <2>. QED BY Zenon, <1>1, <2>1, <2>2
<1>7. S = Nat
  <2>1. 0 \in S
    <3>1. k + 0 = k /\ f[k] = f[k] + 0
      BY ONLY <1>1, <1>6
    <3>2. g[0] \in Nat /\ f[k + 0] = f[k] + g[0]
      BY <1>1, <1>3, <3>1
    <3>. QED BY Zenon, <3>2
  <2>2. ASSUME NEW i \in S PROVE i + 1 \in S
    <3>. SUFFICES ASSUME i + 1 <= m PROVE g[i + 1] \in Nat /\ f[k + (i + 1)] = f[k] + g[i + 1]
      BY <1>1
    <3>1. i \in Nat
      BY Zenon
    <3>2. /\ i <= m /\ i + 1 \in 0..m /\ i + 1 \in 1..m /\ i + 1 # 0 /\ (i + 1) - 1 = i
          /\ k + (i + 1) \in 0..n /\ k + (i + 1) \in 1..n /\ k + (i + 1) # 0 /\ (k + (i + 1)) - 1 = k + i
      BY ONLY <1>1, <3>1, i + 1 <= m DEF m
    <3>3. g[i] \in Nat /\ f[k + i] = f[k] + g[i]
      BY Zenon, <3>2
    <3>4. g[i + 1] = g[i] + Size[b[k + (i + 1)].data]
      BY Zenon, <1>1, <1>3, <3>2
    <3>5. f[k + (i + 1)] = f[k + i] + Size[b[k + (i + 1)].data] /\ Size[b[k + (i + 1)].data] \in Nat
      BY Zenon, <1>2, <1>4, <3>2
    <3>. DEFINE p == f[k]
                q == g[i]
                z == Size[b[k + (i + 1)].data]
    <3>6. p \in Nat /\ q \in Nat /\ z \in Nat /\ f[k + (i + 1)] = (p + q) + z /\ g[i + 1] = q + z
      BY Zenon, <1>6, <3>3, <3>4, <3>5
    <3>. HIDE DEF p, q, z
    <3>7. q + z \in Nat /\ (p + q) + z = p + (q + z)
      BY ONLY <3>6
    <3>. QED BY Zenon, <3>6, <3>7 DEF p
  <2>3. S \in SUBSET Nat
    BY Zenon
  <2>. HIDE DEF S
  <2>. QED BY Zenon, <2>1, <2>2, <2>3, SetInduction
<1>8. g[m] \in Nat /\ f[n] = f[k] + g[m]
  <2>1. m <= m /\ k + m = n
    BY ONLY <1>1 DEF m
  <2>2. g[m] \in Nat /\ f[k + m] = f[k] + g[m]
    <3>1. m \in S
      <4>. HIDE DEF S
      <4>. QED BY Zenon, <1>1, <1>7
    <3>. QED BY Zenon, <2>1, <3>1
  <2>. QED BY Zenon, <2>1, <2>2
<1>9. ASSUME k = 1 PROVE f[k] = Size[b[1].data]
  <2>1. 1 \in 0..n /\ 1 \in 1..n /\ 1 # 0 /\ 1 - 1 = 0
    BY ONLY <1>1, <1>9
  <2>2. f[1] = f[0] + Size[b[1].data] /\ Size[b[1].data] \in Nat
    BY Zenon, <1>2, <1>4, <2>1
  <2>. QED BY <1>2, <1>9, <2>2
<1>10. g[m] <= f[n]
  BY ONLY <1>6, <1>8
<1>. QED BY Zenon, <1>2, <1>3, <1>6, <1>8, <1>9, <1>10 DEF c

(* An empty buffer has no bytes.                                           *)
LEMMA BytesEmpty == Bytes(<< >>) = 0
<1>1. Len(<< >>) \in Nat /\ Len(<< >>) = 0
  OBVIOUS
<1>. QED BY Zenon, <1>1, CountsOfBytes

(* What fits still fits without its oldest or newest entries.              *)
LEMMA FitsLess ==
  ASSUME NEW b \in Seq(Entry)
  PROVE  /\ Fits(<< >>)
         /\ \A k \in 0..Len(b) : Fits(b) => Fits(DropOldest(b, k))
         /\ \A e \in Entry : Fits(Append(b, e)) => Fits(b)
<1>1. Fits(<< >>)
  BY BytesEmpty, BufferConstants DEF Fits
<1>2. ASSUME NEW k \in 0..Len(b), Fits(b) PROVE Fits(DropOldest(b, k))
  <2>1. /\ Bytes(b) \in Nat /\ Bytes(DropOldest(b, k)) \in Nat /\ Bytes(DropOldest(b, k)) <= Bytes(b)
        /\ Len(DropOldest(b, k)) = Len(b) - k /\ Len(b) \in Nat
    BY BytesDrop, DropOldestProps
  <2>. QED BY <1>2, <2>1, BufferConstants DEF Fits
<1>3. ASSUME NEW e \in Entry, Fits(Append(b, e)) PROVE Fits(b)
  <2>1. /\ Bytes(b) \in Nat /\ Bytes(Append(b, e)) = Bytes(b) + Size[e.data]
    BY BytesAppend
  <2>2. Size[e.data] \in Nat /\ Len(b) \in Nat /\ Len(Append(b, e)) = Len(b) + 1
    BY BufferConstants DEF Entry
  <2>. QED BY <1>3, <2>1, <2>2, BufferConstants DEF Fits
<1>. QED BY Zenon, <1>1, <1>2, <1>3

(* push evicts no more than the limits ask for: the result fits, and with  *)
(* one frame more it would not.                                            *)
LEMMA PushFits ==
  ASSUME NEW b \in Seq(Entry), NEW x \in Entry
  PROVE  \E k \in 0..Len(b) + 1 :
           /\ push(b, x.seq, x.data) = DropOldest(Append(b, x), k)
           /\ Fits(DropOldest(Append(b, x), k))
           /\ k = 0 \/ ~Fits(DropOldest(Append(b, x), k - 1))
<1>. DEFINE e == Append(b, x)
            S == {k \in 0..Len(e) : k = Len(e) \/ Fits(DropOldest(e, k))}
<1>1. /\ e \in Seq(Entry) /\ Len(b) \in Nat /\ Len(e) \in Nat /\ Len(e) = Len(b) + 1 /\ e[Len(e)] = x
      /\ x = [seq |-> x.seq, data |-> x.data] /\ x.data \in Data
  BY DEF Entry
<1>. HIDE DEF e
<1>2. DropOldest(e, Len(e)) = << >> /\ Fits(<< >>)
  BY <1>1, SubSeqEmpty, FitsLess DEF DropOldest
<1>3. CASE Size[x.data] > MaxBytes
  <2>1. push(b, x.seq, x.data) = << >>
    BY Zenon, <1>3 DEF push
  <2>. DEFINE l == DropOldest(e, Len(e) - 1)
  <2>2. l \in Seq(Entry) /\ Len(l) = 1 /\ l[1] = x
    <3>1. /\ Len(e) - 1 \in 0..Len(e) /\ Len(e) - (Len(e) - 1) = 1 /\ (Len(e) - 1) + 1 = Len(e) /\ 1 \in 1..1
      BY ONLY <1>1
    <3>. HIDE DEF l
    <3>2. /\ l \in Seq(Entry) /\ Len(l) = Len(e) - (Len(e) - 1)
          /\ \A i \in 1..Len(e) - (Len(e) - 1) : l[i] = e[(Len(e) - 1) + i]
      BY Zenon, <1>1, <3>1, DropOldestProps DEF l
    <3>. QED BY Zenon, <1>1, <3>1, <3>2
  <2>3. /\ Bytes(l) = Size[l[1].data] + Bytes(DropOldest(l, 1)) /\ Bytes(DropOldest(l, 1)) \in Nat
    <3>1. 1 \in 0..Len(l)
      BY ONLY <2>2
    <3>. HIDE DEF l
    <3>. QED BY Zenon, <2>2, <3>1, BytesDrop
  <2>4. Size[x.data] \in Nat
    BY Zenon, <1>1, BufferConstants
  <2>5. ~(Bytes(l) <= MaxBytes)
    <3>. HIDE DEF l
    <3>1. Bytes(l) = Size[x.data] + Bytes(DropOldest(l, 1))
      BY Zenon, <2>2, <2>3
    <3>. QED BY <1>3, <2>3, <2>4, <3>1, BufferConstants
  <2>6. ~Fits(l)
    BY Zenon, <2>5 DEF Fits
  <2>7. Len(e) \in 0..Len(b) + 1
    BY ONLY <1>1
  <2>. QED BY Zenon, <1>2, <2>1, <2>6, <2>7 DEF e
<1>4. CASE ~(Size[x.data] > MaxBytes)
  <2>1. S \in SUBSET Nat /\ Len(e) \in S
    BY <1>1
  <2>2. PICK m \in S : m = Min(S) /\ \A y \in S : m <= y
    <3>. HIDE DEF S
    <3>. QED BY Zenon, <2>1, MinOfNats
  <2>3. push(b, x.seq, x.data) = DropOldest(e, m)
    BY Zenon, <1>1, <1>4, <2>2 DEF push, e
  <2>4. m \in 0..Len(e) /\ Fits(DropOldest(e, m))
    BY Zenon, <1>2
  <2>5. ASSUME m # 0 PROVE ~Fits(DropOldest(e, m - 1))
    <3>1. m - 1 \in 0..Len(e) /\ ~(m <= m - 1)
      BY ONLY <1>1, <2>4, <2>5
    <3>2. m - 1 \notin S
      BY Zenon, <2>2, <3>1
    <3>. QED BY Zenon, <3>1, <3>2
  <2>6. m \in 0..Len(b) + 1
    BY ONLY <1>1, <2>4
  <2>. QED BY Zenon, <2>3, <2>4, <2>5, <2>6 DEF e
<1>. QED BY Zenon, <1>3, <1>4

(* Sequences with the same elements are equal.                             *)
LEMMA SameElements ==
  ASSUME NEW S, NEW s \in Seq(S), NEW t \in Seq(S), NEW n, Len(s) = n, Len(t) = n,
         \A i \in 1..n : s[i] = t[i]
  PROVE  s = t
OBVIOUS

-----------------------------------------------------------------------------
(* The slice                                                               *)

Slot == Entry \cup {Cleared}

(* What holds of the slice between two operations.                         *)
RingOK(b) ==
  /\ b \in [entries : Seq(Slot), head : Nat, bytes : Nat]
  /\ b.head <= Len(b.entries) /\ (b.head = Len(b.entries) => b.head = 0)
  /\ \A i \in 1..b.head : b.entries[i] = Cleared
  /\ \A i \in b.head + 1..Len(b.entries) : b.entries[i] \in Entry
  /\ b.bytes = Bytes(view(b))
  /\ b.head < Compact \/ b.head * 2 < Len(b.entries)

(* The end of a sequence from place j on.                                  *)
LEMMA SuffixFacts ==
  ASSUME NEW S, NEW q \in Seq(S), NEW j \in 0..Len(q)
  PROVE  /\ SubSeq(q, j + 1, Len(q)) \in Seq(S) /\ Len(SubSeq(q, j + 1, Len(q))) = Len(q) - j
         /\ \A i \in 1..Len(q) - j : SubSeq(q, j + 1, Len(q))[i] = q[j + i]
OBVIOUS

(* A sequence all of whose elements are entries.                           *)
LEMMA EntriesOnly ==
  ASSUME NEW S, NEW q \in Seq(S), \A i \in 1..Len(q) : q[i] \in Entry
  PROVE  q \in Seq(Entry)
OBVIOUS

(* The frames the slice stands for, one by one.                            *)
LEMMA ViewFacts ==
  ASSUME NEW b, b \in [entries : Seq(Slot), head : Nat, bytes : Nat], b.head <= Len(b.entries),
         \A i \in b.head + 1..Len(b.entries) : b.entries[i] \in Entry
  PROVE  /\ view(b) \in Seq(Entry) /\ len(b) \in Nat /\ Len(view(b)) = len(b)
         /\ \A i \in 1..len(b) : view(b)[i] = b.entries[b.head + i]
<1>. DEFINE q == b.entries
            h == b.head
            n == Len(q)
<1>1. q \in Seq(Slot) /\ h \in Nat /\ n \in Nat /\ h <= n
  BY Zenon, LenProperties
<1>. HIDE DEF q, h, n
<1>2. h \in 0..n /\ n - h \in Nat /\ \A i \in 1..n - h : h + i \in h + 1..n
  BY ONLY <1>1
<1>3. /\ SubSeq(q, h + 1, n) \in Seq(Slot) /\ Len(SubSeq(q, h + 1, n)) = n - h
      /\ \A i \in 1..n - h : SubSeq(q, h + 1, n)[i] = q[h + i]
  BY Zenon, <1>1, <1>2, SuffixFacts DEF n
<1>4. view(b) = SubSeq(q, h + 1, n) /\ len(b) = n - h
  BY Zenon DEF view, len, q, h, n
<1>5. \A i \in 1..Len(view(b)) : view(b)[i] \in Entry
  BY Zenon, <1>2, <1>3, <1>4 DEF q, h, n
<1>6. view(b) \in Seq(Entry)
  BY Zenon, <1>3, <1>4, <1>5, EntriesOnly
<1>. QED BY Zenon, <1>2, <1>3, <1>4, <1>6 DEF q, h

(* dropOldest on the slice drops the oldest frame of what it stands for,   *)
(* with or without compaction.                                             *)
LEMMA DropRing ==
  ASSUME NEW b, RingOK(b), len(b) # 0
  PROVE  RingOK(dropOldest(b)) /\ view(dropOldest(b)) = DropOldest(view(b), 1)
<1>. DEFINE q == b.entries
            h == b.head + 1
            n == Len(q)
            v == view(b)
            w == DropOldest(v, 1)
            y == b.bytes - Size[q[h].data]
            r == dropOldest(b)
<1>1. /\ q \in Seq(Slot) /\ b.head \in Nat /\ n \in Nat /\ b.head <= n /\ b.bytes \in Nat
      /\ v \in Seq(Entry) /\ len(b) \in Nat /\ Len(v) = len(b) /\ len(b) = n - b.head
      /\ \A i \in 1..len(b) : v[i] = q[b.head + i]
  <2>1. /\ q \in Seq(Slot) /\ b.head \in Nat /\ n \in Nat /\ b.head <= n /\ b.bytes \in Nat
    BY Zenon, LenProperties DEF RingOK
  <2>2. /\ v \in Seq(Entry) /\ len(b) \in Nat /\ Len(v) = len(b)
        /\ \A i \in 1..len(b) : v[i] = q[b.head + i]
    BY Zenon, ViewFacts DEF RingOK
  <2>. QED BY Zenon, <2>1, <2>2 DEF len
<1>2. /\ h \in Nat /\ h \in 1..n /\ h <= n /\ n - h \in Nat /\ Len(v) = (n - h) + 1 /\ 1 \in 0..Len(v) /\ 1 \in 1..len(b)
      /\ Len(v) - 1 = n - h /\ b.head + 1 = h /\ \A i \in 1..n - h : 1 + i \in 1..len(b) /\ b.head + (1 + i) = h + i
  <2>. DEFINE g == b.head
              l == len(b)
              z == Len(v)
  <2>1. g \in Nat /\ n \in Nat /\ g <= n /\ l = n - g /\ z = l /\ l # 0
    BY Zenon, <1>1
  <2>. HIDE DEF g, l, z, n, v
  <2>2. /\ g + 1 \in Nat /\ g + 1 \in 1..n /\ g + 1 <= n /\ n - (g + 1) \in Nat /\ z = (n - (g + 1)) + 1 /\ 1 \in 0..z /\ 1 \in 1..l
        /\ z - 1 = n - (g + 1) /\ \A i \in 1..n - (g + 1) : 1 + i \in 1..l /\ g + (1 + i) = (g + 1) + i
    BY ONLY <2>1
  <2>. QED BY Zenon, <2>2 DEF g, l, z
<1>3. /\ w \in Seq(Entry) /\ Len(w) = n - h /\ \A i \in 1..n - h : w[i] = q[h + i]
  <2>1. /\ w \in Seq(Entry) /\ Len(w) = Len(v) - 1 /\ \A i \in 1..Len(v) - 1 : w[i] = v[1 + i]
    <3>. HIDE DEF v
    <3>. QED BY Zenon, <1>1, <1>2, DropOldestProps
  <2>. QED BY Zenon, <1>1, <1>2, <2>1
<1>4. y = Bytes(w) /\ y \in Nat
  <2>1. Bytes(v) = Size[v[1].data] + Bytes(w) /\ Bytes(w) \in Nat
    <3>. HIDE DEF v
    <3>. QED BY Zenon, <1>1, <1>2, BytesDrop
  <2>2. v[1] = q[h] /\ v[1] \in Entry
    BY Zenon, <1>1, <1>2, ElementOfSeq
  <2>3. Size[v[1].data] \in Nat
    BY Zenon, <2>2, BufferConstants DEF Entry
  <2>4. b.bytes = Bytes(v)
    BY Zenon DEF RingOK
  <2>5. y = Bytes(v) - Size[v[1].data]
    BY Zenon, <2>2, <2>4
  <2>. HIDE DEF y, w, v
  <2>6. Bytes(v) - Size[v[1].data] = Bytes(w)
    BY ONLY <2>1, <2>3
  <2>. QED BY Zenon, <2>1, <2>5, <2>6
<1>5. r = IF h = n THEN [empty EXCEPT !.bytes = y]
          ELSE IF h >= Compact /\ h * 2 >= n
          THEN [entries |-> SubSeq(q, h + 1, n), head |-> 0, bytes |-> y]
          ELSE [entries |-> [q EXCEPT ![h] = Cleared], head |-> h, bytes |-> y]
  BY Zenon DEF dropOldest
<1>6. \A i \in 1..n - h : q[h + i] \in Entry
  BY Zenon, <1>3, ElementOfSeq
<1>. HIDE DEF q, h, n, v, w, y, r
<1>7. ASSUME NEW e \in Seq(Slot), NEW g \in Nat, g <= Len(e), Len(e) - g = n - h,
             r = [entries |-> e, head |-> g, bytes |-> y],
             \A i \in 1..n - h : e[g + i] = q[h + i],
             g = Len(e) => g = 0, \A i \in 1..g : e[i] = Cleared,
             g < Compact \/ g * 2 < Len(e)
      PROVE  RingOK(r) /\ view(r) = w
  <2>1. r.entries = e /\ r.head = g /\ r.bytes = y /\ r \in [entries : Seq(Slot), head : Nat, bytes : Nat]
    BY Zenon, <1>4, <1>7
  <2>2. Len(e) \in Nat /\ \A i \in g + 1..Len(e) : i - g \in 1..n - h /\ g + (i - g) = i
    <3>1. Len(e) \in Nat
      BY Zenon, LenProperties
    <3>. QED BY ONLY <3>1, <1>7, <1>2, g \in Nat
  <2>3. \A i \in g + 1..Len(e) : e[i] \in Entry
    BY Zenon, <1>6, <1>7, <2>2
  <2>4. len(r) = n - h
    BY Zenon, <1>7, <2>1 DEF len
  <2>5. view(r) \in Seq(Entry) /\ Len(view(r)) = len(r) /\ \A i \in 1..len(r) : view(r)[i] = r.entries[r.head + i]
    BY Zenon, <1>7, <2>1, <2>3, ViewFacts
  <2>6. \A i \in 1..n - h : view(r)[i] = w[i]
    BY Zenon, <1>3, <1>7, <2>1, <2>4, <2>5
  <2>7. view(r) = w
    <3>. DEFINE x == view(r)
                m == n - h
    <3>1. x \in Seq(Entry) /\ w \in Seq(Entry) /\ Len(x) = m /\ Len(w) = m /\ \A i \in 1..m : x[i] = w[i]
      BY Zenon, <1>3, <2>4, <2>5, <2>6
    <3>. HIDE DEF x, m
    <3>2. x = w
      BY ONLY <3>1
    <3>. QED BY Zenon, <3>2 DEF x
  <2>. QED BY Zenon, <1>4, <1>7, <2>1, <2>3, <2>7 DEF RingOK
<1>8. CASE h = n
  <2>. DEFINE e == << >>
  <2>1. r = [entries |-> e, head |-> 0, bytes |-> y]
    BY Zenon, <1>5, <1>8 DEF empty
  <2>2. n - h = 0
    BY ONLY <1>2, <1>8
  <2>3. /\ e \in Seq(Slot) /\ 0 \in Nat /\ 0 <= Len(e) /\ Len(e) - 0 = n - h /\ \A i \in 1..n - h : e[0 + i] = q[h + i]
    BY ONLY <2>2
  <2>4. (\A i \in 1..0 : e[i] = Cleared) /\ 0 < Compact
    BY ONLY RingConstants
  <2>. HIDE DEF e
  <2>. QED BY Zenon, <1>7, <2>1, <2>3, <2>4 DEF r, w, v
<1>9. CASE h # n /\ h >= Compact /\ h * 2 >= n
  <2>. DEFINE e == SubSeq(q, h + 1, n)
  <2>1. /\ e \in Seq(Slot) /\ Len(e) = n - h /\ \A i \in 1..n - h : e[i] = q[h + i]
    <3>1. h \in 0..n
      BY ONLY <1>2
    <3>. QED BY Zenon, <1>1, <3>1, SuffixFacts DEF n
  <2>2. r = [entries |-> e, head |-> 0, bytes |-> y]
    BY Zenon, <1>5, <1>9
  <2>. HIDE DEF e
  <2>3. 0 \in Nat /\ 0 <= n - h /\ (n - h) - 0 = n - h /\ 0 < Compact /\ \A i \in 1..n - h : 0 + i = i
    BY ONLY <1>2, RingConstants
  <2>4. \A i \in 1..0 : e[i] = Cleared
    OBVIOUS
  <2>5. 0 <= Len(e) /\ Len(e) - 0 = n - h /\ \A i \in 1..n - h : e[0 + i] = q[h + i]
    BY Zenon, <2>1, <2>3
  <2>. QED BY Zenon, <1>7, <2>1, <2>2, <2>3, <2>4, <2>5 DEF r, w, v
<1>10. CASE h # n /\ ~(h >= Compact /\ h * 2 >= n)
  <2>. DEFINE e == [q EXCEPT ![h] = Cleared]
              g == b.head
  <2>1. /\ e \in Seq(Slot) /\ Len(e) = n /\ e[h] = Cleared /\ \A i \in 1..n : i # h => e[i] = q[i]
    <3>1. Cleared \in Slot
      BY Zenon DEF Slot
    <3>. QED BY ONLY <1>1, <1>2, <3>1 DEF n
  <2>2. r = [entries |-> e, head |-> h, bytes |-> y]
    BY Zenon, <1>5, <1>10
  <2>3. \A i \in 1..g : q[i] = Cleared
    BY Zenon DEF RingOK, q
  <2>4. g \in Nat /\ h = g + 1
    BY Zenon, <1>1 DEF h
  <2>. HIDE DEF e, g
  <2>5. n \in Nat /\ h \in Nat /\ h <= n
    BY Zenon, <1>1, <1>2
  <2>6. /\ h <= n /\ h # n /\ (h < Compact \/ h * 2 < n) /\ \A i \in 1..n - h : h + i \in 1..n /\ h + i # h
    BY ONLY <2>5, <1>10, RingConstants
  <2>7. \A i \in 1..h : i \in 1..n /\ (i = h \/ (i # h /\ i \in 1..g))
    BY ONLY <2>4, <2>5
  <2>8. ASSUME NEW i \in 1..h PROVE e[i] = Cleared
    <3>1. CASE i = h
      BY Zenon, <2>1, <3>1
    <3>2. CASE i # h
      <4>1. i \in 1..n /\ i \in 1..g
        BY Zenon, <2>7, <3>2
      <4>2. e[i] = q[i] /\ q[i] = Cleared
        BY Zenon, <2>1, <2>3, <3>2, <4>1
      <4>. QED BY Zenon, <4>2
    <3>. QED BY Zenon, <3>1, <3>2
  <2>9. /\ h <= Len(e) /\ Len(e) - h = n - h /\ (h = Len(e) => h = 0) /\ (h < Compact \/ h * 2 < Len(e))
    BY Zenon, <2>1, <2>6
  <2>10. \A i \in 1..n - h : e[h + i] = q[h + i]
    BY Zenon, <2>1, <2>6
  <2>. QED BY Zenon, <1>7, <2>1, <2>2, <2>5, <2>8, <2>9, <2>10 DEF r, w, v
<1>. QED BY Zenon, <1>8, <1>9, <1>10

(* d holds the slices after 0, 1, ... n drops.                             *)
DropsTo(d, b, n) == d = [i \in 0..n |-> IF i = 0 THEN b ELSE dropOldest(d[i - 1])]

(* There are such slices for every number of drops.                        *)
LEMMA DropsExist ==
  ASSUME NEW b, NEW n \in Nat
  PROVE  \E d : DropsTo(d, b, n)
<1>. DEFINE S == {k \in Nat : \E d : DropsTo(d, b, k)}
<1>1. 0 \in S
  <2>. DEFINE d == [i \in 0..0 |-> b]
  <2>1. \A i \in 0..0 : i = 0
    OBVIOUS
  <2>2. d = [i \in 0..0 |-> IF i = 0 THEN b ELSE dropOldest(d[i - 1])]
    BY Zenon, <2>1
  <2>. QED BY Zenon, <2>2 DEF DropsTo
<1>2. ASSUME NEW k \in S PROVE k + 1 \in S
  <2>1. PICK d : DropsTo(d, b, k)
    BY Zenon
  <2>. DEFINE g == [i \in 0..(k + 1) |-> IF i = k + 1 THEN dropOldest(d[k]) ELSE d[i]]
              h == [i \in 0..(k + 1) |-> IF i = 0 THEN b ELSE dropOldest(g[i - 1])]
  <2>2. ASSUME NEW i \in 0..(k + 1) PROVE g[i] = h[i]
    <3>1. CASE i = k + 1
      <4>1. i # 0 /\ k \in 0..(k + 1) /\ k # k + 1 /\ k + 1 \in 0..(k + 1) /\ k + 1 # 0 /\ (k + 1) - 1 = k
        BY <3>1
      <4>2. g[k] = d[k] /\ g[k + 1] = dropOldest(d[k])
        BY Zenon, <4>1
      <4>. HIDE DEF g
      <4>3. h[k + 1] = dropOldest(g[k])
        BY Zenon, <4>1
      <4>. QED BY Zenon, <3>1, <4>2, <4>3
    <3>2. CASE i # k + 1
      <4>1. i \in 0..k /\ (i # 0 => i - 1 \in 0..(k + 1) /\ i - 1 # k + 1)
        BY <3>2
      <4>2. g[i] = d[i] /\ (i # 0 => g[i - 1] = d[i - 1])
        BY Zenon, <3>2, <4>1
      <4>. HIDE DEF g
      <4>3. d[i] = IF i = 0 THEN b ELSE dropOldest(d[i - 1])
        BY Zenon, <2>1, <4>1 DEF DropsTo
      <4>4. h[i] = IF i = 0 THEN b ELSE dropOldest(g[i - 1])
        BY Zenon
      <4>. QED BY Zenon, <4>2, <4>3, <4>4
    <3>. QED BY Zenon, <3>1, <3>2
  <2>3. g = h
    BY Zenon, <2>2
  <2>4. DropsTo(g, b, k + 1)
    BY Zenon, <2>3 DEF DropsTo
  <2>5. k + 1 \in Nat
    OBVIOUS
  <2>. QED BY Zenon, <2>4, <2>5
<1>. HIDE DEF S
<1>3. S \in SUBSET Nat
  BY Zenon DEF S
<1>4. S = Nat
  BY Zenon, <1>1, <1>2, <1>3, SetInduction
<1>. QED BY Zenon, <1>4 DEF S

(* k calls of dropOldest leave a sound slice, without the k oldest frames. *)
LEMMA DropsRing ==
  ASSUME NEW b, RingOK(b), NEW k \in 0..len(b)
  PROVE  RingOK(dropTimes(b, k)) /\ view(dropTimes(b, k)) = DropOldest(view(b), k)
<1>. DEFINE v == view(b)
            d == CHOOSE f : DropsTo(f, b, k)
            S == {i \in Nat : i <= k => RingOK(d[i]) /\ view(d[i]) = DropOldest(v, i)}
<1>1. v \in Seq(Entry) /\ len(b) \in Nat /\ Len(v) = len(b)
  BY Zenon, ViewFacts DEF RingOK
<1>2. k \in Nat /\ k <= len(b) /\ k <= k
  BY ONLY <1>1, k \in 0..len(b)
<1>3. dropTimes(b, k) = d[k]
  BY Zenon DEF dropTimes, DropsTo
<1>4. DropsTo(d, b, k)
  BY Zenon, <1>2, DropsExist
<1>. HIDE DEF d, v
<1>5. \A i \in 0..k : d[i] = IF i = 0 THEN b ELSE dropOldest(d[i - 1])
  BY Zenon, <1>4 DEF DropsTo
<1>6. 0 \in S
  <2>1. DropOldest(v, 0) = v
    BY <1>1 DEF DropOldest
  <2>2. 0 \in 0..k
    BY ONLY <1>2
  <2>3. d[0] = b
    BY Zenon, <1>5, <2>2
  <2>4. RingOK(d[0]) /\ view(d[0]) = DropOldest(v, 0)
    BY Zenon, <2>1, <2>3 DEF v
  <2>. QED BY Zenon, <2>4
<1>7. ASSUME NEW i \in S PROVE i + 1 \in S
  <2>. SUFFICES ASSUME i + 1 <= k PROVE RingOK(d[i + 1]) /\ view(d[i + 1]) = DropOldest(v, i + 1)
    BY <1>2
  <2>1. i \in Nat
    BY Zenon
  <2>2. i <= k /\ i + 1 \in 0..k /\ i + 1 # 0 /\ (i + 1) - 1 = i /\ i \in 0..Len(v) /\ i < Len(v) /\ i + 1 \in 0..Len(v)
    <3>. DEFINE n == Len(v)
    <3>1. n \in Nat /\ k \in Nat /\ k <= n
      BY Zenon, <1>1, <1>2
    <3>. HIDE DEF n
    <3>2. i <= k /\ i + 1 \in 0..k /\ i + 1 # 0 /\ (i + 1) - 1 = i /\ i \in 0..n /\ i < n /\ i + 1 \in 0..n
      BY ONLY <2>1, <3>1, i + 1 <= k
    <3>. QED BY Zenon, <3>2 DEF n
  <2>3. RingOK(d[i]) /\ view(d[i]) = DropOldest(v, i) /\ d[i + 1] = dropOldest(d[i])
    BY Zenon, <1>5, <2>2
  <2>4. DropOldest(v, i) \in Seq(Entry) /\ Len(DropOldest(v, i)) = Len(v) - i
    BY Zenon, <1>1, <2>2, DropOldestProps
  <2>5. len(d[i]) # 0
    <3>1. len(d[i]) = Len(v) - i
      BY Zenon, <2>3, <2>4, ViewFacts DEF RingOK
    <3>2. Len(v) \in Nat
      BY Zenon, <1>1
    <3>3. Len(v) - i # 0
      BY ONLY <2>1, <2>2, <3>2
    <3>. QED BY Zenon, <3>1, <3>3
  <2>6. RingOK(d[i + 1]) /\ view(d[i + 1]) = DropOldest(DropOldest(v, i), 1)
    BY Zenon, <2>3, <2>5, DropRing
  <2>7. DropOldest(DropOldest(v, i), 1) = DropOldest(v, i + 1)
    BY ONLY SMTT(30), <1>1, <2>1, <2>2 DEF DropOldest
  <2>. QED BY Zenon, <2>6, <2>7
<1>8. S \in SUBSET Nat
  BY Zenon
<1>9. k \in S
  <2>. HIDE DEF S
  <2>1. S = Nat
    BY Zenon, <1>6, <1>7, <1>8, SetInduction
  <2>. QED BY Zenon, <1>2, <2>1
<1>. QED BY Zenon, <1>2, <1>3, <1>9 DEF v

(* A loop of drops that ends with the slice empty, if not before, ends in  *)
(* a sound slice.                                                          *)
LEMMA LoopRing ==
  ASSUME NEW b, RingOK(b), NEW S \in SUBSET (0..len(b)), len(b) \in S
  PROVE  RingOK(dropTimes(b, Min(S))) /\ view(dropTimes(b, Min(S))) = DropOldest(view(b), Min(S))
<1>1. len(b) \in Nat
  BY Zenon, ViewFacts DEF RingOK
<1>2. S \in SUBSET Nat
  <2>1. 0..len(b) \in SUBSET Nat
    BY <1>1
  <2>. QED BY Zenon, <2>1
<1>3. Min(S) \in S
  BY Zenon, <1>2, MinOfNats
<1>4. Min(S) \in 0..len(b)
  BY Zenon, <1>3
<1>. QED BY Zenon, <1>4, DropsRing

(* The loop of push, which goes by the running count, evicts what the      *)
(* sequence evicts.                                                        *)
LEMMA EvictRing ==
  ASSUME NEW b, RingOK(b)
  PROVE  LET e == view(b)
         IN  /\ RingOK(evict(b))
             /\ view(evict(b)) = DropOldest(e, Min({k \in 0..Len(e) : k = Len(e) \/ Fits(DropOldest(e, k))}))
<1>. DEFINE e == view(b)
            R == {k \in 0..len(b) : ~overLimits(dropTimes(b, k))}
            S == {k \in 0..Len(e) : k = Len(e) \/ Fits(DropOldest(e, k))}
<1>1. e \in Seq(Entry) /\ len(b) \in Nat /\ Len(e) = len(b)
  BY Zenon, ViewFacts DEF RingOK
<1>2. len(b) \in 0..len(b)
  BY <1>1
<1>. HIDE DEF e
<1>3. ASSUME NEW k \in 0..len(b) PROVE ~overLimits(dropTimes(b, k)) <=> Fits(DropOldest(e, k))
  <2>. DEFINE t == dropTimes(b, k)
              w == DropOldest(e, k)
  <2>1. RingOK(t) /\ view(t) = w
    BY Zenon, DropsRing DEF e
  <2>2. len(t) = Len(w) /\ len(t) \in Nat /\ t.bytes = Bytes(w) /\ t.bytes \in Nat
    BY Zenon, <2>1, ViewFacts DEF RingOK
  <2>. HIDE DEF t, w
  <2>3. ~(Len(w) > MaxMsgs \/ Bytes(w) > MaxBytes) <=> (Len(w) <= MaxMsgs /\ Bytes(w) <= MaxBytes)
    <3>. DEFINE x == Len(w)
                y == Bytes(w)
    <3>1. x \in Nat /\ y \in Nat /\ MaxMsgs \in Nat /\ MaxBytes \in Nat
      BY Zenon, <2>2, BufferConstants
    <3>. HIDE DEF x, y
    <3>2. ~(x > MaxMsgs \/ y > MaxBytes) <=> (x <= MaxMsgs /\ y <= MaxBytes)
      BY ONLY <3>1
    <3>. QED BY Zenon, <3>2 DEF x, y
  <2>4. overLimits(t) <=> (Len(w) > MaxMsgs \/ Bytes(w) > MaxBytes)
    BY Zenon, <2>2 DEF overLimits
  <2>. QED BY Zenon, <2>3, <2>4 DEF Fits, t, w
<1>4. Fits(DropOldest(e, len(b)))
  <2>1. DropOldest(e, len(b)) = << >>
    BY <1>1 DEF DropOldest
  <2>. QED BY Zenon, <1>1, <2>1, FitsLess
<1>5. R = S
  BY Zenon, <1>1, <1>3, <1>4
<1>6. len(b) \in R
  BY Zenon, <1>2, <1>3, <1>4
<1>7. R \in SUBSET (0..len(b))
  BY Zenon
<1>8. evict(b) = dropTimes(b, Min(R))
  BY Zenon DEF evict
<1>. HIDE DEF R, S
<1>9. RingOK(evict(b)) /\ view(evict(b)) = DropOldest(e, Min(S))
  BY Zenon, <1>5, <1>6, <1>7, <1>8, LoopRing DEF e
<1>. QED BY Zenon, <1>9 DEF e, S

(* The loop of ackUpTo drops what the sequence drops.                      *)
LEMMA AckRing ==
  ASSUME NEW b, RingOK(b), NEW n \in Nat
  PROVE  RingOK(ringAckUpTo(b, n)) /\ view(ringAckUpTo(b, n)) = ackUpTo(view(b), n)
<1>. DEFINE v == view(b)
            R == {k \in 0..len(b) : ~oldestAcked(dropTimes(b, k), n)}
            S == {k \in 0..Len(v) : k = Len(v) \/ v[k + 1].seq > n}
<1>1. v \in Seq(Entry) /\ len(b) \in Nat /\ Len(v) = len(b)
  BY Zenon, ViewFacts DEF RingOK
<1>2. len(b) \in 0..len(b)
  BY <1>1
<1>. HIDE DEF v
<1>3. ASSUME NEW k \in 0..len(b) PROVE ~oldestAcked(dropTimes(b, k), n) <=> (k = Len(v) \/ v[k + 1].seq > n)
  <2>. DEFINE t == dropTimes(b, k)
              w == DropOldest(v, k)
  <2>1. RingOK(t) /\ view(t) = w
    BY Zenon, DropsRing DEF v
  <2>2. len(t) = Len(w) /\ len(t) \in Nat /\ \A i \in 1..len(t) : w[i] = t.entries[t.head + i]
    BY Zenon, <2>1, ViewFacts DEF RingOK
  <2>3. Len(w) = Len(v) - k /\ \A i \in 1..Len(v) - k : w[i] = v[k + i]
    BY Zenon, <1>1, DropOldestProps
  <2>4. k \in Nat /\ (k = Len(v) <=> ~(len(t) > 0)) /\ (len(t) > 0 => 1 \in 1..len(t) /\ 1 \in 1..Len(v) - k /\ k + 1 \in 1..Len(v))
    <3>. DEFINE l == len(b)
                x == len(t)
    <3>1. l \in Nat /\ x = l - k /\ Len(v) = l /\ k \in 0..l
      BY Zenon, <1>1, <2>2, <2>3
    <3>. HIDE DEF l, x
    <3>2. k \in Nat /\ (k = l <=> ~(x > 0)) /\ (x > 0 => 1 \in 1..x /\ 1 \in 1..l - k /\ k + 1 \in 1..l)
      BY ONLY <3>1
    <3>. QED BY Zenon, <3>1, <3>2 DEF x
  <2>. HIDE DEF t, w
  <2>5. ASSUME len(t) > 0 PROVE ~(t.entries[t.head + 1].seq <= n) <=> v[k + 1].seq > n
    <3>1. t.entries[t.head + 1] = v[k + 1]
      <4>1. 1 \in 1..len(t) /\ 1 \in 1..Len(v) - k
        BY Zenon, <2>4, <2>5
      <4>2. w[1] = t.entries[t.head + 1]
        BY Zenon, <2>2, <4>1
      <4>3. w[1] = v[k + 1]
        BY Zenon, <2>3, <4>1
      <4>. QED BY Zenon, <4>2, <4>3
    <3>. DEFINE s == v[k + 1].seq
    <3>2. s \in Nat
      <4>1. k + 1 \in 1..Len(v)
        BY Zenon, <2>4, <2>5
      <4>2. v[k + 1] \in Entry
        BY Zenon, <1>1, <4>1, ElementOfSeq
      <4>. QED BY Zenon, <4>2 DEF Entry
    <3>. HIDE DEF s
    <3>3. ~(s <= n) <=> s > n
      BY ONLY <3>2, n \in Nat
    <3>. QED BY Zenon, <3>1, <3>3 DEF s
  <2>6. oldestAcked(t, n) <=> (len(t) > 0 /\ t.entries[t.head + 1].seq <= n)
    BY Zenon DEF oldestAcked
  <2>. QED BY Zenon, <2>4, <2>5, <2>6 DEF t
<1>4. R = S
  BY Zenon, <1>1, <1>3
<1>5. len(b) \in R
  BY Zenon, <1>1, <1>2, <1>3
<1>6. R \in SUBSET (0..len(b))
  BY Zenon
<1>7. ringAckUpTo(b, n) = dropTimes(b, Min(R)) /\ ackUpTo(v, n) = DropOldest(v, Min(S))
  BY Zenon DEF ringAckUpTo, ackUpTo
<1>. HIDE DEF R, S
<1>. QED BY Zenon, <1>4, <1>5, <1>6, <1>7, LoopRing DEF v

(* One element more at the end of a sequence, and of its suffixes.         *)
LEMMA SuffixAppend ==
  ASSUME NEW S, NEW q \in Seq(S), NEW x \in S, NEW j \in Nat, j <= Len(q)
  PROVE  SubSeq(Append(q, x), j + 1, Len(Append(q, x))) = Append(SubSeq(q, j + 1, Len(q)), x)
<1>. DEFINE n == Len(q)
            p == Append(q, x)
            l == SubSeq(p, j + 1, Len(p))
            m == SubSeq(q, j + 1, n)
            r == Append(m, x)
<1>1. n \in Nat /\ p \in Seq(S) /\ Len(p) = n + 1 /\ p[n + 1] = x /\ \A i \in 1..n : p[i] = q[i]
  OBVIOUS
<1>2. j \in 0..n /\ j \in 0..n + 1 /\ (n + 1) - j = (n - j) + 1 /\ n - j \in Nat
  BY ONLY <1>1, j \in Nat, j <= n
<1>3. m \in Seq(S) /\ Len(m) = n - j /\ \A i \in 1..n - j : m[i] = q[j + i]
  BY Zenon, <1>2, SuffixFacts
<1>. HIDE DEF p, m, n
<1>4. l \in Seq(S) /\ Len(l) = (n - j) + 1 /\ \A i \in 1..(n - j) + 1 : l[i] = p[j + i]
  <2>1. j \in 0..Len(p) /\ Len(p) - j = (n - j) + 1
    BY Zenon, <1>1, <1>2
  <2>2. l \in Seq(S) /\ Len(l) = Len(p) - j /\ \A i \in 1..Len(p) - j : l[i] = p[j + i]
    BY Zenon, <1>1, <2>1, SuffixFacts
  <2>. QED BY Zenon, <2>1, <2>2
<1>5. r \in Seq(S) /\ Len(r) = (n - j) + 1 /\ r[(n - j) + 1] = x /\ \A i \in 1..n - j : r[i] = m[i]
  BY ONLY <1>3, <1>2, x \in S
<1>. HIDE DEF l, r
<1>6. ASSUME NEW i \in 1..(n - j) + 1 PROVE l[i] = r[i]
  <2>1. CASE i = (n - j) + 1
    <3>1. j + i = n + 1
      BY ONLY <1>1, <2>1, j \in Nat
    <3>. QED BY Zenon, <1>1, <1>4, <1>5, <2>1, <3>1
  <2>2. CASE i # (n - j) + 1
    <3>1. i \in 1..n - j /\ j + i \in 1..n
      BY ONLY <1>1, <1>2, <2>2, j \in Nat, i \in 1..(n - j) + 1
    <3>. QED BY Zenon, <1>1, <1>3, <1>4, <1>5, <3>1
  <2>. QED BY Zenon, <2>1, <2>2
<1>7. l = r
  BY Zenon, <1>4, <1>5, <1>6, SeqEqual
<1>. QED BY Zenon, <1>7 DEF l, r, m, n, p

(* The new buffer, and the one after a frame larger than the byte limit.   *)
LEMMA EmptyRing == RingOK(empty) /\ view(empty) = << >>
<1>. DEFINE z == << >>
<1>1. z \in Seq(Slot) /\ Len(z) = 0 /\ SubSeq(z, 0 + 1, 0) = << >> /\ 0 \in Nat /\ 0 <= 0
  OBVIOUS
<1>2. (\A i \in 1..0 : FALSE) /\ (\A i \in 0 + 1..0 : FALSE) /\ 0 < Compact
  BY RingConstants
<1>3. empty.entries = z /\ empty.head = 0 /\ empty.bytes = 0 /\ empty \in [entries : Seq(Slot), head : Nat, bytes : Nat]
  BY Zenon, <1>1 DEF empty
<1>. HIDE DEF z
<1>4. view(empty) = << >>
  BY Zenon, <1>1, <1>3 DEF view
<1>5. Bytes(view(empty)) = 0
  BY Zenon, <1>4, BytesEmpty
<1>. QED BY Zenon, <1>1, <1>2, <1>3, <1>4, <1>5 DEF RingOK

(* push on the slice is push on the sequence.                              *)
LEMMA PushRing ==
  ASSUME NEW b, RingOK(b), NEW s \in Nat, NEW d \in Data
  PROVE  RingOK(ringPush(b, s, d)) /\ view(ringPush(b, s, d)) = push(view(b), s, d)
<1>1. CASE Size[d] > MaxBytes
  <2>1. ringPush(b, s, d) = empty /\ push(view(b), s, d) = << >>
    BY Zenon, <1>1 DEF ringPush, push
  <2>. QED BY Zenon, <2>1, EmptyRing
<1>2. CASE ~(Size[d] > MaxBytes)
  <2>. DEFINE x == [seq |-> s, data |-> d]
              c == [entries |-> Append(b.entries, x), head |-> b.head, bytes |-> b.bytes + Size[d]]
              q == b.entries
              h == b.head
              n == Len(q)
              p == Append(q, x)
              y == b.bytes + Size[d]
              v == view(b)
  <2>1. /\ b = [entries |-> q, head |-> h, bytes |-> b.bytes] /\ q \in Seq(Slot) /\ h \in Nat /\ n \in Nat
        /\ b.bytes \in Nat /\ h <= n /\ v \in Seq(Entry) /\ len(b) = n - h
    <3>1. /\ b = [entries |-> q, head |-> h, bytes |-> b.bytes] /\ q \in Seq(Slot) /\ h \in Nat
          /\ b.bytes \in Nat /\ h <= n
      BY Zenon DEF RingOK
    <3>2. n \in Nat
      BY Zenon, <3>1, LenProperties
    <3>3. v \in Seq(Entry)
      BY Zenon, ViewFacts DEF RingOK
    <3>. QED BY Zenon, <3>1, <3>2, <3>3 DEF len
  <2>2. x \in Entry /\ x \in Slot
    BY Zenon DEF Entry, Slot
  <2>3. c = [entries |-> p, head |-> h, bytes |-> y]
    BY Zenon
  <2>4. v = SubSeq(q, h + 1, n) /\ view(c) = SubSeq(p, h + 1, Len(p))
    <3>1. v = SubSeq(q, h + 1, n)
      BY Zenon DEF view
    <3>2. c.entries = p /\ c.head = h
      BY Zenon, <2>3
    <3>. HIDE DEF c
    <3>. QED BY Zenon, <3>1, <3>2 DEF view
  <2>5. Size[d] \in Nat /\ x.data = d
    BY Zenon, BufferConstants
  <2>6. /\ \A i \in 1..h : q[i] = Cleared
        /\ \A i \in h + 1..n : q[i] \in Entry
        /\ b.bytes = Bytes(v)
        /\ h < Compact \/ h * 2 < n
    BY Zenon DEF RingOK
  <2>. HIDE DEF x, c, q, h, n, p, y, v
  <2>7. /\ p \in Seq(Slot) /\ Len(p) = n + 1 /\ p[n + 1] = x
        /\ \A i \in 1..n : p[i] = q[i]
    BY ONLY <2>1, <2>2 DEF p, n
  <2>8. SubSeq(p, h + 1, Len(p)) = Append(SubSeq(q, h + 1, n), x)
    BY Zenon, <2>1, <2>2, SuffixAppend DEF p, n
  <2>9. view(c) = Append(v, x)
    BY Zenon, <2>4, <2>8
  <2>10. Bytes(view(c)) = y /\ y \in Nat
    <3>1. Bytes(Append(v, x)) = Bytes(v) + Size[d]
      BY Zenon, <2>1, <2>2, <2>5, BytesAppend
    <3>2. y = Bytes(v) + Size[d]
      BY Zenon, <2>6 DEF y
    <3>3. y \in Nat
      BY ONLY <2>1, <2>5 DEF y
    <3>. QED BY Zenon, <2>9, <3>1, <3>2, <3>3
  <2>11. RingOK(c)
    <3>1. /\ h <= n + 1 /\ h # n + 1 /\ (\A i \in 1..h : i \in 1..n)
          /\ (h < Compact \/ h * 2 < n + 1)
          /\ \A i \in h + 1..n + 1 : i = n + 1 \/ (i \in 1..n /\ i \in h + 1..n)
      <4>1. h \in Nat /\ n \in Nat /\ h <= n /\ Compact \in Nat /\ (h < Compact \/ h * 2 < n)
        BY Zenon, <2>1, <2>6, RingConstants
      <4>. QED BY ONLY <4>1
    <3>2. \A i \in 1..h : p[i] = Cleared
      BY Zenon, <2>6, <2>7, <3>1
    <3>3. \A i \in h + 1..n + 1 : p[i] \in Entry
      <4>1. SUFFICES ASSUME NEW i \in h + 1..n + 1 PROVE p[i] \in Entry
        BY Zenon
      <4>2. CASE i = n + 1
        BY Zenon, <2>2, <2>7, <4>2
      <4>3. CASE i \in 1..n /\ i \in h + 1..n
        BY Zenon, <2>6, <2>7, <4>3
      <4>. QED BY Zenon, <3>1, <4>2, <4>3
    <3>4. c.entries = p /\ c.head = h /\ c.bytes = y /\ c \in [entries : Seq(Slot), head : Nat, bytes : Nat]
      BY Zenon, <2>1, <2>3, <2>7, <2>10
    <3>. QED BY Zenon, <2>7, <2>10, <3>1, <3>2, <3>3, <3>4 DEF RingOK
  <2>12. ringPush(b, s, d) = evict(c)
    BY Zenon, <1>2 DEF ringPush, c, x
  <2>13. push(v, s, d) = DropOldest(view(c), Min({k \in 0..Len(view(c)) : k = Len(view(c)) \/ Fits(DropOldest(view(c), k))}))
    BY Zenon, <1>2, <2>9 DEF push, x
  <2>. QED BY Zenon, <2>11, <2>12, <2>13, EvictRing DEF v
<1>. QED BY Zenon, <1>1, <1>2

(* The inductive invariant: the slice is sound between two calls.          *)
RingInv == RingOK(ring) /\ nextSeq \in Nat

(* The buffer of a new session is sound.                                   *)
LEMMA RingInvInit == ringInit => RingInv
<1>1. 1 \in Nat
  OBVIOUS
<1>. QED BY Zenon, <1>1, EmptyRing DEF ringInit, RingInv

(* A step keeps the slice sound and is the step of the sequence.           *)
LEMMA RingStep ==
  RingInv /\ [ringNext]_ringVars =>
    /\ RingInv'
    /\ \/ \E d \in Data : view(ring)' = push(view(ring), nextSeq, d) /\ nextSeq' = nextSeq + 1
       \/ \E n \in 0..nextSeq - 1 : view(ring)' = ackUpTo(view(ring), n) /\ nextSeq' = nextSeq
       \/ UNCHANGED ringVars
<1>. SUFFICES ASSUME RingInv, [ringNext]_ringVars
     PROVE  /\ RingInv'
            /\ \/ \E d \in Data : view(ring)' = push(view(ring), nextSeq, d) /\ nextSeq' = nextSeq + 1
               \/ \E n \in 0..nextSeq - 1 : view(ring)' = ackUpTo(view(ring), n) /\ nextSeq' = nextSeq
               \/ UNCHANGED ringVars
  BY Zenon
<1>0. RingOK(ring) /\ nextSeq \in Nat
  BY Zenon DEF RingInv
<1>1. ASSUME NEW d \in Data, Push(d)
      PROVE  RingInv' /\ view(ring)' = push(view(ring), nextSeq, d) /\ nextSeq' = nextSeq + 1
  <2>1. ring' = ringPush(ring, nextSeq, d) /\ nextSeq' = nextSeq + 1
    BY Zenon, <1>1 DEF Push
  <2>2. RingOK(ring') /\ view(ring') = push(view(ring), nextSeq, d)
    BY Zenon, <1>0, <2>1, PushRing
  <2>3. nextSeq' \in Nat
    BY ONLY <1>0, <2>1
  <2>. QED BY Zenon, <2>1, <2>2, <2>3 DEF RingInv, RingOK, view, len
<1>2. ASSUME NEW n \in 0..nextSeq - 1, AckUpTo(n)
      PROVE  RingInv' /\ view(ring)' = ackUpTo(view(ring), n) /\ nextSeq' = nextSeq
  <2>1. ring' = ringAckUpTo(ring, n) /\ nextSeq' = nextSeq
    BY Zenon, <1>2 DEF AckUpTo
  <2>2. n \in Nat
    BY ONLY <1>0, n \in 0..nextSeq - 1
  <2>3. RingOK(ring') /\ view(ring') = ackUpTo(view(ring), n)
    BY Zenon, <1>0, <2>1, <2>2, AckRing
  <2>. QED BY Zenon, <1>0, <2>1, <2>3 DEF RingInv, RingOK, view, len
<1>3. ASSUME UNCHANGED ringVars PROVE RingInv'
  BY Zenon, <1>0, <1>3 DEF RingInv, RingOK, view, len, ringVars
<1>. QED BY Zenon, <1>1, <1>2, <1>3 DEF ringNext

(* However many frames were pushed, evicted, acknowledged and compacted,   *)
(* the dropped elements of the slice are cleared and no more than the live *)
(* ones, or fewer than the compaction threshold.                           *)
THEOREM SlackIsBounded == ringSpec => []SlackBounded
<1>1. RingInv => SlackBounded
  BY Zenon DEF RingInv, RingOK, SlackBounded
<1>2. RingInv /\ [ringNext]_ringVars => RingInv'
  BY Zenon, RingStep
<1>. QED BY <1>1, <1>2, RingInvInit, PTL DEF ringSpec

(* The slice with head, lazy compaction and running byte count behaves as  *)
(* the sequence that push and ackUpTo of ReplayBuffer work on, for every   *)
(* limit, payload size and compaction threshold.                           *)
THEOREM RingImplementsBuffer == ringSpec => RingIsBuffer
<1>1. RingInv /\ [ringNext]_ringVars => RingInv'
  BY Zenon, RingStep
<1>. DEFINE A == \/ \E d \in Data : view(ring)' = push(view(ring), nextSeq, d) /\ nextSeq' = nextSeq + 1
                 \/ \E n \in 0..nextSeq - 1 : view(ring)' = ackUpTo(view(ring), n) /\ nextSeq' = nextSeq
<1>2. RingInv /\ [ringNext]_ringVars => [A]_ringVars
  BY Zenon, RingStep
<1>3. ringSpec => [][A]_ringVars
  <2>. HIDE DEF A
  <2>. QED BY <1>1, <1>2, RingInvInit, PTL DEF ringSpec
<1>. QED BY Zenon, <1>3 DEF RingIsBuffer
=============================================================================
