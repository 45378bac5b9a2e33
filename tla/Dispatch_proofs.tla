--------------------------- MODULE Dispatch_proofs --------------------------
(***************************************************************************)
(* Theorems about Dispatch for every set of keys and connections and every *)
(* size of the window and of its compaction threshold: the window is the   *)
(* last MaxKeys accepted keys, a key is handled once per window, and a key *)
(* in the window belongs to an event that passed the middleware.           *)
(*                                                                         *)
(* The window and OncePerWindow are one invariant: evicting the oldest     *)
(* element of order takes out one key of set and no other only because no  *)
(* key occurs twice in the window, and no key occurs twice only because    *)
(* set holds all of the window.                                            *)
(***************************************************************************)
EXTENDS Dispatch, TLAPS

WinType == [set : SUBSET Keys, order : Seq(Keys \cup {NoKey}), head : Nat]

Fates == {"pending", "called", "none"}

TypeOK ==
  /\ win \in WinType
  /\ win.head <= Len(win.order)
  /\ pc \in [Conns -> {"read", "middleware", "claim", "handler"}]
  /\ key \in [Conns -> Keys \cup {NoKey}]
  /\ \A c \in Conns : pc[c] # "read" => key[c] \in Keys
  /\ accepted \in Seq(Keys) /\ fate \in Seq(Fates) /\ Len(fate) = Len(accepted)

\* The number of elements of order that are not evicted.
span(w) == Len(w.order) - w.head

\* From head on, order is the end of accepted, MaxKeys long once that many keys
\* were accepted.
OrderIsSuffix ==
  /\ span(win) <= MaxKeys /\ span(win) <= Len(accepted)
  /\ span(win) < MaxKeys => span(win) = Len(accepted)
  /\ \A i \in 1..span(win) : win.order[win.head + i] = accepted[Len(accepted) - span(win) + i]

SetIsWindow ==
  \A k \in Keys : k \in win.set <=> \E i \in DOMAIN accepted : i > Len(accepted) - MaxKeys /\ accepted[i] = k

WindowInv == OrderIsSuffix /\ SetIsWindow /\ OncePerWindow

IInv == TypeOK /\ WindowInv /\ BurnedIsHandled
-----------------------------------------------------------------------------
(* The end of a sequence, as compaction copies it.                         *)
LEMMA SuffixProps ==
  ASSUME NEW S, NEW q \in Seq(S), NEW j \in 0..Len(q)
  PROVE  /\ SubSeq(q, j + 1, Len(q)) \in Seq(S) /\ Len(SubSeq(q, j + 1, Len(q))) = Len(q) - j
         /\ \A i \in 1..(Len(q) - j) : SubSeq(q, j + 1, Len(q))[0 + i] = q[j + i]
<1>1. SubSeq(q, j + 1, Len(q)) = [i \in 1..(Len(q) - j) |-> q[j + i]]
  OBVIOUS
<1>2. Len(q) - j \in Nat /\ \A i \in 1..(Len(q) - j) : q[j + i] \in S /\ 0 + i = i
  OBVIOUS
<1>. QED BY <1>1, <1>2

(* Two sequences that end in the same elements have the same end.          *)
LEMMA SameSuffix ==
  ASSUME NEW S, NEW q \in Seq(S), NEW j \in 0..Len(q), NEW T, NEW p \in Seq(T), NEW b \in 0..Len(p),
         Len(p) - b = Len(q) - j, \A i \in 1..(Len(q) - j) : p[b + i] = q[j + i]
  PROVE  SubSeq(p, b + 1, Len(p)) = SubSeq(q, j + 1, Len(q))
<1>1. SubSeq(q, j + 1, Len(q)) = [i \in 1..(Len(q) - j) |-> q[j + i]]
  OBVIOUS
<1>2. SubSeq(p, b + 1, Len(p)) = [i \in 1..(Len(p) - b) |-> p[b + i]]
  OBVIOUS
<1>. QED BY Zenon, <1>1, <1>2

(* The end of a sequence is unchanged when an element before it is cleared. *)
LEMMA ClearProps ==
  ASSUME NEW S, NEW q \in Seq(S), NEW h \in 1..Len(q), NEW e \in S
  PROVE  /\ [q EXCEPT ![h] = e] \in Seq(S) /\ Len([q EXCEPT ![h] = e]) = Len(q)
         /\ \A i \in 1..(Len(q) - h) : [q EXCEPT ![h] = e][h + i] = q[h + i]
OBVIOUS

(* A sequence with an element appended.                                    *)
LEMMA PushProps ==
  ASSUME NEW S, NEW q \in Seq(S), NEW e \in S
  PROVE  /\ Append(q, e) \in Seq(S) /\ Len(Append(q, e)) = Len(q) + 1
         /\ \A i \in 1..Len(q) : Append(q, e)[i] = q[i]
OBVIOUS

(* The part of order that is not evicted has a length.                     *)
LEMMA SpanType ==
  ASSUME NEW w \in WinType, w.head <= Len(w.order)
  PROVE  /\ w.set \in SUBSET Keys /\ w.order \in Seq(Keys \cup {NoKey}) /\ w.head \in Nat
         /\ Len(w.order) \in Nat /\ span(w) \in Nat /\ span(w) = Len(w.order) - w.head
<1>1. w.set \in SUBSET Keys /\ w.order \in Seq(Keys \cup {NoKey}) /\ w.head \in Nat
  BY Zenon DEF WinType
<1>2. Len(w.order) \in Nat
  BY <1>1
<1>3. span(w) = Len(w.order) - w.head
  BY Zenon DEF span
<1>4. span(w) \in Nat
  BY <1>1, <1>2, <1>3
<1>. QED BY Zenon, <1>1, <1>2, <1>3, <1>4

(* claim with room in the window: order gets the key at its end.           *)
LEMMA ClaimGrows ==
  ASSUME NEW w \in WinType, w.head <= Len(w.order), span(w) < MaxKeys, NEW k \in Keys
  PROVE  claim(w, k) = [set |-> w.set \cup {k}, order |-> Append(w.order, k), head |-> w.head]
<1>1. Len(w.order) \in Nat /\ Len(Append(w.order, k)) = Len(w.order) + 1 /\ w.head \in Nat
  BY DEF WinType
<1>2. Len(Append(w.order, k)) - w.head <= MaxKeys
  BY <1>1, DispatchConstants DEF span
<1>. QED BY Zenon, <1>2 DEF claim

(* claim with a full window: whether or not claim compacts order, the      *)
(* elements from head on gain the key and lose the first one.              *)
LEMMA ClaimEvicts ==
  ASSUME NEW w \in WinType, w.head <= Len(w.order), span(w) = MaxKeys, NEW k \in Keys
  PROVE  \E o \in Seq(Keys \cup {NoKey}), h \in Nat :
           /\ claim(w, k) = [set |-> (w.set \cup {k}) \ {w.order[w.head + 1]}, order |-> o, head |-> h]
           /\ Len(o) - h = MaxKeys
           /\ \A i \in 1..MaxKeys : o[h + i] = Append(w.order, k)[w.head + 1 + i]
<1>. DEFINE q == Append(w.order, k)
            h == w.head + 1
            set == (w.set \cup {k}) \ {w.order[h]}
<1>1. /\ q \in Seq(Keys \cup {NoKey}) /\ Len(q) = Len(w.order) + 1 /\ Len(w.order) \in Nat /\ w.head \in Nat
      /\ \A i \in 1..Len(w.order) : q[i] = w.order[i]
  BY DEF WinType
<1>2. h \in 1..Len(q) /\ Len(q) - h = MaxKeys /\ ~(Len(q) - w.head <= MaxKeys) /\ q[h] = w.order[h]
  <2>1. Len(w.order) - w.head = MaxKeys
    BY Zenon DEF span
  <2>2. h \in 1..Len(w.order)
    BY <1>1, <2>1, DispatchConstants
  <2>. HIDE DEF q
  <2>3. Len(q) - h = MaxKeys /\ ~(Len(q) - w.head <= MaxKeys) /\ h \in 1..Len(q)
    BY <1>1, <2>1, <2>2, DispatchConstants
  <2>. QED BY Zenon, <1>1, <2>2, <2>3
<1>. HIDE DEF q, h
<1>3. /\ SubSeq(q, h + 1, Len(q)) \in Seq(Keys \cup {NoKey}) /\ Len(SubSeq(q, h + 1, Len(q))) = Len(q) - h
      /\ \A i \in 1..(Len(q) - h) : SubSeq(q, h + 1, Len(q))[0 + i] = q[h + i]
      /\ [q EXCEPT ![h] = NoKey] \in Seq(Keys \cup {NoKey}) /\ Len([q EXCEPT ![h] = NoKey]) = Len(q)
      /\ \A i \in 1..(Len(q) - h) : [q EXCEPT ![h] = NoKey][h + i] = q[h + i]
  <2>1. NoKey \in Keys \cup {NoKey} /\ h \in 0..Len(q)
    BY <1>1, <1>2
  <2>2. /\ SubSeq(q, h + 1, Len(q)) \in Seq(Keys \cup {NoKey}) /\ Len(SubSeq(q, h + 1, Len(q))) = Len(q) - h
        /\ \A i \in 1..(Len(q) - h) : SubSeq(q, h + 1, Len(q))[0 + i] = q[h + i]
    BY Zenon, <1>1, <2>1, SuffixProps
  <2>3. /\ [q EXCEPT ![h] = NoKey] \in Seq(Keys \cup {NoKey}) /\ Len([q EXCEPT ![h] = NoKey]) = Len(q)
        /\ \A i \in 1..(Len(q) - h) : [q EXCEPT ![h] = NoKey][h + i] = q[h + i]
    <3>. HIDE DispatchConstants DEF set
    <3>. QED BY SMT, <1>1, <1>2, <2>1, ClearProps
  <2>. QED BY Zenon, <2>2, <2>3
<1>4. CASE h >= Compact /\ h * 2 >= Len(q)
  <2>1. claim(w, k) = [set |-> set, order |-> SubSeq(q, h + 1, Len(q)), head |-> 0]
    BY Zenon, <1>2, <1>4 DEF claim, q, h
  <2>2. Len(SubSeq(q, h + 1, Len(q))) - 0 = MaxKeys
    BY <1>2, <1>3, DispatchConstants
  <2>3. 0 \in Nat
    OBVIOUS
  <2>4. \A i \in 1..MaxKeys : SubSeq(q, h + 1, Len(q))[0 + i] = Append(w.order, k)[w.head + 1 + i]
    BY Zenon, <1>2, <1>3 DEF q, h
  <2>. HIDE DEF set
  <2>. QED BY Zenon, <1>3, <2>1, <2>2, <2>3, <2>4 DEF set, h
<1>5. CASE ~(h >= Compact /\ h * 2 >= Len(q))
  <2>1. claim(w, k) = [set |-> set, order |-> [q EXCEPT ![h] = NoKey], head |-> h]
    BY Zenon, <1>2, <1>5 DEF claim, q, h
  <2>2. h \in Nat
    BY <1>1 DEF h
  <2>. QED BY Zenon, <1>2, <1>3, <2>1, <2>2 DEF q, h
<1>. QED BY Zenon, <1>4, <1>5

(* The window has no key and the handlers have not run.                    *)
LEMMA InitInv == Init => IInv
<1>. SUFFICES ASSUME Init PROVE IInv
  OBVIOUS
<1>. USE DispatchConstants DEF Init
<1>1. TypeOK
  BY DEF TypeOK, WinType
<1>2. OrderIsSuffix /\ SetIsWindow /\ OncePerWindow
  BY DEF OrderIsSuffix, SetIsWindow, OncePerWindow, span
<1>3. BurnedIsHandled
  BY DEF BurnedIsHandled
<1>. QED BY <1>1, <1>2, <1>3 DEF IInv, WindowInv

(* The key joins the accepted keys, none of the window being that key.     *)
LEMMA AcceptKey ==
  ASSUME IInv, NEW c \in Conns, Claim(c)
  PROVE  /\ key[c] \in Keys /\ key[c] \notin win.set /\ win' = claim(win, key[c])
         /\ Len(accepted) \in Nat /\ accepted' \in Seq(Keys) /\ Len(accepted') = Len(accepted) + 1
         /\ accepted'[Len(accepted) + 1] = key[c]
         /\ \A i \in 1..Len(accepted) : accepted'[i] = accepted[i]
         /\ \A i \in 1..Len(accepted) : i > Len(accepted) - MaxKeys => accepted[i] \in win.set
         /\ OncePerWindow'
<1>1. /\ pc[c] = "claim" /\ key[c] \notin win.set /\ win' = claim(win, key[c])
      /\ accepted' = Append(accepted, key[c])
  BY Zenon DEF Claim
<1>2. key[c] \in Keys /\ accepted \in Seq(Keys)
  BY <1>1 DEF IInv, TypeOK
<1>3. /\ Len(accepted) \in Nat /\ accepted' \in Seq(Keys) /\ Len(accepted') = Len(accepted) + 1
      /\ accepted'[Len(accepted) + 1] = key[c]
      /\ \A i \in 1..Len(accepted) : accepted'[i] = accepted[i]
      /\ DOMAIN accepted = 1..Len(accepted) /\ DOMAIN accepted' = 1..(Len(accepted) + 1)
  BY <1>1, <1>2
<1>4. \A i \in 1..Len(accepted) : i > Len(accepted) - MaxKeys => accepted[i] \in win.set
  <2>1. \A i \in 1..Len(accepted) : accepted[i] \in Keys
    BY <1>2
  <2>. QED BY Zenon, <1>3, <2>1 DEF IInv, WindowInv, SetIsWindow
<1>5. OncePerWindow'
  <2>. SUFFICES ASSUME NEW i \in DOMAIN accepted', NEW j \in DOMAIN accepted', i < j, accepted'[i] = accepted'[j]
                PROVE  j - i > MaxKeys
    BY Zenon DEF OncePerWindow
  <2>1. i \in 1..Len(accepted) /\ (j \in 1..Len(accepted) \/ j = Len(accepted) + 1)
    BY <1>3
  <2>2. CASE j \in 1..Len(accepted)
    BY Zenon, <1>3, <2>1, <2>2 DEF IInv, WindowInv, OncePerWindow
  <2>3. CASE j = Len(accepted) + 1
    <3>1. ~(i > Len(accepted) - MaxKeys)
      BY Zenon, <1>1, <1>3, <1>4, <2>1, <2>3
    <3>. QED BY <1>3, <2>1, <2>3, <3>1, DispatchConstants
  <2>. QED BY Zenon, <2>1, <2>2, <2>3
<1>. QED BY Zenon, <1>1, <1>2, <1>3, <1>4, <1>5

(* The window after Claim: it grows, or it loses the oldest key.           *)
LEMMA ClaimWindow ==
  ASSUME IInv, NEW c \in Conns, Claim(c)
  PROVE  win' \in WinType /\ win'.head <= Len(win'.order) /\ OrderIsSuffix' /\ SetIsWindow'
<1>. DEFINE n == Len(accepted)
            k == key[c]
            q == Append(win.order, k)
            m == Len(win.order)
            b == win.head
<1>1. /\ k \in Keys /\ k \notin win.set /\ win' = claim(win, k)
      /\ n \in Nat /\ Len(accepted') = n + 1 /\ accepted'[n + 1] = k
      /\ \A i \in 1..n : accepted'[i] = accepted[i]
      /\ \A i \in 1..n : i > n - MaxKeys => accepted[i] \in win.set
      /\ DOMAIN accepted = 1..n /\ DOMAIN accepted' = 1..(n + 1)
  <2>1. accepted \in Seq(Keys) /\ accepted' \in Seq(Keys)
    BY Zenon, AcceptKey DEF IInv, TypeOK
  <2>. QED BY AcceptKey, <2>1
<1>2. /\ win \in WinType /\ m \in Nat /\ b \in Nat /\ b <= m /\ span(win) = m - b
      /\ win.order \in Seq(Keys \cup {NoKey}) /\ win.set \in SUBSET Keys
  BY Zenon, SpanType DEF IInv, TypeOK
<1>3. q \in Seq(Keys \cup {NoKey}) /\ Len(q) = m + 1 /\ q[m + 1] = k /\ \A i \in 1..m : q[i] = win.order[i]
  BY <1>1, <1>2
<1>4. /\ m - b <= MaxKeys /\ m - b <= n /\ (m - b < MaxKeys => m - b = n)
      /\ \A i \in 1..(m - b) : win.order[b + i] = accepted[n - (m - b) + i]
  BY Zenon, <1>2 DEF IInv, WindowInv, OrderIsSuffix
<1>. HIDE DEF n, q, m, b, k
<1>5. \A i \in 1..(m - b + 1) : q[b + i] = accepted'[n - (m - b) + i]
  <2>. SUFFICES ASSUME NEW i \in 1..(m - b + 1) PROVE q[b + i] = accepted'[n - (m - b) + i]
    OBVIOUS
  <2>1. CASE i = m - b + 1
    <3>1. b + i = m + 1 /\ n - (m - b) + i = n + 1
      BY <1>1, <1>2, <2>1
    <3>. QED BY Zenon, <1>1, <1>3, <3>1
  <2>2. CASE i # m - b + 1
    <3>1. i \in 1..(m - b) /\ b + i \in 1..m /\ n - (m - b) + i \in 1..n
      BY <1>1, <1>2, <1>4, <2>2
    <3>. QED BY Zenon, <1>1, <1>3, <1>4, <3>1
  <2>. QED BY Zenon, <2>1, <2>2
<1>6. CASE m - b < MaxKeys
  <2>1. win' = [set |-> win.set \cup {k}, order |-> q, head |-> b]
    BY Zenon, <1>1, <1>2, <1>6, ClaimGrows DEF m, b, q
  <2>2. win'.set = win.set \cup {k} /\ win'.order = q /\ win'.head = b
    BY Zenon, <2>1
  <2>3. span(win)' = m - b + 1 /\ Len(accepted') - (m - b + 1) = n - (m - b)
    <3>1. span(win)' = Len(q) - b
      BY Zenon, <2>2 DEF span
    <3>. QED BY <1>1, <1>2, <1>3, <3>1
  <2>4. win' \in WinType /\ win'.head <= Len(win'.order)
    BY <1>1, <1>2, <1>3, <2>1 DEF WinType
  <2>5. OrderIsSuffix'
    <3>1. m - b + 1 <= MaxKeys /\ m - b + 1 <= n + 1 /\ (m - b + 1 < MaxKeys => m - b + 1 = n + 1)
      BY <1>1, <1>2, <1>4, <1>6, DispatchConstants
    <3>2. \A i \in 1..span(win)' : win'.order[win'.head + i] = accepted'[Len(accepted') - span(win)' + i]
      BY Zenon, <1>5, <2>2, <2>3
    <3>3. span(win)' <= MaxKeys /\ span(win)' <= Len(accepted') /\ (span(win)' < MaxKeys => span(win)' = Len(accepted'))
      BY Zenon, <1>1, <2>3, <3>1
    <3>. QED BY Zenon, <3>2, <3>3 DEF OrderIsSuffix
  <2>6. SetIsWindow'
    <3>1. n < MaxKeys /\ \A i \in 1..(n + 1) : i > (n + 1) - MaxKeys /\ (i \in 1..n \/ i = n + 1)
      BY <1>1, <1>2, <1>4, <1>6, DispatchConstants
    <3>2. ASSUME NEW x \in Keys, x \in win'.set
          PROVE  \E i \in DOMAIN accepted' : i > Len(accepted') - MaxKeys /\ accepted'[i] = x
      <4>1. CASE x = k
        <5>1. n + 1 \in 1..(n + 1)
          BY <1>1
        <5>. QED BY Zenon, <1>1, <3>1, <4>1, <5>1
      <4>2. CASE x # k
        <5>1. PICK i \in 1..n : accepted[i] = x
          BY Zenon, <1>1, <2>2, <3>2, <4>2 DEF IInv, WindowInv, SetIsWindow
        <5>2. i \in 1..(n + 1)
          BY <1>1
        <5>. QED BY Zenon, <1>1, <3>1, <5>1, <5>2
      <4>. QED BY Zenon, <4>1, <4>2
    <3>3. ASSUME NEW i \in DOMAIN accepted' PROVE accepted'[i] \in win'.set
      <4>1. \A j \in 1..n : j > n - MaxKeys
        BY <1>1, <3>1, DispatchConstants
      <4>. QED BY Zenon, <1>1, <2>2, <3>1, <4>1
    <3>. QED BY Zenon, <3>2, <3>3 DEF SetIsWindow
  <2>. QED BY Zenon, <2>4, <2>5, <2>6
<1>7. CASE m - b = MaxKeys
  <2>. DEFINE old == accepted[n - MaxKeys + 1]
  <2>1. PICK o \in Seq(Keys \cup {NoKey}), h \in Nat :
           /\ win' = [set |-> (win.set \cup {k}) \ {win.order[b + 1]}, order |-> o, head |-> h]
           /\ Len(o) - h = MaxKeys
           /\ \A i \in 1..MaxKeys : o[h + i] = q[b + 1 + i]
    <3>1. win.head <= Len(win.order) /\ span(win) = MaxKeys
      BY Zenon, <1>2, <1>7 DEF m, b
    <3>2. \E o \in Seq(Keys \cup {NoKey}), h \in Nat :
             /\ claim(win, k) = [set |-> (win.set \cup {k}) \ {win.order[win.head + 1]}, order |-> o, head |-> h]
             /\ Len(o) - h = MaxKeys
             /\ \A i \in 1..MaxKeys : o[h + i] = Append(win.order, k)[win.head + 1 + i]
      BY Zenon, <1>1, <1>2, <3>1, ClaimEvicts
    <3>. QED BY Zenon, <1>1, <3>2 DEF b, q
  <2>2. /\ win'.order = o /\ win'.head = h /\ n >= MaxKeys
        /\ 1 \in 1..(m - b) /\ win.order[b + 1] = old
    <3>1. n >= MaxKeys /\ 1 \in 1..(m - b)
      BY <1>1, <1>2, <1>4, <1>7, DispatchConstants
    <3>2. win.order[b + 1] = old
      BY Zenon, <1>4, <1>7, <3>1
    <3>. QED BY Zenon, <2>1, <3>1, <3>2
  <2>3. win'.set = (win.set \cup {k}) \ {old}
    BY Zenon, <2>1, <2>2
  <2>4. span(win)' = MaxKeys
    BY Zenon, <2>1, <2>2 DEF span
  <2>5. win' \in WinType /\ win'.head <= Len(win'.order)
    <3>1. win' \in WinType
      <4>1. (win.set \cup {k}) \ {win.order[b + 1]} \in SUBSET Keys
        BY Zenon, <1>1, <1>2
      <4>. HIDE DEF old
      <4>. QED BY <2>1, <4>1 DEF WinType
    <3>2. h <= Len(o)
      BY <2>1, DispatchConstants
    <3>. QED BY Zenon, <2>2, <3>1, <3>2
  <2>6. OrderIsSuffix'
    <3>1. \A i \in 1..MaxKeys : o[h + i] = accepted'[Len(accepted') - MaxKeys + i]
      <4>. SUFFICES ASSUME NEW i \in 1..MaxKeys PROVE o[h + i] = accepted'[Len(accepted') - MaxKeys + i]
        BY Zenon
      <4>1. /\ 1 + i \in 1..(m - b + 1) /\ b + 1 + i = b + (1 + i)
            /\ Len(accepted') - MaxKeys + i = n - (m - b) + (1 + i)
        BY <1>1, <1>2, <1>7, DispatchConstants
      <4>. QED BY Zenon, <1>5, <2>1, <4>1
    <3>2. MaxKeys <= n + 1 /\ MaxKeys <= MaxKeys /\ ~(MaxKeys < MaxKeys)
      BY <1>1, <2>2, DispatchConstants
    <3>. QED BY Zenon, <1>1, <2>2, <2>4, <3>1, <3>2 DEF OrderIsSuffix
  <2>7. SetIsWindow'
    <3>1. /\ n - MaxKeys + 1 \in 1..n /\ n - MaxKeys + 1 > n - MaxKeys
          /\ n + 1 \in 1..(n + 1) /\ n + 1 > (n + 1) - MaxKeys
          /\ \A i \in 1..(n + 1) : i \in 1..n \/ i = n + 1
          /\ \A i \in 1..n : i \in 1..(n + 1)
          /\ \A i \in 1..n : i > n - MaxKeys <=> i = n - MaxKeys + 1 \/ i > (n + 1) - MaxKeys
          /\ \A i \in 1..n : i > (n + 1) - MaxKeys => n - MaxKeys + 1 < i /\ ~(i - (n - MaxKeys + 1) > MaxKeys)
      BY <1>1, <2>2, DispatchConstants
    <3>2. old \in win.set /\ old # k
      BY Zenon, <1>1, <3>1
    <3>3. \A i \in 1..n : i > (n + 1) - MaxKeys => accepted[i] # old
      BY Zenon, <1>1, <3>1 DEF IInv, WindowInv, OncePerWindow
    <3>4. ASSUME NEW x \in Keys, x \in win'.set
          PROVE  \E i \in DOMAIN accepted' : i > Len(accepted') - MaxKeys /\ accepted'[i] = x
      <4>1. CASE x = k
        BY Zenon, <1>1, <3>1, <4>1
      <4>2. CASE x # k
        <5>1. x \in win.set /\ x # old
          BY Zenon, <2>3, <3>4, <4>2
        <5>2. PICK i \in 1..n : i > n - MaxKeys /\ accepted[i] = x
          BY Zenon, <1>1, <5>1 DEF n, IInv, WindowInv, SetIsWindow
        <5>. QED BY Zenon, <1>1, <3>1, <5>1, <5>2
      <4>. QED BY Zenon, <4>1, <4>2
    <3>5. ASSUME NEW i \in DOMAIN accepted', i > Len(accepted') - MaxKeys
          PROVE  accepted'[i] \in win'.set
      BY Zenon, <1>1, <2>3, <3>1, <3>2, <3>3, <3>5
    <3>. QED BY Zenon, <3>4, <3>5 DEF SetIsWindow
  <2>. QED BY Zenon, <2>5, <2>6, <2>7
<1>8. m - b < MaxKeys \/ m - b = MaxKeys
  BY <1>2, <1>4, DispatchConstants
<1>. QED BY Zenon, <1>6, <1>7, <1>8

(* Session.ClaimKey of a key that the window does not have.                *)
LEMMA ClaimStep == ASSUME IInv, NEW c \in Conns, Claim(c) PROVE IInv'
<1>1. /\ accepted' = Append(accepted, key[c]) /\ fate' = Append(fate, "pending")
      /\ pc' = [pc EXCEPT ![c] = "handler"] /\ key' = key
  BY Zenon DEF Claim
<1>2. /\ pc' \in [Conns -> {"read", "middleware", "claim", "handler"}] /\ pc'[c] = "handler"
      /\ \A d \in Conns : d # c => pc'[d] = pc[d]
  BY Zenon, <1>1 DEF IInv, TypeOK
<1>3. /\ fate' \in Seq(Fates) /\ Len(fate') = Len(fate) + 1
      /\ \A i \in 1..Len(fate) : fate'[i] = fate[i]
      /\ Len(fate) = Len(accepted) /\ DOMAIN accepted = 1..Len(accepted)
      /\ DOMAIN accepted' = 1..(Len(accepted) + 1) /\ 1..Len(accepted) \subseteq 1..(Len(accepted) + 1)
  <2>1. accepted \in Seq(Keys) /\ fate \in Seq(Fates) /\ Len(fate) = Len(accepted) /\ accepted' \in Seq(Keys)
    BY Zenon, AcceptKey DEF IInv, TypeOK
  <2>2. /\ fate' \in Seq(Fates) /\ Len(fate') = Len(fate) + 1
        /\ \A i \in 1..Len(fate) : fate'[i] = fate[i]
    <3>1. "pending" \in Fates
      BY Zenon DEF Fates
    <3>2. /\ Append(fate, "pending") \in Seq(Fates) /\ Len(Append(fate, "pending")) = Len(fate) + 1
          /\ \A i \in 1..Len(fate) : Append(fate, "pending")[i] = fate[i]
      BY Zenon, <2>1, <3>1, PushProps
    <3>. QED BY Zenon, <1>1, <3>2
  <2>3. Len(accepted') = Len(accepted) + 1 /\ Len(accepted) \in Nat
    BY Zenon, AcceptKey
  <2>. QED BY <2>1, <2>2, <2>3
<1>4. TypeOK'
  BY Zenon, <1>1, <1>2, <1>3, AcceptKey, ClaimWindow DEF IInv, TypeOK
<1>5. WindowInv'
  BY Zenon, AcceptKey, ClaimWindow DEF WindowInv
<1>6. BurnedIsHandled'
  <2>1. win'.set \subseteq win.set \cup {key[c]}
    <3>1. win \in WinType /\ win.head <= Len(win.order) /\ span(win) \in Nat /\ span(win) <= MaxKeys
      BY Zenon, SpanType DEF IInv, TypeOK, WindowInv, OrderIsSuffix
    <3>2. CASE span(win) < MaxKeys
      <4>1. win' = [set |-> win.set \cup {key[c]}, order |-> Append(win.order, key[c]), head |-> win.head]
        BY Zenon, <3>1, <3>2, AcceptKey, ClaimGrows
      <4>. QED BY Zenon, <4>1
    <3>3. CASE span(win) = MaxKeys
      <4>1. PICK o \in Seq(Keys \cup {NoKey}), h \in Nat :
               claim(win, key[c]) =
                 [set |-> (win.set \cup {key[c]}) \ {win.order[win.head + 1]}, order |-> o, head |-> h]
        BY Zenon, <3>1, <3>3, AcceptKey, ClaimEvicts
      <4>2. win'.set = (win.set \cup {key[c]}) \ {win.order[win.head + 1]}
        <5>1. win' = [set |-> (win.set \cup {key[c]}) \ {win.order[win.head + 1]}, order |-> o, head |-> h]
          BY Zenon, <4>1, AcceptKey
        <5>. QED BY Zenon, <5>1
      <4>. QED BY Zenon, <4>2
    <3>. QED BY <3>1, <3>2, <3>3, DispatchConstants
  <2>. SUFFICES ASSUME NEW k \in win'.set
                PROVE  \/ \E i \in DOMAIN accepted' : accepted'[i] = k /\ fate'[i] \in {"called", "none"}
                       \/ \E d \in Conns : pc'[d] = "handler" /\ key'[d] = k
    BY Zenon DEF BurnedIsHandled
  <2>2. CASE k = key[c]
    BY Zenon, <1>1, <1>2, <2>2
  <2>3. ASSUME NEW i \in DOMAIN accepted, accepted[i] = k, fate[i] \in {"called", "none"}
        PROVE  \E j \in DOMAIN accepted' : accepted'[j] = k /\ fate'[j] \in {"called", "none"}
    BY Zenon, <1>3, <2>3, AcceptKey
  <2>4. ASSUME NEW d \in Conns, pc[d] = "handler", key[d] = k
        PROVE  \E e \in Conns : pc'[e] = "handler" /\ key'[e] = k
    BY Zenon, <1>1, <1>2, <2>4
  <2>. QED BY Zenon, <2>1, <2>2, <2>3, <2>4 DEF IInv, BurnedIsHandled
<1>. QED BY Zenon, <1>4, <1>5, <1>6 DEF IInv

(* The handler of the event ends.                                          *)
LEMMA HandleStep == ASSUME IInv, NEW c \in Conns, Handle(c) PROVE IInv'
<1>. USE DispatchConstants DEF IInv, WindowInv, done
<1>1. PICK i \in DOMAIN accepted :
         /\ accepted[i] = key[c] /\ fate' = [fate EXCEPT ![i] = IF registered THEN "called" ELSE "none"]
         /\ pc' = [pc EXCEPT ![c] = "read"] /\ key' = [key EXCEPT ![c] = NoKey]
         /\ UNCHANGED <<win, accepted>>
  BY Zenon DEF Handle
<1>2. /\ fate' \in Seq(Fates) /\ Len(fate') = Len(fate) /\ fate'[i] \in {"called", "none"}
      /\ \A j \in DOMAIN accepted : fate[j] \in {"called", "none"} => fate'[j] \in {"called", "none"}
  BY <1>1 DEF TypeOK, Fates
<1>3. TypeOK'
  BY <1>1, <1>2 DEF TypeOK
<1>4. WindowInv'
  BY Zenon, <1>1 DEF OrderIsSuffix, SetIsWindow, OncePerWindow, span
<1>5. BurnedIsHandled'
  BY <1>1, <1>2 DEF BurnedIsHandled, TypeOK
<1>. QED BY Zenon, <1>3, <1>4, <1>5

(* Every step of every connection keeps the invariant.                     *)
LEMMA StepInv == IInv /\ [Next]_vars => IInv'
<1>. SUFFICES ASSUME IInv, [Next]_vars PROVE IInv'
  OBVIOUS
<1>1. CASE UNCHANGED vars
  BY <1>1 DEF vars, IInv, TypeOK, WindowInv, OrderIsSuffix, SetIsWindow, OncePerWindow, BurnedIsHandled, span
<1>2. ASSUME NEW c \in Conns, pc[c] # "handler", UNCHANGED <<win, accepted, fate>>,
             NEW k \in Keys \cup {NoKey}, NEW p \in {"read", "middleware", "claim"},
             pc' = [pc EXCEPT ![c] = p], key' = [key EXCEPT ![c] = k], p # "read" => k \in Keys
      PROVE  IInv'
  <2>1. TypeOK'
    BY <1>2 DEF IInv, TypeOK
  <2>2. WindowInv'
    BY <1>2 DEF IInv, WindowInv, OrderIsSuffix, SetIsWindow, OncePerWindow, span
  <2>3. BurnedIsHandled'
    BY <1>2 DEF IInv, BurnedIsHandled, TypeOK
  <2>. QED BY <2>1, <2>2, <2>3 DEF IInv
<1>3. ASSUME NEW c \in Conns, NEW k \in Keys, Receive(c, k) PROVE IInv'
  BY Zenon, <1>2, <1>3 DEF Receive
<1>4. ASSUME NEW c \in Conns, Reject(c) PROVE IInv'
  BY Zenon, <1>2, <1>4 DEF Reject, done
<1>5. ASSUME NEW c \in Conns, Pass(c) PROVE IInv'
  <2>1. /\ pc[c] # "handler" /\ key[c] \in Keys /\ UNCHANGED <<win, accepted, fate>>
        /\ pc' = [pc EXCEPT ![c] = "claim"] /\ key' = [key EXCEPT ![c] = key[c]]
    BY <1>5 DEF Pass, IInv, TypeOK
  <2>. QED BY Zenon, <1>2, <2>1
<1>6. ASSUME NEW c \in Conns, Duplicate(c) PROVE IInv'
  BY Zenon, <1>2, <1>6 DEF Duplicate, done
<1>7. ASSUME NEW h \in BOOLEAN, On(h) PROVE IInv'
  BY Zenon, <1>7 DEF On, IInv, TypeOK, WindowInv, OrderIsSuffix, SetIsWindow, OncePerWindow, BurnedIsHandled, span
<1>. QED BY Zenon, <1>1, <1>3, <1>4, <1>5, <1>6, <1>7, ClaimStep, HandleStep DEF Next

(* The invariant holds in every reachable state.                           *)
LEMMA AlwaysInv == Spec => []IInv
BY InitInv, StepInv, PTL DEF Spec
-----------------------------------------------------------------------------
(* "handler runs once per key per session window", for every number of     *)
(* connections that dispatch at once, every window size and every          *)
(* compaction threshold.                                                   *)
THEOREM HandledOncePerWindow == Spec => []OncePerWindow
<1>1. IInv => OncePerWindow
  BY DEF IInv, WindowInv
<1>. QED BY <1>1, AlwaysInv, PTL

(* keyWindow.claim keeps exactly the last MaxKeys accepted keys: neither   *)
(* the eviction nor the compaction of order loses a key or keeps one.      *)
THEOREM WindowIsExact == Spec => []WindowExact
<1>1. IInv => WindowExact
  <2>. SUFFICES ASSUME IInv PROVE WindowExact
    OBVIOUS
  <2>. DEFINE n == Len(accepted)
              m == Len(win.order) - win.head
  <2>. USE DispatchConstants
  <2>1. /\ n \in Nat /\ DOMAIN accepted = 1..n /\ accepted \in Seq(Keys) /\ m \in Nat /\ m <= n
        /\ win.order \in Seq(Keys \cup {NoKey}) /\ Len(win.order) \in Nat /\ win.head \in Nat
        /\ \A i \in 1..m : win.order[win.head + i] = accepted[n - m + i]
    <3>1. /\ accepted \in Seq(Keys) /\ win \in WinType /\ win.head <= Len(win.order) /\ span(win) <= n
          /\ \A i \in 1..span(win) : win.order[win.head + i] = accepted[n - span(win) + i]
      BY Zenon DEF IInv, WindowInv, TypeOK, OrderIsSuffix
    <3>2. n \in Nat /\ DOMAIN accepted = 1..n
      BY <3>1
    <3>. QED BY Zenon, <3>1, <3>2, SpanType
  <2>2. win.set = {accepted[i] : i \in {j \in DOMAIN accepted : j > n - MaxKeys}}
    <3>1. \A i \in 1..n : accepted[i] \in Keys
      BY <2>1
    <3>2. win.set \in SUBSET Keys
      BY Zenon, SpanType DEF IInv, TypeOK
    <3>3. \A k \in Keys : k \in win.set <=> \E i \in DOMAIN accepted : i > n - MaxKeys /\ accepted[i] = k
      BY Zenon DEF IInv, WindowInv, SetIsWindow
    <3>4. \A i \in DOMAIN accepted : i > n - MaxKeys => accepted[i] \in win.set
      BY Zenon, <2>1, <3>1, <3>3
    <3>5. \A k \in win.set : \E i \in {j \in DOMAIN accepted : j > n - MaxKeys} : k = accepted[i]
      BY Zenon, <3>2, <3>3
    <3>. QED BY <3>4, <3>5
  <2>3. SubSeq(win.order, win.head + 1, Len(win.order)) = SubSeq(accepted, n - m + 1, n)
    <3>1. /\ win.head \in 0..Len(win.order) /\ n - m \in 0..n
          /\ n - (n - m) = m /\ m = Len(win.order) - win.head
      BY <2>1
    <3>2. \A i \in 1..(n - (n - m)) : win.order[win.head + i] = accepted[n - m + i]
      BY Zenon, <2>1, <3>1
    <3>3. win.order \in Seq(Keys \cup {NoKey}) /\ accepted \in Seq(Keys)
      BY Zenon, <2>1
    <3>. HIDE DEF m
    <3>. QED BY Zenon, <3>1, <3>2, <3>3, SameSuffix
  <2>. QED BY Zenon, <2>2, <2>3 DEF WindowExact
<1>. QED BY <1>1, AlwaysInv, PTL

(* Middleware that rejects an event leaves no trace of its key: the event  *)
(* of a key that the window refuses was looked up in Server.handlers, and  *)
(* its handler called if there was one, or a connection is about to.       *)
THEOREM BurnedKeysAreHandled == Spec => []BurnedIsHandled
<1>1. IInv => BurnedIsHandled
  BY DEF IInv
<1>. QED BY <1>1, AlwaysInv, PTL
=============================================================================
