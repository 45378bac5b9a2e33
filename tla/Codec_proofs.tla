---------------------------- MODULE Codec_proofs ----------------------------
(***************************************************************************)
(* The wire formats, for texts of any length over any bytes.  The decoder   *)
(* of Socket.IO packets accepts exactly the grammar of its package comment; *)
(* encoding inverts decoding, of packets and of batches; and the length     *)
(* field of a native WebSocket frame is exact for every payload that four   *)
(* bytes can count.  The recursive functions of the model (atoi, itoa,      *)
(* segments, nonEmpty, EncodeBatch) are reasoned about by induction over    *)
(* the natural numbers, which SetInduction states for a set.                *)
(***************************************************************************)
EXTENDS Codec, WellFoundedInduction, SequenceTheorems, TLAPS

-----------------------------------------------------------------------------
(* Induction, and functions defined by recursion                           *)

(* A non-empty set of naturals has a least element, which Min returns.     *)
LEMMA MinOfNats ==
  ASSUME NEW S \in SUBSET Nat, S # {}
  PROVE  Min(S) \in S /\ \A y \in S : Min(S) <= y
<1>1. PICK x \in S : \A y \in S : ~(<<y, x>> \in OpToRel(<, Nat))
  BY Zenon, NatLessThanWellFounded, WFMin
<1>2. ASSUME NEW y \in S PROVE x <= y
  <2>1. <<y, x>> \in Nat \X Nat
    BY Zenon
  <2>2. ~(y < x)
    <3>. SUFFICES ASSUME y < x PROVE <<y, x>> \in OpToRel(<, Nat)
      BY Zenon, <1>1
    <3>. QED BY Zenon, <2>1 DEF OpToRel
  <2>. QED BY <2>2
<1>. QED
  BY Zenon, <1>2 DEF Min

(* Induction over the natural numbers, for a set.                          *)
LEMMA SetInduction ==
  ASSUME NEW S \in SUBSET Nat, 0 \in S, \A n \in S : n + 1 \in S
  PROVE  S = Nat
<1>. SUFFICES ASSUME Nat \ S # {} PROVE FALSE
  BY Zenon
<1>1. PICK x \in Nat \ S : \A y \in Nat \ S : ~(<<y, x>> \in OpToRel(<, Nat))
  BY Zenon, NatLessThanWellFounded, WFMin
<1>2. x # 0 /\ x - 1 \in Nat /\ x - 1 < x /\ (x - 1) + 1 = x
  <2>1. x \in Nat /\ x # 0
    BY Zenon, <1>1
  <2>. QED BY ONLY <2>1
<1>3. x - 1 \notin S
  BY Zenon, <1>1, <1>2
<1>4. <<x - 1, x>> \in OpToRel(<, Nat)
  <2>1. <<x - 1, x>> \in Nat \X Nat
    BY Zenon, <1>1, <1>2
  <2>. QED BY Zenon, <1>2, <2>1 DEF OpToRel
<1>. QED BY Zenon, <1>1, <1>2, <1>3, <1>4

(* A property that holds of f[0] and is handed on holds of every value.    *)
LEMMA Handed ==
  ASSUME NEW n \in Nat, NEW T, NEW f, f[0] \in T, \A i \in 1..n : f[i - 1] \in T => f[i] \in T
  PROVE  \A i \in 0..n : f[i] \in T
<1>. DEFINE S == {k \in Nat : k <= n => f[k] \in T}
<1>1. 0 \in S
  BY Zenon
<1>2. ASSUME NEW k \in S PROVE k + 1 \in S
  <2>1. k \in Nat /\ k + 1 \in Nat /\ (k + 1 <= n => k <= n /\ k + 1 \in 1..n /\ (k + 1) - 1 = k)
    OBVIOUS
  <2>2. k + 1 <= n => f[k + 1] \in T
    <3>. SUFFICES ASSUME k + 1 <= n PROVE f[k + 1] \in T
      BY Zenon
    <3>1. f[k] \in T
      BY Zenon, <2>1
    <3>2. f[(k + 1) - 1] \in T
      BY Zenon, <2>1, <3>1
    <3>. QED BY Zenon, <2>1, <3>2
  <2>. QED BY Zenon, <2>1, <2>2
<1>. HIDE DEF S
<1>3. S = Nat
  <2>1. S \in SUBSET Nat
    BY Zenon DEF S
  <2>. QED BY Zenon, <1>1, <1>2, <2>1, SetInduction
<1>4. \A k \in Nat : k <= n => f[k] \in T
  BY Zenon, <1>3 DEF S
<1>5. \A i \in 0..n : i \in Nat /\ i <= n
  OBVIOUS
<1>. QED BY Zenon, <1>4, <1>5

(* f and g start alike and go on alike.                                    *)
Alike(f, g, n) == f[0] = g[0] /\ \A i \in 1..n : f[i - 1] = g[i - 1] => f[i] = g[i]

(* Such functions end alike.                                               *)
LEMMA Agree ==
  ASSUME NEW n \in Nat, NEW f, NEW g, Alike(f, g, n)
  PROVE  f[n] = g[n]
<1>. DEFINE h == [i \in 0..n |-> f[i] = g[i]]
            T == {TRUE}
<1>1. h[0] \in T
  <2>1. 0 \in 0..n
    OBVIOUS
  <2>. QED BY Zenon, <2>1 DEF Alike
<1>2. ASSUME NEW i \in 1..n, h[i - 1] \in T PROVE h[i] \in T
  <2>1. i \in 0..n /\ i - 1 \in 0..n
    OBVIOUS
  <2>2. f[i - 1] = g[i - 1]
    BY Zenon, <1>2, <2>1
  <2>. QED BY Zenon, <2>1, <2>2 DEF Alike
<1>. HIDE DEF h, T
<1>3. \A i \in 0..n : h[i] \in T
  <2>1. \A i \in 1..n : h[i - 1] \in T => h[i] \in T
    BY Zenon, <1>2
  <2>. QED BY Zenon, <1>1, <2>1, Handed
<1>4. n \in 0..n
  OBVIOUS
<1>. QED BY Zenon, <1>3, <1>4 DEF h, T

(* f starts with base and takes steps in T.                                *)
Follows(f, n, T, base, step) ==
  f \in [0..n -> T] /\ f[0] = base /\ \A i \in 1..n : f[i] = step[<<i, f[i - 1]>>]

StaysIn(step, n, T) == \A i \in 1..n : \A t \in T : step[<<i, t>>] \in T

(* A function on 0..n is defined by its first value and by what comes      *)
(* after each value.                                                       *)
LEMMA StepsExist ==
  ASSUME NEW n \in Nat, NEW T, NEW base \in T, NEW step, StaysIn(step, n, T)
  PROVE  \E f : Follows(f, n, T, base, step)
<1>. DEFINE P(k, f) == f \in [0..k -> T] /\ f[0] = base /\ \A i \in 1..k : f[i] = step[<<i, f[i - 1]>>]
            S == {k \in Nat : k <= n => \E f : P(k, f)}
<1>1. 0 \in S
  <2>. DEFINE f == [i \in 0..0 |-> base]
  <2>1. 0 \in 0..0 /\ (\A i \in 1..0 : FALSE)
    OBVIOUS
  <2>2. P(0, f)
    BY Zenon, <2>1
  <2>. QED BY Zenon, <2>2
<1>2. ASSUME NEW k \in S PROVE k + 1 \in S
  <2>1. k \in Nat /\ k + 1 \in Nat
    OBVIOUS
  <2>. SUFFICES ASSUME k + 1 <= n PROVE \E f : P(k + 1, f)
    BY Zenon, <2>1
  <2>2. /\ k <= n /\ k + 1 \in 1..n /\ k \in 0..k /\ k + 1 \in 0..(k + 1) /\ 0 \in 0..(k + 1) /\ 0 # k + 1
        /\ 0 \in 0..k /\ (k + 1) - 1 = k /\ k \in 0..(k + 1) /\ k # k + 1
        /\ \A i \in 0..(k + 1) : i # k + 1 => i \in 0..k
        /\ \A i \in 1..(k + 1) : /\ i \in 0..(k + 1) /\ i - 1 \in 0..(k + 1) /\ i - 1 # k + 1
                                 /\ i # k + 1 => i \in 1..k
    BY <2>1
  <2>3. PICK f : P(k, f)
    BY Zenon, <2>2
  <2>4. f \in [0..k -> T] /\ f[0] = base /\ (\A i \in 1..k : f[i] = step[<<i, f[i - 1]>>])
    BY Zenon, <2>3
  <2>. DEFINE g == [i \in 0..(k + 1) |-> IF i = k + 1 THEN step[<<k + 1, f[k]>>] ELSE f[i]]
  <2>5. g \in [0..(k + 1) -> T]
    <3>1. step[<<k + 1, f[k]>>] \in T
      BY Zenon, <2>2, <2>4 DEF StaysIn
    <3>2. \A i \in 0..(k + 1) : (IF i = k + 1 THEN step[<<k + 1, f[k]>>] ELSE f[i]) \in T
      BY Zenon, <2>2, <2>4, <3>1
    <3>. QED BY Zenon, <3>2
  <2>6. g[0] = base
    BY Zenon, <2>2, <2>4
  <2>7. ASSUME NEW i \in 1..(k + 1) PROVE g[i] = step[<<i, g[i - 1]>>]
    <3>1. g[i - 1] = f[i - 1]
      BY Zenon, <2>2
    <3>2. CASE i = k + 1
      <4>1. g[i] = step[<<k + 1, f[k]>>]
        BY Zenon, <2>2, <3>2
      <4>2. i - 1 = k
        BY Zenon, <2>2, <3>2
      <4>. HIDE DEF g
      <4>3. g[i - 1] = f[k]
        BY Zenon, <3>1, <4>2
      <4>. QED BY Zenon, <3>2, <4>1, <4>3
    <3>3. CASE i # k + 1
      <4>1. g[i] = f[i]
        BY Zenon, <2>2, <3>3
      <4>2. f[i] = step[<<i, f[i - 1]>>]
        BY Zenon, <2>2, <2>4, <3>3
      <4>. HIDE DEF g
      <4>. QED BY Zenon, <3>1, <4>1, <4>2
    <3>. QED BY Zenon, <3>2, <3>3
  <2>. HIDE DEF g
  <2>8. P(k + 1, g)
    BY Zenon, <2>5, <2>6, <2>7
  <2>. QED BY Zenon, <2>8
<1>. HIDE DEF P
<1>3. n \in S
  <2>. HIDE DEF S
  <2>1. S \in SUBSET Nat
    BY Zenon DEF S
  <2>. QED BY Zenon, <1>1, <1>2, <2>1, SetInduction
<1>4. n <= n
  OBVIOUS
<1>5. PICK f : P(n, f)
  BY Zenon, <1>3, <1>4
<1>. QED BY Zenon, <1>5 DEF P, Follows
-----------------------------------------------------------------------------
(* Numbers                                                                 *)

(* A sequence over a set is one over a larger set.                         *)
LEMMA SeqWiden ==
  ASSUME NEW T, NEW S \in SUBSET T, NEW s \in Seq(S)
  PROVE  s \in Seq(T)
OBVIOUS

(* One element more.                                                       *)
LEMMA AppendMore ==
  ASSUME NEW S, NEW s \in Seq(S), NEW e \in S
  PROVE  /\ Append(s, e) \in Seq(S) /\ Append(s, e) # <<>> /\ Len(Append(s, e)) = Len(s) + 1
         /\ Append(s, e)[Len(s) + 1] = e /\ \A i \in 1..Len(s) : Append(s, e)[i] = s[i]
OBVIOUS

(* f has the numbers that the first 0, 1, ... bytes of s stand for.        *)
Reads(f, s) == f = [i \in 0..Len(s) |-> IF i = 0 THEN 0 ELSE 10 * f[i - 1] + (s[i] - digit(0))]

(* strconv.Atoi, one byte after the other.                                 *)
LEMMA AtoiSteps ==
  ASSUME NEW s \in Seq(Int)
  PROVE  \E f \in [0..Len(s) -> Int] :
           /\ f[0] = 0 /\ atoi(s) = f[Len(s)]
           /\ \A i \in 1..Len(s) : f[i] = 10 * f[i - 1] + (s[i] - digit(0))
<1>. DEFINE n == Len(s)
            step == [p \in (1..n) \X Int |-> 10 * p[2] + (s[p[1]] - digit(0))]
            c == CHOOSE g : Reads(g, s)
<1>1. n \in Nat /\ (\A i \in 1..n : s[i] \in Int /\ i # 0) /\ 0 \in Int
  OBVIOUS
<1>2. ASSUME NEW i \in 1..n, NEW t \in Int
      PROVE  step[<<i, t>>] = 10 * t + (s[i] - digit(0)) /\ step[<<i, t>>] \in Int
  <2>1. step[<<i, t>>] = 10 * t + (s[i] - digit(0))
    BY Zenon
  <2>2. 10 * t + (s[i] - digit(0)) \in Int
    BY <1>1 DEF digit
  <2>. QED BY Zenon, <2>1, <2>2
<1>. HIDE DEF step
<1>3. PICK f \in [0..n -> Int] : f[0] = 0 /\ \A i \in 1..n : f[i] = step[<<i, f[i - 1]>>]
  <2>. HIDE DEF n
  <2>1. StaysIn(step, n, Int)
    BY Zenon, <1>2 DEF StaysIn
  <2>2. \E f : Follows(f, n, Int, 0, step)
    BY Zenon, <1>1, <2>1, StepsExist
  <2>. QED BY Zenon, <2>2 DEF Follows
<1>4. \A i \in 1..n : i - 1 \in 0..n /\ i \in 0..n
  BY <1>1
<1>5. \A i \in 1..n : f[i] = 10 * f[i - 1] + (s[i] - digit(0))
  BY Zenon, <1>2, <1>3, <1>4
<1>6. Reads(f, s)
  <2>1. \A i \in 0..n : i # 0 => i \in 1..n
    BY <1>1
  <2>2. \A i \in 0..n : f[i] = IF i = 0 THEN 0 ELSE 10 * f[i - 1] + (s[i] - digit(0))
    BY Zenon, <1>3, <1>5, <2>1
  <2>. QED BY Zenon, <1>3, <2>2 DEF Reads
<1>7. Reads(c, s) /\ atoi(s) = c[n]
  BY Zenon, <1>6 DEF atoi, Reads
<1>8. c[n] = f[n]
  <2>1. 0 \in 0..n /\ n \in 0..n
    BY <1>1
  <2>. HIDE DEF c
  <2>2. c[0] = f[0]
    BY Zenon, <1>3, <1>7, <2>1 DEF Reads
  <2>3. \A i \in 1..n : c[i - 1] = f[i - 1] => c[i] = f[i]
    BY Zenon, <1>1, <1>4, <1>5, <1>7 DEF Reads
  <2>. HIDE DEF n
  <2>4. Alike(c, f, n)
    BY Zenon, <2>2, <2>3 DEF Alike
  <2>. QED BY Zenon, <1>1, <2>4, Agree
<1>. QED BY Zenon, <1>3, <1>5, <1>7, <1>8

(* No byte is nothing; one byte more is one digit more.                    *)
LEMMA AtoiAppend ==
  ASSUME NEW s \in Seq(Int), NEW b \in Int
  PROVE  /\ atoi(s) \in Int /\ atoi(<<>>) = 0
         /\ atoi(Append(s, b)) = 10 * atoi(s) + (b - digit(0))
<1>. DEFINE n == Len(s)
            r == Append(s, b)
<1>1. n \in Nat /\ n \in 0..n /\ r \in Seq(Int) /\ Len(r) = n + 1 /\ r[n + 1] = b /\ \A i \in 1..n : r[i] = s[i]
  OBVIOUS
<1>. HIDE DEF n, r
<1>2. PICK f \in [0..n -> Int] : /\ f[0] = 0 /\ atoi(s) = f[n]
                                 /\ \A i \in 1..n : f[i] = 10 * f[i - 1] + (s[i] - digit(0))
  BY Zenon, AtoiSteps DEF n
<1>3. PICK g \in [0..Len(r) -> Int] : /\ g[0] = 0 /\ atoi(r) = g[Len(r)]
                                      /\ \A i \in 1..Len(r) : g[i] = 10 * g[i - 1] + (r[i] - digit(0))
  BY Zenon, <1>1, AtoiSteps
<1>4. n + 1 \in 1..Len(r) /\ (n + 1) - 1 = n /\ \A i \in 1..n : i \in 1..Len(r)
  BY ONLY <1>1
<1>5. \A i \in 1..n : f[i - 1] = g[i - 1] => f[i] = g[i]
  BY Zenon, <1>1, <1>2, <1>3, <1>4
<1>6. f[n] = g[n]
  <2>1. f[0] = g[0]
    BY Zenon, <1>2, <1>3
  <2>2. Alike(f, g, n)
    BY Zenon, <1>5, <2>1 DEF Alike
  <2>. QED BY Zenon, <1>1, <2>2, Agree
<1>7. g[n + 1] = 10 * g[n] + (b - digit(0))
  BY Zenon, <1>1, <1>3, <1>4
<1>8. atoi(<<>>) = 0
  <2>1. <<>> \in Seq(Int) /\ Len(<<>>) = 0
    OBVIOUS
  <2>. QED BY Zenon, <2>1, AtoiSteps
<1>9. atoi(r) = 10 * atoi(s) + (b - digit(0))
  BY Zenon, <1>1, <1>2, <1>3, <1>6, <1>7
<1>10. atoi(s) \in Int
  BY Zenon, <1>1, <1>2
<1>. QED BY Zenon, <1>8, <1>9, <1>10 DEF r

(* What digits stand for is a natural number.                              *)
LEMMA AtoiNat ==
  ASSUME NEW s \in Seq(digits)
  PROVE  atoi(s) \in Nat
<1>1. s \in Seq(Int) /\ Len(s) \in Nat /\ \A i \in 1..Len(s) : s[i] - digit(0) \in Nat
  BY DEF digits, digit
<1>2. PICK f \in [0..Len(s) -> Int] : /\ f[0] = 0 /\ atoi(s) = f[Len(s)]
                                      /\ \A i \in 1..Len(s) : f[i] = 10 * f[i - 1] + (s[i] - digit(0))
  BY Zenon, <1>1, AtoiSteps
<1>. DEFINE n == Len(s)
<1>3. f[0] \in Nat
  BY <1>2
<1>4. ASSUME NEW i \in 1..n, f[i - 1] \in Nat PROVE f[i] \in Nat
  <2>. DEFINE x == f[i - 1]
              y == s[i] - digit(0)
  <2>1. x \in Nat /\ y \in Nat /\ f[i] = 10 * x + y
    BY Zenon, <1>1, <1>2, <1>4
  <2>. HIDE DEF x, y
  <2>2. 10 * x + y \in Nat
    BY ONLY <2>1
  <2>. QED BY Zenon, <2>1, <2>2
<1>5. n \in Nat /\ n \in 0..n
  BY <1>1
<1>. HIDE DEF n
<1>6. \A i \in 0..n : f[i] \in Nat
  <2>1. \A i \in 1..n : f[i - 1] \in Nat => f[i] \in Nat
    BY Zenon, <1>4
  <2>. QED BY Zenon, <1>3, <1>5, <2>1, Handed
<1>. QED BY Zenon, <1>2, <1>5, <1>6 DEF n

(* s has the decimal form of the numbers up to n.                          *)
Writes(s, n) == s = [m \in 0..n |-> IF m < 10 THEN <<digit(m)>> ELSE Append(s[m \div 10], digit(m % 10))]

(* There are such forms.                                                   *)
LEMMA WritesExist ==
  ASSUME NEW n \in Nat
  PROVE  \E s : Writes(s, n)
<1>. DEFINE S == {k \in Nat : \E s : Writes(s, k)}
<1>1. 0 \in S
  <2>. DEFINE s == [m \in 0..0 |-> <<digit(m)>>]
  <2>1. \A m \in 0..0 : m < 10
    OBVIOUS
  <2>2. Writes(s, 0)
    BY Zenon, <2>1 DEF Writes
  <2>. QED BY Zenon, <2>2
<1>2. ASSUME NEW k \in S PROVE k + 1 \in S
  <2>1. k \in Nat /\ k + 1 \in Nat
    OBVIOUS
  <2>2. PICK s : Writes(s, k)
    BY Zenon
  <2>. DEFINE form(r, m) == IF m < 10 THEN <<digit(m)>> ELSE Append(r[m \div 10], digit(m % 10))
              g == [m \in 0..(k + 1) |-> IF m = k + 1 THEN form(s, k + 1) ELSE s[m]]
              h == [m \in 0..(k + 1) |-> form(g, m)]
  <2>3. ASSUME NEW m \in 0..(k + 1) PROVE g[m] = h[m]
    <3>1. m \in Nat /\ (m # k + 1 => m \in 0..k)
      BY <2>1
    <3>2. m < 10 \/ (m \div 10 \in 0..(k + 1) /\ m \div 10 # k + 1)
      BY <2>1, <3>1
    <3>3. form(g, m) = form(s, m)
      BY Zenon, <3>2
    <3>4. h[m] = form(g, m)
      BY Zenon
    <3>5. m # k + 1 => s[m] = form(s, m)
      BY Zenon, <2>2, <3>1 DEF Writes
    <3>6. g[m] = form(s, m)
      <4>1. CASE m = k + 1
        <5>1. k + 1 \in 0..(k + 1)
          BY <2>1
        <5>2. g[k + 1] = form(s, k + 1)
          BY Zenon, <5>1
        <5>. HIDE DEF g, form
        <5>. QED BY Zenon, <4>1, <5>2
      <4>2. CASE m # k + 1
        <5>1. g[m] = s[m]
          BY Zenon, <4>2
        <5>. HIDE DEF g, form
        <5>. QED BY Zenon, <3>5, <4>2, <5>1
      <4>. QED BY Zenon, <4>1, <4>2
    <3>. HIDE DEF g, h, form
    <3>. QED BY Zenon, <3>3, <3>4, <3>6
  <2>4. g = h
    BY Zenon, <2>3
  <2>5. Writes(g, k + 1)
    BY Zenon, <2>4 DEF Writes
  <2>. QED BY Zenon, <2>1, <2>5
<1>. HIDE DEF S
<1>3. S \in SUBSET Nat
  BY Zenon DEF S
<1>4. S = Nat
  BY Zenon, <1>1, <1>2, <1>3, SetInduction
<1>. QED BY Zenon, <1>4 DEF S

(* strconv.Atoi reads what strconv.Itoa writes, which is at least one      *)
(* digit, and nothing but digits.                                          *)
LEMMA ItoaInverse ==
  ASSUME NEW n \in Nat
  PROVE  itoa(n) \in Seq(digits) /\ itoa(n) # <<>> /\ atoi(itoa(n)) = n
<1>. DEFINE c == CHOOSE s : Writes(s, n)
            Good(s, m) == s \in Seq(digits) /\ s # <<>> /\ atoi(s) = m
            S == {k \in Nat : \A m \in 0..n : m <= k => Good(c[m], m)}
<1>1. Writes(c, n) /\ itoa(n) = c[n]
  BY Zenon, WritesExist DEF itoa, Writes
<1>. HIDE DEF c
<1>2. \A m \in 0..n : c[m] = IF m < 10 THEN <<digit(m)>> ELSE Append(c[m \div 10], digit(m % 10))
  BY Zenon, <1>1 DEF Writes
<1>3. ASSUME NEW m \in 0..n, m < 10 PROVE Good(c[m], m)
  <2>1. m \in Nat /\ digit(m) \in digits /\ digit(m) \in Int /\ digit(m) - digit(0) = m
    BY <1>3 DEF digit, digits
  <2>2. <<>> \in Seq(Int) /\ 10 * 0 + m = m /\ c[m] = <<digit(m)>> /\ <<digit(m)>> = Append(<<>>, digit(m))
    <3>1. <<>> \in Seq(Int) /\ 10 * 0 + m = m
      BY <2>1
    <3>2. c[m] = <<digit(m)>>
      BY Zenon, <1>2, <1>3
    <3>3. <<digit(m)>> = Append(<<>>, digit(m))
      BY ONLY <2>1
    <3>. QED BY Zenon, <3>1, <3>2, <3>3
  <2>3. <<digit(m)>> \in Seq(digits) /\ <<digit(m)>> # <<>>
    BY <2>1
  <2>4. atoi(Append(<<>>, digit(m))) = 10 * atoi(<<>>) + (digit(m) - digit(0)) /\ atoi(<<>>) = 0
    BY Zenon, <2>1, <2>2, AtoiAppend
  <2>5. atoi(<<digit(m)>>) = m
    BY Zenon, <2>1, <2>2, <2>4
  <2>. QED BY Zenon, <2>2, <2>3, <2>5
<1>4. 0 \in S
  <2>1. \A m \in 0..n : m <= 0 => m < 10
    OBVIOUS
  <2>. HIDE DEF Good
  <2>. QED BY Zenon, <1>3, <2>1
<1>5. ASSUME NEW k \in S PROVE k + 1 \in S
  <2>. SUFFICES ASSUME NEW m \in 0..n, m <= k + 1, ~(m < 10) PROVE Good(c[m], m)
    <3>1. k + 1 \in Nat
      OBVIOUS
    <3>. HIDE DEF Good
    <3>. QED BY Zenon, <1>3, <3>1
  <2>. DEFINE q == m \div 10
              r == m % 10
              t == c[q]
  <2>1. q \in 0..n /\ q <= k /\ m = 10 * q + r /\ r \in 0..9 /\ digit(r) \in digits /\ digit(r) \in Int /\ digit(r) - digit(0) = r
    BY DEF digit, digits
  <2>2. c[m] = Append(t, digit(r))
    BY Zenon, <1>2
  <2>3. Good(t, q)
    <3>. HIDE DEF Good, q
    <3>. QED BY Zenon, <2>1
  <2>4. t \in Seq(digits) /\ atoi(t) = q
    BY Zenon, <2>3
  <2>. HIDE DEF t, q, r
  <2>5. t \in Seq(Int) /\ Append(t, digit(r)) \in Seq(digits) /\ Append(t, digit(r)) # <<>>
    <3>1. digits \in SUBSET Int
      BY DEF digits, digit
    <3>2. t \in Seq(Int)
      BY Zenon, <2>4, <3>1, SeqWiden
    <3>3. t \in Seq(digits) /\ digit(r) \in digits
      BY Zenon, <2>1, <2>4
    <3>4. Append(t, digit(r)) \in Seq(digits) /\ Append(t, digit(r)) # <<>>
      BY ONLY Zenon, <3>3, AppendMore
    <3>. QED BY Zenon, <3>2, <3>4
  <2>6. atoi(Append(t, digit(r))) = 10 * q + r
    BY Zenon, <2>1, <2>4, <2>5, AtoiAppend
  <2>. QED BY Zenon, <2>1, <2>2, <2>5, <2>6
<1>. HIDE DEF Good
<1>6. n \in S
  <2>. HIDE DEF S
  <2>1. S \in SUBSET Nat
    BY Zenon DEF S
  <2>. QED BY Zenon, <1>4, <1>5, <2>1, SetInduction
<1>7. n \in 0..n /\ n <= n
  OBVIOUS
<1>8. Good(c[n], n)
  BY Zenon, <1>6, <1>7
<1>. QED BY Zenon, <1>1, <1>8 DEF Good

(* A sequence all of whose elements are in a smaller set.                  *)
LEMMA SeqNarrow ==
  ASSUME NEW S, NEW T, NEW q \in Seq(S), \A i \in 1..Len(q) : q[i] \in T
  PROVE  q \in Seq(T)
OBVIOUS

(* The bytes with a meaning of their own.                                  *)
LEMMA Marks ==
  /\ dash \notin digits /\ slash \notin digits /\ comma \notin digits /\ comma # slash
  /\ RecordSeparator \notin digits /\ comma \in 0..255 /\ slash \in 0..255 /\ dash \in 0..255
  /\ digits \in SUBSET 0..255
BY DEF dash, slash, comma, digits, digit, RecordSeparator
-----------------------------------------------------------------------------
(* The scanning loops of the Socket.IO decoder                             *)

Octets == 0..255

(* A loop that starts at i and passes over the bytes of run stops at j.    *)
Stops(w, i, run, j) ==
  /\ j \in i..Len(w) + 1
  /\ \A k \in i..j - 1 : w[k] \in run
  /\ j <= Len(w) => w[j] \notin run

(* scan stops so.                                                          *)
LEMMA ScanStops ==
  ASSUME NEW w, Len(w) \in Nat, NEW i \in 1..Len(w) + 1, NEW run
  PROVE  Stops(w, i, run, scan(w, i, run))
<1>. DEFINE n == Len(w)
            S == {j \in i..n + 1 : j > n \/ w[j] \notin run}
            m == scan(w, i, run)
<1>1. n \in Nat /\ i \in Nat /\ n + 1 \in i..n + 1 /\ n + 1 > n
  OBVIOUS
<1>2. \A j \in i..n + 1 : j \in Nat
  BY <1>1
<1>3. S \in SUBSET Nat /\ n + 1 \in S
  BY Zenon, <1>1, <1>2
<1>4. m = Min(S)
  BY Zenon DEF scan
<1>. HIDE DEF S, m
<1>5. m \in S /\ \A y \in S : m <= y
  BY Zenon, <1>3, <1>4, MinOfNats
<1>6. m \in i..n + 1 /\ (m > n \/ w[m] \notin run)
  BY Zenon, <1>5 DEF S
<1>. HIDE DEF n
<1>7. m <= n => ~(m > n)
  BY ONLY <1>1, <1>6
<1>8. ASSUME NEW k \in i..m - 1 PROVE w[k] \in run
  <2>1. k \in i..n + 1 /\ ~(m <= k)
    BY ONLY <1>1, <1>6, k \in i..m - 1
  <2>2. k \notin S
    BY Zenon, <1>5, <2>1
  <2>. QED BY Zenon, <2>1, <2>2 DEF S
<1>. QED BY Zenon, <1>6, <1>7, <1>8 DEF Stops, m, n

(* It can stop at one place only.                                          *)
LEMMA StopsOnce ==
  ASSUME NEW w, Len(w) \in Nat, NEW i \in 1..Len(w) + 1, NEW run,
         NEW j, Stops(w, i, run, j), NEW m, Stops(w, i, run, m)
  PROVE  j = m
<1>. DEFINE n == Len(w)
<1>1. n \in Nat /\ i \in 1..n + 1 /\ j \in i..n + 1 /\ m \in i..n + 1
  BY Zenon DEF Stops
<1>. HIDE DEF n
<1>2. j < m \/ m < j \/ j = m
  BY ONLY <1>1
<1>3. ASSUME j < m PROVE FALSE
  <2>1. j <= n /\ j \in i..m - 1
    BY ONLY <1>1, <1>3
  <2>. QED BY Zenon, <2>1 DEF Stops, n
<1>4. ASSUME m < j PROVE FALSE
  <2>1. m <= n /\ m \in i..j - 1
    BY ONLY <1>1, <1>4
  <2>. QED BY Zenon, <2>1 DEF Stops, n
<1>. QED BY Zenon, <1>2, <1>3, <1>4

(* What the decoder cuts out.                                              *)
LEMMA CutProps ==
  ASSUME NEW S, NEW w \in Seq(S), NEW i \in 1..Len(w) + 1, NEW j \in i - 1..Len(w)
  PROVE  /\ SubSeq(w, i, j) \in Seq(S) /\ Len(SubSeq(w, i, j)) = j - (i - 1)
         /\ \A k \in 1..j - (i - 1) : SubSeq(w, i, j)[k] = w[(i - 1) + k]
OBVIOUS

(* It is all digits if every byte is.                                      *)
LEMMA CutDigits ==
  ASSUME NEW S, NEW w \in Seq(S), NEW i \in 1..Len(w) + 1, NEW j \in i - 1..Len(w)
  PROVE  /\ allDigits(SubSeq(w, i, j)) <=> \A k \in i..j : w[k] \in digits
         /\ allDigits(SubSeq(w, i, j)) => SubSeq(w, i, j) \in Seq(digits)
<1>. DEFINE c == SubSeq(w, i, j)
            l == j - (i - 1)
<1>1. c \in Seq(S) /\ Len(c) = l /\ \A k \in 1..l : c[k] = w[(i - 1) + k]
  BY Zenon, CutProps
<1>2. Len(w) \in Nat /\ i \in 1..Len(w) + 1 /\ j \in i - 1..Len(w)
  OBVIOUS
<1>3. l \in Nat /\ (\A k \in 1..l : (i - 1) + k \in i..j) /\ \A k \in i..j : k - (i - 1) \in 1..l /\ (i - 1) + (k - (i - 1)) = k
  BY ONLY <1>2
<1>. HIDE DEF c, l
<1>4. DOMAIN c = 1..l
  BY <1>1
<1>5. allDigits(c) <=> \A k \in 1..l : w[(i - 1) + k] \in digits
  BY Zenon, <1>1, <1>4 DEF allDigits, isDigit
<1>6. (\A k \in 1..l : w[(i - 1) + k] \in digits) <=> \A k \in i..j : w[k] \in digits
  BY Zenon, <1>3
<1>7. allDigits(c) => c \in Seq(digits)
  <2>. SUFFICES ASSUME allDigits(c) PROVE c \in Seq(digits)
    BY Zenon
  <2>1. \A k \in 1..Len(c) : c[k] \in digits
    BY Zenon, <1>1, <1>4 DEF allDigits, isDigit
  <2>. QED BY Zenon, <1>1, <2>1, SeqNarrow
<1>. QED BY Zenon, <1>5, <1>6, <1>7 DEF c
-----------------------------------------------------------------------------
(* The Socket.IO decoder and the grammar                                   *)

(* What Decode finds before the namespace.                                 *)
headerOf(w) ==
  IF isBinary(w[1] - digit(0)) THEN attachmentHeader(w, 2) ELSE [ok |-> TRUE, n |-> 0, next |-> 2]

(* The attachments, namespace and ack id of a text with the parts at a, b  *)
(* and c.                                                                  *)
countOf(w, a) == IF a = 1 THEN 0 ELSE atoi(SubSeq(w, 2, a - 1))

nameOf(w, a, b) == IF a = b THEN <<slash>> ELSE SubSeq(w, a + 1, IF w[b] = comma THEN b - 1 ELSE b)

idOf(w, b, c) == IF b = c THEN -1 ELSE atoi(SubSeq(w, b + 1, c))

(* It accepts the headers of the grammar and returns the count.            *)
LEMMA HeaderForm ==
  ASSUME NEW w \in Seq(Octets), NEW n, n = Len(w), n # 0, w[1] \in digit(0)..digit(6)
  PROVE  /\ headerOf(w).ok => headerOf(w).next \in 2..n + 1 /\ IsHeader(w, headerOf(w).next - 1)
         /\ \A a \in 1..n : IsHeader(w, a) =>
              /\ headerOf(w).ok /\ headerOf(w).next = a + 1
              /\ headerOf(w).n = countOf(w, a)
<1>. DEFINE h == headerOf(w)
<1>1. n \in Nat /\ 2 \in 1..n + 1 /\ 2 \in 2..n + 1 /\ 2 - 1 = 1 /\ 1 + 1 = 2
  OBVIOUS
<1>2. CASE ~isBinary(w[1] - digit(0))
  <2>1. h = [ok |-> TRUE, n |-> 0, next |-> 2]
    BY Zenon, <1>2 DEF headerOf
  <2>. HIDE DEF h
  <2>2. h.ok /\ h.n = 0 /\ h.next = 2
    BY Zenon, <2>1
  <2>3. \A a : IsHeader(w, a) <=> a = 1
    BY Zenon, <1>2 DEF IsHeader
  <2>. QED BY Zenon, <1>1, <2>2, <2>3 DEF h, countOf
<1>3. CASE isBinary(w[1] - digit(0))
  <2>. DEFINE j == scan(w, 2, digits)
  <2>1. Stops(w, 2, digits, j) /\ j \in 2..n + 1
    BY Zenon, <1>1, ScanStops DEF Stops
  <2>2. h = IF j = 2 \/ j > n \/ w[j] # dash \/ atoi(SubSeq(w, 2, j - 1)) > MaxInt THEN Error
            ELSE [ok |-> TRUE, n |-> atoi(SubSeq(w, 2, j - 1)), next |-> j + 1]
    BY Zenon, <1>3 DEF headerOf, attachmentHeader, cut
  <2>. HIDE DEF h, j
  <2>3. ASSUME NEW a \in 2..n, w[a] = dash, allDigits(SubSeq(w, 2, a - 1)) PROVE a = j
    <3>1. a - 1 \in 2 - 1..Len(w) /\ a \in 2..n + 1
      BY <1>1
    <3>2. \A k \in 2..a - 1 : w[k] \in digits
      BY Zenon, <1>1, <2>3, <3>1, CutDigits
    <3>3. Stops(w, 2, digits, a)
      BY Zenon, <2>3, <3>1, <3>2, Marks DEF Stops
    <3>. QED BY Zenon, <1>1, <2>1, <3>3, StopsOnce
  <2>4. ASSUME j # 2, ~(j > n)
        PROVE /\ j \in 2..n /\ j > 2 /\ j + 1 \in 2..n + 1 /\ (j + 1) - 1 = j
              /\ allDigits(SubSeq(w, 2, j - 1)) /\ atoi(SubSeq(w, 2, j - 1)) \in Nat
    <3>1. j \in 2..n /\ j > 2 /\ j + 1 \in 2..n + 1 /\ (j + 1) - 1 = j /\ j - 1 \in 2 - 1..n
      BY ONLY <1>1, <2>1, <2>4
    <3>2. \A k \in 2..j - 1 : w[k] \in digits
      BY Zenon, <2>1 DEF Stops
    <3>3. allDigits(SubSeq(w, 2, j - 1)) /\ SubSeq(w, 2, j - 1) \in Seq(digits)
      BY Zenon, <1>1, <3>1, <3>2, CutDigits
    <3>. QED BY Zenon, <3>1, <3>3, AtoiNat
  <2>5. \A a : IsHeader(w, a) <=> /\ a > 2 /\ w[a] = dash /\ allDigits(SubSeq(w, 2, a - 1))
                                  /\ atoi(SubSeq(w, 2, a - 1)) <= MaxInt
    BY Zenon, <1>3 DEF IsHeader
  <2>6. \A x \in Nat : x > MaxInt <=> ~(x <= MaxInt)
    BY CodecConstants
  <2>7. ASSUME h.ok PROVE h.next \in 2..n + 1 /\ IsHeader(w, h.next - 1)
    <3>1. ~(j = 2 \/ j > n \/ w[j] # dash \/ atoi(SubSeq(w, 2, j - 1)) > MaxInt)
      BY Zenon, <2>2, <2>7 DEF Error
    <3>2. h.next = j + 1
      BY Zenon, <2>2, <3>1
    <3>3. IsHeader(w, j)
      BY Zenon, <2>4, <2>5, <2>6, <3>1
    <3>. QED BY Zenon, <2>4, <3>1, <3>2, <3>3
  <2>8. ASSUME NEW a \in 1..n, IsHeader(w, a)
        PROVE  h.ok /\ h.next = a + 1 /\ h.n = IF a = 1 THEN 0 ELSE atoi(SubSeq(w, 2, a - 1))
    <3>1. a > 2 /\ w[a] = dash /\ allDigits(SubSeq(w, 2, a - 1)) /\ atoi(SubSeq(w, 2, a - 1)) <= MaxInt
      BY Zenon, <2>5, <2>8
    <3>2. a \in 2..n /\ a # 2 /\ a # 1 /\ ~(a > n)
      BY ONLY <1>1, <3>1, a \in 1..n
    <3>3. a = j
      BY Zenon, <2>3, <3>1, <3>2
    <3>4. ~(j = 2 \/ j > n \/ w[j] # dash \/ atoi(SubSeq(w, 2, j - 1)) > MaxInt)
      BY Zenon, <2>4, <2>6, <3>1, <3>2, <3>3
    <3>5. h = [ok |-> TRUE, n |-> atoi(SubSeq(w, 2, j - 1)), next |-> j + 1]
      BY Zenon, <2>2, <3>4
    <3>6. h.ok /\ h.next = j + 1 /\ h.n = atoi(SubSeq(w, 2, j - 1))
      BY Zenon, <3>5
    <3>. QED BY Zenon, <3>2, <3>3, <3>6
  <2>. QED BY Zenon, <2>7, <2>8 DEF h, countOf
<1>. QED BY Zenon, <1>2, <1>3

(* It takes the namespace of the grammar, or the default one.              *)
LEMMA NamespaceForm ==
  ASSUME NEW w \in Seq(Octets), NEW n, n = Len(w), NEW a \in 1..n
  PROVE  /\ namespace(w, a + 1).next \in a + 1..n + 1 /\ IsNamespace(w, a, namespace(w, a + 1).next - 1)
         /\ \A b \in a..n : IsNamespace(w, a, b) =>
              /\ namespace(w, a + 1).next = b + 1
              /\ namespace(w, a + 1).ns = nameOf(w, a, b)
<1>. DEFINE m == namespace(w, a + 1)
<1>1. n \in Nat /\ a \in Nat /\ a + 1 \in a + 1..n + 1 /\ (a + 1) - 1 = a /\ (a < n <=> ~(a + 1 > n)) /\ a + 1 \in 1..n + 1
  OBVIOUS
<1>2. CASE a + 1 > n \/ w[a + 1] # slash
  <2>1. m = [ns |-> <<slash>>, next |-> a + 1]
    BY Zenon, <1>2 DEF namespace
  <2>. HIDE DEF m
  <2>2. m.ns = <<slash>> /\ m.next = a + 1
    BY Zenon, <2>1
  <2>3. \A b : IsNamespace(w, a, b) <=> b = a
    BY Zenon, <1>1, <1>2 DEF IsNamespace
  <2>. QED BY Zenon, <1>1, <2>2, <2>3 DEF m, nameOf
<1>3. CASE ~(a + 1 > n \/ w[a + 1] # slash)
  <2>. DEFINE run == 0..255 \ {comma}
              j == scan(w, a + 1, run)
  <2>1. Stops(w, a + 1, run, j) /\ j \in a + 1..n + 1
    <3>. HIDE DEF run
    <3>. QED BY Zenon, <1>1, ScanStops DEF Stops
  <2>2. m = [ns |-> SubSeq(w, a + 1, j - 1), next |-> IF j > n THEN j ELSE j + 1]
    BY Zenon, <1>3 DEF namespace, cut
  <2>. HIDE DEF m
  <2>3. m.ns = SubSeq(w, a + 1, j - 1) /\ m.next = IF j > n THEN j ELSE j + 1
    BY Zenon, <2>2
  <2>4. \A k \in 1..n : w[k] \in run <=> w[k] # comma
    BY Zenon, ElementOfSeq DEF Octets
  <2>5. \A b : IsNamespace(w, a, b) <=>
                 b > a /\ (w[b] = comma \/ b = n) /\ \A i \in a + 1..b - 1 : w[i] # comma
    BY Zenon, <1>1, <1>3 DEF IsNamespace
  <2>6. a + 1 \in 1..n /\ w[a + 1] = slash
    <3>1. a + 1 \in 1..n
      BY ONLY <1>1, <1>3
    <3>. QED BY Zenon, <1>3, <3>1
  <2>. HIDE DEF j, run
  <2>7. j # a + 1
    <3>1. CASE j <= n
      BY Zenon, <2>1, <2>4, <2>6, <3>1, Marks DEF Stops
    <3>2. CASE ~(j <= n)
      BY ONLY <1>1, <1>3, <2>1, <3>2
    <3>. QED BY Zenon, <3>1, <3>2
  <2>8. \A k \in a + 1..j - 1 : w[k] # comma
    <3>1. \A k \in a + 1..j - 1 : k \in 1..n
      BY ONLY <1>1, <2>1
    <3>. QED BY Zenon, <2>1, <2>4, <3>1 DEF Stops
  <2>9. m.next \in a + 1..n + 1 /\ IsNamespace(w, a, m.next - 1)
    <3>1. CASE j > n
      <4>1. j \in a + 1..n + 1 /\ j - 1 > a /\ j - 1 = n /\ \A i \in a + 1..(j - 1) - 1 : i \in a + 1..j - 1
        BY ONLY <1>1, <2>1, <2>7, <3>1
      <4>2. IsNamespace(w, a, j - 1)
        BY Zenon, <2>5, <2>8, <4>1
      <4>. QED BY Zenon, <2>3, <3>1, <4>1, <4>2
    <3>2. CASE ~(j > n)
      <4>1. j \in 1..n /\ j <= n /\ j + 1 \in a + 1..n + 1 /\ j > a /\ (j + 1) - 1 = j
        BY ONLY <1>1, <2>1, <3>2
      <4>2. w[j] = comma
        BY Zenon, <2>1, <2>4, <4>1 DEF Stops
      <4>3. IsNamespace(w, a, j)
        BY Zenon, <2>5, <2>8, <4>1, <4>2
      <4>. QED BY Zenon, <2>3, <3>2, <4>1, <4>3
    <3>. QED BY Zenon, <3>1, <3>2
  <2>10. ASSUME NEW b \in a..n, IsNamespace(w, a, b)
         PROVE  m.next = b + 1 /\ m.ns = IF a = b THEN <<slash>>
                                         ELSE SubSeq(w, a + 1, IF w[b] = comma THEN b - 1 ELSE b)
    <3>1. b > a /\ (w[b] = comma \/ b = n) /\ \A i \in a + 1..b - 1 : w[i] # comma
      BY Zenon, <2>5, <2>10
    <3>2. /\ b \in 1..n /\ b # a /\ b \in a + 1..n + 1 /\ ~(b > n) /\ (b = n => b + 1 \in a + 1..n + 1 /\ ~(b + 1 <= n) /\ b + 1 > n)
          /\ (b + 1) - 1 = b /\ (\A k \in a + 1..b - 1 : k \in 1..n) /\ \A k \in a + 1..b : k \in 1..n /\ (k = b \/ k \in a + 1..b - 1)
      BY ONLY <1>1, <3>1, b \in a..n
    <3>3. CASE w[b] = comma
      <4>1. Stops(w, a + 1, run, b)
        BY Zenon, <2>4, <3>1, <3>2, <3>3 DEF Stops
      <4>2. b = j
        BY Zenon, <1>1, <2>1, <4>1, StopsOnce
      <4>. QED BY Zenon, <2>3, <3>2, <3>3, <4>2
    <3>4. CASE w[b] # comma
      <4>1. b = n
        BY Zenon, <3>1, <3>4
      <4>2. \A k \in a + 1..b : w[k] \in run
        BY Zenon, <2>4, <3>1, <3>2, <3>4
      <4>3. Stops(w, a + 1, run, b + 1)
        BY Zenon, <3>2, <4>1, <4>2 DEF Stops
      <4>4. b + 1 = j
        BY Zenon, <1>1, <2>1, <4>3, StopsOnce
      <4>5. j - 1 = b /\ j > n
        BY Zenon, <3>2, <4>1, <4>4
      <4>. QED BY Zenon, <2>3, <3>2, <3>4, <4>4, <4>5
    <3>. QED BY Zenon, <3>3, <3>4
  <2>. QED BY Zenon, <2>9, <2>10 DEF m, nameOf
<1>. QED BY Zenon, <1>2, <1>3

(* It takes the ack id of the grammar, or none.                            *)
LEMMA AckForm ==
  ASSUME NEW w \in Seq(Octets), NEW n, n = Len(w), NEW b \in 1..n
  PROVE  /\ ackID(w, b + 1).ok => ackID(w, b + 1).next \in b + 1..n + 1 /\ IsAckID(w, b, ackID(w, b + 1).next - 1)
         /\ \A c \in b..n : IsAckID(w, b, c) =>
              /\ ackID(w, b + 1).ok /\ ackID(w, b + 1).next = c + 1
              /\ ackID(w, b + 1).id = idOf(w, b, c)
<1>. DEFINE m == ackID(w, b + 1)
            j == scan(w, b + 1, digits)
            x == atoi(SubSeq(w, b + 1, j - 1))
<1>1. n \in Nat /\ b \in Nat /\ b + 1 \in 1..n + 1 /\ (b + 1) - 1 = b
  OBVIOUS
<1>2. Stops(w, b + 1, digits, j) /\ j \in b + 1..n + 1
  BY Zenon, <1>1, ScanStops DEF Stops
<1>3. m = IF j = b + 1 THEN [ok |-> TRUE, id |-> -1, next |-> b + 1]
          ELSE IF x > MaxInt THEN Error ELSE [ok |-> TRUE, id |-> x, next |-> j]
  BY Zenon DEF ackID, cut
<1>. HIDE DEF j
<1>4. /\ j - 1 \in (b + 1) - 1..n /\ (j - 1) + 1 = j /\ (j - 1 < n <=> j <= n) /\ (b < j - 1 <=> j # b + 1)
      /\ (j = b + 1 => j - 1 = b)
  BY ONLY <1>1, <1>2
<1>5. allDigits(SubSeq(w, b + 1, j - 1)) /\ SubSeq(w, b + 1, j - 1) \in Seq(digits)
  <2>1. \A k \in b + 1..j - 1 : w[k] \in digits
    BY Zenon, <1>2 DEF Stops
  <2>. QED BY Zenon, <1>1, <1>4, <2>1, CutDigits
<1>6. x \in Nat
  BY Zenon, <1>5, AtoiNat
<1>7. x > MaxInt <=> ~(x <= MaxInt)
  <2>. HIDE DEF x
  <2>. QED BY <1>6, CodecConstants
<1>8. IsAckID(w, b, j - 1) <=> (j # b + 1 => x <= MaxInt)
  <2>1. j <= n => ~isDigit(w[j])
    BY Zenon, <1>2 DEF Stops, isDigit
  <2>2. j - 1 < n => ~isDigit(w[(j - 1) + 1])
    BY Zenon, <1>4, <2>1
  <2>. QED BY Zenon, <1>4, <1>5, <2>2 DEF IsAckID
<1>9. ASSUME NEW c \in b..n, IsAckID(w, b, c) PROVE c = j - 1
  <2>1. c \in (b + 1) - 1..n /\ c + 1 \in b + 1..n + 1 /\ (c + 1) - 1 = c /\ (c + 1 <= n => c < n)
    BY ONLY <1>1, c \in b..n
  <2>2. allDigits(SubSeq(w, b + 1, c)) /\ (c < n => ~isDigit(w[c + 1]))
    BY Zenon, <1>9 DEF IsAckID
  <2>3. \A k \in b + 1..c : w[k] \in digits
    BY Zenon, <1>1, <2>1, <2>2, CutDigits
  <2>4. Stops(w, b + 1, digits, c + 1)
    BY Zenon, <2>1, <2>2, <2>3 DEF Stops, isDigit
  <2>5. c + 1 = j
    BY Zenon, <1>1, <1>2, <2>4, StopsOnce
  <2>. QED BY Zenon, <2>1, <2>5
<1>. HIDE DEF m
<1>10. CASE j = b + 1
  <2>1. m = [ok |-> TRUE, id |-> -1, next |-> b + 1]
    BY Zenon, <1>3, <1>10
  <2>2. m.ok /\ m.id = -1 /\ m.next = b + 1
    BY Zenon, <2>1
  <2>3. IsAckID(w, b, b)
    BY Zenon, <1>4, <1>8, <1>10
  <2>4. b + 1 \in b + 1..n + 1
    BY ONLY <1>1
  <2>5. \A c \in b..n : IsAckID(w, b, c) => c = b
    BY Zenon, <1>4, <1>9, <1>10
  <2>. QED BY Zenon, <1>1, <2>2, <2>3, <2>4, <2>5 DEF m, idOf
<1>11. CASE j # b + 1 /\ ~(x <= MaxInt)
  <2>1. m = Error
    BY Zenon, <1>3, <1>7, <1>11
  <2>2. ~m.ok
    BY Zenon, <2>1 DEF Error
  <2>3. \A c \in b..n : ~IsAckID(w, b, c)
    BY Zenon, <1>8, <1>9, <1>11
  <2>. QED BY Zenon, <2>2, <2>3 DEF m
<1>12. CASE j # b + 1 /\ x <= MaxInt
  <2>1. m = [ok |-> TRUE, id |-> x, next |-> j]
    BY Zenon, <1>3, <1>7, <1>12
  <2>2. m.ok /\ m.id = x /\ m.next = j
    BY Zenon, <2>1
  <2>3. IsAckID(w, b, j - 1)
    BY Zenon, <1>8, <1>12
  <2>4. ASSUME NEW c \in b..n, IsAckID(w, b, c) PROVE m.next = c + 1 /\ b # c /\ m.id = atoi(SubSeq(w, b + 1, c))
    <3>1. c = j - 1
      BY Zenon, <1>9, <2>4
    <3>2. c + 1 = j /\ b # c
      BY ONLY <1>1, <1>2, <1>12, <3>1
    <3>. QED BY Zenon, <2>2, <3>1, <3>2
  <2>. QED BY Zenon, <1>2, <2>2, <2>3, <2>4 DEF m, idOf
<1>. QED BY Zenon, <1>10, <1>11, <1>12

(* The packet that such a text stands for.                                 *)
Parts(w, a, b, c) ==
  [type |-> w[1] - digit(0), attachments |-> countOf(w, a), ns |-> nameOf(w, a, b),
   ackID |-> idOf(w, b, c), data |-> SubSeq(w, c + 1, Len(w))]

Decodes(w, a, b, c) == SIODecode(w) = [ok |-> TRUE, packet |-> Parts(w, a, b, c)]

(* Decode accepts a text that has the form of a packet and no other, and   *)
(* returns its parts.                                                      *)
LEMMA DecodeForm ==
  ASSUME NEW w \in Seq(Octets), NEW n, n = Len(w)
  PROVE  /\ SIODecode(w).ok => \E a \in 1..n : \E b \in 1..n : \E c \in 1..n : IsPacket(w, a, b, c)
         /\ \A a \in 1..n : \A b \in 1..n : \A c \in 1..n : IsPacket(w, a, b, c) => Decodes(w, a, b, c)
<1>. DEFINE d == SIODecode(w)
<1>1. n \in Nat /\ (n = 0 <=> w = <<>>) /\ (n = 0 => \A a \in 1..n : FALSE) /\ (n + 1) - 1 = n
  OBVIOUS
<1>2. n # 0 => (w[1] \in digit(0)..digit(6) <=> ~(w[1] < digit(0) \/ w[1] > digit(6)))
  <2>. SUFFICES ASSUME n # 0 PROVE w[1] \in digit(0)..digit(6) <=> ~(w[1] < digit(0) \/ w[1] > digit(6))
    BY Zenon
  <2>1. 1 \in 1..Len(w)
    OBVIOUS
  <2>2. w[1] \in Octets
    BY Zenon, <2>1, ElementOfSeq
  <2>3. \A v \in 0..255 : v \in digit(0)..digit(6) <=> ~(v < digit(0) \/ v > digit(6))
    BY ONLY DEF digit
  <2>. QED BY Zenon, <2>2, <2>3 DEF Octets
<1>3. CASE n = 0 \/ w[1] \notin digit(0)..digit(6)
  <2>1. d = Error
    BY Zenon, <1>1, <1>2, <1>3 DEF SIODecode
  <2>2. ~d.ok
    <3>. HIDE DEF d
    <3>. QED BY Zenon, <2>1 DEF Error
  <2>3. \A a \in 1..n : \A b \in 1..n : \A c \in 1..n : ~IsPacket(w, a, b, c)
    BY Zenon, <1>1, <1>3 DEF IsPacket, IsHeader
  <2>. QED BY Zenon, <2>2, <2>3
<1>4. CASE n # 0 /\ w[1] \in digit(0)..digit(6)
  <2>. DEFINE h == headerOf(w)
              m == namespace(w, h.next)
              k == ackID(w, m.next)
              p == [type |-> w[1] - digit(0), attachments |-> h.n, ns |-> m.ns,
                    ackID |-> k.id, data |-> SubSeq(w, k.next, n)]
  <2>1. d = IF ~h.ok THEN Error ELSE IF ~k.ok THEN Error ELSE [ok |-> TRUE, packet |-> p]
    <3>1. ~(w = <<>> \/ w[1] < digit(0) \/ w[1] > digit(6))
      BY Zenon, <1>1, <1>2, <1>4
    <3>2. cut(w, k.next, Len(w) + 1) = SubSeq(w, k.next, n)
      BY Zenon, <1>1 DEF cut
    <3>. QED BY Zenon, <3>1, <3>2 DEF SIODecode, headerOf
  <2>2. h.ok => h.next \in 2..n + 1 /\ IsHeader(w, h.next - 1)
    BY Zenon, <1>4, HeaderForm
  <2>3. \A a \in 1..n : IsHeader(w, a) =>
          h.ok /\ h.next = a + 1 /\ h.n = countOf(w, a)
    BY Zenon, <1>4, HeaderForm
  <2>. HIDE DEF d, h
  <2>4. ASSUME d.ok PROVE \E a \in 1..n : \E b \in 1..n : \E c \in 1..n : IsPacket(w, a, b, c)
    <3>1. h.ok /\ k.ok
      BY Zenon, <2>1, <2>4 DEF Error
    <3>. DEFINE a == h.next - 1
                b == m.next - 1
                c == k.next - 1
    <3>2. IsHeader(w, a) /\ a \in 1..n /\ h.next = a + 1
      <4>1. h.next \in 2..n + 1
        BY Zenon, <2>2, <3>1
      <4>2. a \in 1..n /\ h.next = a + 1
        BY ONLY <1>1, <4>1
      <4>. QED BY Zenon, <2>2, <3>1, <4>2
    <3>. HIDE DEF a
    <3>3. m.next \in a + 1..n + 1 /\ IsNamespace(w, a, b)
      BY Zenon, <3>2, NamespaceForm
    <3>4. b \in 1..n /\ a <= b /\ m.next = b + 1
      <4>. HIDE DEF m
      <4>. QED BY ONLY <1>1, <3>2, <3>3 DEF b
    <3>9. k = ackID(w, b + 1)
      <4>. HIDE DEF b, m
      <4>. QED BY Zenon, <3>4
    <3>. HIDE DEF b, m, k
    <3>5. k.next \in b + 1..n + 1 /\ IsAckID(w, b, c)
      <4>1. ackID(w, b + 1).ok => /\ ackID(w, b + 1).next \in b + 1..n + 1
                                  /\ IsAckID(w, b, ackID(w, b + 1).next - 1)
        BY Zenon, <3>4, AckForm
      <4>. QED BY Zenon, <3>1, <3>9, <4>1
    <3>6. c \in 1..n /\ b <= c
      <4>. HIDE DEF k
      <4>. QED BY ONLY <1>1, <3>4, <3>5 DEF c
    <3>7. IsPacket(w, a, b, c)
      BY Zenon, <3>2, <3>3, <3>4, <3>5, <3>6 DEF IsPacket
    <3>. HIDE DEF c
    <3>. QED BY Zenon, <3>2, <3>4, <3>6, <3>7
  <2>5. ASSUME NEW a \in 1..n, NEW b \in 1..n, NEW c \in 1..n, IsPacket(w, a, b, c)
        PROVE  d = [ok |-> TRUE, packet |-> Parts(w, a, b, c)]
    <3>1. b \in a..n /\ c \in b..n
      <4>1. a <= b /\ b <= c
        BY Zenon, <2>5 DEF IsPacket
      <4>. QED BY ONLY <1>1, <4>1, a \in 1..n, b \in 1..n, c \in 1..n
    <3>2. h.ok /\ h.next = a + 1 /\ h.n = countOf(w, a)
      BY Zenon, <2>3, <2>5 DEF IsPacket
    <3>3. m = namespace(w, a + 1)
      BY Zenon, <3>2
    <3>. HIDE DEF m
    <3>4. m.next = b + 1 /\ m.ns = nameOf(w, a, b)
      <4>1. IsNamespace(w, a, b) =>
              /\ namespace(w, a + 1).next = b + 1
              /\ namespace(w, a + 1).ns = nameOf(w, a, b)
        <5>1. \A e \in a..n : IsNamespace(w, a, e) =>
                /\ namespace(w, a + 1).next = e + 1
                /\ namespace(w, a + 1).ns = nameOf(w, a, e)
          BY Zenon, NamespaceForm
        <5>. QED BY Zenon, <3>1, <5>1
      <4>2. IsNamespace(w, a, b)
        BY Zenon, <2>5 DEF IsPacket
      <4>. QED BY Zenon, <3>3, <4>1, <4>2
    <3>5. k = ackID(w, b + 1)
      BY Zenon, <3>4
    <3>. HIDE DEF k
    <3>6. k.ok /\ k.next = c + 1 /\ k.id = idOf(w, b, c)
      <4>1. IsAckID(w, b, c) =>
              /\ ackID(w, b + 1).ok /\ ackID(w, b + 1).next = c + 1
              /\ ackID(w, b + 1).id = idOf(w, b, c)
        BY Zenon, <3>1, AckForm
      <4>2. IsAckID(w, b, c)
        BY Zenon, <2>5 DEF IsPacket
      <4>. QED BY Zenon, <3>5, <4>1, <4>2
    <3>7. p = Parts(w, a, b, c)
      BY Zenon, <3>2, <3>4, <3>6 DEF Parts
    <3>. QED BY Zenon, <2>1, <3>2, <3>6, <3>7
  <2>. QED BY Zenon, <2>4, <2>5 DEF d, Decodes
<1>. QED BY Zenon, <1>3, <1>4

(* The second half for one form.                                           *)
LEMMA FormDecodes ==
  ASSUME NEW w \in Seq(Octets), NEW n, n = Len(w),
         NEW a \in 1..n, NEW b \in 1..n, NEW c \in 1..n, IsPacket(w, a, b, c)
  PROVE  SIODecode(w) = [ok |-> TRUE, packet |-> Parts(w, a, b, c)]
<1>1. Decodes(w, a, b, c)
  BY Zenon, DecodeForm
<1>. QED BY Zenon, <1>1 DEF Decodes

(* A text has the form of a packet in one way only.                        *)
LEMMA FormOnce ==
  ASSUME NEW w \in Seq(Octets), NEW n, n = Len(w),
         NEW a \in 1..n, NEW b \in 1..n, NEW c \in 1..n, IsPacket(w, a, b, c),
         NEW x \in 1..n, NEW y \in 1..n, NEW z \in 1..n, IsPacket(w, x, y, z)
  PROVE  a = x /\ b = y /\ c = z
<1>1. n \in Nat /\ n # 0 /\ w[1] \in digit(0)..digit(6)
  <2>1. n \in Nat /\ n # 0
    OBVIOUS
  <2>. QED BY Zenon, <2>1 DEF IsPacket, IsHeader
<1>2. b \in a..n /\ y \in x..n /\ c \in b..n /\ z \in y..n
  <2>1. a <= b /\ b <= c /\ x <= y /\ y <= z
    BY Zenon DEF IsPacket
  <2>. QED BY ONLY <1>1, <2>1, a \in 1..n, b \in 1..n, c \in 1..n, x \in 1..n, y \in 1..n, z \in 1..n
<1>3. \A i \in 1..n : \A j \in 1..n : i + 1 = j + 1 => i = j
  BY <1>1
<1>4. a = x
  <2>1. headerOf(w).next = a + 1 /\ headerOf(w).next = x + 1
    BY Zenon, <1>1, HeaderForm DEF IsPacket
  <2>. QED BY Zenon, <1>3, <2>1
<1>5. b = y
  <2>1. namespace(w, a + 1).next = b + 1
    BY Zenon, <1>2, NamespaceForm DEF IsPacket
  <2>2. namespace(w, x + 1).next = y + 1
    BY Zenon, <1>2, NamespaceForm DEF IsPacket
  <2>3. b + 1 = y + 1
    BY Zenon, <1>4, <2>1, <2>2
  <2>. QED BY Zenon, <1>3, <2>3
<1>6. c = z
  <2>1. ackID(w, b + 1).next = c + 1
    BY Zenon, <1>2, AckForm DEF IsPacket
  <2>2. ackID(w, y + 1).next = z + 1
    BY Zenon, <1>2, AckForm DEF IsPacket
  <2>3. c + 1 = z + 1
    BY Zenon, <1>5, <2>1, <2>2
  <2>. QED BY Zenon, <1>3, <2>3
<1>. QED BY Zenon, <1>4, <1>5, <1>6

(* A triple has three components.                                          *)
LEMMA Triple ==
  ASSUME NEW S, NEW f \in S \X S \X S
  PROVE  f[1] \in S /\ f[2] \in S /\ f[3] \in S /\ f = <<f[1], f[2], f[3]>>
OBVIOUS

(* The text on the wire consists of bytes.                                 *)
WireInv == wire \in Seq(Octets)

(* It is empty at first.                                                   *)
LEMMA WireInvInit == Init => WireInv
BY DEF Init, WireInv

(* Receive adds one, Frame none.                                           *)
LEMMA WireInvStep == WireInv /\ [Next]_vars => WireInv'
<1>. SUFFICES ASSUME WireInv, [Next]_vars PROVE WireInv'
  BY Zenon
<1>1. ASSUME NEW b \in Bytes, Receive(b) PROVE WireInv'
  <2>1. b \in Octets
    BY CodecConstants DEF Octets
  <2>2. wire' = Append(wire, b) /\ wire \in Seq(Octets)
    BY Zenon, <1>1 DEF Receive, WireInv
  <2>. QED BY <2>1, <2>2 DEF WireInv
<1>. QED BY Zenon, <1>1 DEF Next, Frame, vars, WireInv

(* Decode accepts exactly the texts that the grammar of the package        *)
(* comment describes, which it does in one way only, and returns the parts *)
(* the grammar names: whatever the length of the text and its bytes.       *)
THEOREM DecodeIsGrammar == Spec => []DecodeFollowsGrammar
<1>1. WireInv => DecodeFollowsGrammar
  <2>. DEFINE n == Len(wire)
              forms == {f \in (1..n) \X (1..n) \X (1..n) : IsPacket(wire, f[1], f[2], f[3])}
              d == SIODecode(wire)
  <2>. SUFFICES ASSUME WireInv
       PROVE  /\ d.ok <=> forms # {}
              /\ \A f \in forms :
                   /\ forms = {f}
                   /\ d.packet.data = SubSeq(wire, f[3] + 1, n)
                   /\ d.packet.ackID = IF f[2] = f[3] THEN -1 ELSE atoi(SubSeq(wire, f[2] + 1, f[3]))
                   /\ d.packet.ns = IF f[1] = f[2] THEN <<slash>>
                                    ELSE SubSeq(wire, f[1] + 1, IF wire[f[2]] = comma THEN f[2] - 1 ELSE f[2])
                   /\ d.packet.attachments = IF f[1] = 1 THEN 0 ELSE atoi(SubSeq(wire, 2, f[1] - 1))
    BY Zenon DEF DecodeFollowsGrammar
  <2>1. wire \in Seq(Octets) /\ n = Len(wire) /\ d = SIODecode(wire)
    BY Zenon DEF WireInv
  <2>6. /\ \A f \in forms : f \in (1..n) \X (1..n) \X (1..n) /\ IsPacket(wire, f[1], f[2], f[3])
        /\ \A a \in 1..n : \A b \in 1..n : \A c \in 1..n : IsPacket(wire, a, b, c) => <<a, b, c>> \in forms
    <3>. HIDE DEF n
    <3>. QED BY Zenon
  <2>. HIDE DEF n, d, forms
  <2>2. d.ok => \E a \in 1..n : \E b \in 1..n : \E c \in 1..n : IsPacket(wire, a, b, c)
    BY Zenon, <2>1, DecodeForm
  <2>3. ASSUME d.ok PROVE forms # {}
    <3>1. PICK a \in 1..n, b \in 1..n, c \in 1..n : IsPacket(wire, a, b, c)
      BY Zenon, <2>2, <2>3
    <3>. QED BY Zenon, <2>6, <3>1
  <2>4. ASSUME NEW f \in forms
        PROVE  /\ d.ok /\ forms = {f}
               /\ d.packet.data = SubSeq(wire, f[3] + 1, n)
               /\ d.packet.ackID = IF f[2] = f[3] THEN -1 ELSE atoi(SubSeq(wire, f[2] + 1, f[3]))
               /\ d.packet.ns = IF f[1] = f[2] THEN <<slash>>
                                ELSE SubSeq(wire, f[1] + 1, IF wire[f[2]] = comma THEN f[2] - 1 ELSE f[2])
               /\ d.packet.attachments = IF f[1] = 1 THEN 0 ELSE atoi(SubSeq(wire, 2, f[1] - 1))
    <3>. DEFINE a == f[1]
                b == f[2]
                c == f[3]
    <3>1. f \in (1..n) \X (1..n) \X (1..n)
      BY Zenon, <2>6
    <3>2. a \in 1..n /\ b \in 1..n /\ c \in 1..n /\ f = <<a, b, c>>
      BY ONLY <3>1, Triple
    <3>3. IsPacket(wire, a, b, c)
      BY Zenon, <2>6
    <3>. HIDE DEF a, b, c
    <3>4. d = [ok |-> TRUE, packet |-> Parts(wire, a, b, c)]
      BY Zenon, <2>1, <3>2, <3>3, FormDecodes
    <3>5. d.ok /\ d.packet = Parts(wire, a, b, c)
      BY Zenon, <3>4
    <3>6. ASSUME NEW g \in forms PROVE g = f
      <4>. DEFINE x == g[1]
                  y == g[2]
                  z == g[3]
      <4>4. g \in (1..n) \X (1..n) \X (1..n)
        BY Zenon, <2>6
      <4>1. x \in 1..n /\ y \in 1..n /\ z \in 1..n /\ g = <<x, y, z>>
        BY ONLY <4>4, Triple
      <4>2. IsPacket(wire, x, y, z)
        BY Zenon, <2>6
      <4>. HIDE DEF x, y, z
      <4>3. a = x /\ b = y /\ c = z
        BY Zenon, <2>1, <3>2, <3>3, <4>1, <4>2, FormOnce
      <4>. QED BY Zenon, <3>2, <4>1, <4>3
    <3>7. forms = {f}
      BY Zenon, <3>6
    <3>8. /\ d.packet.data = SubSeq(wire, c + 1, n)
          /\ d.packet.ackID = IF b = c THEN -1 ELSE atoi(SubSeq(wire, b + 1, c))
          /\ d.packet.ns = IF a = b THEN <<slash>> ELSE SubSeq(wire, a + 1, IF wire[b] = comma THEN b - 1 ELSE b)
          /\ d.packet.attachments = IF a = 1 THEN 0 ELSE atoi(SubSeq(wire, 2, a - 1))
      <4>. DEFINE p == d.packet
      <4>1. p = [type |-> wire[1] - digit(0),
                 attachments |-> IF a = 1 THEN 0 ELSE atoi(SubSeq(wire, 2, a - 1)),
                 ns |-> IF a = b THEN <<slash>> ELSE SubSeq(wire, a + 1, IF wire[b] = comma THEN b - 1 ELSE b),
                 ackID |-> IF b = c THEN -1 ELSE atoi(SubSeq(wire, b + 1, c)),
                 data |-> SubSeq(wire, c + 1, n)]
        BY Zenon, <3>5 DEF Parts, countOf, nameOf, idOf, n
      <4>. HIDE DEF p
      <4>2. /\ p.data = SubSeq(wire, c + 1, n)
            /\ p.ackID = IF b = c THEN -1 ELSE atoi(SubSeq(wire, b + 1, c))
            /\ p.ns = IF a = b THEN <<slash>> ELSE SubSeq(wire, a + 1, IF wire[b] = comma THEN b - 1 ELSE b)
            /\ p.attachments = IF a = 1 THEN 0 ELSE atoi(SubSeq(wire, 2, a - 1))
        BY Zenon, <4>1
      <4>. QED BY Zenon, <4>2 DEF p
    <3>. QED BY Zenon, <3>5, <3>7, <3>8 DEF a, b, c
  <2>5. forms # {} => d.ok
    BY Zenon, <2>4
  <2>. QED BY Zenon, <2>3, <2>4, <2>5
<1>. QED BY <1>1, WireInvInit, WireInvStep, PTL DEF Spec
-----------------------------------------------------------------------------
(* Socket.IO: encoding inverts decoding                                    *)

(* y stands in e after the position i.                                     *)
At(e, i, y) == i \in Nat /\ i + Len(y) <= Len(e) /\ \A k \in 1..Len(y) : e[i + k] = y[k]

(* A text contains the two it is joined from, and what the first contains. *)
LEMMA AtJoin ==
  ASSUME NEW S, NEW x \in Seq(S), NEW z \in Seq(S)
  PROVE  /\ x \o z \in Seq(S) /\ Len(x \o z) = Len(x) + Len(z) /\ Len(x) \in Nat
         /\ At(x \o z, Len(x), z)
         /\ \A i : \A y \in Seq(S) : At(x, i, y) => At(x \o z, i, y)
<1>1. /\ x \o z \in Seq(S) /\ Len(x \o z) = Len(x) + Len(z) /\ Len(x) \in Nat /\ Len(z) \in Nat
      /\ \A k \in 1..Len(z) : (x \o z)[Len(x) + k] = z[k]
      /\ \A k \in 1..Len(x) : (x \o z)[k] = x[k]
  OBVIOUS
<1>2. At(x \o z, Len(x), z)
  <2>1. Len(x) + Len(z) <= Len(x \o z)
    <3>. DEFINE l == Len(x \o z)
    <3>. HIDE DEF l
    <3>. QED BY ONLY <1>1 DEF l
  <2>. QED BY Zenon, <1>1, <2>1 DEF At
<1>3. ASSUME NEW i, NEW y \in Seq(S), At(x, i, y) PROVE At(x \o z, i, y)
  <2>1. i \in Nat /\ i + Len(y) <= Len(x) /\ (\A k \in 1..Len(y) : x[i + k] = y[k])
    BY Zenon, <1>3 DEF At
  <2>2. Len(y) \in Nat
    OBVIOUS
  <2>3. i + Len(y) <= Len(x) + Len(z) /\ \A k \in 1..Len(y) : i + k \in 1..Len(x)
    BY ONLY <1>1, <2>1, <2>2
  <2>. QED BY Zenon, <1>1, <2>1, <2>3 DEF At
<1>. QED BY Zenon, <1>1, <1>2, <1>3

(* What stands after i is the segment there.                               *)
LEMMA AtCut ==
  ASSUME NEW S, NEW e \in Seq(S), NEW i, NEW y \in Seq(S), At(e, i, y)
  PROVE  SubSeq(e, i + 1, i + Len(y)) = y
<1>1. i \in Nat /\ i + Len(y) <= Len(e) /\ (\A k \in 1..Len(y) : e[i + k] = y[k]) /\ Len(y) \in Nat /\ Len(e) \in Nat
  <2>1. Len(y) \in Nat /\ Len(e) \in Nat
    OBVIOUS
  <2>. QED BY Zenon, <2>1 DEF At
<1>2. /\ i + 1 \in 1..Len(e) + 1 /\ i + Len(y) \in (i + 1) - 1..Len(e)
      /\ (i + Len(y)) - ((i + 1) - 1) = Len(y) /\ (i + 1) - 1 = i
  BY ONLY <1>1
<1>. DEFINE c == SubSeq(e, i + 1, i + Len(y))
<1>3. c \in Seq(S) /\ Len(c) = Len(y) /\ \A k \in 1..Len(y) : c[k] = e[i + k]
  <2>1. /\ c \in Seq(S) /\ Len(c) = (i + Len(y)) - ((i + 1) - 1)
        /\ \A k \in 1..(i + Len(y)) - ((i + 1) - 1) : c[k] = e[((i + 1) - 1) + k]
    BY Zenon, <1>2, CutProps
  <2>. HIDE DEF c
  <2>. QED BY Zenon, <1>2, <2>1
<1>. HIDE DEF c
<1>4. \A k \in 1..Len(y) : c[k] = y[k]
  BY Zenon, <1>1, <1>3
<1>5. c = y
  BY ONLY <1>3, <1>4, c \in Seq(S), y \in Seq(S)
<1>. QED BY Zenon, <1>5 DEF c

(* A text without its last byte.                                           *)
LEMMA AtFront ==
  ASSUME NEW S, NEW e \in Seq(S), NEW i, NEW y \in Seq(S), NEW m \in S, At(e, i, Append(y, m))
  PROVE  At(e, i, y) /\ e[i + Len(y) + 1] = m /\ i + Len(y) + 1 <= Len(e)
<1>. DEFINE q == Append(y, m)
<1>1. Len(q) = Len(y) + 1 /\ q[Len(y) + 1] = m /\ (\A k \in 1..Len(y) : q[k] = y[k]) /\ Len(y) \in Nat /\ Len(e) \in Nat
  OBVIOUS
<1>2. i \in Nat /\ i + Len(q) <= Len(e) /\ \A k \in 1..Len(q) : e[i + k] = q[k]
  BY Zenon DEF At
<1>. HIDE DEF q
<1>3. /\ i + Len(y) <= Len(e) /\ Len(y) + 1 \in 1..Len(q) /\ i + (Len(y) + 1) = i + Len(y) + 1 /\ i + Len(y) + 1 <= Len(e)
      /\ \A k \in 1..Len(y) : k \in 1..Len(q)
  BY ONLY <1>1, <1>2
<1>4. e[i + (Len(y) + 1)] = m
  BY Zenon, <1>1, <1>2, <1>3
<1>5. \A k \in 1..Len(y) : e[i + k] = y[k]
  BY Zenon, <1>1, <1>2, <1>3
<1>6. At(e, i, y)
  BY Zenon, <1>2, <1>3, <1>5 DEF At
<1>. QED BY Zenon, <1>3, <1>4, <1>6

(* e is joined from the five parts of a packet, the first of them a byte.  *)
Joined(e, S, T, H, N, K, D) ==
  /\ T \in Seq(S) /\ H \in Seq(S) /\ N \in Seq(S) /\ K \in Seq(S) /\ D \in Seq(S)
  /\ e = T \o H \o N \o K \o D /\ Len(T) = 1

(* Where the parts stand.                                                  *)
Placed(e, S, T, H, N, K, D) ==
  /\ e \in Seq(S) /\ Len(e) = 1 + Len(H) + Len(N) + Len(K) + Len(D)
  /\ At(e, 0, T) /\ At(e, 1, H) /\ At(e, 1 + Len(H), N) /\ At(e, 1 + Len(H) + Len(N), K)
  /\ At(e, 1 + Len(H) + Len(N) + Len(K), D)

(* They stand so.                                                          *)
LEMMA FiveParts ==
  ASSUME NEW e, NEW S, NEW T, NEW H, NEW N, NEW K, NEW D, Joined(e, S, T, H, N, K, D)
  PROVE  Placed(e, S, T, H, N, K, D)
<1>. DEFINE x1 == T \o H
            x2 == x1 \o N
            x3 == x2 \o K
            x4 == x3 \o D
<1>7. /\ T \in Seq(S) /\ H \in Seq(S) /\ N \in Seq(S) /\ K \in Seq(S) /\ D \in Seq(S)
      /\ e = T \o H \o N \o K \o D /\ Len(T) = 1
  BY Zenon DEF Joined
<1>1. At(T, 0, T)
  <2>1. 0 + Len(T) <= Len(T) /\ \A k \in 1..Len(T) : T[0 + k] = T[k]
    BY ONLY <1>7
  <2>. QED BY Zenon, <2>1 DEF At
<1>2. x1 \in Seq(S) /\ Len(x1) = 1 + Len(H) /\ At(x1, 0, T) /\ At(x1, 1, H)
  BY Zenon, <1>1, <1>7, AtJoin
<1>. HIDE DEF x1
<1>3. x2 \in Seq(S) /\ Len(x2) = 1 + Len(H) + Len(N) /\ At(x2, 0, T) /\ At(x2, 1, H) /\ At(x2, 1 + Len(H), N)
  BY Zenon, <1>2, <1>7, AtJoin
<1>. HIDE DEF x2
<1>4. /\ x3 \in Seq(S) /\ Len(x3) = 1 + Len(H) + Len(N) + Len(K) /\ At(x3, 0, T) /\ At(x3, 1, H) /\ At(x3, 1 + Len(H), N)
      /\ At(x3, 1 + Len(H) + Len(N), K)
  BY Zenon, <1>3, <1>7, AtJoin
<1>. HIDE DEF x3
<1>5. /\ x4 \in Seq(S) /\ Len(x4) = 1 + Len(H) + Len(N) + Len(K) + Len(D)
      /\ At(x4, 0, T) /\ At(x4, 1, H) /\ At(x4, 1 + Len(H), N)
      /\ At(x4, 1 + Len(H) + Len(N), K) /\ At(x4, 1 + Len(H) + Len(N) + Len(K), D)
  BY Zenon, <1>4, <1>7, AtJoin
<1>6. e = x4
  BY Zenon, <1>7 DEF x1, x2, x3
<1>. HIDE DEF x4
<1>. QED BY Zenon, <1>5, <1>6 DEF Placed

(* The packets Decode produces: the numbers are within range, an event     *)
(* without attachments has none, the namespace begins with a slash and has *)
(* no comma, and the payload does not begin with a digit.                  *)
Sound(type, count, ns, id, data) ==
  /\ type \in 0..6
  /\ count \in Nat /\ count <= MaxInt /\ (~isBinary(type) => count = 0)
  /\ ns \in Seq(Octets) /\ ns # <<>> /\ ns[1] = slash /\ (\A i \in 1..Len(ns) : ns[i] # comma)
  /\ id = -1 \/ (id \in Nat /\ id <= MaxInt)
  /\ data \in Seq(Octets) /\ (data # <<>> => ~isDigit(data[1]))

(* The texts Encode writes for the attachments, the namespace and the ack  *)
(* id.                                                                     *)
countText(type, count) == IF isBinary(type) THEN Append(itoa(count), dash) ELSE <<>>

nameText(ns) == IF ns \in {<<>>, <<slash>>} THEN <<>> ELSE Append(ns, comma)

idText(id) == IF id = -1 THEN <<>> ELSE itoa(id)

(* The fields of a packet.                                                 *)
Fields(p, type, count, ns, id, data) ==
  p.type = type /\ p.attachments = count /\ p.ns = ns /\ p.ackID = id /\ p.data = data

Text(type, count, ns, id, data) ==
  <<digit(type)>> \o countText(type, count) \o nameText(ns) \o idText(id) \o data

(* Encode joins the texts.                                                 *)
LEMMA EncodeParts ==
  ASSUME NEW p, NEW type, NEW count, NEW ns, NEW id, NEW data, Fields(p, type, count, ns, id, data)
  PROVE  SIOEncode(p) = Text(type, count, ns, id, data)
<1>1. SIOEncode(p) = Text(p.type, p.attachments, p.ns, p.ackID, p.data)
  BY Zenon DEF SIOEncode, Text, countText, nameText, idText
<1>. QED BY Zenon, <1>1 DEF Fields

(* An itoa is a text of digits, and not empty.                             *)
LEMMA ItoaText ==
  ASSUME NEW n \in Nat
  PROVE  /\ itoa(n) \in Seq(Octets) /\ Len(itoa(n)) \in Nat /\ Len(itoa(n)) > 0 /\ atoi(itoa(n)) = n
         /\ allDigits(itoa(n)) /\ isDigit(itoa(n)[1])
<1>. DEFINE s == itoa(n)
<1>1. s \in Seq(digits) /\ s # <<>> /\ atoi(s) = n
  BY Zenon, ItoaInverse
<1>. HIDE DEF s
<1>2. s \in Seq(Octets)
  BY Zenon, <1>1, Marks, SeqWiden DEF Octets
<1>3. Len(s) \in Nat /\ Len(s) > 0 /\ 1 \in DOMAIN s /\ \A i \in DOMAIN s : s[i] \in digits
  BY ONLY <1>1
<1>. QED BY Zenon, <1>1, <1>2, <1>3 DEF s, allDigits, isDigit

(* The header that Encode writes stands at the beginning, and is read.     *)
HeaderAt(e, type, count, a) ==
  /\ e \in Seq(Octets) /\ type \in 0..6
  /\ count \in Nat /\ count <= MaxInt /\ (~isBinary(type) => count = 0)
  /\ e[1] = digit(type) /\ a = 1 + Len(countText(type, count)) /\ At(e, 1, countText(type, count))

HeaderRead(e, type, count, a) == IsHeader(e, a) /\ countOf(e, a) = count

(* What is written there is read back.                                     *)
LEMMA HeaderWritten ==
  ASSUME NEW e, NEW type, NEW count, NEW a, HeaderAt(e, type, count, a)
  PROVE  HeaderRead(e, type, count, a)
<1>. SUFFICES ASSUME e \in Seq(Octets), type \in 0..6, count \in Nat, count <= MaxInt,
                     ~isBinary(type) => count = 0, e[1] = digit(type), a = 1 + Len(countText(type, count)),
                     At(e, 1, countText(type, count))
              PROVE  IsHeader(e, a) /\ countOf(e, a) = count
  BY Zenon DEF HeaderAt, HeaderRead
<1>1. e[1] \in digit(0)..digit(6) /\ e[1] - digit(0) = type
  <2>1. digit(type) \in digit(0)..digit(6) /\ digit(type) - digit(0) = type
    BY ONLY type \in 0..6 DEF digit
  <2>. QED BY Zenon, <2>1
<1>2. CASE ~isBinary(type)
  <2>1. countText(type, count) = <<>>
    BY Zenon, <1>2 DEF countText
  <2>2. Len(<<>>) = 0 /\ 1 + 0 = 1 /\ <<>> \in Seq(Octets)
    OBVIOUS
  <2>3. a = 1
    BY Zenon, <2>1, <2>2
  <2>. QED BY Zenon, <1>1, <1>2, <2>1, <2>2, <2>3 DEF IsHeader, countOf
<1>3. CASE isBinary(type)
  <2>. DEFINE s == itoa(count)
  <2>1. countText(type, count) = Append(s, dash)
    BY Zenon, <1>3 DEF countText
  <2>2. s \in Seq(Octets) /\ Len(s) \in Nat /\ Len(s) > 0 /\ atoi(s) = count /\ allDigits(s)
    BY Zenon, ItoaText
  <2>3. dash \in Octets
    BY Zenon, Marks DEF Octets
  <2>. HIDE DEF s
  <2>4. Append(s, dash) \in Seq(Octets) /\ Len(Append(s, dash)) = Len(s) + 1
    BY Zenon, <2>2, <2>3, AppendMore
  <2>5. At(e, 1, s) /\ e[1 + Len(s) + 1] = dash
    <3>. DEFINE i == 1
    <3>1. At(e, i, Append(s, dash))
      BY Zenon, <2>1
    <3>. HIDE DEF i
    <3>2. At(e, i, s) /\ e[i + Len(s) + 1] = dash
      BY ONLY Zenon, e \in Seq(Octets), <2>2, <2>3, <3>1, AtFront
    <3>. QED BY Zenon, <3>2 DEF i
  <2>6. a = 1 + (Len(s) + 1)
    BY Zenon, <2>1, <2>4
  <2>7. a = 1 + Len(s) + 1 /\ a - 1 = 1 + Len(s) /\ a > 2 /\ a # 1 /\ 1 + 1 = 2
    BY ONLY <2>2, <2>6
  <2>8. SubSeq(e, 1 + 1, 1 + Len(s)) = s
    BY Zenon, <2>2, <2>5, AtCut
  <2>9. SubSeq(e, 2, a - 1) = s
    BY Zenon, <2>7, <2>8
  <2>. QED BY Zenon, <1>1, <1>3, <2>1, <2>2, <2>4, <2>5, <2>7, <2>9 DEF IsHeader, countOf
<1>. QED BY Zenon, <1>2, <1>3

(* The namespace stands after a, where nothing that follows the default    *)
(* one can be taken for another, and is read.                              *)
NameAt(e, ns, a, b) ==
  /\ e \in Seq(Octets)
  /\ ns \in Seq(Octets) /\ ns # <<>> /\ ns[1] = slash /\ (\A i \in 1..Len(ns) : ns[i] # comma)
  /\ a \in Nat /\ b = a + Len(nameText(ns)) /\ At(e, a, nameText(ns)) /\ (b < Len(e) => e[b + 1] # slash)

NameRead(e, ns, a, b) == IsNamespace(e, a, b) /\ nameOf(e, a, b) = ns

(* What is written there is read back.                                     *)
LEMMA NameWritten ==
  ASSUME NEW e, NEW ns, NEW a, NEW b, NameAt(e, ns, a, b)
  PROVE  NameRead(e, ns, a, b)
<1>. SUFFICES ASSUME e \in Seq(Octets), ns \in Seq(Octets), ns # <<>>, ns[1] = slash,
                     \A i \in 1..Len(ns) : ns[i] # comma,
                     a \in Nat, b = a + Len(nameText(ns)), At(e, a, nameText(ns)),
                     b < Len(e) => e[b + 1] # slash
              PROVE  IsNamespace(e, a, b) /\ nameOf(e, a, b) = ns
  BY Zenon DEF NameAt, NameRead
<1>1. CASE ns = <<slash>>
  <2>1. nameText(ns) = <<>>
    BY Zenon, <1>1 DEF nameText
  <2>2. Len(<<>>) = 0 /\ a + 0 = a /\ <<>> \in Seq(Octets)
    OBVIOUS
  <2>3. b = a
    BY Zenon, <2>1, <2>2
  <2>. QED BY Zenon, <1>1, <2>1, <2>2, <2>3 DEF IsNamespace, nameOf
<1>2. CASE ns # <<slash>>
  <2>1. nameText(ns) = Append(ns, comma)
    BY Zenon, <1>2 DEF nameText
  <2>2. comma \in Octets
    BY Zenon, Marks DEF Octets
  <2>3. Append(ns, comma) \in Seq(Octets) /\ Len(Append(ns, comma)) = Len(ns) + 1
    BY Zenon, <2>2, AppendMore
  <2>4. At(e, a, ns) /\ e[a + Len(ns) + 1] = comma /\ a + Len(ns) + 1 <= Len(e)
    <3>1. At(e, a, Append(ns, comma))
      BY Zenon, <2>1
    <3>. QED BY Zenon, <2>2, <3>1, AtFront
  <2>5. \A k \in 1..Len(ns) : e[a + k] = ns[k]
    BY Zenon, <2>4 DEF At
  <2>6. Len(ns) \in Nat /\ Len(ns) > 0 /\ Len(e) \in Nat
    OBVIOUS
  <2>7. b = a + (Len(ns) + 1)
    BY Zenon, <2>1, <2>3
  <2>8. /\ b = a + Len(ns) + 1 /\ b > a /\ b # a /\ a < Len(e) /\ 1 \in 1..Len(ns) /\ b - 1 = a + Len(ns)
        /\ \A i \in a + 1..b - 1 : i - a \in 1..Len(ns) /\ a + (i - a) = i
    BY ONLY <2>4, <2>6, <2>7, a \in Nat
  <2>9. e[a + 1] = slash /\ e[b] = comma
    BY Zenon, <2>4, <2>5, <2>8
  <2>10. ASSUME NEW i \in a + 1..b - 1 PROVE e[i] # comma
    <3>1. i - a \in 1..Len(ns) /\ a + (i - a) = i
      BY Zenon, <2>8
    <3>2. e[a + (i - a)] = ns[i - a] /\ ns[i - a] # comma
      BY Zenon, <2>5, <3>1
    <3>. QED BY Zenon, <3>1, <3>2
  <2>11. SubSeq(e, a + 1, b - 1) = ns
    <3>1. SubSeq(e, a + 1, a + Len(ns)) = ns
      BY Zenon, <2>4, AtCut
    <3>. QED BY Zenon, <2>8, <3>1
  <2>12. IsNamespace(e, a, b)
    BY Zenon, <2>8, <2>9, <2>10 DEF IsNamespace
  <2>13. nameOf(e, a, b) = ns
    BY Zenon, <2>8, <2>9, <2>11 DEF nameOf
  <2>. QED BY Zenon, <2>1, <2>3, <2>12, <2>13
<1>. QED BY Zenon, <1>1, <1>2

(* The ack id stands after b, where no digit follows, and is read.         *)
IdAt(e, id, b, c) ==
  /\ e \in Seq(Octets)
  /\ id = -1 \/ (id \in Nat /\ id <= MaxInt)
  /\ b \in Nat /\ c = b + Len(idText(id)) /\ At(e, b, idText(id)) /\ (c < Len(e) => ~isDigit(e[c + 1]))

IdRead(e, id, b, c) == IsAckID(e, b, c) /\ idOf(e, b, c) = id

(* What is written there is read back.                                     *)
LEMMA IdWritten ==
  ASSUME NEW e, NEW id, NEW b, NEW c, IdAt(e, id, b, c)
  PROVE  IdRead(e, id, b, c)
<1>. SUFFICES ASSUME e \in Seq(Octets), id = -1 \/ (id \in Nat /\ id <= MaxInt),
                     b \in Nat, c = b + Len(idText(id)), At(e, b, idText(id)),
                     c < Len(e) => ~isDigit(e[c + 1])
              PROVE  IsAckID(e, b, c) /\ idOf(e, b, c) = id
  BY Zenon DEF IdAt, IdRead
<1>1. CASE id = -1
  <2>1. idText(id) = <<>>
    BY Zenon, <1>1 DEF idText
  <2>2. Len(<<>>) = 0 /\ b + 0 = b /\ <<>> \in Seq(Octets) /\ ~(b < b) /\ b + 1 \in Nat
    OBVIOUS
  <2>3. c = b
    BY Zenon, <2>1, <2>2
  <2>4. allDigits(SubSeq(e, b + 1, b))
    <3>1. DOMAIN SubSeq(e, b + 1, b) = {}
      OBVIOUS
    <3>. QED BY Zenon, <3>1 DEF allDigits
  <2>. QED BY Zenon, <1>1, <2>1, <2>2, <2>3, <2>4 DEF IsAckID, idOf
<1>2. CASE id # -1
  <2>. DEFINE s == itoa(id)
  <2>1. idText(id) = s /\ id \in Nat /\ id <= MaxInt
    BY Zenon, <1>2 DEF idText
  <2>2. s \in Seq(Octets) /\ Len(s) \in Nat /\ Len(s) > 0 /\ atoi(s) = id /\ allDigits(s)
    BY Zenon, <2>1, ItoaText
  <2>. HIDE DEF s
  <2>3. SubSeq(e, b + 1, b + Len(s)) = s
    BY Zenon, <2>1, <2>2, AtCut
  <2>4. SubSeq(e, b + 1, c) = s
    BY Zenon, <2>1, <2>3
  <2>5. b # c
    BY ONLY <2>1, <2>2, c = b + Len(idText(id)), b \in Nat
  <2>6. IsAckID(e, b, c)
    BY Zenon, <2>1, <2>2, <2>4 DEF IsAckID
  <2>7. idOf(e, b, c) = id
    BY Zenon, <2>2, <2>4, <2>5 DEF idOf
  <2>. QED BY Zenon, <2>1, <2>2, <2>6, <2>7
<1>. QED BY Zenon, <1>1, <1>2

(* A packet whose payload does not begin with a slash.                     *)
Encodable(p, type, count, ns, id, data) ==
  /\ Sound(type, count, ns, id, data)
  /\ data = <<>> \/ data[1] # slash
  /\ p = [type |-> type, attachments |-> count, ns |-> ns, ackID |-> id, data |-> data]

(* Decode inverts Encode on every packet with a type, counts within range, *)
(* a namespace that begins with a slash and has no comma, and a payload    *)
(* that begins with neither a digit nor a slash, whether a peer sent it or *)
(* the server built it.                                                    *)
THEOREM DecodeInvertsEncode ==
  ASSUME NEW p, NEW type, NEW count, NEW ns, NEW id, NEW data, Encodable(p, type, count, ns, id, data)
  PROVE  SIODecode(SIOEncode(p)) = [ok |-> TRUE, packet |-> p]
<1>. SUFFICES ASSUME Sound(type, count, ns, id, data), data = <<>> \/ data[1] # slash,
                     p = [type |-> type, attachments |-> count, ns |-> ns, ackID |-> id, data |-> data]
              PROVE  SIODecode(SIOEncode(p)) = [ok |-> TRUE, packet |-> p]
  BY Zenon DEF Encodable
<1>. DEFINE T == <<digit(type)>>
            H == countText(type, count)
            N == nameText(ns)
            K == idText(id)
            e == SIOEncode(p)
            a == 1 + Len(H)
            b == a + Len(N)
            c == b + Len(K)
<1>1. /\ type \in 0..6 /\ count \in Nat /\ count <= MaxInt /\ (~isBinary(type) => count = 0)
      /\ ns \in Seq(Octets) /\ ns # <<>> /\ ns[1] = slash /\ (\A i \in 1..Len(ns) : ns[i] # comma)
      /\ (id = -1 \/ (id \in Nat /\ id <= MaxInt))
      /\ data \in Seq(Octets) /\ (data # <<>> => ~isDigit(data[1]))
  BY Zenon DEF Sound
<1>2. T \in Seq(Octets) /\ Len(T) = 1 /\ T[1] = digit(type)
  BY ONLY <1>1 DEF digit, Octets
<1>3. H \in Seq(Octets) /\ N \in Seq(Octets) /\ K \in Seq(Octets)
  <2>1. dash \in Octets /\ comma \in Octets /\ <<>> \in Seq(Octets)
    <3>1. <<>> \in Seq(Octets)
      OBVIOUS
    <3>. QED BY Zenon, <3>1, Marks DEF Octets
  <2>2. itoa(count) \in Seq(Octets) /\ (id # -1 => itoa(id) \in Seq(Octets))
    BY Zenon, <1>1, ItoaText
  <2>3. H \in Seq(Octets)
    BY Zenon, <2>1, <2>2, AppendMore DEF countText
  <2>4. N \in Seq(Octets)
    BY Zenon, <1>1, <2>1, AppendMore DEF nameText
  <2>5. K \in Seq(Octets)
    BY Zenon, <2>1, <2>2 DEF idText
  <2>. QED BY Zenon, <2>3, <2>4, <2>5
<1>4. e = T \o H \o N \o K \o data
  <2>1. Fields(p, type, count, ns, id, data)
    BY Zenon DEF Fields
  <2>2. SIOEncode(p) = Text(type, count, ns, id, data)
    BY ONLY Zenon, <2>1, EncodeParts
  <2>. QED BY Zenon, <2>2 DEF Text
<1>. HIDE DEF T, H, N, K, e
<1>5. /\ e \in Seq(Octets) /\ Len(e) = c + Len(data) /\ At(e, 0, T) /\ At(e, 1, H) /\ At(e, a, N) /\ At(e, b, K)
      /\ At(e, c, data)
  <2>1. data \in Seq(Octets)
    BY Zenon, <1>1
  <2>2. Joined(e, Octets, T, H, N, K, data)
    BY Zenon, <1>2, <1>3, <1>4, <2>1 DEF Joined
  <2>3. Placed(e, Octets, T, H, N, K, data)
    BY ONLY Zenon, <2>2, FiveParts
  <2>. QED BY Zenon, <2>3 DEF Placed
<1>6. /\ Len(H) \in Nat /\ Len(N) \in Nat /\ Len(K) \in Nat /\ Len(data) \in Nat
      /\ (data # <<>> <=> Len(data) > 0)
  <2>1. data \in Seq(Octets)
    BY Zenon, <1>1
  <2>. QED BY ONLY <1>3, <2>1
<1>7. e[1] = digit(type)
  <2>1. \A k \in 1..1 : e[0 + k] = T[k]
    BY Zenon, <1>2, <1>5 DEF At
  <2>2. e[0 + 1] = T[1] /\ 0 + 1 = 1
    BY ONLY <2>1
  <2>. QED BY Zenon, <1>2, <2>2
<1>8. IsHeader(e, a) /\ countOf(e, a) = count
  <2>1. type \in 0..6 /\ count \in Nat /\ count <= MaxInt /\ (~isBinary(type) => count = 0)
    BY Zenon, <1>1
  <2>2. e \in Seq(Octets) /\ a = 1 + Len(countText(type, count)) /\ At(e, 1, countText(type, count))
    BY Zenon, <1>5 DEF H
  <2>. HIDE DEF a
  <2>3. HeaderAt(e, type, count, a)
    BY Zenon, <1>7, <2>1, <2>2 DEF HeaderAt
  <2>4. HeaderRead(e, type, count, a)
    BY ONLY Zenon, <2>3, HeaderWritten
  <2>. QED BY Zenon, <2>4 DEF HeaderRead
<1>. HIDE DEF a
<1>9. a \in Nat /\ a > 0
  BY ONLY <1>6 DEF a
<1>. HIDE DEF b
<1>10. b \in Nat /\ a <= b
  BY ONLY <1>6, <1>9 DEF b
<1>. HIDE DEF c
<1>11. c \in Nat /\ b <= c
  BY ONLY <1>6, <1>10 DEF c
<1>12. c < Len(e) => data # <<>> /\ e[c + 1] = data[1]
  <2>1. \A k \in 1..Len(data) : e[c + k] = data[k]
    BY Zenon, <1>5 DEF At
  <2>2. c < Len(e) => data # <<>> /\ 1 \in 1..Len(data)
    <3>. DEFINE l == Len(e)
    <3>1. l = c + Len(data)
      BY Zenon, <1>5
    <3>. HIDE DEF l
    <3>2. c < l => Len(data) > 0 /\ 1 \in 1..Len(data)
      BY ONLY <1>6, <1>11, <3>1
    <3>. QED BY Zenon, <1>6, <3>2 DEF l
  <2>. QED BY Zenon, <2>1, <2>2
<1>13. IsAckID(e, b, c) /\ idOf(e, b, c) = id
  <2>1. c < Len(e) => ~isDigit(e[c + 1])
    BY Zenon, <1>1, <1>12
  <2>2. c = b + Len(idText(id)) /\ At(e, b, idText(id))
    BY Zenon, <1>5 DEF c, K
  <2>3. e \in Seq(Octets) /\ (id = -1 \/ (id \in Nat /\ id <= MaxInt))
    BY Zenon, <1>1, <1>5
  <2>4. IdAt(e, id, b, c)
    BY Zenon, <1>10, <2>1, <2>2, <2>3 DEF IdAt
  <2>5. IdRead(e, id, b, c)
    BY ONLY Zenon, <2>4, IdWritten
  <2>. QED BY Zenon, <2>5 DEF IdRead
<1>14. b < Len(e) => e[b + 1] # slash
  <2>1. CASE id = -1
    <3>1. K = <<>>
      BY Zenon, <2>1 DEF K, idText
    <3>2. c = b
      BY ONLY <1>10, <3>1 DEF c
    <3>. QED BY Zenon, <1>12, <3>2
  <2>2. CASE id # -1
    <3>1. Len(K) > 0 /\ isDigit(K[1])
      BY Zenon, <1>1, <2>2, ItoaText DEF K, idText
    <3>2. \A k \in 1..Len(K) : e[b + k] = K[k]
      BY Zenon, <1>5 DEF At
    <3>3. 1 \in 1..Len(K)
      BY ONLY <1>6, <3>1
    <3>4. isDigit(e[b + 1])
      BY Zenon, <3>1, <3>2, <3>3
    <3>. QED BY Zenon, <3>4, Marks DEF isDigit
  <2>. QED BY Zenon, <2>1, <2>2
<1>15. IsNamespace(e, a, b) /\ nameOf(e, a, b) = ns
  <2>1. b = a + Len(nameText(ns)) /\ At(e, a, nameText(ns))
    BY Zenon, <1>5 DEF b, N
  <2>2. /\ e \in Seq(Octets)
        /\ ns \in Seq(Octets) /\ ns # <<>> /\ ns[1] = slash /\ \A i \in 1..Len(ns) : ns[i] # comma
    BY Zenon, <1>1, <1>5
  <2>3. NameAt(e, ns, a, b)
    BY Zenon, <1>9, <1>14, <2>1, <2>2 DEF NameAt
  <2>4. NameRead(e, ns, a, b)
    BY ONLY Zenon, <2>3, NameWritten
  <2>. QED BY Zenon, <2>4 DEF NameRead
<1>16. SubSeq(e, c + 1, Len(e)) = data
  <2>1. SubSeq(e, c + 1, c + Len(data)) = data
    BY Zenon, <1>1, <1>5, AtCut
  <2>. QED BY Zenon, <1>5, <2>1
<1>17. IsPacket(e, a, b, c)
  BY Zenon, <1>8, <1>10, <1>11, <1>13, <1>15 DEF IsPacket
<1>18. a \in 1..Len(e) /\ b \in 1..Len(e) /\ c \in 1..Len(e)
  <2>. DEFINE l == Len(e)
  <2>1. l = c + Len(data)
    BY Zenon, <1>5
  <2>. HIDE DEF l
  <2>2. a \in 1..l /\ b \in 1..l /\ c \in 1..l
    BY ONLY <1>6, <1>9, <1>10, <1>11, <2>1
  <2>. QED BY Zenon, <2>2 DEF l
<1>19. SIODecode(e) = [ok |-> TRUE, packet |-> Parts(e, a, b, c)]
  BY Zenon, <1>5, <1>17, <1>18, FormDecodes
<1>20. Parts(e, a, b, c) = p
  <2>1. digit(type) - digit(0) = type
    BY ONLY <1>1 DEF digit
  <2>2. e[1] - digit(0) = type
    BY Zenon, <1>7, <2>1
  <2>. QED BY Zenon, <1>8, <1>13, <1>15, <1>16, <2>2 DEF Parts
<1>. QED BY Zenon, <1>19, <1>20 DEF e

(* Decode produces such packets.                                           *)
LEMMA DecodeIsSound ==
  ASSUME NEW w \in Seq(Octets), NEW n, n = Len(w),
         NEW a \in 1..n, NEW b \in 1..n, NEW c \in 1..n, IsPacket(w, a, b, c)
  PROVE  Sound(w[1] - digit(0), countOf(w, a), nameOf(w, a, b), idOf(w, b, c), SubSeq(w, c + 1, n))
<1>1. a <= b /\ b <= c /\ IsHeader(w, a) /\ IsNamespace(w, a, b) /\ IsAckID(w, b, c)
  BY Zenon DEF IsPacket
<1>2. n \in Nat /\ a \in Nat /\ b \in Nat /\ c \in Nat
  OBVIOUS
<1>3. w[1] - digit(0) \in 0..6
  <2>1. w[1] \in digit(0)..digit(6)
    BY Zenon, <1>1 DEF IsHeader
  <2>. DEFINE v == w[1]
  <2>. HIDE DEF v
  <2>2. v \in digit(0)..digit(6)
    BY Zenon, <2>1 DEF v
  <2>3. v - digit(0) \in 0..6
    BY ONLY <2>2 DEF digit
  <2>. QED BY Zenon, <2>3 DEF v
<1>4. countOf(w, a) \in Nat /\ countOf(w, a) <= MaxInt /\ (~isBinary(w[1] - digit(0)) => countOf(w, a) = 0)
  <2>1. CASE ~isBinary(w[1] - digit(0))
    <3>1. a = 1
      BY Zenon, <1>1, <2>1 DEF IsHeader
    <3>2. 0 \in Nat /\ 0 <= MaxInt
      BY CodecConstants
    <3>. QED BY Zenon, <3>1, <3>2 DEF countOf
  <2>2. CASE isBinary(w[1] - digit(0))
    <3>1. a > 2 /\ allDigits(SubSeq(w, 2, a - 1)) /\ atoi(SubSeq(w, 2, a - 1)) <= MaxInt
      BY Zenon, <1>1, <2>2 DEF IsHeader
    <3>2. 2 \in 1..n + 1 /\ a - 1 \in 2 - 1..n /\ a # 1
      BY ONLY <1>2, <3>1, a \in 1..n
    <3>3. SubSeq(w, 2, a - 1) \in Seq(digits)
      BY Zenon, <3>1, <3>2, CutDigits
    <3>4. atoi(SubSeq(w, 2, a - 1)) \in Nat
      BY Zenon, <3>3, AtoiNat
    <3>. QED BY Zenon, <2>2, <3>1, <3>2, <3>4 DEF countOf
  <2>. QED BY Zenon, <2>1, <2>2
<1>5. /\ nameOf(w, a, b) \in Seq(Octets) /\ nameOf(w, a, b) # <<>> /\ nameOf(w, a, b)[1] = slash
      /\ \A i \in 1..Len(nameOf(w, a, b)) : nameOf(w, a, b)[i] # comma
  <2>. DEFINE ns == nameOf(w, a, b)
  <2>1. CASE a = b
    <3>1. ns = <<slash>>
      BY Zenon, <2>1 DEF nameOf
    <3>. HIDE DEF ns
    <3>2. ns \in Seq(Octets) /\ ns # <<>> /\ ns[1] = slash /\ \A i \in 1..Len(ns) : ns[i] # comma
      BY ONLY <3>1 DEF slash, comma, Octets
    <3>. QED BY Zenon, <3>2 DEF ns
  <2>2. CASE a # b
    <3>. DEFINE j == IF w[b] = comma THEN b - 1 ELSE b
    <3>1. ns = SubSeq(w, a + 1, j)
      BY Zenon, <2>2 DEF nameOf
    <3>2. w[a + 1] = slash /\ \A i \in a + 1..b - 1 : w[i] # comma
      BY Zenon, <1>1, <2>2 DEF IsNamespace
    <3>3. b > a
      BY ONLY <1>1, <1>2, <2>2
    <3>4. j # a
      <4>1. CASE w[b] = comma
        <5>1. b # a + 1
          BY Zenon, <3>2, <4>1, Marks
        <5>2. j = b - 1
          BY Zenon, <4>1
        <5>. HIDE DEF j
        <5>. QED BY ONLY <1>2, <5>1, <5>2
      <4>2. CASE w[b] # comma
        BY Zenon, <2>2, <4>2
      <4>. QED BY Zenon, <4>1, <4>2
    <3>5. j = b - 1 \/ (j = b /\ w[b] # comma)
      BY Zenon
    <3>. HIDE DEF j
    <3>6. /\ a + 1 \in 1..n + 1 /\ j \in (a + 1) - 1..n /\ j - ((a + 1) - 1) = j - a /\ (a + 1) - 1 = a
          /\ 1 \in 1..j - a /\ j - a > 0
          /\ \A i \in 1..j - a : a + i \in a + 1..b - 1 \/ (a + i = b /\ j = b /\ j # b - 1)
      BY ONLY <1>2, <3>3, <3>4, <3>5, b \in 1..n
    <3>7. /\ SubSeq(w, a + 1, j) \in Seq(Octets) /\ Len(SubSeq(w, a + 1, j)) = j - ((a + 1) - 1)
          /\ \A k \in 1..j - ((a + 1) - 1) : SubSeq(w, a + 1, j)[k] = w[((a + 1) - 1) + k]
      BY Zenon, <3>6, CutProps
    <3>. HIDE DEF ns
    <3>8. ns \in Seq(Octets) /\ Len(ns) = j - a /\ \A k \in 1..j - a : ns[k] = w[a + k]
      BY Zenon, <3>1, <3>6, <3>7
    <3>9. ns # <<>>
      BY ONLY <3>6, <3>8
    <3>10. ns[1] = slash
      BY Zenon, <3>2, <3>6, <3>8
    <3>11. ASSUME NEW i \in 1..j - a PROVE ns[i] # comma
      <4>1. w[a + i] # comma
        BY Zenon, <3>2, <3>5, <3>6
      <4>. QED BY Zenon, <3>8, <4>1
    <3>. QED BY Zenon, <3>8, <3>9, <3>10, <3>11 DEF ns
  <2>. QED BY Zenon, <2>1, <2>2
<1>6. idOf(w, b, c) = -1 \/ (idOf(w, b, c) \in Nat /\ idOf(w, b, c) <= MaxInt)
  <2>1. CASE b = c
    BY Zenon, <2>1 DEF idOf
  <2>2. CASE b # c
    <3>1. b < c /\ b + 1 \in 1..n + 1 /\ c \in (b + 1) - 1..n
      BY ONLY <1>1, <1>2, <2>2, c \in 1..n
    <3>2. allDigits(SubSeq(w, b + 1, c)) /\ atoi(SubSeq(w, b + 1, c)) <= MaxInt
      BY Zenon, <1>1, <3>1 DEF IsAckID
    <3>3. SubSeq(w, b + 1, c) \in Seq(digits)
      BY Zenon, <3>1, <3>2, CutDigits
    <3>4. atoi(SubSeq(w, b + 1, c)) \in Nat
      BY Zenon, <3>3, AtoiNat
    <3>. QED BY Zenon, <2>2, <3>2, <3>4 DEF idOf
  <2>. QED BY Zenon, <2>1, <2>2
<1>7. SubSeq(w, c + 1, n) \in Seq(Octets) /\ (SubSeq(w, c + 1, n) # <<>> => ~isDigit(SubSeq(w, c + 1, n)[1]))
  <2>. DEFINE data == SubSeq(w, c + 1, n)
  <2>1. /\ c + 1 \in 1..n + 1 /\ n \in (c + 1) - 1..n /\ n - ((c + 1) - 1) = n - c /\ (c + 1) - 1 = c
        /\ (c < n => 1 \in 1..n - c) /\ (~(c < n) => n - c = 0)
    BY ONLY <1>2, c \in 1..n
  <2>2. /\ data \in Seq(Octets) /\ Len(data) = n - ((c + 1) - 1)
        /\ \A k \in 1..n - ((c + 1) - 1) : data[k] = w[((c + 1) - 1) + k]
    <3>1. w \in Seq(Octets) /\ n = Len(w)
      BY Zenon
    <3>. QED BY ONLY ZenonT(30), <2>1, <3>1, CutProps
  <2>3. data # <<>> => c < n
    <3>1. Len(data) = n - c
      BY Zenon, <2>1, <2>2
    <3>. HIDE DEF data
    <3>2. data # <<>> => Len(data) # 0
      BY ONLY <2>2
    <3>. QED BY Zenon, <2>1, <3>1, <3>2
  <2>4. c < n => data[1] = w[c + 1]
    BY Zenon, <2>1, <2>2
  <2>5. c < n => ~isDigit(w[c + 1])
    BY Zenon, <1>1 DEF IsAckID
  <2>. QED BY Zenon, <2>2, <2>3, <2>4, <2>5
<1>. QED BY Zenon, <1>3, <1>4, <1>5, <1>6, <1>7 DEF Sound

(* "Encode is the inverse of Decode for any packet Decode produces": a     *)
(* packet that Decode took from any text, with a payload that does not     *)
(* begin with a slash, is the packet Decode takes from its encoding.       *)
THEOREM EncodeIsInverse == Spec => []EncodeInvertsDecode
<1>1. WireInv => EncodeInvertsDecode
  <2>. DEFINE d == SIODecode(wire)
              n == Len(wire)
  <2>. SUFFICES ASSUME WireInv, d.ok, d.packet.data = <<>> \/ d.packet.data[1] # slash
                PROVE  encodable(d.packet) /\ SIODecode(SIOEncode(d.packet)) = d
    BY Zenon DEF EncodeInvertsDecode
  <2>1. wire \in Seq(Octets) /\ n = Len(wire) /\ d = SIODecode(wire)
    BY Zenon DEF WireInv
  <2>. HIDE DEF d, n
  <2>2. PICK a \in 1..n, b \in 1..n, c \in 1..n : IsPacket(wire, a, b, c)
    BY Zenon, <2>1, DecodeForm
  <2>. DEFINE type == wire[1] - digit(0)
              count == countOf(wire, a)
              ns == nameOf(wire, a, b)
              id == idOf(wire, b, c)
              data == SubSeq(wire, c + 1, n)
              p == d.packet
  <2>3. d = [ok |-> TRUE, packet |-> Parts(wire, a, b, c)]
    BY Zenon, <2>1, <2>2, FormDecodes
  <2>4. Sound(type, count, ns, id, data)
    BY Zenon, <2>1, <2>2, DecodeIsSound
  <2>5. p = Parts(wire, a, b, c)
    BY Zenon, <2>3
  <2>6. d = [ok |-> TRUE, packet |-> p]
    BY Zenon, <2>3, <2>5
  <2>. HIDE DEF p
  <2>7. p = [type |-> type, attachments |-> count, ns |-> ns, ackID |-> id, data |-> data]
    BY Zenon, <2>1, <2>5 DEF Parts
  <2>. HIDE DEF type, count, ns, id, data
  <2>8. data = <<>> \/ data[1] # slash
    <3>1. p.data = data
      BY Zenon, <2>7
    <3>. QED BY Zenon, <3>1 DEF p
  <2>9. SIODecode(SIOEncode(p)) = [ok |-> TRUE, packet |-> p]
    <3>1. Encodable(p, type, count, ns, id, data)
      BY Zenon, <2>4, <2>7, <2>8 DEF Encodable
    <3>. QED BY ONLY Zenon, <3>1, DecodeInvertsEncode
  <2>10. encodable(p)
    <3>1. /\ p.type = type /\ p.attachments = count /\ p.ns = ns
      BY Zenon, <2>7
    <3>2. /\ type \in 0..6 /\ count \in Nat /\ (~isBinary(type) => count = 0)
          /\ ns[1] = slash
      BY Zenon, <2>4 DEF Sound
    <3>. QED BY ONLY <3>1, <3>2 DEF encodable
  <2>. QED BY Zenon, <2>6, <2>9, <2>10 DEF p
<1>. QED BY <1>1, WireInvInit, WireInvStep, PTL DEF Spec
-----------------------------------------------------------------------------
(* Engine.IO: batches                                                      *)

(* Texts without a separator, the same that are not empty, and lists of    *)
(* them.                                                                   *)
Plain == Seq(Octets \ {RecordSeparator})

Full == Plain \ {<<>>}

Lists == Seq(Plain) \ {<<>>}

(* The segments after one byte more, and after a text more.                *)
addByte(q, b) == IF b = RecordSeparator THEN Append(q, <<>>) ELSE [q EXCEPT ![Len(q)] = Append(@, b)]

extend(q, y) == [q EXCEPT ![Len(q)] = @ \o y]

(* The last element of a sequence.                                         *)
LEMMA LastOf ==
  ASSUME NEW S, NEW q \in Seq(S), q # <<>>
  PROVE  Len(q) \in DOMAIN q /\ q[Len(q)] \in S
OBVIOUS

(* A sequence with another last element.                                   *)
Changed(S, q, v, r) ==
  r \in Seq(S) /\ r # <<>> /\ Len(r) = Len(q) /\ r[Len(q)] = v /\ \A i \in 1..Len(q) - 1 : r[i] = q[i]

(* Nothing else changes.                                                   *)
LEMMA NewLast ==
  ASSUME NEW S, NEW q \in Seq(S), q # <<>>, NEW v \in S
  PROVE  Changed(S, q, v, [q EXCEPT ![Len(q)] = v])
BY DEF Changed

(* One byte more leaves a list of segments.                                *)
LEMMA AddByte ==
  ASSUME NEW q \in Lists, NEW b \in Octets
  PROVE  addByte(q, b) \in Lists
<1>1. q \in Seq(Plain) /\ q # <<>>
  BY Zenon DEF Lists
<1>2. CASE b = RecordSeparator
  <2>1. <<>> \in Plain
    BY DEF Plain
  <2>2. Append(q, <<>>) \in Seq(Plain) /\ Append(q, <<>>) # <<>>
    BY Zenon, <1>1, <2>1, AppendMore
  <2>. QED BY Zenon, <1>2, <2>2 DEF addByte, Lists
<1>3. CASE b # RecordSeparator
  <2>. DEFINE v == Append(q[Len(q)], b)
  <2>1. q[Len(q)] \in Plain
    BY Zenon, <1>1, LastOf
  <2>2. b \in Octets \ {RecordSeparator}
    BY Zenon, <1>3
  <2>3. v \in Plain
    BY Zenon, <2>1, <2>2, AppendMore DEF Plain
  <2>. HIDE DEF v
  <2>4. [q EXCEPT ![Len(q)] = v] \in Seq(Plain) /\ [q EXCEPT ![Len(q)] = v] # <<>>
    <3>1. Changed(Plain, q, v, [q EXCEPT ![Len(q)] = v])
      BY Zenon, <1>1, <2>3, NewLast
    <3>. QED BY Zenon, <3>1 DEF Changed
  <2>5. addByte(q, b) = [q EXCEPT ![Len(q)] = v]
    BY Zenon, <1>3 DEF addByte, v
  <2>. QED BY Zenon, <2>4, <2>5 DEF Lists
<1>. QED BY Zenon, <1>2, <1>3

(* f has the segments of the first 0, 1, ... bytes of s.                   *)
Splits(f, s) == f = [i \in 0..Len(s) |-> IF i = 0 THEN << <<>> >> ELSE addByte(f[i - 1], s[i])]

SplitsOf(f, s) ==
  /\ f \in [0..Len(s) -> Lists] /\ f[0] = << <<>> >> /\ segments(s) = f[Len(s)]
  /\ \A i \in 1..Len(s) : f[i] = addByte(f[i - 1], s[i])

(* bytes.Split, one byte after the other.                                  *)
LEMMA SplitSteps ==
  ASSUME NEW s \in Seq(Octets)
  PROVE  \E f : SplitsOf(f, s)
<1>. DEFINE n == Len(s)
            base == << <<>> >>
            step == [p \in (1..n) \X Lists |-> addByte(p[2], s[p[1]])]
            c == CHOOSE g : Splits(g, s)
<1>1. n \in Nat /\ (\A i \in 1..n : s[i] \in Octets /\ i # 0)
  OBVIOUS
<1>9. base \in Lists
  BY DEF Lists, Plain
<1>2. ASSUME NEW i \in 1..n, NEW t \in Lists
      PROVE  step[<<i, t>>] = addByte(t, s[i]) /\ step[<<i, t>>] \in Lists
  <2>1. step[<<i, t>>] = addByte(t, s[i])
    BY Zenon
  <2>2. addByte(t, s[i]) \in Lists
    BY Zenon, <1>1, AddByte
  <2>. QED BY Zenon, <2>1, <2>2
<1>. HIDE DEF step, base
<1>3. PICK f \in [0..n -> Lists] : f[0] = base /\ \A i \in 1..n : f[i] = step[<<i, f[i - 1]>>]
  <2>. HIDE DEF n
  <2>1. StaysIn(step, n, Lists)
    BY Zenon, <1>2 DEF StaysIn
  <2>2. \E f : Follows(f, n, Lists, base, step)
    BY Zenon, <1>1, <1>9, <2>1, StepsExist
  <2>. QED BY Zenon, <2>2 DEF Follows
<1>4. \A i \in 1..n : i - 1 \in 0..n /\ i \in 0..n
  BY <1>1
<1>5. \A i \in 1..n : f[i] = addByte(f[i - 1], s[i])
  BY Zenon, <1>2, <1>3, <1>4
<1>6. Splits(f, s)
  <2>1. \A i \in 0..n : i # 0 => i \in 1..n
    BY <1>1
  <2>2. \A i \in 0..n : f[i] = IF i = 0 THEN base ELSE addByte(f[i - 1], s[i])
    BY Zenon, <1>3, <1>5, <2>1
  <2>. QED BY Zenon, <1>3, <2>2 DEF Splits, base
<1>7. Splits(c, s)
  BY Zenon, <1>6
<1>10. segments(s) = c[n]
  BY Zenon DEF segments, Splits, addByte
<1>8. c[n] = f[n]
  <2>1. 0 \in 0..n /\ n \in 0..n
    BY <1>1
  <2>. HIDE DEF c
  <2>2. c[0] = f[0]
    BY Zenon, <1>3, <1>7, <2>1 DEF Splits, base
  <2>3. \A i \in 1..n : c[i - 1] = f[i - 1] => c[i] = f[i]
    BY Zenon, <1>1, <1>4, <1>5, <1>7 DEF Splits
  <2>. HIDE DEF n
  <2>4. Alike(c, f, n)
    BY Zenon, <2>2, <2>3 DEF Alike
  <2>. QED BY Zenon, <1>1, <2>4, Agree
<1>11. SplitsOf(f, s)
  <2>. HIDE DEF c
  <2>. QED BY Zenon, <1>3, <1>5, <1>8, <1>10 DEF SplitsOf, base
<1>. QED BY Zenon, <1>11

(* No byte is one empty segment; one byte more extends the last segment or *)
(* begins another.                                                         *)
LEMMA SplitAppend ==
  ASSUME NEW s \in Seq(Octets), NEW b \in Octets
  PROVE  /\ segments(s) \in Lists /\ segments(<<>>) = << <<>> >>
         /\ segments(Append(s, b)) = addByte(segments(s), b)
<1>. DEFINE n == Len(s)
            r == Append(s, b)
<1>1. n \in Nat /\ n \in 0..n /\ r \in Seq(Octets) /\ Len(r) = n + 1 /\ r[n + 1] = b /\ \A i \in 1..n : r[i] = s[i]
  OBVIOUS
<1>. HIDE DEF n, r
<1>2. PICK f : SplitsOf(f, s)
  BY Zenon, SplitSteps
<1>3. PICK g : SplitsOf(g, r)
  BY Zenon, <1>1, SplitSteps
<1>4. n + 1 \in 1..Len(r) /\ (n + 1) - 1 = n /\ \A i \in 1..n : i \in 1..Len(r)
  BY ONLY <1>1
<1>5. \A i \in 1..n : f[i - 1] = g[i - 1] => f[i] = g[i]
  BY Zenon, <1>1, <1>2, <1>3, <1>4 DEF SplitsOf, n
<1>6. f[n] = g[n]
  <2>1. f[0] = g[0]
    BY Zenon, <1>2, <1>3 DEF SplitsOf
  <2>2. Alike(f, g, n)
    BY Zenon, <1>5, <2>1 DEF Alike
  <2>. QED BY Zenon, <1>1, <2>2, Agree
<1>7. g[n + 1] = addByte(g[n], b)
  <2>1. g[n + 1] = addByte(g[(n + 1) - 1], r[n + 1])
    BY Zenon, <1>3, <1>4 DEF SplitsOf
  <2>. QED BY Zenon, <1>1, <1>4, <2>1
<1>8. segments(<<>>) = << <<>> >>
  <2>1. <<>> \in Seq(Octets) /\ Len(<<>>) = 0
    OBVIOUS
  <2>2. PICK h : SplitsOf(h, <<>>)
    BY Zenon, <2>1, SplitSteps
  <2>. QED BY Zenon, <2>1, <2>2 DEF SplitsOf
<1>9. segments(s) = f[n] /\ f \in [0..n -> Lists] /\ segments(r) = g[n + 1]
  BY Zenon, <1>1, <1>2, <1>3 DEF SplitsOf, n
<1>10. segments(r) = addByte(segments(s), b)
  BY Zenon, <1>6, <1>7, <1>9
<1>11. segments(s) \in Lists
  BY Zenon, <1>1, <1>9
<1>. QED BY Zenon, <1>8, <1>10, <1>11 DEF r

(* A text grows at its end.                                                *)
Grows(x, z, b) == x \o Append(z, b) = Append(x \o z, b)

(* A text and one that is joined to it.                                    *)
LEMMA Grow ==
  ASSUME NEW S, NEW x \in Seq(S), NEW z \in Seq(S), NEW b \in S
  PROVE  Grows(x, z, b) /\ x \o z \in Seq(S)
BY DEF Grows

(* The last element of a sequence replaced.                                *)
Replaced(q, u, y) == [Append(q, u) EXCEPT ![Len(q) + 1] = y] = Append(q, y)

(* It is the sequence with the other element.                              *)
LEMMA ReplaceLast ==
  ASSUME NEW S, NEW q \in Seq(S), NEW u \in S, NEW y \in S
  PROVE  Replaced(q, u, y)
<1>. DEFINE a == Append(q, u)
            r == [a EXCEPT ![Len(a)] = y]
            t == Append(q, y)
            n == Len(q)
<1>1. a \in Seq(S) /\ a # <<>> /\ Len(a) = n + 1 /\ \A i \in 1..n : a[i] = q[i]
  <2>1. a \in Seq(S) /\ Len(a) = n + 1 /\ \A i \in 1..n : a[i] = q[i]
    BY ONLY q \in Seq(S), u \in S
  <2>2. a # <<>>
    BY Zenon, AppendMore
  <2>. QED BY Zenon, <2>1, <2>2
<1>2. t \in Seq(S) /\ Len(t) = n + 1 /\ t[n + 1] = y /\ \A i \in 1..n : t[i] = q[i]
  BY ONLY q \in Seq(S), y \in S
<1>3. n \in Nat
  OBVIOUS
<1>. HIDE DEF a, t, n
<1>4. Changed(S, a, y, r)
  BY Zenon, <1>1, NewLast
<1>. HIDE DEF r
<1>5. r \in Seq(S) /\ Len(r) = n + 1 /\ r[n + 1] = y /\ \A i \in 1..(n + 1) - 1 : r[i] = a[i]
  BY Zenon, <1>1, <1>4 DEF Changed
<1>6. (n + 1) - 1 = n /\ \A i \in 1..n + 1 : i = n + 1 \/ i \in 1..n
  BY ONLY <1>3
<1>7. \A i \in 1..n + 1 : r[i] = t[i]
  BY Zenon, <1>1, <1>2, <1>5, <1>6
<1>8. r = t
  BY ONLY <1>2, <1>3, <1>5, <1>7
<1>. QED BY Zenon, <1>1, <1>8 DEF Replaced, r, t, a, n

(* It is the same to extend the last segment byte by byte.                 *)
LEMMA ExtendMore ==
  ASSUME NEW q \in Lists, NEW z \in Plain, NEW b \in Octets \ {RecordSeparator}
  PROVE  addByte(extend(q, z), b) = extend(q, Append(z, b)) /\ extend(q, <<>>) = q
<1>. DEFINE l == Len(q)
            v == q[l] \o z
            r == [q EXCEPT ![l] = v]
<1>1. q \in Seq(Plain) /\ q # <<>>
  BY Zenon DEF Lists
<1>2. l \in DOMAIN q /\ q[l] \in Plain
  BY Zenon, <1>1, LastOf
<1>3. v \in Plain /\ q[l] \o Append(z, b) = Append(v, b) /\ q[l] \o <<>> = q[l]
  <2>1. Grows(q[l], z, b) /\ v \in Plain
    BY Zenon, <1>2, Grow DEF Plain
  <2>2. q[l] \o <<>> = q[l]
    BY ONLY <1>2 DEF Plain
  <2>. QED BY Zenon, <2>1, <2>2 DEF Grows
<1>4. Len(r) = l /\ r[l] = v
  <2>1. r = [q EXCEPT ![Len(q)] = v] /\ v \in Plain /\ l = Len(q)
    BY Zenon, <1>3
  <2>. HIDE DEF v, r, l
  <2>3. Changed(Plain, q, v, [q EXCEPT ![Len(q)] = v])
    BY ONLY Zenon, <1>1, <2>1, NewLast
  <2>2. Len(r) = Len(q) /\ r[Len(q)] = v
    BY Zenon, <2>1, <2>3 DEF Changed
  <2>. QED BY Zenon, <2>1, <2>2
<1>5. addByte(r, b) = [r EXCEPT ![l] = Append(v, b)]
  <2>1. addByte(r, b) = [r EXCEPT ![Len(r)] = Append(r[Len(r)], b)]
    <3>. HIDE DEF r
    <3>. QED BY Zenon DEF addByte
  <2>. HIDE DEF r, v, l
  <2>. QED BY Zenon, <1>4, <2>1
<1>6. extend(q, z) = r /\ extend(q, Append(z, b)) = [q EXCEPT ![l] = Append(v, b)] /\ extend(q, <<>>) = [q EXCEPT ![l] = q[l]]
  <2>1. extend(q, z) = r
    BY Zenon DEF extend
  <2>2. extend(q, Append(z, b)) = [q EXCEPT ![l] = q[l] \o Append(z, b)]
    BY Zenon DEF extend
  <2>3. extend(q, <<>>) = [q EXCEPT ![l] = q[l] \o <<>>]
    BY Zenon DEF extend
  <2>. HIDE DEF v, r, l
  <2>. QED BY Zenon, <1>3, <2>1, <2>2, <2>3
<1>7. [r EXCEPT ![l] = Append(v, b)] = [q EXCEPT ![l] = Append(v, b)]
  <2>. DEFINE u == Append(v, b)
  <2>. HIDE DEF v, l, u
  <2>1. [r EXCEPT ![l] = u] = [q EXCEPT ![l] = u]
    BY Zenon
  <2>. QED BY Zenon, <2>1 DEF u
<1>8. [q EXCEPT ![l] = q[l]] = q
  <2>1. q = [i \in DOMAIN q |-> q[i]]
    BY ONLY <1>1
  <2>. HIDE DEF l
  <2>. QED BY Zenon, <2>1
<1>. HIDE DEF r, v, l
<1>. QED BY Zenon, <1>5, <1>6, <1>7, <1>8

(* A text without a separator extends the last segment.                    *)
LEMMA SplitJoin ==
  ASSUME NEW s \in Seq(Octets), NEW y \in Plain
  PROVE  segments(s \o y) = extend(segments(s), y)
<1>. DEFINE pre(k) == SubSeq(y, 1, k)
            S == {k \in Nat : k <= Len(y) => segments(s \o pre(k)) = extend(segments(s), pre(k))}
            n == Len(y)
<1>1. n \in Nat /\ y \in Seq(Octets \ {RecordSeparator})
  BY DEF Plain
<1>2. segments(s) \in Lists
  <2>1. 0 \in Octets
    BY DEF Octets
  <2>. QED BY Zenon, <2>1, SplitAppend
<1>3. 0 \in S
  <2>1. pre(0) = <<>> /\ <<>> \in Plain /\ 0 \in Octets \ {RecordSeparator}
    BY <1>1 DEF Plain, Octets, RecordSeparator
  <2>2. s \o <<>> = s
    OBVIOUS
  <2>3. extend(segments(s), <<>>) = segments(s)
    BY Zenon, <1>2, <2>1, ExtendMore
  <2>4. segments(s \o pre(0)) = extend(segments(s), pre(0))
    <3>. HIDE DEF pre
    <3>. QED BY Zenon, <2>1, <2>2, <2>3
  <2>. QED BY Zenon, <2>4
<1>4. ASSUME NEW k \in S PROVE k + 1 \in S
  <2>1. k \in Nat /\ k + 1 \in Nat
    OBVIOUS
  <2>. SUFFICES ASSUME k + 1 <= n PROVE segments(s \o pre(k + 1)) = extend(segments(s), pre(k + 1))
    BY Zenon, <2>1
  <2>2. k <= n
    BY ONLY <1>1, <2>1, k + 1 <= n
  <2>3. segments(s \o pre(k)) = extend(segments(s), pre(k))
    BY Zenon, <2>2
  <2>. DEFINE b == y[k + 1]
  <2>4. /\ pre(k) \in Seq(Octets \ {RecordSeparator}) /\ b \in Octets \ {RecordSeparator}
        /\ pre(k + 1) = Append(pre(k), b)
    BY ONLY <1>1, <2>1, k + 1 <= n
  <2>. HIDE DEF pre, S, b
  <2>5. pre(k) \in Seq(Octets) /\ pre(k) \in Plain
    BY Zenon, <2>4, SeqWiden DEF Plain
  <2>6. s \o Append(pre(k), b) = Append(s \o pre(k), b) /\ s \o pre(k) \in Seq(Octets)
    <3>1. Grows(s, pre(k), b) /\ s \o pre(k) \in Seq(Octets)
      BY Zenon, <2>4, <2>5, Grow
    <3>. QED BY Zenon, <3>1 DEF Grows
  <2>7. segments(Append(s \o pre(k), b)) = addByte(segments(s \o pre(k)), b)
    BY Zenon, <2>4, <2>6, SplitAppend
  <2>8. addByte(extend(segments(s), pre(k)), b) = extend(segments(s), Append(pre(k), b))
    BY Zenon, <1>2, <2>4, <2>5, ExtendMore
  <2>. QED BY Zenon, <2>3, <2>4, <2>6, <2>7, <2>8
<1>5. n \in S
  <2>. HIDE DEF S
  <2>1. S \in SUBSET Nat
    BY Zenon DEF S
  <2>. QED BY Zenon, <1>1, <1>3, <1>4, <2>1, SetInduction
<1>6. n <= n /\ pre(n) = y
  BY ONLY <1>1
<1>7. segments(s \o pre(n)) = extend(segments(s), pre(n))
  BY Zenon, <1>5, <1>6
<1>. HIDE DEF pre
<1>. QED BY Zenon, <1>6, <1>7

(* A separator and a text without one are one segment more.                *)
LEMMA SplitMore ==
  ASSUME NEW s \in Seq(Octets), NEW y \in Plain
  PROVE  segments(s \o <<RecordSeparator>> \o y) = Append(segments(s), y) /\ segments(y) = <<y>>
<1>. DEFINE q == segments(s)
            r == Append(q, <<>>)
<1>1. RecordSeparator \in Octets /\ <<>> \in Seq(Octets) /\ <<>> \in Plain /\ <<>> \o y = y /\ y \in Seq(Octets)
  BY DEF RecordSeparator, Octets, Plain
<1>2. q \in Lists /\ segments(<<>>) = << <<>> >> /\ segments(Append(s, RecordSeparator)) = addByte(q, RecordSeparator)
  BY Zenon, <1>1, SplitAppend
<1>3. addByte(q, RecordSeparator) = r
  BY Zenon DEF addByte
<1>4. s \o <<RecordSeparator>> = Append(s, RecordSeparator) /\ Append(s, RecordSeparator) \in Seq(Octets)
  BY ONLY <1>1, s \in Seq(Octets)
<1>5. segments(Append(s, RecordSeparator) \o y) = extend(segments(Append(s, RecordSeparator)), y)
  BY Zenon, <1>4, SplitJoin
<1>6. extend(r, y) = Append(q, y)
  <2>1. q \in Seq(Plain)
    BY Zenon, <1>2 DEF Lists
  <2>2. Len(r) = Len(q) + 1 /\ r[Len(q) + 1] = <<>> /\ [r EXCEPT ![Len(q) + 1] = y] = Append(q, y)
    <3>. HIDE DEF q
    <3>1. Len(r) = Len(q) + 1 /\ r[Len(q) + 1] = <<>>
      BY ONLY <1>1, <2>1
    <3>2. Replaced(q, <<>>, y)
      BY Zenon, <1>1, <2>1, ReplaceLast
    <3>. QED BY Zenon, <3>1, <3>2 DEF Replaced
  <2>3. extend(r, y) = [r EXCEPT ![Len(r)] = r[Len(r)] \o y]
    BY Zenon DEF extend
  <2>. HIDE DEF r, q
  <2>. QED BY Zenon, <1>1, <2>2, <2>3
<1>7. segments(y) = <<y>>
  <2>1. segments(<<>> \o y) = extend(segments(<<>>), y)
    BY Zenon, <1>1, SplitJoin
  <2>. DEFINE o == << <<>> >>
  <2>2. Len(o) = 1 /\ o[1] = <<>> /\ [o EXCEPT ![1] = y] = <<y>>
    OBVIOUS
  <2>3. extend(o, y) = [o EXCEPT ![Len(o)] = o[Len(o)] \o y]
    BY Zenon DEF extend
  <2>4. segments(<<>>) = o
    BY Zenon, <1>2
  <2>. HIDE DEF o
  <2>. QED BY Zenon, <1>1, <2>1, <2>2, <2>3, <2>4
<1>. HIDE DEF r
<1>. QED BY Zenon, <1>2, <1>3, <1>4, <1>5, <1>6, <1>7

(* Empty segments are skipped: f has the others among the first 0, 1, ...  *)
keep(q, x) == IF x = <<>> THEN q ELSE Append(q, x)

Skips(f, q) == f = [i \in 0..Len(q) |-> IF i = 0 THEN <<>> ELSE keep(f[i - 1], q[i])]

SkipsOf(f, q) ==
  /\ f \in [0..Len(q) -> Seq(Full)] /\ f[0] = <<>> /\ nonEmpty(q) = f[Len(q)]
  /\ \A i \in 1..Len(q) : f[i] = keep(f[i - 1], q[i])

(* One segment after the other.                                            *)
LEMMA SkipSteps ==
  ASSUME NEW q \in Seq(Plain)
  PROVE  \E f : SkipsOf(f, q)
<1>. DEFINE n == Len(q)
            T == Seq(Full)
            base == <<>>
            step == [p \in (1..n) \X T |-> keep(p[2], q[p[1]])]
            c == CHOOSE g : Skips(g, q)
<1>1. n \in Nat /\ (\A i \in 1..n : q[i] \in Plain /\ i # 0) /\ base \in T
  OBVIOUS
<1>2. ASSUME NEW i \in 1..n, NEW t \in T
      PROVE  step[<<i, t>>] = keep(t, q[i]) /\ step[<<i, t>>] \in T
  <2>1. step[<<i, t>>] = keep(t, q[i])
    BY Zenon
  <2>2. keep(t, q[i]) \in T
    <3>1. CASE q[i] = <<>>
      BY Zenon, <3>1 DEF keep
    <3>2. CASE q[i] # <<>>
      <4>1. q[i] \in Full
        BY Zenon, <1>1, <3>2 DEF Full
      <4>2. Append(t, q[i]) \in T
        BY Zenon, <4>1, AppendMore
      <4>. QED BY Zenon, <3>2, <4>2 DEF keep
    <3>. QED BY Zenon, <3>1, <3>2
  <2>. QED BY Zenon, <2>1, <2>2
<1>. HIDE DEF step, base
<1>3. PICK f \in [0..n -> T] : f[0] = base /\ \A i \in 1..n : f[i] = step[<<i, f[i - 1]>>]
  <2>. HIDE DEF n, T
  <2>1. StaysIn(step, n, T)
    BY Zenon, <1>2 DEF StaysIn
  <2>2. \E f : Follows(f, n, T, base, step)
    BY Zenon, <1>1, <2>1, StepsExist
  <2>. QED BY Zenon, <2>2 DEF Follows
<1>4. \A i \in 1..n : i - 1 \in 0..n /\ i \in 0..n
  BY <1>1
<1>5. \A i \in 1..n : f[i] = keep(f[i - 1], q[i])
  BY Zenon, <1>2, <1>3, <1>4
<1>6. Skips(f, q)
  <2>1. \A i \in 0..n : i # 0 => i \in 1..n
    BY <1>1
  <2>2. \A i \in 0..n : f[i] = IF i = 0 THEN base ELSE keep(f[i - 1], q[i])
    BY Zenon, <1>3, <1>5, <2>1
  <2>. QED BY Zenon, <1>3, <2>2 DEF Skips, base
<1>7. Skips(c, q)
  BY Zenon, <1>6
<1>10. nonEmpty(q) = c[n]
  BY Zenon DEF nonEmpty, Skips, keep
<1>8. c[n] = f[n]
  <2>1. 0 \in 0..n /\ n \in 0..n
    BY <1>1
  <2>. HIDE DEF c
  <2>2. c[0] = f[0]
    BY Zenon, <1>3, <1>7, <2>1 DEF Skips, base
  <2>3. \A i \in 1..n : c[i - 1] = f[i - 1] => c[i] = f[i]
    BY Zenon, <1>1, <1>4, <1>5, <1>7 DEF Skips
  <2>. HIDE DEF n
  <2>4. Alike(c, f, n)
    BY Zenon, <2>2, <2>3 DEF Alike
  <2>. QED BY Zenon, <1>1, <2>4, Agree
<1>11. SkipsOf(f, q)
  <2>. HIDE DEF c
  <2>. QED BY Zenon, <1>3, <1>5, <1>8, <1>10 DEF SkipsOf, base
<1>. QED BY Zenon, <1>11

(* What is left is not empty; when nothing is empty, nothing is skipped;   *)
(* of one empty segment nothing is left.                                   *)
LEMMA SkipEmpty ==
  ASSUME NEW q \in Seq(Plain)
  PROVE  /\ nonEmpty(q) \in Seq(Full) /\ nonEmpty(<< <<>> >>) = <<>>
         /\ q \in Seq(Full) => nonEmpty(q) = q
<1>. DEFINE n == Len(q)
<1>1. n \in Nat /\ n \in 0..n /\ 0 \in 0..n
  OBVIOUS
<1>2. PICK f : SkipsOf(f, q)
  BY Zenon, SkipSteps
<1>3. /\ f \in [0..n -> Seq(Full)] /\ f[0] = <<>> /\ nonEmpty(q) = f[n]
      /\ \A i \in 1..n : f[i] = keep(f[i - 1], q[i])
  BY Zenon, <1>2 DEF SkipsOf
<1>4. nonEmpty(q) \in Seq(Full)
  BY Zenon, <1>1, <1>3
<1>5. nonEmpty(<< <<>> >>) = <<>>
  <2>. DEFINE o == << <<>> >>
  <2>1. o \in Seq(Plain) /\ Len(o) = 1 /\ o[1] = <<>> /\ 1 \in 1..1 /\ 1 - 1 = 0
    BY DEF Plain
  <2>. HIDE DEF o
  <2>2. PICK g : SkipsOf(g, o)
    BY Zenon, <2>1, SkipSteps
  <2>3. g[0] = <<>> /\ nonEmpty(o) = g[1] /\ g[1] = keep(g[1 - 1], o[1])
    BY Zenon, <2>1, <2>2 DEF SkipsOf
  <2>4. nonEmpty(o) = <<>>
    BY Zenon, <2>1, <2>3 DEF keep
  <2>. QED BY Zenon, <2>4 DEF o
<1>6. ASSUME q \in Seq(Full) PROVE nonEmpty(q) = q
  <2>. DEFINE g == [i \in 0..n |-> SubSeq(q, 1, i)]
  <2>1. g[0] = <<>> /\ g[n] = q
    <3>1. SubSeq(q, 1, 0) = <<>> /\ SubSeq(q, 1, n) = q
      OBVIOUS
    <3>. QED BY Zenon, <1>1, <3>1
  <2>2. ASSUME NEW i \in 1..n PROVE g[i] = Append(g[i - 1], q[i]) /\ q[i] # <<>>
    <3>1. i \in 0..n /\ i - 1 \in 0..n
      BY ONLY <1>1, i \in 1..n
    <3>2. SubSeq(q, 1, i) = Append(SubSeq(q, 1, i - 1), q[i])
      BY ONLY q \in Seq(Plain), i \in 1..n
    <3>3. q[i] \in Full
      BY ONLY <1>6, i \in 1..n
    <3>. QED BY Zenon, <3>1, <3>2, <3>3 DEF Full
  <2>. HIDE DEF g
  <2>3. f[0] = g[0] /\ \A i \in 1..n : f[i - 1] = g[i - 1] => f[i] = g[i]
    BY Zenon, <1>3, <2>1, <2>2 DEF keep
  <2>4. Alike(f, g, n)
    BY Zenon, <2>3 DEF Alike
  <2>5. f[n] = g[n]
    BY Zenon, <1>1, <2>4, Agree
  <2>. QED BY Zenon, <1>3, <2>1, <2>5
<1>. QED BY Zenon, <1>4, <1>5, <1>6

(* The packets encode to the segments q.                                   *)
Encodes(ps, q) == q \in Seq(Full) /\ Len(ps) = Len(q) /\ \A i \in 1..Len(q) : EIOEncode(ps[i]) = q[i]

put(x, i, y) == x \o (IF i > 1 THEN <<RecordSeparator>> ELSE <<>>) \o y

(* f has the batches of the first 0, 1, ... packets.                       *)
Batches(f, ps) == f = [i \in 0..Len(ps) |-> IF i = 0 THEN <<>> ELSE put(f[i - 1], i, EIOEncode(ps[i]))]

BatchesOf(f, ps, q) ==
  /\ f \in [0..Len(q) -> Seq(Octets)] /\ f[0] = <<>> /\ EncodeBatch(ps) = f[Len(q)]
  /\ \A i \in 1..Len(q) : f[i] = put(f[i - 1], i, q[i])

(* EncodeBatch, one packet after the other.                                *)
LEMMA BatchSteps ==
  ASSUME NEW ps, NEW q, Encodes(ps, q)
  PROVE  \E f : BatchesOf(f, ps, q)
<1>. DEFINE n == Len(q)
            T == Seq(Octets)
            base == <<>>
            step == [p \in (1..n) \X T |-> put(p[2], p[1], q[p[1]])]
            c == CHOOSE g : Batches(g, ps)
<1>0. q \in Seq(Full) /\ Len(ps) = n /\ \A i \in 1..n : EIOEncode(ps[i]) = q[i]
  BY Zenon DEF Encodes
<1>1. n \in Nat /\ (\A i \in 1..n : q[i] \in Full /\ i # 0) /\ base \in T
  BY <1>0
<1>9. \A i \in 1..n : q[i] \in T
  <2>1. Octets \ {RecordSeparator} \in SUBSET Octets
    OBVIOUS
  <2>. QED BY Zenon, <1>1, <2>1, SeqWiden DEF Full, Plain
<1>2. ASSUME NEW i \in 1..n, NEW t \in T
      PROVE  step[<<i, t>>] = put(t, i, q[i]) /\ step[<<i, t>>] \in T
  <2>1. step[<<i, t>>] = put(t, i, q[i])
    BY Zenon
  <2>2. put(t, i, q[i]) \in T
    <3>. DEFINE m == IF i > 1 THEN <<RecordSeparator>> ELSE <<>>
    <3>1. m \in T
      <4>1. <<RecordSeparator>> \in Seq(Octets) /\ <<>> \in Seq(Octets)
        BY ONLY DEF RecordSeparator, Octets
      <4>. QED BY Zenon, <4>1
    <3>. HIDE DEF m
    <3>2. t \o m \in T
      BY Zenon, <3>1, AtJoin
    <3>3. (t \o m) \o q[i] \in T
      BY Zenon, <1>9, <3>2, AtJoin
    <3>. QED BY Zenon, <3>3 DEF put, m
  <2>. QED BY Zenon, <2>1, <2>2
<1>. HIDE DEF step, base
<1>3. PICK f \in [0..n -> T] : f[0] = base /\ \A i \in 1..n : f[i] = step[<<i, f[i - 1]>>]
  <2>. HIDE DEF n, T
  <2>1. StaysIn(step, n, T)
    BY Zenon, <1>2 DEF StaysIn
  <2>2. \E f : Follows(f, n, T, base, step)
    BY Zenon, <1>1, <2>1, StepsExist
  <2>. QED BY Zenon, <2>2 DEF Follows
<1>4. \A i \in 1..n : i - 1 \in 0..n /\ i \in 0..n
  BY <1>1
<1>5. \A i \in 1..n : f[i] = put(f[i - 1], i, q[i])
  BY Zenon, <1>2, <1>3, <1>4
<1>6. Batches(f, ps)
  <2>1. \A i \in 0..n : i # 0 => i \in 1..n
    BY <1>1
  <2>2. \A i \in 0..n : f[i] = IF i = 0 THEN base ELSE put(f[i - 1], i, EIOEncode(ps[i]))
    BY Zenon, <1>0, <1>3, <1>5, <2>1
  <2>. QED BY Zenon, <1>0, <1>3, <2>2 DEF Batches, base
<1>7. Batches(c, ps)
  BY Zenon, <1>6
<1>10. EncodeBatch(ps) = c[n]
  BY Zenon, <1>0 DEF EncodeBatch, Batches, put
<1>8. c[n] = f[n]
  <2>1. 0 \in 0..n /\ n \in 0..n
    BY <1>1
  <2>. HIDE DEF c
  <2>5. c = [i \in 0..n |-> IF i = 0 THEN <<>> ELSE put(c[i - 1], i, EIOEncode(ps[i]))]
    BY Zenon, <1>0, <1>7 DEF Batches
  <2>2. c[0] = f[0]
    BY Zenon, <1>3, <2>1, <2>5 DEF base
  <2>3. \A i \in 1..n : c[i - 1] = f[i - 1] => c[i] = f[i]
    BY Zenon, <1>0, <1>1, <1>4, <1>5, <2>5
  <2>. HIDE DEF n
  <2>4. Alike(c, f, n)
    BY Zenon, <2>2, <2>3 DEF Alike
  <2>. QED BY Zenon, <1>1, <2>4, Agree
<1>11. BatchesOf(f, ps, q)
  <2>. HIDE DEF c
  <2>. QED BY Zenon, <1>3, <1>5, <1>8, <1>10 DEF BatchesOf, base
<1>. QED BY Zenon, <1>11

(* The segments of a batch are the packets it was encoded from.            *)
LEMMA BatchSplits ==
  ASSUME NEW ps, NEW q, Encodes(ps, q)
  PROVE  nonEmpty(segments(EncodeBatch(ps))) = q
<1>. DEFINE n == Len(q)
<1>1. q \in Seq(Full)
  BY Zenon DEF Encodes
<1>2. n \in Nat /\ n \in 0..n /\ 0 \in 0..n
  BY <1>1
<1>3. PICK f : BatchesOf(f, ps, q)
  BY Zenon, BatchSteps
<1>4. /\ f \in [0..n -> Seq(Octets)] /\ f[0] = <<>> /\ EncodeBatch(ps) = f[n]
      /\ \A i \in 1..n : f[i] = put(f[i - 1], i, q[i])
  BY Zenon, <1>3 DEF BatchesOf
<1>5. q \in Seq(Plain)
  <2>1. Full \in SUBSET Plain
    BY Zenon DEF Full
  <2>. QED BY Zenon, <1>1, <2>1, SeqWiden
<1>. HIDE DEF n
<1>6. CASE n = 0
  <2>1. q = <<>>
    BY <1>1, <1>6 DEF n
  <2>2. segments(<<>>) = << <<>> >>
    <3>1. 0 \in Octets /\ <<>> \in Seq(Octets)
      BY DEF Octets
    <3>. QED BY Zenon, <3>1, SplitAppend
  <2>3. nonEmpty(<< <<>> >>) = <<>>
    BY Zenon, <1>5, SkipEmpty
  <2>. QED BY Zenon, <1>4, <1>6, <2>1, <2>2, <2>3
<1>7. CASE n # 0
  <2>. DEFINE g == [i \in 0..n |-> IF i = 0 THEN <<>> ELSE segments(f[i])]
              h == [i \in 0..n |-> SubSeq(q, 1, i)]
  <2>1. g[0] = <<>> /\ g[n] = segments(f[n])
    BY Zenon, <1>2, <1>7
  <2>2. h[0] = <<>> /\ h[n] = q
    <3>1. SubSeq(q, 1, 0) = <<>> /\ SubSeq(q, 1, n) = q
      BY ONLY <1>1 DEF n
    <3>. QED BY Zenon, <1>2, <3>1
  <2>3. ASSUME NEW i \in 1..n PROVE g[i] = Append(g[i - 1], q[i]) /\ h[i] = Append(h[i - 1], q[i])
    <3>1. i \in 0..n /\ i - 1 \in 0..n /\ i # 0 /\ (i = 1 => i - 1 = 0) /\ (i # 1 => i - 1 # 0 /\ i > 1) /\ ~(1 > 1)
      BY ONLY <1>2, i \in 1..n
    <3>2. SubSeq(q, 1, i) = Append(SubSeq(q, 1, i - 1), q[i])
      BY ONLY <1>1, i \in 1..n DEF n
    <3>3. h[i] = Append(h[i - 1], q[i])
      BY Zenon, <3>1, <3>2
    <3>4. q[i] \in Plain /\ f[i - 1] \in Seq(Octets) /\ f[i] = put(f[i - 1], i, q[i])
      <4>1. q[i] \in Plain
        BY ONLY <1>5, i \in 1..n DEF n
      <4>. QED BY Zenon, <1>4, <3>1, <4>1
    <3>5. g[i] = segments(f[i])
      BY Zenon, <3>1
    <3>6. CASE i = 1
      <4>1. f[i] = <<>> \o <<>> \o q[i]
        BY Zenon, <1>4, <3>1, <3>4, <3>6 DEF put
      <4>2. <<>> \o <<>> \o q[i] = q[i] /\ Append(<<>>, q[i]) = <<q[i]>>
        <5>. DEFINE x == q[i]
        <5>. HIDE DEF x
        <5>1. x \in Plain
          BY Zenon, <3>4 DEF x
        <5>2. <<>> \o <<>> \o x = x /\ Append(<<>>, x) = <<x>>
          BY ONLY <5>1 DEF Plain
        <5>. QED BY Zenon, <5>2 DEF x
      <4>3. segments(q[i]) = <<q[i]>>
        BY Zenon, <3>4, SplitMore
      <4>4. g[i - 1] = <<>>
        BY Zenon, <2>1, <3>1, <3>6
      <4>. HIDE DEF g
      <4>. QED BY Zenon, <3>3, <3>5, <4>1, <4>2, <4>3, <4>4
    <3>7. CASE i # 1
      <4>1. f[i] = f[i - 1] \o <<RecordSeparator>> \o q[i]
        BY Zenon, <3>1, <3>4, <3>7 DEF put
      <4>2. segments(f[i - 1] \o <<RecordSeparator>> \o q[i]) = Append(segments(f[i - 1]), q[i])
        BY Zenon, <3>4, SplitMore
      <4>3. g[i - 1] = segments(f[i - 1])
        BY Zenon, <3>1, <3>7
      <4>. HIDE DEF g
      <4>. QED BY Zenon, <3>3, <3>5, <4>1, <4>2, <4>3
    <3>. QED BY Zenon, <3>6, <3>7
  <2>. HIDE DEF g, h
  <2>4. Alike(g, h, n)
    BY Zenon, <2>1, <2>2, <2>3 DEF Alike
  <2>5. g[n] = h[n]
    BY Zenon, <1>2, <2>4, Agree
  <2>6. segments(EncodeBatch(ps)) = q
    BY Zenon, <1>4, <2>1, <2>2, <2>5
  <2>7. nonEmpty(q) = q
    BY Zenon, <1>1, <1>5, SkipEmpty
  <2>. QED BY Zenon, <2>6, <2>7
<1>. QED BY Zenon, <1>6, <1>7

(* Encode inverts Decode of an Engine.IO packet.                           *)
LEMMA PacketInverse ==
  ASSUME NEW x \in Full, EIODecode(x).ok
  PROVE  EIOEncode(EIODecode(x).packet) = x
<1>. DEFINE d == EIODecode(x)
            p == [type |-> x[1] - digit(0), data |-> Tail(x)]
<1>1. x \in Seq(Octets) /\ x # <<>>
  BY DEF Full, Plain
<1>2. d = [ok |-> TRUE, packet |-> p]
  <2>1. d = Error \/ d = [ok |-> TRUE, packet |-> p]
    BY Zenon DEF EIODecode
  <2>2. ~Error.ok
    BY Zenon DEF Error
  <2>3. d.ok
    BY Zenon
  <2>. HIDE DEF d, p
  <2>. QED BY Zenon, <2>1, <2>2, <2>3
<1>. HIDE DEF d
<1>3. d.packet = p
  BY Zenon, <1>2
<1>4. p.type = x[1] - digit(0) /\ p.data = Tail(x)
  BY Zenon
<1>. HIDE DEF p
<1>5. digit(p.type) = x[1]
  <2>1. x[1] \in Octets
    BY <1>1
  <2>. DEFINE v == x[1]
  <2>2. digit(v - digit(0)) = v
    <3>. HIDE DEF v
    <3>1. v \in Octets
      BY Zenon, <2>1 DEF v
    <3>. QED BY ONLY <3>1 DEF digit, Octets
  <2>. QED BY Zenon, <1>4, <2>2
<1>6. <<x[1]>> \o Tail(x) = x
  BY ONLY <1>1
<1>7. EIOEncode(p) = <<digit(p.type)>> \o p.data
  BY Zenon DEF EIOEncode
<1>8. EIOEncode(p) = x
  BY Zenon, <1>4, <1>5, <1>6, <1>7
<1>. QED BY Zenon, <1>3, <1>8 DEF d

(* No packet of a batch is lost, split or joined when it is decoded and    *)
(* encoded: its segments that are not empty are the same, whatever the     *)
(* number of packets and their bytes.                                      *)
THEOREM BatchIsInverse == Spec => []BatchRoundTrip
<1>1. WireInv => BatchRoundTrip
  <2>. DEFINE q == nonEmpty(segments(wire))
              d == DecodeBatch(wire)
              m == EncodeBatch(d.packets)
  <2>. SUFFICES ASSUME WireInv, d.ok PROVE DecodeBatch(m) = d /\ nonEmpty(segments(m)) = q
    BY Zenon DEF BatchRoundTrip
  <2>1. wire \in Seq(Octets) /\ 0 \in Octets
    BY DEF WireInv, Octets
  <2>2. segments(wire) \in Lists
    BY Zenon, <2>1, SplitAppend
  <2>3. q \in Seq(Full)
    BY Zenon, <2>2, SkipEmpty DEF Lists
  <2>4. /\ \A i \in DOMAIN q : EIODecode(q[i]).ok
        /\ d = [ok |-> TRUE, packets |-> [i \in DOMAIN q |-> EIODecode(q[i]).packet]]
    <3>. DEFINE r == [i \in DOMAIN q |-> EIODecode(q[i])]
                g == [ok |-> TRUE, packets |-> [i \in DOMAIN q |-> r[i].packet]]
    <3>1. d = IF \E i \in DOMAIN q : ~r[i].ok THEN Error ELSE g
      BY Zenon DEF DecodeBatch
    <3>2. d.ok /\ ~Error.ok
      BY Zenon DEF Error
    <3>3. \A i \in DOMAIN q : r[i] = EIODecode(q[i])
      BY Zenon
    <3>. HIDE DEF d, q, r
    <3>4. (\A i \in DOMAIN q : r[i].ok) /\ d = g
      <4>. HIDE DEF g
      <4>. QED BY Zenon, <3>1, <3>2
    <3>5. [i \in DOMAIN q |-> r[i].packet] = [i \in DOMAIN q |-> EIODecode(q[i]).packet]
      BY Zenon, <3>3
    <3>. QED BY Zenon, <3>3, <3>4, <3>5
  <2>. DEFINE ps == [i \in DOMAIN q |-> EIODecode(q[i]).packet]
  <2>5. d.packets = ps
    <3>. HIDE DEF d, ps
    <3>. QED BY Zenon, <2>4 DEF ps
  <2>. HIDE DEF q, d
  <2>6. Encodes(ps, q)
    <3>1. DOMAIN q = 1..Len(q) /\ Len(q) \in Nat /\ \A i \in 1..Len(q) : q[i] \in Full
      BY <2>3
    <3>2. Len(ps) = Len(q)
      <4>1. DOMAIN ps = 1..Len(q)
        BY Zenon, <3>1
      <4>. HIDE DEF ps
      <4>. QED BY <3>1, <4>1
    <3>3. ASSUME NEW i \in 1..Len(q) PROVE EIOEncode(ps[i]) = q[i]
      <4>1. ps[i] = EIODecode(q[i]).packet
        BY Zenon, <3>1
      <4>2. q[i] \in Full /\ EIODecode(q[i]).ok
        BY Zenon, <2>4, <3>1
      <4>3. EIOEncode(EIODecode(q[i]).packet) = q[i]
        BY Zenon, <4>2, PacketInverse
      <4>. QED BY Zenon, <4>1, <4>3
    <3>. HIDE DEF ps
    <3>. QED BY Zenon, <2>3, <3>2, <3>3 DEF Encodes
  <2>. HIDE DEF ps
  <2>7. nonEmpty(segments(EncodeBatch(ps))) = q
    BY Zenon, <2>6, BatchSplits
  <2>8. nonEmpty(segments(m)) = q
    BY Zenon, <2>5, <2>7
  <2>9. DecodeBatch(m) = d
    <3>. HIDE DEF m
    <3>1. nonEmpty(segments(m)) = nonEmpty(segments(wire))
      BY Zenon, <2>8 DEF q
    <3>. QED BY Zenon, <3>1 DEF DecodeBatch, d
  <2>. QED BY Zenon, <2>8, <2>9
<1>. QED BY <1>1, WireInvInit, WireInvStep, PTL DEF Spec
-----------------------------------------------------------------------------
(* Native WebSocket: the length of a frame                                 *)

\* What readFrame computes from the header writeFrame wrote is the payload's
\* length, for every length below 2^32: the shifts and the masks of the three
\* forms, 7 bits, 16 bits and 64 bits, fit together at their limits.
THEOREM FrameLengthInverse ==
  ASSUME NEW n \in Nat, n \div 65536 < 65536
  PROVE  frameLength(frameHeader(n)) = n
<1>1. CASE n <= 125
  <2>1. frameHeader(n) = <<byte(n)>> /\ byte(n) = n
    BY <1>1 DEF frameHeader, byte
  <2> QED BY <1>1, <2>1 DEF frameLength
<1>2. CASE n > 125 /\ n <= 65535
  <2>1. frameHeader(n) = <<126, byte(n \div 256), byte(n)>>
    BY <1>2 DEF frameHeader
  <2>2. 256 * byte(n \div 256) + byte(n) = n
    BY <1>2 DEF byte
  <2> QED BY <2>1, <2>2 DEF frameLength
<1>3. CASE n > 65535
  <2> DEFINE b3 == byte(n \div 16777216)
             b2 == byte(n \div 65536)
             b1 == byte(n \div 256)
             b0 == byte(n)
  <2>1. frameHeader(n) = <<127, 0, 0, 0, 0, b3, b2, b1, b0>>
    BY <1>3 DEF frameHeader
  <2>2. 256 * b3 + b2 = n \div 65536
    BY DEF byte
  <2>3. 256 * (n \div 65536) + b1 = n \div 256
    BY DEF byte
  <2>4. 256 * (n \div 256) + b0 = n
    BY DEF byte
  <2>5. frameLength(frameHeader(n)) = 256 * (256 * (256 * b3 + b2) + b1) + b0
    BY <2>1 DEF frameLength
  <2> QED BY <2>2, <2>3, <2>4, <2>5
<1> QED BY <1>1, <1>2, <1>3

\* The header of every payload the run frames gives its length back.
THEOREM LengthIsExact == Spec => []LengthExact
<1> DEFINE Inv == size \in 0..MaxSize
<1>1. Init => Inv
  BY CodecConstants DEF Init
<1>2. Inv /\ [Next]_vars => Inv'
  BY CodecConstants DEF Next, Receive, Frame, vars
<1>3. Inv => LengthExact
  <2> SUFFICES ASSUME Inv PROVE LengthExact
    OBVIOUS
  <2>1. size \in Nat /\ size \div 65536 < 65536
    BY CodecConstants
  <2> QED BY <2>1, FrameLengthInverse DEF LengthExact
<1> QED BY <1>1, <1>2, <1>3, PTL DEF Spec
=============================================================================
