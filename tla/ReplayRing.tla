----------------------------- MODULE ReplayRing -----------------------------
(***************************************************************************)
(* The representation of replayBuffer (internal/session.go): a slice whose *)
(* first `head` elements are cleared, compacted when they are many and at  *)
(* least half of it, and a running byte count.  Shown to behave as the     *)
(* sequence operators of ReplayBuffer, which the other modules use.        *)
(***************************************************************************)
EXTENDS ReplayBuffer

CONSTANTS
  Compact,   \* dropOldest compacts from this head on (64 in the code)
  MaxPushes  \* bound: frames pushed in one behaviour

ASSUME RingConstants == Compact \in Nat \ {0} /\ MaxPushes \in Nat

VARIABLES
  ring,    \* replayBuffer: [entries, head, bytes]
  nextSeq  \* Session.next

ringVars == <<ring, nextSeq>>

Cleared == [seq |-> 0]   \* replayEntry{}

empty == [entries |-> << >>, head |-> 0, bytes |-> 0]

ringInit == ring = empty /\ nextSeq = 1

len(b) == Len(b.entries) - b.head

(* The frames the buffer stands for: entries[head:]. *)
view(b) == SubSeq(b.entries, b.head + 1, Len(b.entries))

(* Mutants of dropOldest: the byte count is not reduced by what is dropped *)
(* on compaction; the cleared elements are never given up.                 *)
dropOldestKeepsBytes(b) ==
  LET h == b.head + 1
      bytes == b.bytes - Size[b.entries[h].data]
  IN  IF h = Len(b.entries) THEN [empty EXCEPT !.bytes = bytes]
      ELSE IF h >= Compact /\ h * 2 >= Len(b.entries)
      THEN [entries |-> SubSeq(b.entries, h + 1, Len(b.entries)), head |-> 0, bytes |-> b.bytes]
      ELSE [entries |-> [b.entries EXCEPT ![h] = Cleared], head |-> h, bytes |-> bytes]

dropOldestNoCompaction(b) ==
  LET h == b.head + 1
      bytes == b.bytes - Size[b.entries[h].data]
  IN  IF h = Len(b.entries) THEN [empty EXCEPT !.bytes = bytes]
      ELSE [entries |-> [b.entries EXCEPT ![h] = Cleared], head |-> h, bytes |-> bytes]

dropOldest(b) ==
  LET h == b.head + 1
      bytes == b.bytes - Size[b.entries[h].data]
  IN  IF h = Len(b.entries) THEN [empty EXCEPT !.bytes = bytes]
      ELSE IF h >= Compact /\ h * 2 >= Len(b.entries)
      THEN [entries |-> SubSeq(b.entries, h + 1, Len(b.entries)), head |-> 0, bytes |-> bytes]
      ELSE [entries |-> [b.entries EXCEPT ![h] = Cleared], head |-> h, bytes |-> bytes]

(* The buffer after k calls of dropOldest. *)
dropTimes(b, k) ==
  LET d[i \in 0..k] == IF i = 0 THEN b ELSE dropOldest(d[i - 1])
  IN  d[k]

(* The loop of push stops after the first k drops that suffice. *)
overLimits(b) == len(b) > MaxMsgs \/ b.bytes > MaxBytes

evict(b) == dropTimes(b, Min({k \in 0..len(b) : ~overLimits(dropTimes(b, k))}))

ringPush(b, seq, d) ==
  IF Size[d] > MaxBytes THEN empty
  ELSE evict([entries |-> Append(b.entries, [seq |-> seq, data |-> d]),
              head |-> b.head, bytes |-> b.bytes + Size[d]])

(* The loop of ackUpTo stops at the first frame that is not acknowledged. *)
oldestAcked(b, n) == len(b) > 0 /\ b.entries[b.head + 1].seq <= n

ringAckUpTo(b, n) == dropTimes(b, Min({k \in 0..len(b) : ~oldestAcked(dropTimes(b, k), n)}))

Push(d) ==
  /\ nextSeq <= MaxPushes
  /\ ring' = ringPush(ring, nextSeq, d)
  /\ nextSeq' = nextSeq + 1

AckUpTo(n) ==
  /\ ring' = ringAckUpTo(ring, n)
  /\ UNCHANGED nextSeq

ringNext == (\E d \in Data : Push(d)) \/ (\E n \in 0..nextSeq - 1 : AckUpTo(n))

ringSpec == ringInit /\ [][ringNext]_ringVars
-----------------------------------------------------------------------------
(* What the slice keeps alive is bounded: dropped elements are cleared, so *)
(* that their payload can be collected, and are at most as many as the     *)
(* live ones, or fewer than Compact.                                       *)
SlackBounded ==
  /\ \A i \in 1..ring.head : ring.entries[i] = Cleared
  /\ ring.head < Compact \/ ring.head * 2 < Len(ring.entries)

(* Every step of the slice, whose evictions go by the running byte count,  *)
(* is push or ackUpTo of the sequence it stands for, whatever mix of       *)
(* evictions, acks, resets and compactions came before.                    *)
RingIsBuffer ==
  [][\/ \E d \in Data : view(ring)' = push(view(ring), nextSeq, d) /\ nextSeq' = nextSeq + 1
     \/ \E n \in 0..nextSeq - 1 : view(ring)' = ackUpTo(view(ring), n) /\ nextSeq' = nextSeq]_ringVars
=============================================================================
