---------------------------- MODULE ReplayBuffer ----------------------------
(***************************************************************************)
(* The replayBuffer of internal/session.go as operators on a sequence of   *)
(* entries [seq, data], oldest first.  The entries/head pair of the code   *)
(* is the sequence entries[head:]; the byte counter is the sum of sizes.   *)
(***************************************************************************)
EXTENDS Integers, Sequences, FiniteSetsExt

CONSTANTS
  Data,      \* frame payloads
  Size,      \* Size[d]: length of payload d in bytes
  MaxMsgs,   \* replayBuffer.maxMsgs  (Config.ReplayBufferMessages)
  MaxBytes   \* replayBuffer.maxBytes (Config.ReplayBufferBytes)

ASSUME BufferConstants ==
  /\ Size \in [Data -> Nat]
  /\ MaxMsgs \in Nat \ {0}
  /\ MaxBytes \in Nat \ {0}

Entry == [seq : Nat, data : Data]

Bytes(b) ==
  LET upTo[i \in 0..Len(b)] == IF i = 0 THEN 0 ELSE upTo[i - 1] + Size[b[i].data]
  IN  upTo[Len(b)]

Fits(b) == Len(b) <= MaxMsgs /\ Bytes(b) <= MaxBytes

(* The buffer after k calls of dropOldest. *)
DropOldest(b, k) == SubSeq(b, k + 1, Len(b))

(* Mutants of push: an oversized frame leaves the older ones in place; the *)
(* count limit is off by one; one frame too many is dropped.               *)
pushKeepOnOversize(b, seq, d) ==
  LET e == Append(b, [seq |-> seq, data |-> d])
  IN  IF Size[d] > MaxBytes
      THEN b
      ELSE DropOldest(e, Min({k \in 0..Len(e) : k = Len(e) \/ Fits(DropOldest(e, k))}))

pushLateEviction(b, seq, d) ==
  LET e == Append(b, [seq |-> seq, data |-> d])
  IN  IF Size[d] > MaxBytes
      THEN << >>
      ELSE DropOldest(e, Min({k \in 0..Len(e) : k = Len(e) \/ Len(e) - k <= MaxMsgs + 1}))

pushEarlyEviction(b, seq, d) ==
  LET e == Append(b, [seq |-> seq, data |-> d])
  IN  IF Size[d] > MaxBytes
      THEN << >>
      ELSE DropOldest(e, Min({k \in 0..Len(e) :
                              k = Len(e) \/ (Fits(DropOldest(e, k)) /\ Len(e) - k < MaxMsgs)}))

(* replayBuffer.push: a frame larger than the whole buffer empties it,     *)
(* otherwise the oldest frames go until both limits hold again.            *)
push(b, seq, d) ==
  LET e == Append(b, [seq |-> seq, data |-> d])
  IN  IF Size[d] > MaxBytes
      THEN << >>
      ELSE DropOldest(e, Min({k \in 0..Len(e) : k = Len(e) \/ Fits(DropOldest(e, k))}))

(* replayBuffer.ackUpTo: drop from the head while its seq is at most n.    *)
ackUpTo(b, n) ==
  DropOldest(b, Min({k \in 0..Len(b) : k = Len(b) \/ b[k + 1].seq > n}))

(* Mutant of covers: a hole of one frame is accepted.                      *)
coversWithHole(b, n) == Len(b) > 0 /\ b[1].seq <= n + 2

(* replayBuffer.covers: is every frame after n still buffered?             *)
covers(b, n) == Len(b) > 0 /\ b[1].seq <= n + 1

(* replayBuffer.after: the entries above n.  Entries are in seq order      *)
(* (Session's BufferRun), so that the filter of the code takes a suffix.   *)
after(b, n) ==
  DropOldest(b, Min({k \in 0..Len(b) : k = Len(b) \/ b[k + 1].seq > n}))
=============================================================================
