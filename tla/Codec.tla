------------------------------- MODULE Codec -------------------------------
(***************************************************************************)
(* The wire formats, over bytes: Engine.IO packets and batches, Socket.IO   *)
(* packets, and the length field of a native WebSocket frame.  A decoder    *)
(* meets any text: wire is what a peer has sent so far, byte by byte, and   *)
(* size the length of a payload that is framed.                             *)
(***************************************************************************)
EXTENDS Integers, Sequences, FiniteSetsExt

CONSTANTS
  Bytes,    \* the bytes a peer sends
  MaxWire,  \* bound: length of the text
  MaxSize,  \* bound: length of a framed payload
  MaxInt    \* the largest number strconv.Atoi parses

\* Four bytes hold MaxSize.
ASSUME CodecConstants ==
  /\ Bytes \subseteq 0..255 /\ MaxWire \in Nat /\ MaxInt \in Nat
  /\ MaxSize \in Nat /\ MaxSize \div 65536 < 65536

VARIABLES wire, size

vars == <<wire, size>>

Error == [ok |-> FALSE]

RecordSeparator == 30
comma == 44
dash  == 45
slash == 47
digit(d) == 48 + d

digits == digit(0)..digit(9)
isDigit(b) == b \in digits
-----------------------------------------------------------------------------
(* Engine.IO: packet.go and batch.go *)

EIOEncode(p) == <<digit(p.type)>> \o p.data

EIODecode(raw) ==
  IF raw = <<>> \/ raw[1] < digit(0) \/ raw[1] > digit(6) THEN Error
  ELSE [ok |-> TRUE, packet |-> [type |-> raw[1] - digit(0), data |-> Tail(raw)]]

\* Mutant: no separator before the second packet.
EncodeBatchJoins(packets) ==
  LET buf[i \in 0..Len(packets)] ==
        IF i = 0 THEN <<>>
        ELSE buf[i - 1] \o (IF i > 2 THEN <<RecordSeparator>> ELSE <<>>) \o EIOEncode(packets[i])
  IN buf[Len(packets)]

EncodeBatch(packets) ==
  LET buf[i \in 0..Len(packets)] ==
        IF i = 0 THEN <<>>
        ELSE buf[i - 1] \o (IF i > 1 THEN <<RecordSeparator>> ELSE <<>>) \o EIOEncode(packets[i])
  IN buf[Len(packets)]

\* bytes.Split at the separators.
segments(body) ==
  LET out[i \in 0..Len(body)] ==
        IF i = 0 THEN << <<>> >>
        ELSE LET prev == out[i - 1]
             IN IF body[i] = RecordSeparator THEN Append(prev, <<>>)
                ELSE [prev EXCEPT ![Len(prev)] = Append(@, body[i])]
  IN out[Len(body)]

\* Empty segments are skipped.
nonEmpty(parts) ==
  LET out[i \in 0..Len(parts)] ==
        IF i = 0 THEN <<>> ELSE IF parts[i] = <<>> THEN out[i - 1] ELSE Append(out[i - 1], parts[i])
  IN out[Len(parts)]

\* One bad segment refuses the batch.
DecodeBatch(body) ==
  LET parts == nonEmpty(segments(body))
      decoded == [i \in DOMAIN parts |-> EIODecode(parts[i])]
  IN IF \E i \in DOMAIN parts : ~decoded[i].ok THEN Error
     ELSE [ok |-> TRUE, packets |-> [i \in DOMAIN parts |-> decoded[i].packet]]
-----------------------------------------------------------------------------
(* Socket.IO: packet.go *)

isBinary(type) == type \in {5, 6}

\* strconv.Itoa and strconv.Atoi of digits.
itoa(n) ==
  LET s[m \in 0..n] == IF m < 10 THEN <<digit(m)>> ELSE Append(s[m \div 10], digit(m % 10))
  IN s[n]

atoi(s) ==
  LET n[i \in 0..Len(s)] == IF i = 0 THEN 0 ELSE 10 * n[i - 1] + (s[i] - digit(0))
  IN n[Len(s)]

\* Encode returns no error.
encodable(p) ==
  /\ p.type \in 0..6
  /\ IF isBinary(p.type) THEN p.attachments >= 0 ELSE p.attachments = 0
  /\ p.ns = <<>> \/ p.ns[1] = slash

\* Mutant: the namespace is not ended by a comma.
SIOEncodeNoComma(p) ==
  <<digit(p.type)>>
    \o (IF isBinary(p.type) THEN Append(itoa(p.attachments), dash) ELSE <<>>)
    \o (IF p.ns \in {<<>>, <<slash>>} THEN <<>> ELSE p.ns)
    \o (IF p.ackID = -1 THEN <<>> ELSE itoa(p.ackID))
    \o p.data

\* What it returns: the default namespace "/" is left off the wire.
SIOEncode(p) ==
  <<digit(p.type)>>
    \o (IF isBinary(p.type) THEN Append(itoa(p.attachments), dash) ELSE <<>>)
    \o (IF p.ns \in {<<>>, <<slash>>} THEN <<>> ELSE Append(p.ns, comma))
    \o (IF p.ackID = -1 THEN <<>> ELSE itoa(p.ackID))
    \o p.data

\* The first position from i on whose byte is not in run, or the one after the end.
scan(raw, i, run) == Min({j \in i..Len(raw) + 1 : j > Len(raw) \/ raw[j] \notin run})

cut(raw, i, j) == SubSeq(raw, i, j - 1)

\* Mutant: the count may be missing.
attachmentHeaderNoCount(raw, i) ==
  LET j == scan(raw, i, digits)
  IN IF j > Len(raw) \/ raw[j] # dash \/ atoi(cut(raw, i, j)) > MaxInt THEN Error
     ELSE [ok |-> TRUE, n |-> atoi(cut(raw, i, j)), next |-> j + 1]

\* <attachments>-
attachmentHeader(raw, i) ==
  LET j == scan(raw, i, digits)
  IN IF j = i \/ j > Len(raw) \/ raw[j] # dash \/ atoi(cut(raw, i, j)) > MaxInt THEN Error
     ELSE [ok |-> TRUE, n |-> atoi(cut(raw, i, j)), next |-> j + 1]

\* /<namespace>, up to the comma or the end.
namespace(raw, i) ==
  LET j == scan(raw, i, 0..255 \ {comma})
  IN IF i > Len(raw) \/ raw[i] # slash THEN [ns |-> <<slash>>, next |-> i]
     ELSE [ns |-> cut(raw, i, j), next |-> IF j > Len(raw) THEN j ELSE j + 1]

ackID(raw, i) ==
  LET j == scan(raw, i, digits)
  IN IF j = i THEN [ok |-> TRUE, id |-> -1, next |-> i]
     ELSE IF atoi(cut(raw, i, j)) > MaxInt THEN Error
     ELSE [ok |-> TRUE, id |-> atoi(cut(raw, i, j)), next |-> j]

SIODecode(raw) ==
  IF raw = <<>> \/ raw[1] < digit(0) \/ raw[1] > digit(6) THEN Error
  ELSE LET type == raw[1] - digit(0)
           head == IF isBinary(type) THEN attachmentHeader(raw, 2) ELSE [ok |-> TRUE, n |-> 0, next |-> 2]
       IN IF ~head.ok THEN Error
          ELSE LET name == namespace(raw, head.next)
                   ack  == ackID(raw, name.next)
               IN IF ~ack.ok THEN Error
                  ELSE [ok |-> TRUE,
                        packet |-> [type |-> type, attachments |-> head.n, ns |-> name.ns,
                                    ackID |-> ack.id, data |-> cut(raw, ack.next, Len(raw) + 1)]]
-----------------------------------------------------------------------------
(* Native WebSocket: the length in writeFrame and readFrame *)

byte(n) == n % 256

\* Mutant: two bytes are used for the length 65536, too.
frameHeaderShort(n) ==
  IF n <= 125 THEN <<byte(n)>>
  ELSE IF n <= 65536 THEN <<126, byte(n \div 256), byte(n)>>
  ELSE <<127, 0, 0, 0, 0, byte(n \div 16777216), byte(n \div 65536), byte(n \div 256), byte(n)>>

\* The header after its first byte.
frameHeader(n) ==
  IF n <= 125 THEN <<byte(n)>>
  ELSE IF n <= 65535 THEN <<126, byte(n \div 256), byte(n)>>
  ELSE <<127, 0, 0, 0, 0, byte(n \div 16777216), byte(n \div 65536), byte(n \div 256), byte(n)>>

\* The big-endian number in the length field; its upper four bytes are zero here.
frameLength(h) ==
  CASE h[1] = 126 -> 256 * h[2] + h[3]
    [] h[1] = 127 -> 256 * (256 * (256 * h[6] + h[7]) + h[8]) + h[9]
    [] OTHER      -> h[1]
-----------------------------------------------------------------------------
Init == wire = <<>> /\ size = 0

Receive(b) == size = 0 /\ Len(wire) < MaxWire /\ wire' = Append(wire, b) /\ UNCHANGED size

Frame == wire = <<>> /\ size < MaxSize /\ size' = size + 1 /\ UNCHANGED wire

Next == (\E b \in Bytes : Receive(b)) \/ Frame

Spec == Init /\ [][Next]_vars
-----------------------------------------------------------------------------
\* "Encode is the inverse of Decode for any packet Decode produces", when the
\* payload does not begin with a slash (no JSON text does): whatever form the
\* peer chose, Encode accepts the decoded packet, and decoding what it returns
\* changes nothing.
EncodeInvertsDecode ==
  LET d == SIODecode(wire)
  IN d.ok /\ (d.packet.data = <<>> \/ d.packet.data[1] # slash) =>
       encodable(d.packet) /\ SIODecode(SIOEncode(d.packet)) = d

allDigits(s) == \A i \in DOMAIN s : isDigit(s[i])

\* The parts of a packet <type>[<attachments>-][<namespace>,][<ackId>]<payload>,
\* the last bytes of the second, third and fourth at a, b and c.
IsHeader(w, a) ==
  /\ w[1] \in digit(0)..digit(6)
  /\ IF isBinary(w[1] - digit(0))
     THEN a > 2 /\ w[a] = dash /\ allDigits(SubSeq(w, 2, a - 1)) /\ atoi(SubSeq(w, 2, a - 1)) <= MaxInt
     ELSE a = 1

IsNamespace(w, a, b) ==
  IF a < Len(w) /\ w[a + 1] = slash
  THEN b > a /\ (w[b] = comma \/ b = Len(w)) /\ \A i \in a + 1..b - 1 : w[i] # comma
  ELSE b = a

IsAckID(w, b, c) ==
  /\ allDigits(SubSeq(w, b + 1, c)) /\ (c < Len(w) => ~isDigit(w[c + 1]))
  /\ b < c => atoi(SubSeq(w, b + 1, c)) <= MaxInt

IsPacket(w, a, b, c) == a <= b /\ b <= c /\ IsHeader(w, a) /\ IsNamespace(w, a, b) /\ IsAckID(w, b, c)

\* Decode accepts exactly the texts that have this form, in one way only, and
\* returns the parts: its scanning loops, with their boundaries at the end of the
\* input, implement the grammar of the package comment.
DecodeFollowsGrammar ==
  LET n == Len(wire)
      forms == {f \in (1..n) \X (1..n) \X (1..n) : IsPacket(wire, f[1], f[2], f[3])}
      d == SIODecode(wire)
  IN /\ d.ok <=> forms # {}
     /\ \A f \in forms :
          /\ forms = {f}
          /\ d.packet.data = SubSeq(wire, f[3] + 1, n)
          /\ d.packet.ackID = IF f[2] = f[3] THEN -1 ELSE atoi(SubSeq(wire, f[2] + 1, f[3]))
          /\ d.packet.ns = IF f[1] = f[2] THEN <<slash>>
                           ELSE SubSeq(wire, f[1] + 1, IF wire[f[2]] = comma THEN f[2] - 1 ELSE f[2])
          /\ d.packet.attachments = IF f[1] = 1 THEN 0 ELSE atoi(SubSeq(wire, 2, f[1] - 1))

\* A batch survives being decoded and encoded up to empty segments, and the
\* packets survive being encoded and decoded: no packet is lost, split or joined.
BatchRoundTrip ==
  LET d == DecodeBatch(wire)
  IN d.ok => /\ DecodeBatch(EncodeBatch(d.packets)) = d
             /\ nonEmpty(segments(EncodeBatch(d.packets))) = nonEmpty(segments(wire))

\* A peer that reads the header as readFrame does finds the length of the payload,
\* on every side of the limits of the three forms.
LengthExact == frameLength(frameHeader(size)) = size
=============================================================================
