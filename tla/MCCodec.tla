------------------------------ MODULE MCCodec -------------------------------
(* Every text over the bytes that the decoders tell apart.                   *)
EXTENDS Codec

\* separator , - / 0 6 7: a type of each kind and an invalid one; other bytes count as payload.
Alphabet == {30, 44, 45, 47, 48, 54, 55}
=============================================================================
