----------------------------- MODULE MCSession -----------------------------
(* Session with payloads of one byte and of four (over the byte cap).       *)
EXTENDS Session, TLC

CONSTANTS c1, c2, small, huge

ConnsDef == {c1, c2}
TwoData  == {small, huge}
OneDatum == {small}
SizeOf(D) == [d \in D |-> CASE d = small -> 1 [] d = huge -> 4]
TwoSize  == SizeOf(TwoData)
OneSize  == SizeOf(OneDatum)

Symmetry == Permutations({c1, c2})
=============================================================================
