---------------------------- MODULE MCReplayRing ----------------------------
(* The slice with frames of one, two and (over the byte cap) nine bytes.   *)
EXTENDS ReplayRing

CONSTANTS small, large, huge

AllData == {small, large, huge}
AllSize == [d \in AllData |-> CASE d = small -> 1 [] d = large -> 2 [] d = huge -> 9]
=============================================================================
