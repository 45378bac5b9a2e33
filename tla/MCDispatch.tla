----------------------------- MODULE MCDispatch -----------------------------
(* Two connections of one session, five keys, a window of three.           *)
EXTENDS Dispatch, TLC

CONSTANTS k1, k2, k3, k4, k5, old, new

FiveKeys == {k1, k2, k3, k4, k5}
TwoConns == {old, new}

Symmetry == Permutations(FiveKeys) \cup Permutations(TwoConns)
=============================================================================
