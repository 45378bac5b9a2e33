----------------------------- MODULE MCPolling -----------------------------
(* Small instances of Polling for TLC. *)
EXTENDS Polling, TLC

CONSTANTS u1, u2, g1

NoUpgrade   == {}
OneUpgrade  == {u1}
TwoUpgrades == {u1, u2}
NoGet       == {}
OneGet      == {g1}
Symmetry    == Permutations({u1, u2})
=============================================================================
