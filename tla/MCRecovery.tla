----------------------------- MODULE MCRecovery -----------------------------
(* Recovery with three connections of two sessions. *)
EXTENDS Recovery, TLC

CONSTANTS c1, c2, c3, s1, s2

TwoClients   == {c1, c2}
ThreeClients == {c1, c2, c3}
TwoSessions  == {s1, s2}
OneSession   == {s1}
OneRoom      == {"lobby"}
NoRoom       == {}

Symmetry == Permutations({c1, c2, c3}) \cup Permutations({s1, s2})
=============================================================================
