------------------------------ MODULE MCServer ------------------------------
(* Small instances of Server for TLC. *)
EXTENDS Server

CONSTANTS c1, c2

OneClient  == {c1}
TwoClients == {c1, c2}
=============================================================================
