------------------------------ MODULE MCPumps -------------------------------
(* Pumps for TLC: every constant is a number given in the configuration.     *)
EXTENDS Pumps
=============================================================================
