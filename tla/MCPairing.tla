----------------------------- MODULE MCPairing -----------------------------
(* An instance of Pairing for TLC. *)
EXTENDS Pairing, TLC
ChecksAlike == Permutations(Check)
=============================================================================
