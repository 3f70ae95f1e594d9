----------------------------- MODULE MCPairing ------------------------------
(***************************************************************************)
(* Instances of Pairing for TLC.                                           *)
(***************************************************************************)
EXTENDS Pairing, TLC

CONSTANTS p1, h1, h2, i1, i2

Symmetry == Permutations(Attempts) \cup Permutations(Slots) \cup Permutations(IPs)
=============================================================================
