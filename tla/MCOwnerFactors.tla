--------------------------- MODULE MCOwnerFactors ---------------------------
(***************************************************************************)
(* Instances of OwnerFactors for TLC.                                      *)
(***************************************************************************)
EXTENDS OwnerFactors

CONSTANTS r1, r2, pw1, pw2

Hash(wellFormed, version, t, p) ==
    [wellFormed |-> wellFormed, version |-> version, t |-> t, p |-> p, of |-> pw2]

\* A hash of another version, and one whose parallelism is a multiple of 2^8.
MCPastedHashes == {Hash(TRUE, 18, 2, 1), Hash(TRUE, 19, 2, 256)}

\* Two secrets; steps 1 and 2 of the first have the same digits.
MCCodeAt == <<[s \in Steps |-> IF s = 2 THEN 1 ELSE s],
              [s \in Steps |-> 100 + s]>>
=============================================================================
