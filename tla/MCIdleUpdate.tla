---------------------------- MODULE MCIdleUpdate ----------------------------
(***************************************************************************)
(* Instances of IdleUpdate for TLC.                                        *)
(***************************************************************************)
EXTENDS IdleUpdate

CONSTANTS a1, s1

\* 6.9.1, 6.9.2 and 6.9.10: the last has the first in it.
MCContains == {<<1, 1>>, <<2, 2>>, <<3, 3>>, <<3, 1>>}
=============================================================================
