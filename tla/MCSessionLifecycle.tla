------------------------- MODULE MCSessionLifecycle -------------------------
(***************************************************************************)
(* Instances of SessionLifecycle for TLC.                                  *)
(***************************************************************************)
EXTENDS SessionLifecycle

CONSTANTS s1, s2, d1, d2

\* The sets of faults of the runs.
AllFaults == FaultKinds
=============================================================================
