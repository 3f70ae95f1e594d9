------------------------------ MODULE MCUpload ------------------------------
(***************************************************************************)
(* Instances of Upload for TLC.                                            *)
(***************************************************************************)
EXTENDS Upload

CONSTANTS h1, h2
=============================================================================
