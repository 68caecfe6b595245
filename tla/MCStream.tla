------------------------------ MODULE MCStream ------------------------------
(***************************************************************************)
(* Instances of Stream for TLC.                                            *)
(***************************************************************************)
EXTENDS StreamInv

CONSTANTS e1, e2, e3, r1, r2, c1
=============================================================================
