------------------------------ MODULE MCTxPool ------------------------------
(***************************************************************************)
(* Instances of TxPool for TLC.                                            *)
(***************************************************************************)
EXTENDS TxPool, TLC

Jobs == Permutations(Job)
=============================================================================
