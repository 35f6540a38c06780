------------------------------ MODULE MCTxHold ------------------------------
(* Model-checking instances of TxHold. *)
EXTENDS TxHold
=============================================================================
