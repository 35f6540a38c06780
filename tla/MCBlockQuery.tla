---------------------------- MODULE MCBlockQuery ----------------------------
(* Model-checking instances of BlockQuery. *)
EXTENDS BlockQuery
=============================================================================
