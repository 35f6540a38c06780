---------------------------- MODULE MCTransactor ----------------------------
(* Model-checking instances of Transactor. *)
EXTENDS Transactor
=============================================================================
