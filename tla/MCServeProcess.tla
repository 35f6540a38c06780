--------------------------- MODULE MCServeProcess ---------------------------
(* Model-checking instances of ServeProcess. *)
EXTENDS ServeProcess
=============================================================================
