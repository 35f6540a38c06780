---------------------------- MODULE MCRestServer ----------------------------
(* Model-checking instances of RestServer. *)
EXTENDS RestServer
=============================================================================
