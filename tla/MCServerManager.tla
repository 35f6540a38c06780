-------------------------- MODULE MCServerManager --------------------------
(* Model-checking instances of ServerManager. *)
EXTENDS ServerManager
=============================================================================
