------------------------------ MODULE MCWsRpc -------------------------------
(* Model-checking instances of WsRpc. *)
EXTENDS WsRpc, TLC

Symmetry == Permutations(Requests) \cup Permutations(Firers)
=============================================================================
