---------------------------- MODULE MCWsSessions ----------------------------
(* Small instances of WsSessions for TLC.                                   *)
EXTENDS WsSessions
=============================================================================
