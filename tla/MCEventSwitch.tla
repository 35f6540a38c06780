--------------------------- MODULE MCEventSwitch ----------------------------
(* Model-checking instances of EventSwitch. *)
EXTENDS EventSwitch
=============================================================================
