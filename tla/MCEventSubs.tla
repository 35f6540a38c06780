---------------------------- MODULE MCEventSubs -----------------------------
(* Model-checking instances of EventSubs. *)
EXTENDS EventSubs, TLC

SubSymmetry == Permutations(Subs) \cup Permutations(Firers)
=============================================================================
