---------------------------- MODULE SessionSlots ----------------------------
(***************************************************************************)
(* What the session manager of the websocket server promises, without      *)
(* saying how: at most MaxSessions connections hold a slot at a time, a    *)
(* slot has one holder, a connection is turned away only when every slot   *)
(* is held, and a released slot can be given out again, until the manager  *)
(* is shut down, after which nobody gets a slot any more.                  *)
(***************************************************************************)
EXTENDS Naturals

CONSTANTS Conns,         \* the connections that may ask for a slot
          MaxSessions    \* the number of slots, numbered from 1

VARIABLES slot,          \* slot[c]: the slot connection c holds, 0 for none
          free,          \* the slots nobody holds that may be given out
          open,          \* FALSE once the manager was shut down
          refused        \* the connections that were turned away

vars == <<slot, free, open, refused>>

Init ==
  /\ slot = [c \in Conns |-> 0]
  /\ free = 1..MaxSessions
  /\ open = TRUE
  /\ refused = {}

Acquire(c) ==
  /\ open
  /\ slot[c] = 0
  /\ \E s \in free :
       /\ slot' = [slot EXCEPT ![c] = s]
       /\ free' = free \ {s}
  /\ UNCHANGED <<open, refused>>

Refuse(c) ==
  /\ free = {}
  /\ refused' = refused \cup {c}
  /\ UNCHANGED <<slot, free, open>>

\* A slot released after the shutdown is lost: nobody may get it.
Release(c) ==
  /\ slot[c] # 0
  /\ slot' = [slot EXCEPT ![c] = 0]
  /\ free' = IF open THEN free \cup {slot[c]} ELSE free
  /\ UNCHANGED <<open, refused>>

ShutDown ==
  /\ open
  /\ open' = FALSE
  /\ UNCHANGED <<slot, free, refused>>

\* A request that fails after the shutdown may use up a slot.
Waste ==
  /\ ~open
  /\ \E s \in free : free' = free \ {s}
  /\ UNCHANGED <<slot, open, refused>>

Next ==
  \/ \E c \in Conns : Acquire(c) \/ Refuse(c) \/ Release(c)
  \/ ShutDown
  \/ Waste

Spec == Init /\ [][Next]_vars
=============================================================================
