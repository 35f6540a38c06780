---------------------------- MODULE TxHold_proofs ----------------------------
(***************************************************************************)
(* Proofs about TxHold, for any set of calls and any bound on the events   *)
(* of a transaction.                                                       *)
(*                                                                         *)
(* That a returned call has left nothing behind is not inductive: it needs *)
(* that a dispatch is only ever passed to listeners of the cell, because   *)
(* the cell cannot change while a dispatch holds its read lock.            *)
(***************************************************************************)
EXTENDS TxHold, TLAPS

\* The cell's listeners are exactly the calls between their Subscribe and
\* their Unsubscribe.
ListenersExact ==
  listeners = {h \in Holds : at[h] \in {"waiting", "received", "expired"}}

\* A dispatch that is not running has nothing to do, one that is running goes
\* through listeners of the cell.
DispatchWithinCell ==
  \A b \in Holds : /\ todo[b] \subseteq listeners
                   /\ b \notin readers => todo[b] = {}

\* Only transactions in a block have events.
EventsOfExecuted ==
  \A b \in Holds : (left[b] > 0 => b \in executed) /\ (b \in readers => left[b] > 0)

\* No more events are fired than the transaction has.
EventsCounted == \A b \in Holds : left[b] + fired[b] \in 0..MaxEvents /\ (b \notin executed => fired[b] = 0)

IInv ==
  /\ TypeOK
  /\ ListenersExact
  /\ DispatchWithinCell
  /\ EventsOfExecuted
  /\ EventsCounted
  /\ OwnEventReturned

\* The inductive invariant holds initially.
LEMMA InitIInv == Init => IInv
  BY HoldConstants DEF Init, IInv, TypeOK, ListenersExact, DispatchWithinCell, EventsOfExecuted,
     EventsCounted, OwnEventReturned

\* Every step of every call and of every dispatch preserves it.
LEMMA NextIInv == IInv /\ [Next]_vars => IInv'
<1> SUFFICES ASSUME IInv, [Next]_vars PROVE IInv'
  OBVIOUS
<1> USE DEF IInv
<1>1. CASE UNCHANGED vars
  BY <1>1 DEF vars, TypeOK, ListenersExact, DispatchWithinCell, EventsOfExecuted,
     EventsCounted, OwnEventReturned
<1>2. ASSUME NEW h \in Holds, transactFails(h) \/ Transact(h) \/ Subscribe(h) \/ Unsubscribe(h)
      PROVE  IInv'
  BY <1>2 DEF transactFails, Transact, Subscribe, Unsubscribe, TypeOK, ListenersExact,
     DispatchWithinCell, EventsOfExecuted, EventsCounted, OwnEventReturned
<1>3. ASSUME NEW h \in Holds, timeout(h) PROVE IInv'
  BY <1>3 DEF timeout, TimerRuns, TypeOK, ListenersExact, DispatchWithinCell,
     EventsOfExecuted, EventsCounted, OwnEventReturned
<1>4. ASSUME NEW h \in Holds, subscribed(h) PROVE IInv'
  BY <1>4 DEF subscribed, WriteLockFree, TypeOK, ListenersExact, DispatchWithinCell,
     EventsOfExecuted, EventsCounted, OwnEventReturned
<1>5. ASSUME NEW h \in Holds, returned(h) PROVE IInv'
  BY <1>5 DEF returned, WriteLockFree, Removed, TypeOK, ListenersExact, DispatchWithinCell,
     EventsOfExecuted, EventsCounted, OwnEventReturned
<1>6. ASSUME NEW h \in Holds, commit(h) PROVE IInv'
  BY <1>6, HoldConstants DEF commit, TypeOK, ListenersExact, DispatchWithinCell,
     EventsOfExecuted, EventsCounted, OwnEventReturned
<1>7. ASSUME NEW h \in Holds, FireEvent(h) PROVE IInv'
  BY <1>7 DEF FireEvent, EventLeft, TypeOK, ListenersExact, DispatchWithinCell,
     EventsOfExecuted, EventsCounted, OwnEventReturned
<1>8. ASSUME NEW h \in Holds, NEW l \in Holds, ignored(h, l) PROVE IInv'
  BY <1>8 DEF ignored, TypeOK, ListenersExact, DispatchWithinCell,
     EventsOfExecuted, EventsCounted, OwnEventReturned
<1>9. ASSUME NEW h \in Holds, NEW l \in Holds, receive(h, l) PROVE IInv'
  BY <1>9 DEF receive, OwnEvent, TypeOK, ListenersExact, DispatchWithinCell,
     EventsOfExecuted, EventsCounted, OwnEventReturned
<1>10. ASSUME NEW h \in Holds, eventFired(h) PROVE IInv'
  BY <1>10, HoldConstants DEF eventFired, TypeOK, ListenersExact, DispatchWithinCell,
     EventsOfExecuted, EventsCounted, OwnEventReturned
<1> QED
  BY <1>1, <1>2, <1>3, <1>4, <1>5, <1>6, <1>7, <1>8, <1>9, <1>10 DEF Next, call, flush

\* The inductive invariant holds in every state.
LEMMA AlwaysIInv == Spec => []IInv
  BY InitIInv, NextIInv, PTL DEF Spec

\* TransactAndHold's state keeps its types.
THEOREM TypeCorrect == Spec => []TypeOK
<1>1. IInv => TypeOK
  BY DEF IInv
<1> QED
  BY AlwaysIInv, <1>1, PTL

\* A call of TransactAndHold only ever returns the event of its own
\* transaction, which is in a block by then.
THEOREM ReturnsOwnEvent == Spec => []OwnEventReturned
<1>1. IInv => OwnEventReturned
  BY DEF IInv
<1> QED
  BY AlwaysIInv, <1>1, PTL

\* Once a call of TransactAndHold has returned, no dispatch can be blocked in
\* its callback.
THEOREM ReturnedLeavesNothing == Spec => []NoCallbackAfterReturn
<1>1. IInv => NoCallbackAfterReturn
  BY DEF IInv, TypeOK, ListenersExact, DispatchWithinCell, NoCallbackAfterReturn
<1> QED
  BY AlwaysIInv, <1>1, PTL

\* A dispatch blocked in the callback of a call that stopped receiving stays
\* blocked for ever, and the listeners of the contract never change again:
\* the read lock it holds is what every Subscribe and Unsubscribe waits for.
THEOREM StuckStays == Spec => StuckForGood
<1>1. IInv /\ [Next]_vars => [Stuck => Stuck' /\ listeners' = listeners]_vars
  <2> SUFFICES ASSUME IInv, Next, Stuck PROVE Stuck' /\ listeners' = listeners
    BY DEF vars, Stuck
  <2>1. PICK h \in Holds : h \in todo[h] /\ at[h] \in {"received", "expired"}
    BY DEF Stuck
  <2>2. h \in readers
    BY <2>1 DEF IInv, DispatchWithinCell
  <2>3. h \in todo'[h]
    <3>1. ASSUME NEW g \in Holds, call(g) \/ commit(g) PROVE todo' = todo
      BY <3>1 DEF call, commit, transactFails, Transact, Subscribe, subscribed, timeout,
         Unsubscribe, returned
    <3>2. ASSUME NEW g \in Holds, FireEvent(g) PROVE h \in todo'[h]
      BY <2>1, <2>2, <3>2 DEF FireEvent, IInv, TypeOK
    <3>3. ASSUME NEW g \in Holds, NEW l \in Holds, ignored(g, l) PROVE h \in todo'[h]
      BY <2>1, <3>3 DEF ignored, OwnEvent, IInv, TypeOK
    <3>4. ASSUME NEW g \in Holds, NEW l \in Holds, receive(g, l) PROVE h \in todo'[h]
      BY <2>1, <3>4 DEF receive, OwnEvent, IInv, TypeOK
    <3>5. ASSUME NEW g \in Holds, eventFired(g) PROVE h \in todo'[h]
      BY <2>1, <3>5 DEF eventFired
    <3> QED
      BY <2>1, <3>1, <3>2, <3>3, <3>4, <3>5 DEF Next, flush
  <2>4. at'[h] \in {"received", "expired"}
    <3>1. ASSUME NEW g \in Holds, call(g) PROVE at'[h] = at[h]
      BY <2>1, <2>2, <3>1 DEF call, transactFails, Transact, Subscribe, subscribed, timeout,
         TimerRuns, Unsubscribe, returned, WriteLockFree, IInv, TypeOK
    <3>2. ASSUME NEW g \in Holds, commit(g) \/ FireEvent(g) \/ eventFired(g) PROVE at'[h] = at[h]
      BY <3>2 DEF commit, FireEvent, eventFired
    <3>3. ASSUME NEW g \in Holds, NEW l \in Holds, ignored(g, l) \/ receive(g, l)
          PROVE  at'[h] = at[h]
      BY <2>1, <3>3 DEF ignored, receive, IInv, TypeOK
    <3> QED
      BY <2>1, <3>1, <3>2, <3>3 DEF Next, flush
  <2>5. listeners' = listeners
    <3>1. ASSUME NEW g \in Holds, call(g) PROVE listeners' = listeners
      BY <2>2, <3>1 DEF call, transactFails, Transact, Subscribe, subscribed, timeout,
         Unsubscribe, returned, WriteLockFree
    <3>2. ASSUME NEW g \in Holds, commit(g) \/ flush(g) PROVE listeners' = listeners
      BY <3>2 DEF commit, flush, FireEvent, eventFired, ignored, receive
    <3> QED
      BY <3>1, <3>2 DEF Next
  <2> QED
    BY <2>3, <2>4, <2>5 DEF Stuck
<1> QED
  BY AlwaysIInv, <1>1, PTL DEF Spec, StuckForGood
=============================================================================
