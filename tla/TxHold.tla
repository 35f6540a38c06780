------------------------------- MODULE TxHold -------------------------------
(***************************************************************************)
(* TransactAndHold (erisdb/pipe/transactor.go): a call broadcasts a        *)
(* transaction, subscribes to the call events of the contract's address    *)
(* and waits for the event with its transaction's hash, or for a timer.    *)
(*                                                                         *)
(* All calls use one contract and so one cell of the event switch.  The    *)
(* events of a block are fired by a goroutine of their own (consensus      *)
(* saveBlock, go evc.Flush()); it holds the cell's read lock while it      *)
(* calls the listeners.  A listener's callback sends on a channel without  *)
(* a buffer, which the call receives from once.  Subscribe and Unsubscribe *)
(* need the cell's write lock, and a waiting writer keeps new readers out. *)
(*                                                                         *)
(* A transaction may fire no call event (the address has no code), one, or *)
(* more (the contract is called again by a contract it calls).             *)
(***************************************************************************)
EXTENDS Naturals

CONSTANTS Holds,     \* calls of TransactAndHold, and their transactions
          MaxEvents  \* bound: call events of a transaction

ASSUME HoldConstants == MaxEvents \in Nat

VARIABLES
  at,         \* where a call is
  executed,   \* transactions committed in a block
  left,       \* events of the transaction's block still to be fired
  fired,      \* events fired
  listeners,  \* calls whose callback is in the cell
  readers,    \* blocks whose goroutine holds the cell's read lock
  writers,    \* calls that wait for the cell's write lock
  todo        \* listeners that an event has not been passed to yet

vars == <<at, executed, left, fired, listeners, readers, writers, todo>>

Init ==
  /\ at = [h \in Holds |-> "transact"]
  /\ executed = {}
  /\ left = [h \in Holds |-> 0]
  /\ fired = [h \in Holds |-> 0]
  /\ listeners = {}
  /\ readers = {}
  /\ writers = {}
  /\ todo = [h \in Holds |-> {}]

-----------------------------------------------------------------------------
(* The call.                                                                *)

\* Transact fails, and so does the call.
transactFails(h) ==
  /\ at[h] = "transact"
  /\ at' = [at EXCEPT ![h] = "failed"]
  /\ UNCHANGED <<executed, left, fired, listeners, readers, writers, todo>>

\* The transaction is in the mempool.
Transact(h) ==
  /\ at[h] = "transact"
  /\ at' = [at EXCEPT ![h] = "accepted"]
  /\ UNCHANGED <<executed, left, fired, listeners, readers, writers, todo>>

\* Subscribe asks for the cell's write lock.
Subscribe(h) ==
  /\ at[h] = "accepted"
  /\ at' = [at EXCEPT ![h] = "subscribing"]
  /\ writers' = writers \cup {h}
  /\ UNCHANGED <<executed, left, fired, listeners, readers, todo>>

\* Faulty variant: the cell is changed while an event is being fired.
WriteLockIgnored == TRUE

WriteLockFree == readers = {}

\* It has the lock; the timer is started.
subscribed(h) ==
  /\ at[h] = "subscribing"
  /\ WriteLockFree
  /\ writers' = writers \ {h}
  /\ listeners' = listeners \cup {h}
  /\ at' = [at EXCEPT ![h] = "waiting"]
  /\ UNCHANGED <<executed, left, fired, readers, todo>>

\* Faulty variant: the timer is not looked at.
NoTimer(h) == FALSE

TimerRuns(h) == at[h] = "waiting"

timeout(h) ==
  /\ TimerRuns(h)
  /\ at' = [at EXCEPT ![h] = "expired"]
  /\ UNCHANGED <<executed, left, fired, listeners, readers, writers, todo>>

\* Unsubscribe asks for the write lock.
Unsubscribe(h) ==
  /\ at[h] \in {"received", "expired"}
  /\ h \notin writers
  /\ writers' = writers \cup {h}
  /\ UNCHANGED <<at, executed, left, fired, listeners, readers, todo>>

\* Faulty variant: the listener is left in the cell.
NotRemoved(h) == listeners

Removed(h) == listeners \ {h}

\* It has the lock; the call returns the event, or an error after a timeout.
returned(h) ==
  /\ at[h] \in {"received", "expired"}
  /\ h \in writers
  /\ WriteLockFree
  /\ writers' = writers \ {h}
  /\ listeners' = Removed(h)
  /\ at' = [at EXCEPT ![h] = IF @ = "received" THEN "ok" ELSE "timedOut"]
  /\ UNCHANGED <<executed, left, fired, readers, todo>>

-----------------------------------------------------------------------------
(* The block and its events.                                                *)

\* The transaction is committed; n events are to be fired.
commit(h) ==
  /\ at[h] \notin {"transact", "failed"}
  /\ h \notin executed
  /\ executed' = executed \cup {h}
  /\ \E n \in 0..MaxEvents : left' = [left EXCEPT ![h] = n]
  /\ UNCHANGED <<at, fired, listeners, readers, writers, todo>>

EventLeft(h) == left[h] > 0

\* FireEvent takes the read lock.
FireEvent(h) ==
  /\ EventLeft(h)
  /\ h \notin readers
  /\ writers = {}
  /\ readers' = readers \cup {h}
  /\ todo' = [todo EXCEPT ![h] = listeners]
  /\ UNCHANGED <<at, executed, left, fired, listeners, writers>>

\* Faulty variant: the hash is not looked at.
AnyEvent(h, l) == TRUE

\* The callback of l is for the event of h: the hashes are equal.
OwnEvent(h, l) == h = l

\* The callback of another call ignores the event.
ignored(h, l) ==
  /\ l \in todo[h]
  /\ ~OwnEvent(h, l)
  /\ todo' = [todo EXCEPT ![h] = @ \ {l}]
  /\ UNCHANGED <<at, executed, left, fired, listeners, readers, writers>>

\* The callback sends and the call receives: there is no buffer, so both take
\* this step together, and the callback is blocked until the call is ready.
receive(h, l) ==
  /\ l \in todo[h]
  /\ OwnEvent(h, l)
  /\ at[l] = "waiting"
  /\ at' = [at EXCEPT ![l] = "received"]
  /\ todo' = [todo EXCEPT ![h] = @ \ {l}]
  /\ UNCHANGED <<executed, left, fired, listeners, readers, writers>>

\* All callbacks have returned and the read lock is released.
eventFired(h) ==
  /\ h \in readers
  /\ todo[h] = {}
  /\ readers' = readers \ {h}
  /\ left' = [left EXCEPT ![h] = @ - 1]
  /\ fired' = [fired EXCEPT ![h] = @ + 1]
  /\ UNCHANGED <<at, executed, listeners, writers, todo>>

call(h) ==
  \/ transactFails(h) \/ Transact(h) \/ Subscribe(h) \/ subscribed(h)
  \/ timeout(h) \/ Unsubscribe(h) \/ returned(h)

flush(h) ==
  \/ FireEvent(h) \/ eventFired(h)
  \/ \E l \in Holds : ignored(h, l) \/ receive(h, l)

Next == \E h \in Holds : call(h) \/ commit(h) \/ flush(h)

Spec == Init /\ [][Next]_vars

\* Goroutines that can run do run, and a timer that is not stopped fires.
\* Nothing says that a transaction is ever committed.  The lock's queue is
\* fair to writers: while one waits no reader gets in, and of several
\* writers each gets its turn.
Fairness ==
  \A h \in Holds : WF_vars(call(h)) /\ WF_vars(flush(h))

FairSpec == Spec /\ Fairness

-----------------------------------------------------------------------------
(* Properties.                                                              *)

\* The types of the calls' and the cell's state; an event that is being fired
\* is passed only to listeners of the cell.
TypeOK ==
  /\ at \in [Holds -> {"transact", "failed", "accepted", "subscribing", "waiting",
                       "received", "expired", "ok", "timedOut"}]
  /\ executed \subseteq Holds
  /\ left \in [Holds -> 0..MaxEvents]
  /\ fired \in [Holds -> 0..MaxEvents]
  /\ listeners \subseteq Holds
  /\ readers \subseteq Holds
  /\ writers \subseteq Holds
  /\ todo \in [Holds -> SUBSET Holds]
  /\ \A h \in Holds : todo[h] \subseteq listeners

\* The event that a call returns is that of its own transaction, which is in
\* a block, although every call of the contract is told of every event
\* (transactor.go:184).
OwnEventReturned ==
  \A h \in Holds : at[h] \in {"received", "ok"} =>
    h \in executed /\ (fired[h] > 0 \/ h \in readers)

\* After a call has returned its callback is in the cell no more and no
\* dispatch still has it to do: nothing is sent on a channel that nobody will
\* receive from, which would block the events of the contract for good.
NoCallbackAfterReturn ==
  \A h \in Holds : at[h] \in {"ok", "timedOut"} =>
    h \notin listeners /\ \A b \in Holds : h \notin todo[b]

\* The dispatch of an event is stuck: its own call receives no more.
Stuck ==
  \E h \in Holds : h \in todo[h] /\ at[h] \in {"received", "expired"}

\* A call that holds returns, unless a dispatch is stuck because its call
\* stopped receiving, when the timer ran out or when a first event had come,
\* while an event was being passed to it.  Listeners of other kinds are not
\* in this cell; EventSwitch shows when their callbacks do not return.
ReturnsUnlessStuck ==
  \A h \in Holds : at[h] = "waiting" ~> (at[h] \in {"ok", "timedOut"} \/ Stuck)

\* Being stuck is for ever, and for every call of the contract: the cell's
\* read lock is held for good, so no call gets subscribed any more and none
\* that is subscribed gets its Unsubscribe through and returns.
StuckForGood == [][Stuck => Stuck' /\ listeners' = listeners]_vars

\* What api.md says of holding: "the request will eventually timeout if the
\* transaction is not processed nor produce an error".
HoldReturns ==
  \A h \in Holds : at[h] = "waiting" ~> at[h] \in {"ok", "timedOut"}

\* What api.md says of hold: "Wait until the transaction is fully processed".
\* A call never waits for an event that has been fired already.
NotMissed ==
  \A h \in Holds : at[h] = "waiting" /\ h \in executed /\ fired[h] > 0 => left[h] > 0
=============================================================================
