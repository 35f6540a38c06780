---------------------------- MODULE EventSwitch -----------------------------
(***************************************************************************)
(* The event switch that the pipe's Subscribe and Unsubscribe go to        *)
(* (erisdb/pipe/events.go and the vendored tendermint/events/events.go)    *)
(* with its two levels of locks, and the callbacks that the websocket      *)
(* service and the event cache register with it (erisdb/wsService.go,      *)
(* erisdb/event_cache.go).                                                 *)
(*                                                                         *)
(* The events of one name are modelled; other names have cells of their    *)
(* own.  The switch has a mutex over its maps, every cell has a            *)
(* read-write mutex, and a dispatch holds the read lock of its cell while  *)
(* it runs the callbacks.  A goroutine that asks for a write lock waits    *)
(* for the readers there are and keeps new ones out.  Critical sections in *)
(* which a goroutine waits for nothing are one step.                       *)
(***************************************************************************)
EXTENDS Naturals, FiniteSets

CONSTANTS Subs,      \* listener ids
          WsSubs,    \* those that belong to websocket sessions
          Firers,    \* goroutines that fire events
          MaxFires,  \* bound: events fired
          None       \* no cell, nobody

ASSUME SwitchConstants ==
  /\ WsSubs \subseteq Subs
  /\ Subs \cap Firers = {}
  /\ MaxFires \in Nat
  /\ None \notin Subs \cup Firers

\* A subscription is added and removed by goroutines of its owner, at most
\* one at a time; a callback may also remove it, in the firing goroutine.
Actors == Subs \cup Firers

\* Cells are numbered in the order in which they are made.
Cells == 1..Cardinality(Subs)

VARIABLES
  eventCell,  \* evsw.eventCells[event], or None
  made,       \* number of cells made so far
  listeners,  \* keys of evsw.listeners
  removed,    \* eventListeners that SetRemoved was called for
  hasEvent,   \* eventListeners whose list contains the event
  cell,       \* cell[c]: keys of the listeners of cell c
  outer,      \* who holds evsw.mtx while waiting for the mutex of a cell
  readers,    \* readers[c]: firing goroutines that hold the read lock of c
  waiting,    \* waiting[c]: goroutines waiting for the write lock of c
  at,         \* where the owner of a subscription is
  mine,       \* the cell an actor adds to or removes from
  rm,         \* where an actor is in RemoveListener
  rmSub,      \* the listener it removes
  fire,       \* where a firing goroutine is
  firing,     \* the cell whose listeners it calls
  todo,       \* listeners its loop will still call
  calling,    \* the listener whose callback is running
  fires,      \* number of events fired
  session     \* the websocket session of a subscription

switchVars == <<eventCell, made, listeners, removed, hasEvent, cell>>
lockVars   == <<outer, readers, waiting>>
rmVars     == <<rm, rmSub>>
fireVars   == <<fire, firing, todo, calling, fires>>
vars == <<switchVars, lockVars, at, mine, rmVars, fireVars, session>>

Init ==
  /\ eventCell = None
  /\ made = 0
  /\ listeners = {}
  /\ removed = {}
  /\ hasEvent = {}
  /\ cell = [c \in Cells |-> {}]
  /\ outer = None
  /\ readers = [c \in Cells |-> {}]
  /\ waiting = [c \in Cells |-> {}]
  /\ at = [s \in Subs |-> "new"]
  /\ mine = [a \in Actors |-> None]
  /\ rm = [a \in Actors |-> "no"]
  /\ rmSub = [a \in Actors |-> None]
  /\ fire = [f \in Firers |-> "idle"]
  /\ firing = [f \in Firers |-> None]
  /\ todo = [f \in Firers |-> {}]
  /\ calling = [f \in Firers |-> None]
  /\ fires = 0
  /\ session = [s \in WsSubs |-> "open"]

\* Faulty variant: the write lock of a cell ignores its readers.
WriteLockIgnoresReaders(c) == TRUE

WriteLockFree(c) == readers[c] = {}

ReadLockFree(c) == waiting[c] = {}

-----------------------------------------------------------------------------
(* AddListenerForEvent.                                                     *)

CellOfEvent == IF eventCell = None THEN made + 1 ELSE eventCell

\* The cell is found or made under evsw.mtx.
AddListenerForEvent(s) ==
  LET c == CellOfEvent IN
  /\ at[s] = "new"
  /\ outer = None
  /\ made' = IF eventCell = None THEN made + 1 ELSE made
  /\ eventCell' = c
  /\ listeners' = listeners \cup {s}
  /\ mine' = [mine EXCEPT ![s] = c]
  /\ at' = [at EXCEPT ![s] = "found"]
  /\ UNCHANGED <<removed, hasEvent, cell, lockVars, rmVars, fireVars, session>>

\* Its write lock is asked for.
lockForAdd(s) ==
  /\ at[s] = "found"
  /\ waiting' = [waiting EXCEPT ![mine[s]] = @ \cup {s}]
  /\ at' = [at EXCEPT ![s] = "adding"]
  /\ UNCHANGED <<switchVars, outer, readers, mine, rmVars, fireVars, session>>

AddListener(s) ==
  /\ at[s] = "adding"
  /\ WriteLockFree(mine[s])
  /\ cell' = [cell EXCEPT ![mine[s]] = @ \cup {s}]
  /\ waiting' = [waiting EXCEPT ![mine[s]] = @ \ {s}]
  /\ at' = [at EXCEPT ![s] = "added"]
  /\ UNCHANGED <<eventCell, made, listeners, removed, hasEvent, outer, readers,
                 mine, rmVars, fireVars, session>>

\* AddEvent does nothing for a listener that was removed; Subscribe returns.
AddEvent(s) ==
  /\ at[s] = "added"
  /\ hasEvent' = IF s \in removed THEN hasEvent ELSE hasEvent \cup {s}
  /\ at' = [at EXCEPT ![s] = "on"]
  /\ UNCHANGED <<eventCell, made, listeners, removed, cell, lockVars, mine, rmVars,
                 fireVars, session>>

-----------------------------------------------------------------------------
(* RemoveListener and RemoveListenerForEvent, run by actor a.               *)

\* The owner calls Unsubscribe.
Unsubscribe(s) ==
  /\ at[s] = "on"
  /\ at' = [at EXCEPT ![s] = "removing"]
  /\ rm' = [rm EXCEPT ![s] = "start"]
  /\ rmSub' = [rmSub EXCEPT ![s] = s]
  /\ UNCHANGED <<switchVars, lockVars, mine, fireVars, session>>

\* What RemoveListener returns to: the owner or the loop of a dispatch.
Returned(a, step) ==
  IF step = "no" /\ a \in Subs THEN [at EXCEPT ![a] = "off"] ELSE at

RemoveListener(a) ==
  LET s == rmSub[a]
      next == IF s \in listeners /\ s \in hasEvent THEN "get" ELSE "no" IN
  /\ rm[a] = "start"
  /\ outer = None
  /\ listeners' = listeners \ {s}
  /\ removed' = IF s \in listeners THEN removed \cup {s} ELSE removed
  /\ rm' = [rm EXCEPT ![a] = next]
  /\ at' = Returned(a, next)
  /\ UNCHANGED <<eventCell, made, hasEvent, cell, lockVars, mine, rmSub, fireVars,
                 session>>

RemoveListenerForEvent(a) ==
  LET next == IF eventCell = None THEN "no" ELSE "found" IN
  /\ rm[a] = "get"
  /\ outer = None
  /\ rm' = [rm EXCEPT ![a] = next]
  /\ at' = Returned(a, next)
  /\ mine' = [mine EXCEPT ![a] = eventCell]
  /\ UNCHANGED <<switchVars, lockVars, rmSub, fireVars, session>>

\* The write lock of the cell is asked for, to remove the listener or, with
\* evsw.mtx held, to collect the cell.
lockForRemove(a) ==
  /\ rm[a] \in {"found", "outer"}
  /\ waiting' = [waiting EXCEPT ![mine[a]] = @ \cup {a}]
  /\ rm' = [rm EXCEPT ![a] = IF @ = "found" THEN "cell" ELSE "inner"]
  /\ UNCHANGED <<switchVars, outer, readers, at, mine, rmSub, fireVars, session>>

\* Faulty variant: the listener stays in its cell.
StillThere(c, s) == cell[c]

Without(c, s) == cell[c] \ {s}

\* eventCell.RemoveListener, which returns the number of listeners left.
removeFromCell(a) ==
  LET c == mine[a]
      next == IF Without(c, rmSub[a]) = {} THEN "collect" ELSE "no" IN
  /\ rm[a] = "cell"
  /\ WriteLockFree(c)
  /\ cell' = [cell EXCEPT ![c] = Without(c, rmSub[a])]
  /\ waiting' = [waiting EXCEPT ![c] = @ \ {a}]
  /\ rm' = [rm EXCEPT ![a] = next]
  /\ at' = Returned(a, next)
  /\ UNCHANGED <<eventCell, made, listeners, removed, hasEvent, outer, readers,
                 mine, rmSub, fireVars, session>>

\* The collection of an empty cell: OUTER LOCK, INNER LOCK, ...
lockOuter(a) ==
  /\ rm[a] = "collect"
  /\ outer = None
  /\ outer' = a
  /\ rm' = [rm EXCEPT ![a] = "outer"]
  /\ UNCHANGED <<switchVars, readers, waiting, at, mine, rmSub, fireVars, session>>

\* ... check again, and delete whatever cell the event has now.
collect(a) ==
  LET c == mine[a] IN
  /\ rm[a] = "inner"
  /\ WriteLockFree(c)
  /\ eventCell' = IF cell[c] = {} THEN None ELSE eventCell
  /\ outer' = None
  /\ waiting' = [waiting EXCEPT ![c] = @ \ {a}]
  /\ rm' = [rm EXCEPT ![a] = "no"]
  /\ at' = Returned(a, "no")
  /\ UNCHANGED <<made, listeners, removed, hasEvent, cell, readers, mine, rmSub,
                 fireVars, session>>

-----------------------------------------------------------------------------
(* FireEvent.                                                               *)

\* An event without a cell is dropped.
FireEvent(f) ==
  /\ fire[f] = "idle"
  /\ outer = None
  /\ fires < MaxFires
  /\ fires' = fires + 1
  /\ fire' = [fire EXCEPT ![f] = IF eventCell = None THEN "idle" ELSE "got"]
  /\ firing' = [firing EXCEPT ![f] = eventCell]
  /\ UNCHANGED <<switchVars, lockVars, at, mine, rmVars, todo, calling, session>>

lockCell(f) ==
  /\ fire[f] = "got"
  /\ ReadLockFree(firing[f])
  /\ readers' = [readers EXCEPT ![firing[f]] = @ \cup {f}]
  /\ todo' = [todo EXCEPT ![f] = cell[firing[f]]]
  /\ fire' = [fire EXCEPT ![f] = "loop"]
  /\ UNCHANGED <<switchVars, outer, waiting, at, mine, rmVars, firing, calling, fires,
                 session>>

\* The callback of the event cache takes the lock of the cache and returns.
callCache(f, s) ==
  /\ fire[f] = "loop"
  /\ s \in todo[f] \ WsSubs
  /\ todo' = [todo EXCEPT ![f] = @ \ {s}]
  /\ UNCHANGED <<switchVars, lockVars, at, mine, rmVars, fire, firing, calling,
                 fires, session>>

\* WSSession.closed
Closed(s) == session[s] \in {"closed", "dead"}

\* The callback of the websocket service: WSSession.Write on an open session,
callSession(f, s) ==
  /\ fire[f] = "loop"
  /\ s \in todo[f] \cap WsSubs
  /\ ~Closed(s)
  /\ fire' = [fire EXCEPT ![f] = "sending"]
  /\ todo' = [todo EXCEPT ![f] = @ \ {s}]
  /\ calling' = [calling EXCEPT ![f] = s]
  /\ UNCHANGED <<switchVars, lockVars, at, mine, rmVars, firing, fires, session>>

\* which goes through once the write channel has room;
sent(f) ==
  /\ fire[f] = "sending"
  /\ session[calling[f]] \in {"open", "closed"}
  /\ fire' = [fire EXCEPT ![f] = "loop"]
  /\ calling' = [calling EXCEPT ![f] = None]
  /\ UNCHANGED <<switchVars, lockVars, at, mine, rmVars, firing, todo, fires, session>>

\* on a closed session Write fails and the callback unsubscribes itself.
callClosed(f, s) ==
  /\ fire[f] = "loop"
  /\ s \in todo[f] \cap WsSubs
  /\ Closed(s)
  /\ todo' = [todo EXCEPT ![f] = @ \ {s}]
  /\ rm' = [rm EXCEPT ![f] = "start"]
  /\ rmSub' = [rmSub EXCEPT ![f] = s]
  /\ fire' = [fire EXCEPT ![f] = "unsubscribing"]
  /\ UNCHANGED <<switchVars, lockVars, at, mine, firing, calling, fires, session>>

callbackReturns(f) ==
  /\ fire[f] = "unsubscribing"
  /\ rm[f] = "no"
  /\ fire' = [fire EXCEPT ![f] = "loop"]
  /\ UNCHANGED <<switchVars, lockVars, at, mine, rmVars, firing, todo, calling,
                 fires, session>>

\* Faulty variant: the read lock is never given back.
ReadLockKept(f) == readers[firing[f]]

ReadUnlocked(f) == readers[firing[f]] \ {f}

unlockCell(f) ==
  /\ fire[f] = "loop"
  /\ todo[f] = {}
  /\ readers' = [readers EXCEPT ![firing[f]] = ReadUnlocked(f)]
  /\ fire' = [fire EXCEPT ![f] = "idle"]
  /\ UNCHANGED <<switchVars, outer, waiting, at, mine, rmVars, firing, todo, calling,
                 fires, session>>

\* The peer of a session stops reading until the write channel is full, and
\* may read again; the session closes and a full channel stays full.
sessionChanges(s) ==
  /\ \/ session[s] = "open" /\ session' = [session EXCEPT ![s] = "closed"]
     \/ session[s] = "stalled" /\ session' = [session EXCEPT ![s] = "dead"]
     \/ session[s] = "open" /\ session' = [session EXCEPT ![s] = "stalled"]
     \/ session[s] = "stalled" /\ session' = [session EXCEPT ![s] = "open"]
  /\ UNCHANGED <<switchVars, lockVars, at, mine, rmVars, fireVars>>

AddStep(s) == lockForAdd(s) \/ AddListener(s) \/ AddEvent(s)

RemoveStep(a) ==
  \/ RemoveListener(a) \/ RemoveListenerForEvent(a) \/ lockForRemove(a)
  \/ removeFromCell(a)
  \/ lockOuter(a) \/ collect(a)

FireStep(f) ==
  \/ lockCell(f) \/ sent(f) \/ callbackReturns(f) \/ unlockCell(f)
  \/ \E s \in Subs : callCache(f, s) \/ callSession(f, s) \/ callClosed(f, s)

Next ==
  \/ \E s \in Subs : AddListenerForEvent(s) \/ AddStep(s) \/ Unsubscribe(s)
  \/ \E a \in Actors : RemoveStep(a)
  \/ \E f \in Firers : FireEvent(f) \/ FireStep(f)
  \/ \E s \in WsSubs : sessionChanges(s)

Spec == Init /\ [][Next]_vars

\* A goroutine that can run does run: the one that adds or removes s, and the
\* one that fires, which also removes from within a callback.  Nothing makes
\* clients call, events happen or peers read.
Fairness ==
  /\ \A s \in Subs : WF_vars(AddStep(s) \/ RemoveStep(s))
  /\ \A f \in Firers : WF_vars(FireStep(f) \/ RemoveStep(f))

FairSpec == Spec /\ Fairness

-----------------------------------------------------------------------------
(* Properties.                                                              *)

Dispatching(f) == fire[f] \in {"loop", "sending", "unsubscribing"}

\* The types of the switch's state.
TypeOK ==
  /\ eventCell \in 1..made \cup {None}
  /\ made \in 0..Cardinality(Subs)
  /\ listeners \subseteq Subs
  /\ removed \subseteq Subs
  /\ hasEvent \subseteq Subs
  /\ cell \in [Cells -> SUBSET Subs]
  /\ outer \in Actors \cup {None}
  /\ readers \in [Cells -> SUBSET Firers]
  /\ waiting \in [Cells -> SUBSET Actors]
  /\ at \in [Subs -> {"new", "found", "adding", "added", "on", "removing", "off"}]
  /\ mine \in [Actors -> Cells \cup {None}]
  /\ rm \in [Actors -> {"no", "start", "get", "found", "cell", "collect", "outer", "inner"}]
  /\ rmSub \in [Actors -> Subs \cup {None}]
  /\ fire \in [Firers -> {"idle", "got", "loop", "sending", "unsubscribing"}]
  /\ firing \in [Firers -> Cells \cup {None}]
  /\ todo \in [Firers -> SUBSET Subs]
  /\ calling \in [Firers -> WsSubs \cup {None}]
  /\ fires \in 0..MaxFires
  /\ session \in [WsSubs -> {"open", "stalled", "closed", "dead"}]

\* While a dispatch runs the set of listeners it goes through does not
\* change: who unsubscribes during a dispatch waits for its end.
StableDuringDispatch ==
  \A f \in Firers :
    Dispatching(f) => /\ f \in readers[firing[f]]
                      /\ todo[f] \subseteq cell[firing[f]]

\* Once Unsubscribe returned for a polled subscription, no event fired later
\* is passed to its callback, however subscribing, collecting empty cells and
\* firing interleave.
RemovedNotCalled ==
  \A s \in Subs \ WsSubs :
    at[s] = "off" /\ eventCell # None => s \notin cell[eventCell]

\* The locks of the switch and of its cells never block each other: a call of
\* FireEvent, Subscribe or Unsubscribe returns, unless the callback of a
\* websocket session waits for a peer that does not read, or unsubscribes
\* from within the dispatch that calls it.  (A call of Subscribe ends with the
\* subscription on, one of Unsubscribe with it off.)
CallsReturn ==
  LET Stalled(f) == fire[f] = "sending" /\ session[calling[f]] \in {"stalled", "dead"}
      Blocked == \E f \in Firers : Stalled(f) \/ fire[f] = "unsubscribing" IN
  /\ \A f \in Firers : fire[f] # "idle" ~> (fire[f] = "idle" \/ Blocked)
  /\ \A s \in Subs :
       at[s] \in {"found", "removing"} ~> (at[s] \in {"on", "off"} \/ Blocked)

-----------------------------------------------------------------------------
(* Statements of the documentation that the code does not live up to.       *)

\* EventSubscriptions "catches events that callers subscribe to": once
\* Subscribe returned, events fired later reach the callback.
SubscribedIsCalled ==
  \A s \in Subs \ WsSubs :
    at[s] = "on" => eventCell # None /\ s \in cell[eventCell]

\* "Websocket connections will automatically receive events as they happen"
\* (api.md): an open session gets the event that is being dispatched.
OpenSessionHears ==
  \A s \in WsSubs, f \in Firers :
    (s \in todo[f] /\ session[s] = "open") ~> (s \notin todo[f] \/ session[s] # "open")
=============================================================================
