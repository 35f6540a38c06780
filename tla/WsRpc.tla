------------------------------- MODULE WsRpc --------------------------------
(***************************************************************************)
(* JSON-RPC requests on a websocket session (erisdb/wsService.go, with the *)
(* methods of erisdb/methods.go) and the events that are written to the    *)
(* same session.                                                           *)
(*                                                                         *)
(* Every request is processed by a goroutine of its own, so answers may    *)
(* come in any order, and between them come the events of the session's    *)
(* subscriptions, written by the goroutines that fire them.  The session   *)
(* stays open here; WsSessions and EventSwitch model how it closes, and    *)
(* how its write channel fills up.                                         *)
(*                                                                         *)
(* All subscriptions are to one event.  Other sessions, pollers and calls  *)
(* that hold subscribe to it too.  Its cell of the event switch is looked  *)
(* up in one step and locked in a later one, for writing to change the     *)
(* listeners and for reading to call them, and an empty cell is collected. *)
(* Nothing here depends on steps being taken, so a goroutine that waits    *)
(* for a lock only does not take its step, and the locks' queues are left  *)
(* to EventSwitch.                                                         *)
(***************************************************************************)
EXTENDS Naturals, Sequences, FiniteSets

CONSTANTS Requests,  \* requests of the client
          Others,    \* subscriptions of others to the event
          Firers,    \* goroutines that fire events
          MaxEvents, \* bound: events fired
          None       \* no request, no listener, no cell

ASSUME WsRpcConstants ==
  /\ MaxEvents \in Nat
  /\ Requests \cap Others = {}
  /\ None \notin Requests \cup Others

\* Why a request may be turned down before its method is called, in the order
\* of the checks, and what the answer's error code is then.
Code ==
  [unparsable    |-> "PARSE_ERROR",
   wrongVersion  |-> "INVALID_REQUEST",
   unknownMethod |-> "METHOD_NOT_FOUND",
   badParams     |-> "INVALID_PARAMS"]

Faults == DOMAIN Code

\* The methods: calls that answer from the pipe, and the two event methods.
Methods == {"pipe", "subscribe", "unsubscribe"}

\* Who subscribes and unsubscribes.  The id of a subscription is named by the
\* request that made it.
Actors == Requests \cup Others

\* Cells are numbered in the order in which they are made.
Cells == 1..Cardinality(Actors)

VARIABLES
  kind,       \* the fault or the method of a request
  target,     \* the id that an unsubscribe request names, None if no listener has it
  at,         \* where a request is, or the owner of another subscription
  answer,     \* the answer its goroutine writes
  answers,    \* answers written under an id, None for a request without one
  told,       \* number of events fired when a request was answered
  events,     \* events written for a subscription, in order
  eventCell,  \* evsw.eventCells[event], or None
  made,       \* number of cells made so far
  listeners,  \* keys of evsw.listeners
  cell,       \* cell[c]: keys of the listeners of cell c
  mine,       \* the cell an actor looked up
  firing,     \* firing[f]: the event f fires, or 0
  firingCell, \* the cell it looked up
  reading,    \* firing goroutines that hold the read lock of that cell
  todo,       \* listeners a firing goroutine still has to call
  fired,      \* number of events fired
  owed,       \* owed[n]: subscriptions the client counted on when n was fired
  swept       \* subscriptions made or being made when somebody else's removal
              \* collected the cell of the event

requestVars == <<kind, target, answers, told, events>>
switchVars  == <<eventCell, made, listeners, cell, mine, swept>>
fireVars    == <<firing, firingCell, reading, todo, fired, owed>>
vars == <<requestVars, at, answer, switchVars, fireVars>>

Init ==
  /\ kind = [r \in Requests |-> "none"]
  /\ target = [r \in Requests |-> None]
  /\ at = [a \in Actors |-> IF a \in Requests THEN "unsent" ELSE "off"]
  /\ answer = [r \in Requests |-> "none"]
  /\ answers = [i \in Requests \cup {None} |-> <<>>]
  /\ told = [r \in Requests |-> 0]
  /\ events = [r \in Requests |-> <<>>]
  /\ eventCell = None
  /\ made = 0
  /\ listeners = {}
  /\ cell = [c \in Cells |-> {}]
  /\ mine = [a \in Actors |-> None]
  /\ firing = [f \in Firers |-> 0]
  /\ firingCell = [f \in Firers |-> None]
  /\ reading = {}
  /\ todo = [f \in Firers |-> {}]
  /\ fired = 0
  /\ owed = [n \in 1..MaxEvents |-> {}]
  /\ swept = {}

\* The id of an answer; that of a request that cannot be parsed is not known.
IdOf(r) == IF kind[r] = "unparsable" THEN None ELSE r

\* Subscriptions whose id the client was told.
Known == {r \in Requests : kind[r] = "subscribe" /\ at[r] = "done" /\ answer[r] = "result"}

-----------------------------------------------------------------------------
(* Requests.                                                                *)

\* The read pump starts a goroutine for a message of the client.  The id of an
\* unsubscribe request is any string, the event's own id for instance.
receive(r) ==
  /\ at[r] = "unsent"
  /\ at' = [at EXCEPT ![r] = "process"]
  /\ \/ \E k \in (Faults \cup Methods) \ {"unsubscribe"} :
          kind' = [kind EXCEPT ![r] = k] /\ UNCHANGED target
     \/ \E s \in Known \cup {None} : /\ kind' = [kind EXCEPT ![r] = "unsubscribe"]
                                     /\ target' = [target EXCEPT ![r] = s]
  /\ UNCHANGED <<answers, told, events, answer, switchVars, fireVars>>

\* The goroutine of r is ready to write a.
Ready(r, a) ==
  /\ answer' = [answer EXCEPT ![r] = a]
  /\ at' = [at EXCEPT ![r] = "write"]

\* Process turns the request down.
reject(r) ==
  /\ at[r] = "process"
  /\ kind[r] \in Faults \ {"badParams"}
  /\ Ready(r, Code[kind[r]])
  /\ UNCHANGED <<requestVars, switchVars, fireVars>>

\* The method cannot decode its parameters.
badParams(r) ==
  /\ at[r] = "process"
  /\ kind[r] = "badParams"
  /\ Ready(r, Code.badParams)
  /\ UNCHANGED <<requestVars, switchVars, fireVars>>

\* A method that calls the pipe, which may return an error.  It may also never
\* return (a query for blocks, a call that holds): then this step is not taken.
callPipe(r) ==
  /\ at[r] = "process"
  /\ kind[r] = "pipe"
  /\ \E a \in {"result", "INTERNAL_ERROR"} : Ready(r, a)
  /\ UNCHANGED <<requestVars, switchVars, fireVars>>

\* No id could be generated.
subscribeFails(r) ==
  /\ at[r] = "process"
  /\ kind[r] = "subscribe"
  /\ Ready(r, "INTERNAL_ERROR")
  /\ UNCHANGED <<requestVars, switchVars, fireVars>>

\* Faulty variant: there is no return after an error was written.
GoesOn(r) == IF kind[r] \in Faults THEN "process" ELSE "done"

Finished(r) == "done"

\* writeResponse and writeError end in a write to the session.
write(r) ==
  /\ at[r] = "write"
  /\ answers' = [answers EXCEPT ![IdOf(r)] = Append(@, answer[r])]
  /\ told' = [told EXCEPT ![r] = fired]
  /\ at' = [at EXCEPT ![r] = Finished(r)]
  /\ UNCHANGED <<kind, target, events, answer, switchVars, fireVars>>

-----------------------------------------------------------------------------
(* Subscribe and Unsubscribe, for requests and for others.                  *)

\* Subscribe or Unsubscribe has returned to a: a request is answered.
Return(a) ==
  IF a \in Requests THEN Ready(a, "result")
  ELSE /\ at' = [at EXCEPT ![a] = IF @ = "adding" THEN "on" ELSE "off"]
       /\ UNCHANGED answer

\* a goes on to the next critical section.
Goto(a, step) ==
  /\ at' = [at EXCEPT ![a] = step]
  /\ UNCHANGED answer

\* Faulty variant: listeners are changed while an event is being fired.
WriteLockIgnored(c) == TRUE

WriteLockFree(c) == \A f \in reading : firingCell[f] # c

CellOfEvent == IF eventCell = None THEN made + 1 ELSE eventCell

\* The cell is found or made, and the listener entered in the switch's map.
EventSubscribe(a) ==
  /\ IF a \in Requests THEN at[a] = "process" /\ kind[a] = "subscribe"
     ELSE at[a] = "off" /\ mine[a] = None
  /\ Goto(a, "adding")
  /\ made' = IF eventCell = None THEN made + 1 ELSE made
  /\ eventCell' = CellOfEvent
  /\ listeners' = listeners \cup {a}
  /\ mine' = [mine EXCEPT ![a] = CellOfEvent]
  /\ UNCHANGED <<requestVars, cell, swept, fireVars>>

\* Faulty variant: a session has one subscription at a time.
Replaced(c, a) == {a}

Added(c, a) == cell[c] \cup {a}

\* The listener is added to the cell that was found, be it collected or not.
AddListener(a) ==
  /\ at[a] = "adding"
  /\ WriteLockFree(mine[a])
  /\ cell' = [cell EXCEPT ![mine[a]] = Added(mine[a], a)]
  /\ Return(a)
  /\ UNCHANGED <<requestVars, eventCell, made, listeners, mine, swept, fireVars>>

\* The id to be unsubscribed.
Named(a) == IF a \in Requests THEN target[a] ELSE a

\* The listener is taken from the switch's map.  For an id that is not there,
\* or not any more, Unsubscribe returns true as well.
EventUnsubscribe(a) ==
  /\ IF a \in Requests THEN at[a] = "process" /\ kind[a] = "unsubscribe"
     ELSE at[a] = "on"
  /\ listeners' = listeners \ {Named(a)}
  /\ IF Named(a) \in listeners THEN Goto(a, "get") ELSE Return(a)
  /\ UNCHANGED <<requestVars, eventCell, made, cell, mine, swept, fireVars>>

RemoveListenerForEvent(a) ==
  /\ at[a] = "get"
  /\ IF eventCell = None THEN Return(a) ELSE Goto(a, "remove")
  /\ mine' = [mine EXCEPT ![a] = IF eventCell = None THEN @ ELSE eventCell]
  /\ UNCHANGED <<requestVars, eventCell, made, listeners, cell, swept, fireVars>>

removeFromCell(a) ==
  LET left == cell[mine[a]] \ {Named(a)} IN
  /\ at[a] = "remove"
  /\ WriteLockFree(mine[a])
  /\ cell' = [cell EXCEPT ![mine[a]] = left]
  /\ IF left = {} THEN Goto(a, "collect") ELSE Return(a)
  /\ UNCHANGED <<requestVars, eventCell, made, listeners, mine, swept, fireVars>>

\* Subscriptions whose cell has been looked up.
LookedUp == {r \in Requests : kind[r] = "subscribe" /\ mine[r] # None}

\* A cell that is still empty is collected: whatever cell the event has now.
collect(a) ==
  LET empty == cell[mine[a]] = {} IN
  /\ at[a] = "collect"
  /\ WriteLockFree(mine[a])
  /\ eventCell' = IF empty THEN None ELSE eventCell
  /\ swept' = IF empty /\ eventCell # None THEN swept \cup (LookedUp \ {Named(a)})
              ELSE swept
  /\ Return(a)
  /\ UNCHANGED <<requestVars, made, listeners, cell, mine, fireVars>>

-----------------------------------------------------------------------------
(* Events.                                                                  *)

AskedToEnd(s) == {r \in Requests : kind[r] = "unsubscribe" /\ target[r] = s}

\* Subscriptions the client counts on: those it was told of and has not asked
\* to end, unless they were swept.
CountedOn == {s \in Known \ swept : AskedToEnd(s) = {}}

\* The cell is looked up.  An event without a cell is dropped.
FireEvent(f) ==
  /\ firing[f] = 0
  /\ fired < MaxEvents
  /\ fired' = fired + 1
  /\ owed' = [owed EXCEPT ![fired + 1] = CountedOn]
  /\ firing' = [firing EXCEPT ![f] = IF eventCell = None THEN 0 ELSE fired + 1]
  /\ firingCell' = [firingCell EXCEPT ![f] = eventCell]
  /\ UNCHANGED <<requestVars, at, answer, switchVars, reading, todo>>

lockCell(f) ==
  /\ firing[f] # 0
  /\ f \notin reading
  /\ reading' = reading \cup {f}
  /\ todo' = [todo EXCEPT ![f] = cell[firingCell[f]]]
  /\ UNCHANGED <<requestVars, at, answer, switchVars, firing, firingCell, fired, owed>>

\* The callback of a subscription of this session writes the event, with its
\* id.  The callbacks of others do their own things.
callback(f, s) ==
  /\ s \in todo[f]
  /\ events' = IF s \in Requests THEN [events EXCEPT ![s] = Append(@, firing[f])]
               ELSE events
  /\ todo' = [todo EXCEPT ![f] = @ \ {s}]
  /\ UNCHANGED <<kind, target, answers, told, at, answer, switchVars, firing,
                 firingCell, reading, fired, owed>>

eventFired(f) ==
  /\ f \in reading
  /\ todo[f] = {}
  /\ reading' = reading \ {f}
  /\ firing' = [firing EXCEPT ![f] = 0]
  /\ firingCell' = [firingCell EXCEPT ![f] = None]
  /\ UNCHANGED <<requestVars, at, answer, switchVars, todo, fired, owed>>

Process(r) ==
  reject(r) \/ badParams(r) \/ callPipe(r) \/ subscribeFails(r) \/ write(r)

Switch(a) ==
  \/ EventSubscribe(a) \/ AddListener(a) \/ EventUnsubscribe(a)
  \/ RemoveListenerForEvent(a) \/ removeFromCell(a) \/ collect(a)

Dispatch(f) ==
  FireEvent(f) \/ lockCell(f) \/ eventFired(f) \/ \E s \in Actors : callback(f, s)

Next ==
  \/ \E r \in Requests : receive(r) \/ Process(r)
  \/ \E a \in Actors : Switch(a)
  \/ \E f \in Firers : Dispatch(f)

Spec == Init /\ [][Next]_vars

-----------------------------------------------------------------------------
(* Properties.                                                              *)

Answers == {"result", "INTERNAL_ERROR"} \cup {Code[k] : k \in Faults}

\* The types of the session's state.
TypeOK ==
  /\ kind \in [Requests -> Faults \cup Methods \cup {"none"}]
  /\ target \in [Requests -> Requests \cup {None}]
  /\ at \in [Actors -> {"unsent", "process", "write", "done", "off", "adding", "on",
                        "get", "remove", "collect"}]
  /\ answer \in [Requests -> Answers \cup {"none"}]
  /\ answers \in [Requests \cup {None} -> Seq(Answers)]
  /\ told \in [Requests -> 0..MaxEvents]
  /\ events \in [Requests -> Seq(1..MaxEvents)]
  /\ eventCell \in Cells \cup {None}
  /\ made \in {0} \cup Cells
  /\ listeners \subseteq Actors
  /\ cell \in [Cells -> SUBSET Actors]
  /\ mine \in [Actors -> Cells \cup {None}]
  /\ firing \in [Firers -> 0..MaxEvents]
  /\ firingCell \in [Firers -> Cells \cup {None}]
  /\ reading \subseteq Firers
  /\ todo \in [Firers -> SUBSET Actors]
  /\ fired \in 0..MaxEvents
  /\ owed \in [1..MaxEvents -> SUBSET Requests]
  /\ swept \subseteq Requests

\* No request is answered twice, and each gets its own outcome: the code of
\* the first check it fails, or what its method returned.  Requests that
\* cannot be parsed are answered as often as there are such requests.
AnsweredOnce ==
  LET done == {r \in Requests : at[r] = "done"} IN
  /\ Len(answers[None]) = Cardinality({r \in done : kind[r] = "unparsable"})
  /\ \A r \in Requests : kind[r] # "unparsable" =>
       /\ Len(answers[r]) = IF r \in done THEN 1 ELSE 0
       /\ \A i \in DOMAIN answers[r] : kind[r] \in Faults => answers[r][i] = Code[kind[r]]

\* Once all requests to end a subscription have been answered, no event is
\* written for it, although other goroutines fire events: Unsubscribe waits
\* for the dispatch under way (events.go:146-152) and the answer is written
\* after it.  The one exception is a subscription that somebody else's removal
\* swept away with its cell: it may still get an event that was fired before
\* the answer, from a goroutine that had looked the old cell up.
NoEventAfterUnsubscribe ==
  [][\A s \in Requests :
       LET ended == {r \in AskedToEnd(s) : at[r] = "done"} IN
       events'[s] # events[s] /\ ended # {} /\ ended = AskedToEnd(s) =>
         /\ s \in swept
         /\ \E r \in ended : events'[s][Len(events'[s])] <= told[r]]_vars

\* No event is written twice for a subscription.  Once the dispatch of an event
\* is over, it was written for every subscription whose id the client had been
\* told when it was fired, unless the client has asked for its end or somebody
\* else's removal had swept it away with its cell.
EventsExact ==
  \A s \in Requests, n \in 1..fired :
    LET copies == Cardinality({i \in DOMAIN events[s] : events[s][i] = n})
        over == \A f \in Firers : firing[f] # n IN
    /\ copies <= 1
    /\ s \in owed[n] /\ over /\ AskedToEnd(s) = {} => copies = 1

-----------------------------------------------------------------------------
(* Statements of the documentation that the code does not live up to.       *)

\* A subscription that the client was told of and has not asked to end gets
\* the events ("Websocket connections will automatically receive events as
\* they happen", api.md), whatever others do with theirs.
KnownIsCalled ==
  \A s \in Known : AskedToEnd(s) = {} => eventCell # None /\ s \in cell[eventCell]

\* The boolean that answers an unsubscribe request ("result: <bool>", api.md)
\* tells whether anything was unsubscribed: a request whose id is nobody's is
\* not answered with true.
UnknownIdRefused ==
  \A r \in Requests :
    kind[r] = "unsubscribe" /\ target[r] = None => answer[r] # "result"
=============================================================================
