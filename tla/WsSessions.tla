----------------------------- MODULE WsSessions -----------------------------
(***************************************************************************)
(* The websocket server: handleFunc, WSSession with its read and write     *)
(* pumps, SessionManager and IdPool (server/websocket.go,                  *)
(* server/idpool.go).                                                      *)
(*                                                                         *)
(* A connection is served by its handler goroutine (handleFunc, Open, then *)
(* readPump), by the write pump that Open starts, and by one goroutine per *)
(* text message read, which ends in a Write to the session.  createSession *)
(* and removeSession run under the manager's mutex and are one step each.  *)
(* Shutdown takes no lock; it replaces the map of sessions by nil, and     *)
(* each of the two critical sections reads the map in such a way that a    *)
(* Shutdown in their middle has the effect of one just before or just      *)
(* after.                                                                  *)
(***************************************************************************)
EXTENDS Naturals, Sequences, FiniteSets, Functions

CONSTANTS Conns,         \* connections that reach the websocket endpoint
          MaxSessions,   \* maxSessions of the server
          WriteCap,      \* capacity of a session's writeChan
          MaxMsgs,       \* bound: messages a peer sends
          NumObservers,  \* observers, each with an open and a close channel
          None           \* no connection

ASSUME SessionConstants ==
  /\ MaxSessions \in Nat
  /\ WriteCap \in Nat \ {0}
  /\ MaxMsgs \in Nat
  /\ NumObservers \in Nat
  /\ None \notin Conns

VARIABLES
  idPool,          \* IdPool.ids, oldest first
  activeSessions,  \* activeSessions[i]: the connection registered under id i
  mapNil,          \* TRUE once Shutdown replaced the map by nil
  sid,             \* WSSession.id
  handler,         \* where the handler goroutine of a connection is
  pump,            \* where its write pump is
  told,            \* observers told so far by the running notify loop
  closed,          \* WSSession.closed
  sock,            \* the socket as the server sees it
  status,          \* the HTTP status the peer received, 0 for none
  msgs,            \* messages read from the peer
  procs,           \* Process goroutines that have not called Write yet
  checked,         \* goroutines in Write, past the test of closed
  queue,           \* messages in writeChan
  openChan,        \* the observers' open channels, of capacity 1
  closeChan        \* the observers' close channels, of capacity 1

managerVars == <<idPool, activeSessions, mapNil>>
netVars     == <<sock, status>>
writeVars   == <<msgs, procs, checked, queue>>
chanVars    == <<openChan, closeChan>>
vars == <<managerVars, sid, handler, pump, told, closed, netVars, writeVars,
          chanVars>>

Ids       == 0..MaxSessions
Observers == 1..NumObservers

\* The session of c was created and removeSession has not run for it.
Live(c) ==
  /\ handler[c] \in {"opening", "reading", "signalling", "done"}
  /\ pump[c] \notin {"notify", "done"}

Init ==
  /\ idPool = [i \in 1..MaxSessions |-> i]
  /\ activeSessions = [i \in Ids |-> None]
  /\ mapNil = FALSE
  /\ sid = [c \in Conns |-> 0]
  /\ handler = [c \in Conns |-> "idle"]
  /\ pump = [c \in Conns |-> "off"]
  /\ told = [c \in Conns |-> 0]
  /\ closed = [c \in Conns |-> FALSE]
  /\ sock = [c \in Conns |-> "none"]
  /\ status = [c \in Conns |-> 0]
  /\ msgs = [c \in Conns |-> 0]
  /\ procs = [c \in Conns |-> 0]
  /\ checked = [c \in Conns |-> 0]
  /\ queue = [c \in Conns |-> 0]
  /\ openChan = [o \in Observers |-> None]
  /\ closeChan = [o \in Observers |-> None]

-----------------------------------------------------------------------------
(* The handler goroutine: handleFunc, Open and readPump.                    *)

MoveHandler(c, from, to) ==
  /\ handler[c] = from
  /\ handler' = [handler EXCEPT ![c] = to]

\* Upgrade hijacks the connection and answers 101 before any session exists.
Upgrade(c) ==
  /\ MoveHandler(c, "idle", "upgraded")
  /\ sock' = [sock EXCEPT ![c] = "open"]
  /\ status' = [status EXCEPT ![c] = 101]
  /\ UNCHANGED <<managerVars, sid, pump, told, closed, writeVars, chanVars>>

\* http.Error: it has no effect on a connection that was hijacked.
httpError(c, code) == [status EXCEPT ![c] = IF @ = 101 THEN @ ELSE code]

\* The request is refused before the hijack, or the 101 cannot be sent.
UpgradeFails(c) ==
  /\ MoveHandler(c, "idle", "badRequest")
  /\ status' \in {httpError(c, 400), status}
  /\ UNCHANGED <<managerVars, sid, pump, told, closed, sock, writeVars, chanVars>>

\* len(activeSessions); a nil map has length 0.
NumActive == Cardinality({i \in Ids : activeSessions[i] # None})

\* Faulty variant: one session too many.
atCapacityOffByOne == NumActive > MaxSessions

atCapacity == NumActive >= MaxSessions

\* IdPool.GetId: 0 stands for the error, which createSession ignores.
GetId == IF idPool = <<>> THEN 0 ELSE Head(idPool)

PoolAfterGetId == IF idPool = <<>> THEN idPool ELSE Tail(idPool)

createSession(c) ==
  /\ ~atCapacity
  /\ ~mapNil
  /\ MoveHandler(c, "upgraded", "opening")
  /\ sid' = [sid EXCEPT ![c] = GetId]
  /\ idPool' = PoolAfterGetId
  /\ activeSessions' = [activeSessions EXCEPT ![GetId] = c]
  /\ UNCHANGED <<mapNil, pump, told, closed, netVars, writeVars, chanVars>>

\* The handler answers 503 and returns; it leaves the websocket open.
createSessionFull(c) ==
  /\ atCapacity
  /\ MoveHandler(c, "upgraded", "refused")
  /\ status' = httpError(c, 503)
  /\ UNCHANGED <<managerVars, sid, pump, told, closed, sock, writeVars, chanVars>>

\* After Shutdown the write to the nil map panics, after an id was taken.
createSessionPanics(c) ==
  /\ ~atCapacity
  /\ mapNil
  /\ MoveHandler(c, "upgraded", "panicked")
  /\ idPool' = PoolAfterGetId
  /\ UNCHANGED <<activeSessions, mapNil, sid, pump, told, closed, netVars,
                 writeVars, chanVars>>

\* One iteration of the loop of notifyOpened: a send that waits for room.
notifyOpened(c) ==
  /\ handler[c] = "opening"
  /\ told[c] < NumObservers
  /\ openChan[told[c] + 1] = None
  /\ openChan' = [openChan EXCEPT ![told[c] + 1] = c]
  /\ told' = [told EXCEPT ![c] = @ + 1]
  /\ UNCHANGED <<managerVars, sid, handler, pump, closed, netVars, writeVars, closeChan>>

\* The end of Open: the write pump starts and the handler becomes readPump.
startPumps(c) ==
  /\ told[c] = NumObservers
  /\ MoveHandler(c, "opening", "reading")
  /\ pump' = [pump EXCEPT ![c] = "select"]
  /\ told' = [told EXCEPT ![c] = 0]
  /\ UNCHANGED <<managerVars, sid, closed, netVars, writeVars, chanVars>>

\* A text message: a goroutine runs Process on it.
readText(c) ==
  /\ handler[c] = "reading"
  /\ sock[c] \in {"open", "gone", "silent"}
  /\ msgs[c] < MaxMsgs
  /\ msgs' = [msgs EXCEPT ![c] = @ + 1]
  /\ procs' = [procs EXCEPT ![c] = @ + 1]
  /\ UNCHANGED <<managerVars, sid, handler, pump, told, closed, netVars, checked,
                 queue, chanVars>>

\* A message of another type ends the loop, ...
readNonText(c) ==
  /\ sock[c] \in {"open", "gone", "silent"}
  /\ MoveHandler(c, "reading", "signalling")
  /\ UNCHANGED <<managerVars, sid, pump, told, closed, netVars, writeVars, chanVars>>

\* Faulty variant: the loop ends without telling the write pump.
readFailsSilently(c) ==
  /\ sock[c] \in {"gone", "closed"}
  /\ MoveHandler(c, "reading", "done")
  /\ UNCHANGED <<managerVars, sid, pump, told, closed, netVars, writeVars, chanVars>>

\* ... and so does a failed read.
readFails(c) ==
  /\ sock[c] \in {"gone", "closed"}
  /\ MoveHandler(c, "reading", "signalling")
  /\ UNCHANGED <<managerVars, sid, pump, told, closed, netVars, writeVars, chanVars>>

-----------------------------------------------------------------------------
(* The write pump.                                                          *)

MovePump(c, from, to) ==
  /\ pump[c] = from
  /\ pump' = [pump EXCEPT ![c] = to]

\* The unbuffered writeCloseChan: sender and receiver meet.
signalClose(c) ==
  /\ MoveHandler(c, "signalling", "done")
  /\ MovePump(c, "select", "closing")
  /\ UNCHANGED <<managerVars, sid, told, closed, netVars, writeVars, chanVars>>

takeMessage(c) ==
  /\ queue[c] > 0
  /\ MovePump(c, "select", "writing")
  /\ queue' = [queue EXCEPT ![c] = @ - 1]
  /\ UNCHANGED <<managerVars, sid, handler, told, closed, netVars, msgs, procs,
                 checked, chanVars>>

\* WriteMessage; a peer that is gone may not have been noticed yet.
writeSucceeds(c) ==
  /\ sock[c] \in {"open", "gone", "silent"}
  /\ MovePump(c, "writing", "select")
  /\ UNCHANGED <<managerVars, sid, handler, told, closed, netVars, writeVars, chanVars>>

writeFails(c) ==
  /\ sock[c] \in {"gone", "silent"}
  /\ MovePump(c, "writing", "closing")
  /\ UNCHANGED <<managerVars, sid, handler, told, closed, netVars, writeVars, chanVars>>

\* Close, deferred by the pump, step by step.
setClosed(c) ==
  /\ ~closed[c]
  /\ MovePump(c, "closing", "closeConn")
  /\ closed' = [closed EXCEPT ![c] = TRUE]
  /\ UNCHANGED <<managerVars, sid, handler, told, netVars, writeVars, chanVars>>

closeConn(c) ==
  /\ MovePump(c, "closeConn", "remove")
  /\ sock' = [sock EXCEPT ![c] = "closed"]
  /\ UNCHANGED <<managerVars, sid, handler, told, closed, status, writeVars, chanVars>>

\* Faulty variants: the id is not given back; the map keeps the session;
\* the id is given back whether or not it is in the map.
ReleaseForgotten(id) == idPool
DeleteForgotten(id) == activeSessions
RegisteredUnchecked(id) == TRUE

ReleaseId(id) == Append(idPool, id)

Deleted(id) == [activeSessions EXCEPT ![id] = None]

Registered(id) == activeSessions[id] # None

removeSession(c) ==
  /\ MovePump(c, "remove", "notify")
  /\ IF Registered(sid[c])
     THEN activeSessions' = Deleted(sid[c]) /\ idPool' = ReleaseId(sid[c])
     ELSE UNCHANGED <<activeSessions, idPool>>
  /\ UNCHANGED <<mapNil, sid, handler, told, closed, netVars, writeVars, chanVars>>

\* Faulty variant: observers are told before the session is removed.
ClosingDoneEarly(c) == pump[c] = "remove"

ClosingDone(c) == pump[c] = "notify"

notifyClosed(c) ==
  /\ ClosingDone(c)
  /\ told[c] < NumObservers
  /\ closeChan[told[c] + 1] = None
  /\ closeChan' = [closeChan EXCEPT ![told[c] + 1] = c]
  /\ told' = [told EXCEPT ![c] = @ + 1]
  /\ UNCHANGED <<managerVars, sid, handler, pump, closed, netVars, writeVars, openChan>>

pumpDone(c) ==
  /\ told[c] = NumObservers
  /\ MovePump(c, "notify", "done")
  /\ UNCHANGED <<managerVars, sid, handler, told, closed, netVars, writeVars, chanVars>>

-----------------------------------------------------------------------------
(* Process goroutines: WSSession.Write tests closed, then sends.            *)

writeRejected(c) ==
  /\ procs[c] > 0
  /\ closed[c]
  /\ procs' = [procs EXCEPT ![c] = @ - 1]
  /\ UNCHANGED <<managerVars, sid, handler, pump, told, closed, netVars, msgs,
                 checked, queue, chanVars>>

writeChecked(c) ==
  /\ procs[c] > 0
  /\ ~closed[c]
  /\ procs' = [procs EXCEPT ![c] = @ - 1]
  /\ checked' = [checked EXCEPT ![c] = @ + 1]
  /\ UNCHANGED <<managerVars, sid, handler, pump, told, closed, netVars, msgs,
                 queue, chanVars>>

\* Faulty variant: a channel that takes one message too many.
HasRoomOffByOne(c) == queue[c] <= WriteCap

HasRoom(c) == queue[c] < WriteCap

writeSend(c) ==
  /\ checked[c] > 0
  /\ HasRoom(c)
  /\ checked' = [checked EXCEPT ![c] = @ - 1]
  /\ queue' = [queue EXCEPT ![c] = @ + 1]
  /\ UNCHANGED <<managerVars, sid, handler, pump, told, closed, netVars, msgs,
                 procs, chanVars>>

-----------------------------------------------------------------------------
(* The manager's Shutdown, the peers and the observers.                     *)

Shutdown ==
  /\ mapNil' = TRUE
  /\ activeSessions' = [i \in Ids |-> None]
  /\ UNCHANGED <<idPool, sid, handler, pump, told, closed,
                 netVars, writeVars, chanVars>>

\* The peer closes the connection, or vanishes without a trace.
peerLeaves(c) ==
  /\ sock[c] = "open"
  /\ \E s \in {"gone", "silent"} : sock' = [sock EXCEPT ![c] = s]
  /\ UNCHANGED <<managerVars, sid, handler, pump, told, closed, status, writeVars,
                 chanVars>>

observerReceives(o) ==
  /\ \/ openChan[o] # None /\ openChan' = [openChan EXCEPT ![o] = None]
                           /\ UNCHANGED closeChan
     \/ closeChan[o] # None /\ closeChan' = [closeChan EXCEPT ![o] = None]
                            /\ UNCHANGED openChan
  /\ UNCHANGED <<managerVars, sid, handler, pump, told, closed, netVars, writeVars>>

HandlerStep(c) ==
  \/ createSession(c) \/ createSessionFull(c) \/ createSessionPanics(c)
  \/ notifyOpened(c) \/ startPumps(c)
  \/ readText(c) \/ readNonText(c) \/ readFails(c)

CloseStep(c) ==
  \/ setClosed(c) \/ closeConn(c) \/ removeSession(c)
  \/ notifyClosed(c) \/ pumpDone(c)

WriterStep(c) == writeRejected(c) \/ writeChecked(c) \/ writeSend(c)

Next ==
  \/ \E c \in Conns :
       \/ Upgrade(c) \/ UpgradeFails(c) \/ peerLeaves(c)
       \/ HandlerStep(c)
       \/ signalClose(c) \/ takeMessage(c) \/ writeSucceeds(c) \/ writeFails(c)
       \/ CloseStep(c)
       \/ WriterStep(c)
  \/ \E o \in Observers : observerReceives(o)
  \/ Shutdown

Spec == Init /\ [][Next]_vars

\* What the Go scheduler guarantees: a goroutine that can run does run, and
\* a select that is offered a case again and again takes it some time.  A
\* write to a socket whose peer is there but does not read may block for
\* good.  Observers are assumed to keep receiving.
Fairness ==
  /\ \A c \in Conns :
       /\ WF_vars(createSession(c) \/ createSessionFull(c) \/ createSessionPanics(c))
       /\ WF_vars(notifyOpened(c) \/ startPumps(c))
       /\ WF_vars(readFails(c))
       /\ SF_vars(signalClose(c))
       /\ WF_vars(takeMessage(c))
       /\ WF_vars(sock[c] # "open" /\ (writeSucceeds(c) \/ writeFails(c)))
       /\ WF_vars(CloseStep(c))
       /\ WF_vars(WriterStep(c))
  /\ \A o \in Observers : WF_vars(observerReceives(o))

FairSpec == Spec /\ Fairness

-----------------------------------------------------------------------------
(* Properties.                                                              *)

HandlerStates == {"idle", "upgraded", "badRequest", "refused", "panicked",
                  "opening", "reading", "signalling", "done"}
PumpStates    == {"off", "select", "writing", "closing", "closeConn", "remove",
                  "notify", "done"}
SockStates    == {"none", "open", "gone", "silent", "closed"}

\* The types of the server's state; a write channel never holds more than
\* its capacity and a notify loop never runs past its list of observers.
TypeOK ==
  /\ idPool \in Seq(1..MaxSessions)
  /\ activeSessions \in [Ids -> Conns \cup {None}]
  /\ mapNil \in BOOLEAN
  /\ sid \in [Conns -> Ids]
  /\ handler \in [Conns -> HandlerStates]
  /\ pump \in [Conns -> PumpStates]
  /\ told \in [Conns -> 0..NumObservers]
  /\ closed \in [Conns -> BOOLEAN]
  /\ sock \in [Conns -> SockStates]
  /\ status \in [Conns -> {0, 101, 400, 503}]
  /\ msgs \in [Conns -> 0..MaxMsgs]
  /\ procs \in [Conns -> Nat]
  /\ checked \in [Conns -> Nat]
  /\ queue \in [Conns -> 0..WriteCap]
  /\ openChan \in [Observers -> Conns \cup {None}]
  /\ closeChan \in [Observers -> Conns \cup {None}]

LiveIds == {sid[c] : c \in {d \in Conns : Live(d)}}

\* IdPool and SessionManager together lose and duplicate no id: the ids in
\* the pool are distinct, none of them belongs to a live session, and until
\* Shutdown every id from 1 to maxSessions is in one of the two places.
IdsConserved ==
  /\ IsInjective(idPool)
  /\ Range(idPool) \cap LiveIds = {}
  /\ ~mapNil => Range(idPool) \cup LiveIds = 1..MaxSessions

\* The map of sessions is exact until Shutdown: a connection is registered
\* under an id if and only if its session is live and has that id.  So
\* removeSession, which is given only the id, never removes the session of
\* another connection that was given the same id.
MapExact ==
  ~mapNil => \A i \in Ids, c \in Conns :
               activeSessions[i] = c <=> Live(c) /\ sid[c] = i

\* Two live sessions never have the same id, not even while the server
\* shuts down, and no live session has the id 0 that GetId returns with the
\* error createSession ignores.
LiveIdsUnique ==
  /\ \A c, d \in Conns : Live(c) /\ Live(d) /\ sid[c] = sid[d] => c = d
  /\ \A c \in Conns : Live(c) => sid[c] # 0

\* The server never serves more than maxSessions sessions at a time.
CapacityBound == Cardinality({c \in Conns : Live(c)}) <= MaxSessions

\* An observer hears that a session closed only after its open event was
\* delivered to every observer and its id went back to the pool.
CloseAnnouncedLate ==
  \A o \in Observers, c \in Conns :
    closeChan[o] = c => ~Live(c) /\ handler[c] \in {"reading", "signalling", "done"}

\* The session manager keeps the promise of SessionSlots: the id of a live
\* session is its slot and the ids in the pool are the free slots.
Slots == INSTANCE SessionSlots WITH
           slot    <- [c \in Conns |-> IF Live(c) THEN sid[c] ELSE 0],
           free    <- Range(idPool),
           open    <- ~mapNil,
           refused <- {c \in Conns : handler[c] = "refused"}

ImplementsSlots == Slots!Spec

\* A session whose peer closed the connection is cleaned up: its pump ends,
\* which includes releasing its id and telling every observer ("it cleans
\* up after itself", test/server/ws_burst_test.go).
SessionCleanedUp ==
  \A c \in Conns : (Live(c) /\ sock[c] = "gone") ~> (pump[c] = "done")

-----------------------------------------------------------------------------
(* Statements of comments in the code that the code does not live up to.    *)

\* "Requesting a websocket connection will fail with a 503 if the server is
\* at capacity" (NewWebSocketServer).
CapacityGives503 == \A c \in Conns : handler[c] = "refused" => status[c] = 503

\* "Read loop. Will terminate on a failed read." (readPump)
ReadLoopTerminates ==
  \A c \in Conns :
    (handler[c] = "signalling" /\ sock[c] \in {"gone", "closed"})
      ~> (handler[c] = "done")

\* The write pump "will terminate on failed writes, if pings are not
\* responded to, or if a message comes in on the write close channel".
UnresponsivePeerDropped ==
  \A c \in Conns : (Live(c) /\ sock[c] = "silent") ~> (pump[c] = "done")
=============================================================================
