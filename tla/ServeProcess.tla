---------------------------- MODULE ServeProcess ----------------------------
(***************************************************************************)
(* The life of the serve process (server/server.go): Start, the three      *)
(* goroutines it starts, and calls of Stop.                                *)
(*                                                                         *)
(* Stop shuts the servers down, adds a listener for the stop event, puts   *)
(* a token into stopChan, which has room for one, and waits for the event  *)
(* or, if it was given one, for its timeout.  One goroutine takes a token  *)
(* once and stops the graceful HTTP server; one serves and, when that      *)
(* returns, shuts the servers down; one waits for the HTTP server's        *)
(* StopChan and passes the stop event to the listeners it finds.           *)
(*                                                                         *)
(* The graceful server is vendored: an interrupt (Stop, or a signal to the *)
(* process) closes the port; open requests get a moment after a Stop and   *)
(* all the time they need after a signal; then StopChan is closed, if      *)
(* anyone has asked for it yet, and Serve returns.  When the moment has    *)
(* passed, the goroutine that keeps track of the connections is told to    *)
(* close them and not waited for, and the handlers of open requests run    *)
(* on.  A connection that has become a websocket is not kept track of.     *)
(***************************************************************************)
EXTENDS Naturals

CONSTANTS Stops,      \* calls of Stop
          Patient,    \* those without a timeout
          Main        \* the listener of the main function

ASSUME ProcessConstants == Patient \subseteq Stops /\ Main \notin Stops

VARIABLES
  started,    \* "no", "failed" or "yes"
  running,    \* the servers are running
  stopper,    \* the goroutine that takes the token: "none", "waiting", "done"
  tokens,     \* tokens in stopChan
  interrupted,\* the graceful server was interrupted
  signalled,  \* by a signal to the process
  killing,    \* it has a timeout for open requests
  killed,     \* the timeout has passed and the kill channel is closed
  busy,       \* a request is being handled on a connection kept track of
  port,       \* the port is open
  serve,      \* the serving goroutine: "none", "serving", "killing", "draining",
              \* "returned", "done"
  stopChan,   \* the graceful server's channel: "none", "open", "closed"
  waiter,     \* the goroutine that waits for it: "none", "begin", "waiting", "done"
  listeners,  \* stopListenChans
  notified,   \* listeners that were sent the stop event
  at          \* where a call of Stop is

vars == <<started, running, stopper, tokens, interrupted, signalled, killing, killed, busy,
          port, serve, stopChan, waiter, listeners, notified, at>>

Init ==
  /\ started = "no"
  /\ running = FALSE
  /\ stopper = "none"
  /\ tokens = 0
  /\ interrupted = FALSE
  /\ signalled = FALSE
  /\ killing = FALSE
  /\ killed = FALSE
  /\ busy = FALSE
  /\ port = FALSE
  /\ serve = "none"
  /\ stopChan = "none"
  /\ waiter = "none"
  /\ listeners = {}
  /\ notified = {}
  /\ at = [c \in Stops |-> "idle"]

-----------------------------------------------------------------------------
(* Start and its goroutines.                                                *)

\* The port is 0, and the servers are not started; or they are, and then the
\* port or the certificate is not to be had.  In the last case the port was
\* opened and is not closed again.
startFails ==
  /\ started = "no"
  /\ started' = "failed"
  /\ \/ UNCHANGED <<running, port>>
     \/ running' = TRUE /\ UNCHANGED port
     \/ running' = TRUE /\ port' = TRUE
  /\ UNCHANGED <<signalled, stopper, tokens, interrupted, killing, killed, busy, serve,
                 stopChan, waiter, listeners, notified, at>>

\* The port is open and the goroutines are started.
Start ==
  /\ started = "no"
  /\ started' = "yes"
  /\ running' = TRUE
  /\ port' = TRUE
  /\ stopper' = "waiting"
  /\ serve' = "serving"
  /\ waiter' = "begin"
  /\ UNCHANGED <<signalled, tokens, interrupted, killing, killed, busy, stopChan, listeners,
                 notified, at>>

\* The main function asks for the stop event when Start has returned.
mainListens ==
  /\ started = "yes"
  /\ Main \notin listeners
  /\ listeners' = listeners \cup {Main}
  /\ UNCHANGED <<signalled, started, running, stopper, tokens, interrupted, killing,
                 killed, busy, port, serve, stopChan, waiter, notified, at>>

\* Faulty variant: the graceful server keeps its own timeout, which is none.
NoKillTime == killing

KillTime == TRUE

\* The second goroutine: a token arrives.
stopSignal ==
  /\ stopper = "waiting"
  /\ tokens > 0
  /\ tokens' = tokens - 1
  /\ stopper' = "done"
  /\ interrupted' = TRUE
  /\ killing' = KillTime
  /\ UNCHANGED <<signalled, started, running, killed, busy, port, serve, stopChan, waiter,
                 listeners, notified, at>>

\* The process gets a SIGINT or a SIGTERM.
osSignal ==
  /\ serve = "serving"
  /\ ~interrupted
  /\ interrupted' = TRUE
  /\ signalled' = TRUE
  /\ UNCHANGED <<started, running, stopper, tokens, killing, killed, busy, port, serve,
                 stopChan, waiter, listeners, notified, at>>

\* A request comes in, and ends or makes its connection a websocket.
request ==
  /\ port
  /\ serve = "serving"
  /\ ~busy
  /\ busy' = TRUE
  /\ UNCHANGED <<signalled, started, running, stopper, tokens, interrupted, killing,
                 killed, port, serve, stopChan, waiter, listeners, notified, at>>

requestDone ==
  /\ busy
  /\ busy' = FALSE
  /\ UNCHANGED <<signalled, started, running, stopper, tokens, interrupted, killing,
                 killed, port, serve, stopChan, waiter, listeners, notified, at>>

\* handleInterrupt closes the port.
closePort ==
  /\ interrupted
  /\ port
  /\ port' = FALSE
  /\ UNCHANGED <<signalled, started, running, stopper, tokens, interrupted, killing,
                 killed, busy, serve, stopChan, waiter, listeners, notified, at>>

\* No more connections are accepted.  Whether there is a timeout for the open
\* requests is looked up now.
shutdown ==
  /\ serve = "serving"
  /\ ~port
  /\ serve' = IF killing THEN "killing" ELSE "draining"
  /\ UNCHANGED <<signalled, started, running, stopper, tokens, interrupted, killing,
                 killed, busy, port, stopChan, waiter, listeners, notified, at>>

\* The timeout has passed: the connections are to be closed.
kill ==
  /\ serve = "killing"
  /\ ~killed
  /\ killed' = TRUE
  /\ UNCHANGED <<signalled, started, running, stopper, tokens, interrupted, killing, busy,
                 port, serve, stopChan, waiter, listeners, notified, at>>

\* Faulty variant: the open requests are not waited for.
NotWaited == serve \in {"killing", "draining"}

\* No connection is open, or the timeout has passed.
Drained ==
  \/ serve \in {"killing", "draining"} /\ ~busy
  \/ serve = "killing" /\ killed

\* StopChan is closed and Serve returns.
serveReturns ==
  /\ Drained
  /\ stopChan' = IF stopChan = "open" THEN "closed" ELSE stopChan
  /\ serve' = "returned"
  /\ UNCHANGED <<signalled, started, running, stopper, tokens, interrupted, killing, killed,
                 busy, port, waiter, listeners, notified, at>>

serversShutDown ==
  /\ serve = "returned"
  /\ serve' = "done"
  /\ running' = FALSE
  /\ UNCHANGED <<signalled, started, stopper, tokens, interrupted, killing,
                 killed, busy, port, stopChan, waiter, listeners, notified, at>>

\* The third goroutine asks for StopChan, which is made if there is none.
askStopChan ==
  /\ waiter = "begin"
  /\ waiter' = "waiting"
  /\ stopChan' = "open"
  /\ UNCHANGED <<signalled, started, running, stopper, tokens, interrupted, killing,
                 killed, busy, port, serve, listeners, notified, at>>

StopChanClosed == waiter = "waiting" /\ stopChan = "closed"

\* It passes the stop event to the listeners there are.
stopEvent ==
  /\ StopChanClosed
  /\ waiter' = "done"
  /\ notified' = listeners
  /\ UNCHANGED <<signalled, started, running, stopper, tokens, interrupted, killing,
                 killed, busy, port, serve, stopChan, listeners, at>>

-----------------------------------------------------------------------------
(* Stop.                                                                    *)

\* The servers are shut down and the listener is added.
Stop(c) ==
  /\ at[c] = "idle"
  /\ started # "no"
  /\ running' = FALSE
  /\ listeners' = listeners \cup {c}
  /\ at' = [at EXCEPT ![c] = "sending"]
  /\ UNCHANGED <<signalled, started, stopper, tokens, interrupted, killing,
                 killed, busy, port, serve, stopChan, waiter, notified>>

StopChanHasRoom == tokens < 1

sendToken(c) ==
  /\ at[c] = "sending"
  /\ StopChanHasRoom
  /\ tokens' = tokens + 1
  /\ at' = [at EXCEPT ![c] = "waiting"]
  /\ UNCHANGED <<signalled, started, running, stopper, interrupted, killing,
                 killed, busy, port, serve, stopChan, waiter, listeners, notified>>

stopped(c) ==
  /\ at[c] = "waiting"
  /\ c \in notified
  /\ at' = [at EXCEPT ![c] = "ok"]
  /\ UNCHANGED <<signalled, started, running, stopper, tokens, interrupted, killing,
                 killed, busy, port, serve, stopChan, waiter, listeners, notified>>

timedOut(c) ==
  /\ at[c] = "waiting"
  /\ c \notin Patient
  /\ at' = [at EXCEPT ![c] = "timedOut"]
  /\ UNCHANGED <<signalled, started, running, stopper, tokens, interrupted, killing,
                 killed, busy, port, serve, stopChan, waiter, listeners, notified>>

\* Steps of goroutines, which are taken if they can be.
internal ==
  \/ stopSignal \/ closePort \/ shutdown \/ kill \/ serveReturns \/ serversShutDown
  \/ askStopChan \/ stopEvent

call(c) == sendToken(c) \/ stopped(c) \/ timedOut(c)

Next ==
  \/ startFails \/ Start \/ mainListens \/ osSignal \/ request \/ requestDone \/ internal
  \/ \E c \in Stops : Stop(c) \/ call(c)

Spec == Init /\ [][Next]_vars

\* Goroutines that can run do run, and timers fire.  Nobody has to call Stop,
\* no request has to end.
Fairness ==
  /\ WF_vars(stopSignal) /\ WF_vars(closePort) /\ WF_vars(shutdown) /\ WF_vars(kill)
  /\ WF_vars(serveReturns)
  /\ WF_vars(serversShutDown) /\ WF_vars(askStopChan) /\ WF_vars(stopEvent)
  /\ \A c \in Stops : WF_vars(call(c))

FairSpec == Spec /\ Fairness

-----------------------------------------------------------------------------
(* Properties.                                                              *)

\* The types of the process's state; stopChan never holds two tokens.
TypeOK ==
  /\ started \in {"no", "failed", "yes"}
  /\ running \in BOOLEAN
  /\ stopper \in {"none", "waiting", "done"}
  /\ tokens \in 0..1
  /\ interrupted \in BOOLEAN
  /\ signalled \in BOOLEAN
  /\ killing \in BOOLEAN
  /\ killed \in BOOLEAN
  /\ busy \in BOOLEAN
  /\ port \in BOOLEAN
  /\ serve \in {"none", "serving", "killing", "draining", "returned", "done"}
  /\ stopChan \in {"none", "open", "closed"}
  /\ waiter \in {"none", "begin", "waiting", "done"}
  /\ listeners \subseteq Stops \cup {Main}
  /\ notified \subseteq listeners
  /\ at \in [Stops -> {"idle", "sending", "waiting", "ok", "timedOut"}]

\* When a call of Stop returns without an error, or the main function is told
\* to end the process, the port is released, and every request that came in
\* over a connection kept track of has ended or has had the whole timeout.
\* After a signal alone there is no timeout, and all of them have ended.
StoppedMeansDrained ==
  notified # {} => /\ ~port
                   /\ busy => killed
                   /\ killed => stopper = "done"

\* A call of Stop on a started process gets the port released and the servers
\* shut down for good, even if a request never ends, and even if the call
\* itself does not return; unless a signal came first and the process is
\* waiting for an open request without a limit.
StopStops ==
  \A c \in Stops :
    (started = "yes" /\ at[c] = "waiting")
      ~> (~port /\ ~running /\ (serve = "done" \/ (serve = "draining" /\ busy /\ signalled)))

\* What the comment on Stop says: "process any remaining requests up until the
\* timeout duration is passed, at which point it will abort them and shut
\* down".  A call with a timeout returns.
StopReturns ==
  \A c \in Stops \ Patient : at[c] = "sending" ~> at[c] \in {"ok", "timedOut"}

\* What the comment on the stop event says: "It is triggered when the server
\* has been fully shut down".
EventAfterShutDown == Main \in notified => ~running
=============================================================================
