---------------------------- MODULE ServerManager ----------------------------
(***************************************************************************)
(* The manager of the server-server (erisdb/erisdbss/server_manager.go):   *)
(* requests start erisdb processes on ports taken from an id pool, a       *)
(* reaper kills those that have run for too long, ShutDown kills them all. *)
(*                                                                         *)
(* add holds the manager's lock from taking the id to the end.  It starts  *)
(* two goroutines: one starts the process and scans its output for a token *)
(* (CmdProcess.Start), one sleeps for PROC_START_TIMEOUT; add takes the    *)
(* first of their two messages.  The channels have no buffer, so the other *)
(* goroutine may be left behind with its message.  If the timer is first   *)
(* while exec is still at work, Kill dereferences a nil pointer; the HTTP  *)
(* server recovers from the panic, and the process starts afterwards.      *)
(*                                                                         *)
(* Start does not return when it gets no pipe for the output: it reports   *)
(* the error, and once add has received that, starts the process and       *)
(* dereferences its nil reader.  Nobody recovers from that panic, and the  *)
(* manager ends.                                                           *)
(*                                                                         *)
(* Ages count clock ticks since a task was made, up to the longest         *)
(* duration a request may ask for plus one.                                *)
(***************************************************************************)
EXTENDS Naturals, Sequences, SequencesExt

CONSTANTS Requests,   \* POST requests to /server, and the processes they start
          MaxProcs,   \* bound: the size of the id pool
          Durations,  \* durations that requests ask for, at least one tick
          MaxStops,   \* bound: calls of killAll
          None        \* no request

ASSUME ManagerConstants ==
  /\ MaxProcs \in Nat
  /\ Durations \subseteq Nat \ {0}
  /\ None \notin Requests

VARIABLES
  ids,       \* the id pool, first id at the front
  running,   \* requests whose tasks are in the list of running tasks, in order
  mtx,       \* the request that holds the manager's lock, or None
  at,        \* where a request is
  id,        \* the id of a request, 0 before it has one
  limit,     \* the duration asked for
  maxProcs,  \* the size of the id pool
  age,       \* ticks since its task was made
  proc,      \* its process
  starter,   \* the goroutine that starts it
  timer,     \* the goroutine that times the start out
  token,     \* processes whose token was found
  crashed,   \* the manager ended in a panic
  stops      \* number of calls of killAll

vars == <<ids, running, mtx, at, id, limit, maxProcs, age, proc, starter, timer, token,
          crashed, stops>>

config == <<limit, maxProcs>>

Oldest == CHOOSE d \in Durations : \A e \in Durations : e <= d

NewIdPool == [i \in 1..maxProcs |-> i]

Init ==
  /\ maxProcs \in 1..MaxProcs
  /\ ids = NewIdPool
  /\ running = <<>>
  /\ mtx = None
  /\ at = [r \in Requests |-> "new"]
  /\ id = [r \in Requests |-> 0]
  /\ limit \in [Requests -> Durations]
  /\ age = [r \in Requests |-> 0]
  /\ proc = [r \in Requests |-> "none"]
  /\ starter = [r \in Requests |-> "none"]
  /\ timer = [r \in Requests |-> "none"]
  /\ token = {}
  /\ crashed = FALSE
  /\ stops = 0

-----------------------------------------------------------------------------
(* add.                                                                     *)

\* GetId returns an error.
outOfIds(r) ==
  /\ at[r] = "new"
  /\ mtx = None
  /\ ids = <<>>
  /\ at' = [at EXCEPT ![r] = "refused"]
  /\ UNCHANGED <<ids, running, mtx, id, config, age, proc, starter, timer, token, crashed,
                 stops>>

GetId(r) ==
  /\ at[r] = "new"
  /\ mtx = None
  /\ ids # <<>>
  /\ mtx' = r
  /\ ids' = Tail(ids)
  /\ id' = [id EXCEPT ![r] = Head(ids)]
  /\ at' = [at EXCEPT ![r] = "workDir"]
  /\ UNCHANGED <<running, config, age, proc, starter, timer, token, crashed, stops>>

\* Faulty variant: the id of a start that failed is given back.
IdReturned(r) == Append(ids, id[r])

IdKept(r) == ids

\* add returns an error: "failed" in preparing or starting the process, or it
\* timed out when the process was there to be killed or when it was not yet.
fail(r, how) ==
  /\ at' = [at EXCEPT ![r] = how]
  /\ mtx' = None
  /\ ids' = IdKept(r)

createWorkDirFails(r) ==
  /\ at[r] = "workDir"
  /\ fail(r, "failed")
  /\ UNCHANGED <<running, id, config, age, proc, starter, timer, token, crashed, stops>>

\* The files are written; waitForProcStarted starts its two goroutines.
createWorkDir(r) ==
  /\ at[r] = "workDir"
  /\ at' = [at EXCEPT ![r] = "select"]
  /\ starter' = [starter EXCEPT ![r] = "exec"]
  /\ timer' = [timer EXCEPT ![r] = "sleeping"]
  /\ UNCHANGED <<ids, running, mtx, id, config, age, proc, token, crashed, stops>>

\* The process has started, or an error was reported: the task is appended.
procStarted(r) ==
  /\ at[r] = "select"
  /\ starter[r] = "ready"
  /\ starter' = [starter EXCEPT ![r] = "done"]
  /\ running' = Append(running, r)
  /\ age' = [age EXCEPT ![r] = 0]
  /\ at' = [at EXCEPT ![r] = "added"]
  /\ mtx' = None
  /\ UNCHANGED <<ids, id, config, proc, timer, token, crashed, stops>>

\* After an error that came from getting the pipe, Start goes on.
procFailed(r) ==
  /\ at[r] = "select"
  /\ starter[r] \in {"error", "noPipe"}
  /\ starter' = [starter EXCEPT ![r] = IF @ = "noPipe" THEN "goesOn" ELSE "done"]
  /\ fail(r, "failed")
  /\ UNCHANGED <<running, id, config, age, proc, timer, token, crashed, stops>>

\* Kill of the process of r, if there is one.
Killed(r) == [proc EXCEPT ![r] = IF @ = "alive" THEN "dead" ELSE @]

\* Faulty variant: a start that timed out leaves its process running.
Spared(r) == proc

KilledInTime(r) == Killed(r)

\* The timer's message comes first.
procTimedOut(r) ==
  /\ at[r] = "select"
  /\ timer[r] = "sending"
  /\ timer' = [timer EXCEPT ![r] = "done"]
  /\ proc' = KilledInTime(r)
  /\ fail(r, IF proc[r] = "none" THEN "missed" ELSE "killed")
  /\ UNCHANGED <<running, id, config, age, starter, token, crashed, stops>>

-----------------------------------------------------------------------------
(* The two goroutines and the process.                                      *)

\* exec has started the process; its output is scanned.
cmdStart(r) ==
  /\ starter[r] = "exec"
  /\ starter' = [starter EXCEPT ![r] = "scanning"]
  /\ proc' = [proc EXCEPT ![r] = "alive"]
  /\ UNCHANGED <<ids, running, mtx, at, id, config, age, timer, token, crashed, stops>>

cmdStartFails(r) ==
  /\ starter[r] = "exec"
  /\ starter' = [starter EXCEPT ![r] = "error"]
  /\ UNCHANGED <<ids, running, mtx, at, id, config, age, proc, timer, token, crashed, stops>>

\* The pipe for the output cannot be had.
noStdoutPipe(r) ==
  /\ starter[r] = "exec"
  /\ starter' = [starter EXCEPT ![r] = "noPipe"]
  /\ UNCHANGED <<ids, running, mtx, at, id, config, age, proc, timer, token, crashed, stops>>

\* Start goes on without the pipe.  If exec fails now nobody receives the
\* error; if not, the scanner panics.
startWithoutPipe(r) ==
  /\ starter[r] = "goesOn"
  /\ \/ starter' = [starter EXCEPT ![r] = "error"] /\ UNCHANGED <<proc, crashed>>
     \/ /\ starter' = [starter EXCEPT ![r] = "done"]
        /\ proc' = [proc EXCEPT ![r] = "alive"]
        /\ crashed' = TRUE
  /\ UNCHANGED <<ids, running, mtx, at, id, config, age, timer, token, stops>>

tokenFound(r) ==
  /\ starter[r] = "scanning"
  /\ proc[r] = "alive"
  /\ starter' = [starter EXCEPT ![r] = "ready"]
  /\ token' = token \cup {r}
  /\ UNCHANGED <<ids, running, mtx, at, id, config, age, proc, timer, crashed, stops>>

\* The process is gone: Scan returns false at the end of its output, which
\* is not an error.
endOfOutput(r) ==
  /\ starter[r] = "scanning"
  /\ proc[r] = "dead"
  /\ starter' = [starter EXCEPT ![r] = "ready"]
  /\ UNCHANGED <<ids, running, mtx, at, id, config, age, proc, timer, token, crashed, stops>>

\* Reading the output fails.
scanFails(r) ==
  /\ starter[r] = "scanning"
  /\ starter' = [starter EXCEPT ![r] = "error"]
  /\ UNCHANGED <<ids, running, mtx, at, id, config, age, proc, timer, token, crashed, stops>>

\* add has received from the goroutine that starts the process.
Received(r) == at[r] \in {"added", "failed"}

\* Faulty variant: the flag is read the wrong way round.
SendsIfDone(r) == IF Received(r) THEN {"sending"} ELSE {"done"}

\* What the timer's goroutine may do next: done is set after add has received
\* from the other goroutine, and read without a lock.
AfterSleep(r) == IF Received(r) THEN {"sending", "done"} ELSE {"sending"}

\* PROC_START_TIMEOUT has passed.
timerWakes(r) ==
  /\ timer[r] = "sleeping"
  /\ \E s \in AfterSleep(r) : timer' = [timer EXCEPT ![r] = s]
  /\ UNCHANGED <<ids, running, mtx, at, id, config, age, proc, starter, token, crashed, stops>>

\* A process ends by itself.
exits(r) ==
  /\ proc[r] = "alive"
  /\ proc' = [proc EXCEPT ![r] = "dead"]
  /\ UNCHANGED <<ids, running, mtx, at, id, config, age, starter, timer, token, crashed, stops>>

-----------------------------------------------------------------------------
(* The reaper and killAll.                                                  *)

\* Faulty variant: a task is due only when it is older than any request asks.
DueTooLate(r) == age[r] > Oldest + 1

Due(r) == age[r] > limit[r]

\* How many tasks at the front of the list are due.
DueInFront ==
  CHOOSE n \in 0..Len(running) :
    /\ \A i \in 1..n : Due(running[i])
    /\ n < Len(running) => ~Due(running[n + 1])

\* Faulty variant: only the id of the first task is released.
ReleasedOne(tasks) == ids \o [i \in 1..(IF tasks = <<>> THEN 0 ELSE 1) |-> id[tasks[1]]]

Released(tasks) == ids \o [i \in DOMAIN tasks |-> id[tasks[i]]]

\* The first n tasks are killed and their ids released.
killFirst(n) ==
  LET first == SubSeq(running, 1, n) IN
  /\ running' = SubSeq(running, n + 1, Len(running))
  /\ ids' = Released(first)
  /\ proc' = [r \in Requests |-> IF Contains(first, r) THEN Killed(r)[r] ELSE proc[r]]

\* One pass of the reaper, which then starts the next.
reap ==
  /\ mtx = None
  /\ killFirst(DueInFront)
  /\ UNCHANGED <<mtx, at, id, config, age, starter, timer, token, crashed, stops>>

\* ShutDown.
killAll ==
  /\ mtx = None
  /\ stops < MaxStops
  /\ stops' = stops + 1
  /\ killFirst(Len(running))
  /\ UNCHANGED <<mtx, at, id, config, age, starter, timer, token, crashed>>

\* Time passes.
tick ==
  /\ \E r \in Requests : at[r] = "added" /\ age[r] <= Oldest
  /\ age' = [r \in Requests |-> IF at[r] = "added" /\ age[r] <= Oldest THEN age[r] + 1 ELSE age[r]]
  /\ UNCHANGED <<ids, running, mtx, at, id, config, proc, starter, timer, token, crashed, stops>>

add(r) ==
  \/ outOfIds(r) \/ GetId(r) \/ createWorkDirFails(r) \/ createWorkDir(r)
  \/ procStarted(r) \/ procFailed(r) \/ procTimedOut(r)

Start(r) ==
  \/ cmdStart(r) \/ cmdStartFails(r) \/ noStdoutPipe(r)
  \/ startWithoutPipe(r) \/ tokenFound(r) \/ endOfOutput(r) \/ scanFails(r)

\* A panic ends the manager's steps; processes go on.
Next ==
  \/ /\ ~crashed
     /\ \/ \E r \in Requests : add(r) \/ Start(r) \/ timerWakes(r)
        \/ reap \/ killAll \/ tick
  \/ \E r \in Requests : exits(r)

Spec == Init /\ [][Next]_vars

\* Goroutines run, timers fire and time passes.  A process need not print its
\* token nor exit, and exec need not come back.  The reaper gets the lock when
\* no request holds it any more: there are finitely many requests.
Fairness ==
  /\ \A r \in Requests : WF_vars(~crashed /\ add(r)) /\ WF_vars(~crashed /\ timerWakes(r))
  /\ WF_vars(~crashed /\ tick)
  /\ WF_vars(~crashed /\ reap)

FairSpec == Spec /\ Fairness

-----------------------------------------------------------------------------
(* Properties.                                                              *)

\* How add may end without a task.
Failures == {"failed", "killed", "missed"}

\* The types of the manager's state.
TypeOK ==
  /\ maxProcs \in 1..MaxProcs
  /\ ids \in Seq(1..maxProcs)
  /\ running \in Seq(Requests)
  /\ mtx \in Requests \cup {None}
  /\ at \in [Requests -> {"new", "workDir", "select", "added", "refused", "failed",
                         "killed", "missed"}]
  /\ id \in [Requests -> 0..maxProcs]
  /\ limit \in [Requests -> Durations]
  /\ age \in [Requests -> 0..(Oldest + 1)]
  /\ proc \in [Requests -> {"none", "alive", "dead"}]
  /\ starter \in [Requests -> {"none", "exec", "noPipe", "goesOn", "scanning", "ready",
                              "error", "done"}]
  /\ timer \in [Requests -> {"none", "sleeping", "sending", "done"}]
  /\ token \subseteq Requests
  /\ crashed \in BOOLEAN
  /\ stops \in 0..MaxStops

\* Two live processes never have the same port, nor is the port of a live
\* process handed out: not even that of a process which started after its
\* request had timed out and which nobody manages.  The ids that failed
\* starts never give back (server_manager.go:176 and 188) are what ensures it.
LivePortsReserved ==
  \A r \in Requests : proc[r] = "alive" =>
    /\ ~Contains(ids, id[r])
    /\ \A q \in Requests \ {r} : proc[q] = "alive" => id[q] # id[r]

\* Every id is in the pool, or of one running task, or of the request that
\* holds the lock, or lost to a request that failed; and in one of these places.
IdsAccounted ==
  \A i \in 1..maxProcs :
    LET users == {r \in Requests : /\ id[r] = i
                                   /\ \/ Contains(running, r)
                                      \/ at[r] \in {"workDir", "select"} \cup Failures} IN
    /\ \A a, b \in users : a = b
    /\ \A k, l \in DOMAIN ids : ids[k] = ids[l] => k = l
    /\ Contains(ids, i) <=> users = {}

\* A live process is managed, or its request is still waiting for it, or was
\* told of an error by the goroutine that starts it, or timed out before the
\* process was there.  A process that is there when its request times out does
\* not live on.
UnmanagedOnlyIfFailed ==
  \A r \in Requests : proc[r] = "alive" =>
    Contains(running, r) \/ at[r] \in {"select", "failed", "missed"}

\* A task does not run for ever: it is taken from the list of running tasks
\* some time after its duration has passed, whatever tasks are before it,
\* unless the manager ends in a panic.
EventuallyReaped ==
  \A r \in Requests : Contains(running, r) ~> (~Contains(running, r) \/ crashed)

\* Every request is answered, even if the process neither prints its token
\* nor exits, unless the manager ends in a panic.
AddReturns ==
  \A r \in Requests : at[r] = "workDir" ~> (at[r] \in {"added"} \cup Failures \/ crashed)

\* CmdProcess "will wait for a token from stdout": a request that has been
\* answered with a port has seen its process's token.
TokenSeen == \A r \in Requests : at[r] = "added" => r \in token

\* MaxDuration "is the maximum duration of the process": whatever task is due,
\* the next pass of the reaper takes it.
NoneDueAfterReap ==
  \A i \in DOMAIN running : Due(running[i]) => i <= DueInFront

\* "It will also manage all the servers and shut them down": a live process is
\* managed or its request is still being served.
AllManaged ==
  \A r \in Requests : proc[r] = "alive" => Contains(running, r) \/ at[r] = "select"
=============================================================================
