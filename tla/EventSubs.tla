----------------------------- MODULE EventSubs ------------------------------
(***************************************************************************)
(* Subscriptions polled over HTTP: EventSubscriptions and EventCache       *)
(* (erisdb/event_cache.go), the reaper goroutine, and the event methods of *)
(* the JSON-RPC service that call them (erisdb/json_service.go).           *)
(*                                                                         *)
(* The event emitter is modelled by what this code needs of it: a set of   *)
(* listeners that cannot change while an event is being dispatched, since  *)
(* the dispatcher holds a read lock over the callbacks.  Every block has a *)
(* goroutine of its own that fires its events, so dispatches may overlap.  *)
(* EventSwitch looks inside the emitter, and shows how it may lose a       *)
(* listener; here it keeps those it is given.                              *)
(*                                                                         *)
(* Only reap and remove take the mutex of the map subs; add and poll use   *)
(* the map without it.  Of two writes that may happen at the same time one *)
(* may be lost, and a read at the same time as a put may miss an entry (Go *)
(* 1.5, which the repository is built with, does not stop at such a race). *)
(*                                                                         *)
(* Time is counted in units of reaperTimeout / Timeout and an age stops    *)
(* growing once it exceeds the threshold.                                  *)
(***************************************************************************)
EXTENDS Naturals, Sequences

CONSTANTS Subs,       \* subscription ids; generateSubId never repeats one
          Firers,     \* goroutines that fire events
          Threshold,  \* reaperThreshold
          Timeout,    \* reaperTimeout
          MaxPolls,   \* bound: polls of one subscription at the same time
          MaxEvents,  \* bound: events fired
          None        \* no subscription

ASSUME SubsConstants ==
  /\ Threshold \in Nat
  /\ Timeout \in Nat
  /\ MaxPolls \in Nat
  /\ MaxEvents \in Nat
  /\ None \notin Subs

VARIABLES
  subs,       \* the keys of EventSubscriptions.subs
  events,     \* EventCache.events
  age,        \* time since EventCache.ts
  phase,      \* how far the caller of add and remove got with a subscription
  holding,    \* calls of poll that found it in the map and have not polled the cache
  reaper,     \* where the reaper goroutine is
  rest,       \* how long it has slept
  todo,       \* ids its loop over the map will still come to
  target,     \* the id it is unsubscribing
  listeners,  \* callbacks registered with the emitter
  fired,      \* number of events fired
  firing,     \* firing[f]: the event f dispatches, holding the read lock, or 0
  pending,    \* listeners that its dispatch has not called yet
  before,     \* before[n]: events whose dispatch was over when that of n began
  polled,     \* events handed out by polls, in the order of the cache lock
  since,      \* events fired before the subscription was registered
  late,       \* subscriptions that were once left unpolled for too long
  raced       \* two writes to the map happened at the same time

cacheVars   == <<events, age, polled, since, late>>
callVars    == <<phase, holding>>
reaperVars  == <<reaper, rest, todo, target>>
emitterVars == <<listeners, fired, firing, pending, before>>
vars == <<subs, raced, cacheVars, callVars, reaperVars, emitterVars>>

Init ==
  /\ subs = {}
  /\ raced = FALSE
  /\ events = [s \in Subs |-> <<>>]
  /\ age = [s \in Subs |-> 0]
  /\ polled = [s \in Subs |-> <<>>]
  /\ since = [s \in Subs |-> 0]
  /\ late = {}
  /\ phase = [s \in Subs |-> "none"]
  /\ holding = [s \in Subs |-> 0]
  /\ reaper = "sleep"
  /\ rest = 0
  /\ todo = {}
  /\ target = None
  /\ listeners = {}
  /\ fired = 0
  /\ firing = [f \in Firers |-> 0]
  /\ pending = [f \in Firers |-> {}]
  /\ before = [n \in 1..MaxEvents |-> {}]

-----------------------------------------------------------------------------
(* The map without its lock.                                                *)

\* Goroutines at a map access: add of t at its assignment, the reaper in
\* its loop.
Putting(t) == phase[t] = "subscribed"
OtherPut(s) == \E t \in Subs \ {s} : Putting(t)
SomePut == \E t \in Subs : Putting(t)

\* A put of s races with a second put or with a delete of the reaper.
PutRaces(s) == OtherPut(s) \/ reaper = "scan"

\* A delete, done under the mutex, races with a put.
DeleteRaces == SomePut

\* A write that races with another write may be lost.
Written(new, races) == {new} \cup (IF races THEN {subs} ELSE {})

-----------------------------------------------------------------------------
(* add                                                                      *)

newEventCache(s) ==
  /\ phase[s] = "none"
  /\ phase' = [phase EXCEPT ![s] = "created"]
  /\ age' = [age EXCEPT ![s] = 0]
  /\ UNCHANGED <<subs, raced, events, polled, since, late, holding,
                 reaperVars, emitterVars>>

\* The emitter's lock: subscribing and unsubscribing wait for the end of the
\* dispatches under way.
DispatchIdle == \A f \in Firers : firing[f] = 0

Subscribe(s) ==
  /\ phase[s] = "created"
  /\ DispatchIdle
  /\ phase' = [phase EXCEPT ![s] = "subscribed"]
  /\ listeners' = listeners \cup {s}
  /\ since' = [since EXCEPT ![s] = fired]
  /\ UNCHANGED <<subs, raced, events, age, polled, late, holding,
                 reaperVars, fired, firing, pending, before>>

\* this.subs[subId] = cache, and the id is returned to the client.  A loop
\* over the map that is under way may come to the new entry or not.
put(s) ==
  /\ Putting(s)
  /\ subs' \in Written(subs \cup {s}, PutRaces(s))
  /\ raced' = (raced \/ PutRaces(s))
  /\ phase' = [phase EXCEPT ![s] = "known"]
  /\ \/ UNCHANGED todo
     \/ reaper # "sleep" /\ s \in subs' /\ todo' = todo \cup {s}
  /\ UNCHANGED <<cacheVars, holding, reaper, rest, target, emitterVars>>

-----------------------------------------------------------------------------
(* poll                                                                     *)

Known(s) == phase[s] \in {"known", "unsubscribed", "removed"}

\* EventPoll calls poll, which finds the subscription in the map.  If it does
\* not, or a put at the same time hides the entry, the call returns
\* "Subscription not active" and has changed nothing.
lookup(s) ==
  /\ Known(s)
  /\ holding[s] < MaxPolls
  /\ s \in subs
  /\ holding' = [holding EXCEPT ![s] = @ + 1]
  /\ UNCHANGED <<subs, raced, cacheVars, phase, reaperVars, emitterVars>>

\* Faulty variant: what was handed out stays in the cache.
CacheKept(s) == events[s]

CacheEmptied(s) == <<>>

\* EventCache.poll, under the lock of the cache.
pollCache(s) ==
  /\ holding[s] > 0
  /\ holding' = [holding EXCEPT ![s] = @ - 1]
  /\ polled' = [polled EXCEPT ![s] = @ \o events[s]]
  /\ events' = [events EXCEPT ![s] = CacheEmptied(s)]
  /\ age' = [age EXCEPT ![s] = 0]
  /\ UNCHANGED <<subs, raced, since, late, phase, reaperVars, emitterVars>>

-----------------------------------------------------------------------------
(* remove, under the mutex, and the JSON-RPC EventUnsubscribe, which only   *)
(* goes to the emitter.                                                     *)

remove(s) ==
  /\ Known(s)
  /\ reaper = "sleep"
  /\ s \in subs
  /\ subs' \in Written(subs \ {s}, DeleteRaces)
  /\ raced' = (raced \/ DeleteRaces)
  /\ phase' = [phase EXCEPT ![s] = "removed"]
  /\ UNCHANGED <<cacheVars, holding, reaperVars, emitterVars>>

EventUnsubscribe(s) ==
  /\ Known(s)
  /\ s \in listeners
  /\ DispatchIdle
  /\ listeners' = listeners \ {s}
  /\ phase' = [phase EXCEPT ![s] = IF @ = "removed" THEN @ ELSE "unsubscribed"]
  /\ UNCHANGED <<subs, raced, cacheVars, holding, reaperVars, fired, firing,
                 pending, before>>

-----------------------------------------------------------------------------
(* The reaper.                                                              *)

wake ==
  /\ reaper = "sleep"
  /\ rest = Timeout
  /\ reaper' = "scan"
  /\ todo' = subs
  /\ UNCHANGED <<subs, raced, cacheVars, callVars, rest, target, emitterVars>>

\* Faulty variant: a subscription polled exactly reaperThreshold ago expires.
ExpiredEarly(s) == age[s] >= Threshold

\* time.Since(sub.ts) > reaperThreshold
Expired(s) == age[s] > Threshold

skip(s) ==
  /\ reaper = "scan"
  /\ s \in todo
  /\ ~Expired(s)
  /\ todo' = todo \ {s}
  /\ UNCHANGED <<subs, raced, cacheVars, callVars, reaper, rest, target, emitterVars>>

delete(s) ==
  /\ reaper = "scan"
  /\ s \in todo
  /\ Expired(s)
  /\ todo' = todo \ {s}
  /\ subs' \in Written(subs \ {s}, DeleteRaces)
  /\ raced' = (raced \/ DeleteRaces)
  /\ reaper' = "unsubscribe"
  /\ target' = s
  /\ UNCHANGED <<cacheVars, callVars, rest, emitterVars>>

\* Faulty variant: the callback stays registered.
ListenerKept(s) == listeners

ListenerRemoved(s) == listeners \ {s}

Unsubscribe ==
  /\ reaper = "unsubscribe"
  /\ DispatchIdle
  /\ listeners' = ListenerRemoved(target)
  /\ reaper' = "scan"
  /\ target' = None
  /\ UNCHANGED <<subs, raced, cacheVars, callVars, rest, todo, fired, firing, pending,
                 before>>

\* The mutex is released and the reaper starts again in a new goroutine.
scanned ==
  /\ reaper = "scan"
  /\ todo = {}
  /\ reaper' = "sleep"
  /\ rest' = 0
  /\ UNCHANGED <<subs, raced, cacheVars, callVars, todo, target, emitterVars>>

-----------------------------------------------------------------------------
(* The emitter and the clock.                                               *)

UnderWay == {firing[f] : f \in Firers}

FireEvent(f) ==
  /\ firing[f] = 0
  /\ fired < MaxEvents
  /\ fired' = fired + 1
  /\ firing' = [firing EXCEPT ![f] = fired + 1]
  /\ pending' = [pending EXCEPT ![f] = listeners]
  /\ before' = [before EXCEPT ![fired + 1] = (1..fired) \ UnderWay]
  /\ UNCHANGED <<subs, raced, cacheVars, callVars, reaperVars, listeners>>

\* The callback that add registered, under the lock of the cache.
callback(f, s) ==
  /\ s \in pending[f]
  /\ events' = [events EXCEPT ![s] = Append(@, firing[f])]
  /\ pending' = [pending EXCEPT ![f] = @ \ {s}]
  /\ UNCHANGED <<subs, raced, age, polled, since, late, callVars, reaperVars,
                 listeners, fired, firing, before>>

eventFired(f) ==
  /\ firing[f] # 0
  /\ pending[f] = {}
  /\ firing' = [firing EXCEPT ![f] = 0]
  /\ UNCHANGED <<subs, raced, cacheVars, callVars, reaperVars, listeners, fired, pending,
                 before>>

tick ==
  /\ age' = [s \in Subs |-> IF phase[s] = "none" \/ age[s] > Threshold
                           THEN age[s] ELSE age[s] + 1]
  /\ rest' = IF rest < Timeout THEN rest + 1 ELSE rest
  /\ late' = late \cup {s \in Subs : age'[s] > Threshold}
  /\ UNCHANGED <<subs, raced, events, polled, since, callVars, reaper, todo,
                 target, emitterVars>>

Next ==
  \/ \E s \in Subs :
       \/ newEventCache(s) \/ Subscribe(s) \/ put(s)
       \/ lookup(s) \/ pollCache(s)
       \/ remove(s) \/ EventUnsubscribe(s)
       \/ skip(s) \/ delete(s)
  \/ \E f \in Firers :
       FireEvent(f) \/ eventFired(f) \/ \E s \in Subs : callback(f, s)
  \/ wake \/ Unsubscribe \/ scanned \/ tick

Spec == Init /\ [][Next]_vars

\* Goroutines that can run do run and time passes.  A dispatch calls every
\* listener of these caches and ends: their callbacks only take the lock of
\* the cache.  Listeners of other kinds are not in the model.
Fairness ==
  /\ WF_vars(wake \/ Unsubscribe \/ scanned \/ \E s \in Subs : skip(s) \/ delete(s))
  /\ WF_vars(tick)
  /\ \A f \in Firers : WF_vars(eventFired(f) \/ \E s \in Subs : callback(f, s))
  /\ \A s \in Subs :
       /\ WF_vars(Subscribe(s) \/ put(s))
       /\ WF_vars(pollCache(s))

FairSpec == Spec /\ Fairness

-----------------------------------------------------------------------------
(* Properties.                                                              *)

\* The types of the subscriptions' state; a dispatch only has listeners left
\* to call, and the reaper's target is set exactly while it unsubscribes.
TypeOK ==
  /\ subs \subseteq Subs
  /\ raced \in BOOLEAN
  /\ events \in [Subs -> Seq(Nat)]
  /\ age \in [Subs -> 0..(Threshold + 1)]
  /\ polled \in [Subs -> Seq(Nat)]
  /\ since \in [Subs -> Nat]
  /\ late \subseteq Subs
  /\ phase \in [Subs -> {"none", "created", "subscribed", "known",
                         "unsubscribed", "removed"}]
  /\ holding \in [Subs -> Nat]
  /\ reaper \in {"sleep", "scan", "unsubscribe"}
  /\ rest \in 0..Timeout
  /\ todo \subseteq Subs
  /\ target \in Subs \cup {None}
  /\ target # None <=> reaper = "unsubscribe"
  /\ listeners \subseteq Subs
  /\ fired \in Nat
  /\ firing \in [Firers -> 0..MaxEvents]
  /\ \A f \in Firers : pending[f] \subseteq listeners
  /\ before \in [1..MaxEvents -> SUBSET (1..MaxEvents)]

\* The events polled so far and those still in the cache.
Delivered(s) == polled[s] \o events[s]

\* Polls return every event fired while the subscription was registered, none
\* twice and none fired before, whatever polls, callbacks, the reaper and
\* removals do in between ("get all the events that has accumulated since the
\* last time the subscription was polled", api.md).  An event comes after
\* those whose dispatch was over when it was fired; of two whose dispatches
\* overlap either may be first.
PolledOnceInOrder ==
  \A s \in Subs :
    LET d == Delivered(s)
        got == {d[i] : i \in DOMAIN d}
        running == {firing[f] : f \in {g \in Firers : s \in pending[g]}} IN
    /\ got \subseteq (since[s] + 1)..fired
    /\ \A i, j \in DOMAIN d : i < j => d[i] # d[j] /\ d[j] \notin before[d[i]]
    /\ \A n \in got : before[n] \cap (since[s] + 1)..fired \subseteq got
    /\ s \in listeners => (since[s] + 1)..fired \subseteq got \cup running

\* A subscription that never went unpolled for longer than reaperThreshold
\* is still there, with its callback, unless its owner took it away or add
\* lost it in a race on the map.
KeptWhilePolled ==
  \A s \in Subs :
    s \notin late /\ ~raced =>
      /\ phase[s] \in {"known", "unsubscribed"} => s \in subs
      /\ phase[s] = "known" => s \in listeners

\* A callback without an entry in the map, which nobody could poll and the
\* reaper would never find, is left behind only by remove or by a race.
ListenersTracked ==
  raced \/ \A s \in listeners : \/ s \in subs
                               \/ phase[s] \in {"subscribed", "removed"}
                               \/ s = target

\* A subscription nobody polls any more is reaped: its entry and its callback
\* go away (TestSubReaping).
AbandonedReaped ==
  \A s \in Subs :
    (s \in subs /\ Expired(s)) ~>
      (age[s] = 0 \/ phase[s] = "removed" \/ (s \notin subs /\ s \notin listeners))

-----------------------------------------------------------------------------
(* Statements of the tests that the code does not live up to.               *)

\* Subscriptions "can be added and removed manually", after which the emitter
\* has no subscriptions left (TestSubManualClose).
RemoveUnsubscribes == \A s \in Subs : phase[s] = "removed" => s \notin listeners

\* "The system doesn't fail under high pressure" (TestSubFlooding): adding
\* subscriptions from many goroutines at once loses none of them.
AddNeverLost ==
  \A s \in Subs : phase[s] = "known" /\ ~Expired(s) /\ s \notin late => s \in subs
=============================================================================
