----------------------------- MODULE RestServer -----------------------------
(***************************************************************************)
(* A request to the REST-like API (erisdb/restServer.go): the chain of     *)
(* handlers that its route has, and the answer that the client gets.       *)
(*                                                                         *)
(* The web framework runs the handlers of a chain in order; a middleware   *)
(* may abort, and a handler reports an error with AbortWithError, which    *)
(* sets the status and aborts, but does not return from the handler.  The  *)
(* status goes out with the first byte of the body or at the end, and can  *)
(* be replaced until then.  A panic is recovered by the first middleware.  *)
(*                                                                         *)
(* Routes with the same chain and the same kind of handler are one route   *)
(* of the model.  Requests share no state of the server, so there is one.  *)
(***************************************************************************)
EXTENDS Naturals, Sequences

\* The middleware of the routes (RestServer.Start).
Chain ==
  [plain       |-> <<>>,                 \* no parameters: /blockchain, /network ...
   search      |-> <<"parseSearchQuery">>,           \* /accounts, /namereg ...
   account     |-> <<"addressParam">>,
   storageAt   |-> <<"addressParam", "keyParam">>,
   block       |-> <<"heightParam">>,
   name        |-> <<"nameParam">>,
   peer        |-> <<"peerAddressParam">>,
   post        |-> <<>>,                 \* a body: /txpool, /calls ...
   transact    |-> <<"parseTxModifier">>,
   subscribe   |-> <<>>,                 \* POST /event_subs
   poll        |-> <<>>,                 \* GET /event_subs/:id
   unsubscribe |-> <<>>]                 \* DELETE /event_subs/:id

Routes == DOMAIN Chain

\* Routes whose requests have a body.
Posts == {"post", "transact", "subscribe"}

\* The key of the context that a middleware sets.
Key ==
  [addressParam |-> "addrBts", keyParam |-> "keyBts", heightParam |-> "height",
   nameParam |-> "name", peerAddressParam |-> "address",
   parseSearchQuery |-> "filters", parseTxModifier |-> "hold"]

\* The keys that a handler must find.
Needed ==
  [r \in Routes |-> CASE r = "account" -> {"addrBts"}
                      [] r = "storageAt" -> {"addrBts", "keyBts"}
                      [] r = "block" -> {"height"}
                      [] r = "name" -> {"name"}
                      [] r = "peer" -> {"address"}
                      [] r \in {"poll", "unsubscribe"} -> {"id"}
                      [] OTHER -> {}]

Unchecked == {"nameParam", "peerAddressParam"}      \* they accept anything
Optional  == {"parseSearchQuery", "parseTxModifier"}

\* What a parameter may be.
Given(m) ==
  IF m \in Unchecked THEN {"good"}
  ELSE IF m \in Optional THEN {"good", "bad", "none"} ELSE {"good", "bad"}

NotSent == 0  \* no status was sent yet

VARIABLES
  route,     \* the route of the request
  param,     \* its parameters
  json,      \* its content type is application/json
  body,      \* its body can be decoded
  at,        \* where the request is
  index,     \* the next handler of the chain
  keys,      \* keys of the context
  status,    \* the status to be sent
  sent,      \* the status that was sent
  rejected,  \* the status a middleware aborted with, or NotSent
  pipe,      \* the call of the pipe or of the event subscriptions: "no",
             \* "panicked" or "returned"
  panicked,  \* a handler or what it called panicked
  failed     \* the handler reported an error

vars == <<route, param, json, body, at, index, keys, status, sent, rejected, pipe,
          panicked, failed>>
request == <<route, param, json, body>>

Init ==
  /\ route \in Routes
  /\ param \in [DOMAIN Key -> {"good", "bad", "none"}]
  /\ \A m \in DOMAIN Key :
       IF \E i \in DOMAIN Chain[route] : Chain[route][i] = m
       THEN param[m] \in Given(m) ELSE param[m] = "none"
  /\ json \in BOOLEAN
  /\ body \in BOOLEAN
  /\ route \notin Posts => json /\ body
  /\ at = "contentTypeMW"
  /\ index = 1
  /\ keys = {}
  /\ status = 200
  /\ sent = NotSent
  /\ rejected = NotSent
  /\ pipe = "no"
  /\ panicked = FALSE
  /\ failed = FALSE

-----------------------------------------------------------------------------
(* The chain.                                                               *)

\* Faulty variant: the chain goes on after a middleware aborted.
GoesOn == index + 1

AbortIndex == 63

\* Where the chain continues after Abort: nowhere.
Aborted == AbortIndex + 1

contentTypeMW ==
  /\ at = "contentTypeMW"
  /\ at' = "chain"
  /\ IF json
     THEN UNCHANGED <<index, status, rejected>>
     ELSE index' = Aborted /\ status' = 415 /\ rejected' = 415
  /\ UNCHANGED <<request, keys, sent, pipe, panicked, failed>>

Middleware == at = "chain" /\ index <= Len(Chain[route])

Current == Chain[route][index]

\* Faulty variant: c.Set makes a new map every time.
OnlySet == {Key[Current]}

\* The keys after c.Set.
Set == keys \cup {Key[Current]}

\* A parameter of the path is set as a key of the context, and c.Next() goes
\* on; after an error the key is set all the same, but nothing comes next.
pathParam ==
  /\ Middleware
  /\ Current \notin Optional
  /\ keys' = Set
  /\ IF param[Current] = "good"
     THEN index' = index + 1 /\ UNCHANGED <<status, rejected>>
     ELSE index' = Aborted /\ status' = 400 /\ rejected' = 400
  /\ UNCHANGED <<request, at, sent, pipe, panicked, failed>>

\* parseSearchQuery and parseTxModifier answer themselves if they fail.
queryParam ==
  /\ Middleware
  /\ Current \in Optional
  /\ keys' = IF param[Current] = "good" THEN Set ELSE keys
  /\ IF param[Current] = "bad"
     THEN index' = Aborted /\ status' = 400 /\ rejected' = 400 /\ sent' = 400
     ELSE index' = index + 1 /\ UNCHANGED <<status, rejected, sent>>
  /\ UNCHANGED <<request, at, pipe, panicked, failed>>

\* Faulty variant: the panic is swallowed.
Swallowed == status

\* The status after a panic.
Recovery == 500

\* A handler panics.
panic ==
  /\ at' = "end"
  /\ status' = Recovery
  /\ panicked' = TRUE
  /\ UNCHANGED <<request, index, keys, sent, rejected, failed>>

-----------------------------------------------------------------------------
(* The handler at the end of the chain.                                     *)

AtHandler == at = "chain" /\ index = Len(Chain[route]) + 1

\* c.MustGet panics if the key is not there.
mustGetPanics ==
  /\ AtHandler
  /\ ~(Needed[route] \subseteq keys)
  /\ panic
  /\ UNCHANGED pipe

\* The body is decoded; an error is reported and the handler goes on with a
\* parameter that is empty.
decode ==
  /\ AtHandler
  /\ Needed[route] \subseteq keys
  /\ at' = "call"
  /\ failed' = ~body
  /\ status' = IF body THEN status ELSE 500
  /\ index' = IF body THEN index ELSE Aborted
  /\ UNCHANGED <<request, keys, sent, rejected, pipe, panicked>>

\* The pipe is called, and may return an error.
call ==
  /\ at = "call"
  /\ at' = "reply"
  /\ pipe' = "returned"
  /\ \/ UNCHANGED <<index, status, failed>>
     \/ failed' = TRUE /\ status' = 500 /\ index' = Aborted
  /\ UNCHANGED <<request, keys, sent, rejected, panicked>>

\* It may panic: when the parameter is empty after an error, and also on a body
\* that was decoded (SignTx takes the first of a list of accounts that may be
\* empty).
callPanics ==
  /\ at = "call"
  /\ panic
  /\ pipe' = "panicked"

\* WriteHeader(200) and the body, whatever happened before.
reply ==
  /\ at = "reply"
  /\ at' = "end"
  /\ status' = 200
  /\ sent' = 200
  /\ UNCHANGED <<request, index, keys, rejected, pipe, panicked, failed>>

chainEnds ==
  /\ at = "chain"
  /\ index > Len(Chain[route]) + 1
  /\ at' = "end"
  /\ UNCHANGED <<request, index, keys, status, sent, rejected, pipe, panicked, failed>>

\* What was not sent yet is sent at the end.
writeHeaderNow ==
  /\ at = "end"
  /\ at' = "answered"
  /\ sent' = IF sent = NotSent THEN status ELSE sent
  /\ UNCHANGED <<request, index, keys, status, rejected, pipe, panicked, failed>>

Next ==
  \/ contentTypeMW \/ pathParam \/ queryParam \/ mustGetPanics \/ decode \/ call
  \/ callPanics \/ reply \/ chainEnds \/ writeHeaderNow

Spec == Init /\ [][Next]_vars

-----------------------------------------------------------------------------
(* Properties.                                                              *)

\* The types of a request's state.
TypeOK ==
  /\ route \in Routes
  /\ param \in [DOMAIN Key -> {"good", "bad", "none"}]
  /\ json \in BOOLEAN
  /\ body \in BOOLEAN
  /\ at \in {"contentTypeMW", "chain", "call", "reply", "end", "answered"}
  /\ index \in 1..AbortIndex + 1
  /\ keys \subseteq {Key[m] : m \in DOMAIN Key}
  /\ status \in {200, 400, 415, 500}
  /\ sent \in {NotSent, 200, 400, 500, 415}
  /\ rejected \in {NotSent, 400, 415}
  /\ pipe \in {"no", "panicked", "returned"}
  /\ panicked \in BOOLEAN
  /\ failed \in BOOLEAN

\* A request that a middleware rejects never reaches the pipe, although the
\* middleware of the path's parameters goes on to call c.Next(), and its
\* answer has the status that the middleware chose.
RejectedStops ==
  rejected # NotSent => pipe = "no" /\ sent \in {NotSent, rejected}

\* A request whose content type and parameters are in order reaches the pipe:
\* every handler finds the keys that it takes for granted.  The routes that
\* poll and end a subscription are left out, see PollReachesCache.
HandlersFindKeys ==
  (at = "answered" /\ pipe = "no" /\ route \notin {"poll", "unsubscribe"}) =>
    rejected # NotSent \/ ~body

\* A request is never answered as if it had been served when the pipe was not
\* called or did not return: a panic, in a handler or in the pipe, before or
\* after an error was reported, is answered with status 500.
NotServedNotOK ==
  /\ sent = 200 => pipe = "returned"
  /\ at = "answered" /\ panicked => sent = 500

-----------------------------------------------------------------------------
(* Statements of the documentation that the code does not live up to.       *)

\* "EventPoll is used to get all the events that has accumulated since the
\* last time the subscription was polled" (api.md): a poll gets to the event
\* subscriptions.
PollReachesCache == at = "answered" /\ route = "poll" => pipe # "no"

\* AbortWithError "stops the chain, writes the status code": the client sees
\* the status that the handler reported an error with.
ErrorStatusSent == at = "answered" /\ failed => sent = 500
=============================================================================
