----------------------------- MODULE OnceRoute -----------------------------
(***************************************************************************)
(* A one-shot route: asSend and asRecv of framework/Route.ts over the      *)
(* service of recipies/once.ts.  Each side has one promise for what it     *)
(* sends and one for what it receives; both resolve once.                  *)
(***************************************************************************)
EXTENDS Naturals

CONSTANTS
  MaxCalls,  \* bound: calls of send on one connected route
  Events     \* what may happen besides, see EventKinds

EventKinds == {"fail", "reject", "invalid"}

OnceAssumption == MaxCalls \in Nat \ {0} /\ Events \subseteq EventKinds

Client == "client"
Server == "server"
Sides == {Client, Server}
Other(s) == IF s = Client THEN Server ELSE Client

\* Calls are numbered; 0 stands for a promise that is not resolved.
Calls == 1 .. MaxCalls
None == 0

VARIABLES
  calls,     \* calls of send so far
  result,    \* the request whose reply a call returned
  internal,  \* what loadInternal resolved a side's promise with
  external,  \* what the session resolved takeExternal with
  stage,     \* stream of a side: first pull, await ACK, second pull
  msg,       \* the message of a side that has not arrived
  ignored,   \* sides to which a message came that did not decode or was rejected
  handler,   \* the server's handler
  ended      \* how a side's session has ended

onceVars == <<calls, result, internal, external, stage, msg, ignored, handler, ended>>

Init ==
  /\ calls = 0
  /\ result = [k \in Calls |-> None]
  /\ internal = [s \in Sides |-> None]
  /\ external = [s \in Sides |-> None]
  /\ stage = [s \in Sides |-> "first"]
  /\ msg = [s \in Sides |-> None]
  /\ ignored = {}
  /\ handler = "waiting"
  /\ ended = [s \in Sides |-> "no"]
-----------------------------------------------------------------------------
\* Variant: the last value wins, as in a variable.
Resolve_Last(promise, s, v) == [promise EXCEPT ![s] = v]

\* A promise keeps the first value it is resolved with.
Resolve(promise, s, v) == [promise EXCEPT ![s] = IF @ = None THEN v ELSE @]

\* The session of a side is over; stream has returned or its task was settled.
Ends(s, how) == ended' = [ended EXCEPT ![s] = IF @ = "no" THEN how ELSE @]

\* send: loadInternal is never refused, whatever became of the session.
Send ==
  /\ calls < MaxCalls
  /\ calls' = calls + 1
  /\ internal' = Resolve(internal, Client, calls + 1)
  /\ UNCHANGED <<result, external, stage, msg, ignored, handler, ended>>

\* `await response` resolves: the route's task is cleaned up.
Return(k) ==
  /\ k <= calls
  /\ result[k] = None
  /\ external[Client] # None
  /\ result' = [result EXCEPT ![k] = external[Client]]
  /\ Ends(Client, "done")
  /\ UNCHANGED <<calls, internal, external, stage, msg, ignored, handler>>

\* Variant: the handler is called when the service is created.
HandlerStarts_AtOnce ==
  /\ handler = "waiting"
  /\ handler' = "running"
  /\ UNCHANGED <<calls, result, internal, external, stage, msg, ignored, ended>>

\* takeExternal resolves for the handler, which runs whatever became of the session.
HandlerStarts ==
  /\ handler = "waiting"
  /\ external[Server] # None
  /\ handler' = "running"
  /\ UNCHANGED <<calls, result, internal, external, stage, msg, ignored, ended>>

\* The handler's promise resolves with the reply, or rejects and nothing is loaded.
HandlerEnds ==
  /\ handler = "running"
  /\ \/ handler' = "done" /\ internal' = Resolve(internal, Server, external[Server])
     \/ "reject" \in Events /\ handler' = "failed" /\ UNCHANGED internal
  /\ UNCHANGED <<calls, result, external, stage, msg, ignored, ended>>
-----------------------------------------------------------------------------
\* The first pull resolves, and its message is sent.
PullFirst(s) ==
  /\ ended[s] = "no" /\ stage[s] = "first"
  /\ internal[s] # None
  /\ msg' = [msg EXCEPT ![s] = internal[s]]
  /\ stage' = [stage EXCEPT ![s] = "ack"]
  /\ UNCHANGED <<calls, result, internal, external, ignored, handler, ended>>

\* The other side acknowledges and pushes; what its codec cannot decode or its schema
\* rejects is ignored.
Receive(s) ==
  /\ ended[Other(s)] = "no"
  /\ msg[s] # None
  /\ msg' = [msg EXCEPT ![s] = None]
  /\ \/ external' = Resolve(external, Other(s), msg[s]) /\ UNCHANGED ignored
     \/ "invalid" \in Events /\ ignored' = ignored \union {Other(s)} /\ UNCHANGED external
  /\ UNCHANGED <<calls, result, internal, stage, handler, ended>>

\* The ACK has come, and the promise of the first pull is used up.
Acknowledged(s) ==
  /\ ended[s] = "no" /\ stage[s] = "ack"
  /\ msg[s] = None
  /\ stage' = [stage EXCEPT ![s] = "second"]
  /\ UNCHANGED <<calls, result, internal, external, msg, ignored, handler, ended>>

\* Variant: a used up service has nothing to send and says so at once.
PullSecond_AtOnce(s) ==
  /\ ended[s] = "no" /\ stage[s] = "second"
  /\ Ends(s, "done")
  /\ UNCHANGED <<calls, result, internal, external, stage, msg, ignored, handler>>

\* The second pull gives null once takeExternal has resolved: stream returns and the
\* session ends.
PullSecond(s) ==
  /\ ended[s] = "no" /\ stage[s] = "second"
  /\ external[s] # None
  /\ Ends(s, "done")
  /\ UNCHANGED <<calls, result, internal, external, stage, msg, ignored, handler>>

\* TERM, after what the client sent before: its stream has returned, for there is
\* nothing to send or because the ACK it awaited did not come.
Term ==
  /\ ended[Server] = "no"
  /\ ended[Client] = "done" \/ (ended[Client] = "failed" /\ stage[Client] = "ack")
  /\ msg[Client] = None
  /\ Ends(Server, "term")
  /\ UNCHANGED <<calls, result, internal, external, stage, msg, ignored, handler>>

\* A deadline, the closed socket or the endpoint's task ends a side's session.
Fails(s) ==
  /\ "fail" \in Events
  /\ ended[s] = "no"
  /\ Ends(s, "failed")
  /\ UNCHANGED <<calls, result, internal, external, stage, msg, ignored, handler>>
-----------------------------------------------------------------------------
Exchange ==
  \/ HandlerStarts \/ HandlerEnds \/ Term
  \/ \E s \in Sides : PullFirst(s) \/ Receive(s) \/ Acknowledged(s) \/ PullSecond(s)
  \/ \E k \in Calls : Return(k)

Next == Send \/ Exchange \/ \E s \in Sides : Fails(s)

\* Promises that are settled have their continuations run, the network delivers and
\* the handler's promise settles.
Fairness == WF_onceVars(Exchange)

Spec == Init /\ [][Next]_onceVars
FairSpec == Spec /\ Fairness
-----------------------------------------------------------------------------
\* Every variable has its type, and a handler only runs for a request that came.
TypeOK ==
  /\ calls \in 0 .. MaxCalls
  /\ result \in [Calls -> 0 .. MaxCalls]
  /\ internal \in [Sides -> 0 .. MaxCalls]
  /\ external \in [Sides -> 0 .. MaxCalls]
  /\ stage \in [Sides -> {"first", "ack", "second"}]
  /\ msg \in [Sides -> 0 .. MaxCalls]
  /\ ignored \subseteq Sides
  /\ handler \in {"waiting", "running", "done", "failed"}
  /\ ended \in [Sides -> {"no", "done", "term", "failed"}]
  /\ handler # "waiting" => external[Server] # None

\* The second pull of once waits for takeExternal, so that a side ends the session by
\* itself only when the reply has come to the client; the server also when the client
\* has acknowledged the reply and then ignored it, and the client never does then.
NobodyLeavesEarly ==
  /\ ended[Client] = "done" => external[Client] # None
  /\ ended[Server] = "done" => external[Client] # None \/ Client \in ignored

\* "These connections are single use and will return one result before closing"
\* (README.md): the first call gets its reply and both sides let go, whatever other
\* calls do, unless a side's session or the handler fails or a message is ignored.
SingleUse ==
  calls > 0 ~>
    \/ result[1] = 1 /\ \A s \in Sides : ended[s] # "no"
    \/ handler = "failed" \/ \E s \in Sides : ended[s] = "failed"
    \/ ignored # {}

\* "Sends input and receives output. [...] @throws Error if the input cannot be sent"
\* (send of asSend): what a call returns is the reply to its own input.
OwnReply == \A k \in Calls : result[k] # None => result[k] = k

\* "@throws Error if the input cannot be sent or the connection is closed" (send of
\* asSend): a call returns or throws, and no path throws.
EverySendSettles == \A k \in Calls : calls >= k ~> result[k] # None
=============================================================================
