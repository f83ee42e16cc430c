----------------------------- MODULE QueryRoute -----------------------------
(***************************************************************************)
(* A channel route: asSendChannel and asRecvChannel of framework/Route.ts  *)
(* over the services of recipies/many.ts, joined by mapService.ts to one   *)
(* session.  The session is what StopAndWait promises of each direction:   *)
(* one message at a time, acknowledged before the next is pulled.          *)
(***************************************************************************)
EXTENDS Naturals, Sequences

CONSTANTS
  ClientBuffer,  \* `buffer` of asSendChannel
  ServerBuffer,  \* `buffer` of asRecvChannel
  Window,        \* the application leaves at most so many calls unanswered
  MaxQueries,    \* bound: calls of query
  Events         \* what may happen besides, see EventKinds

EventKinds == {"end", "cancel", "null", "invalid", "reject"}

ASSUME QueryAssumption ==
  /\ ClientBuffer \in Nat /\ ServerBuffer \in Nat
  /\ Window \in Nat \ {0} /\ MaxQueries \in Nat
  /\ Events \subseteq EventKinds

Client == "client"
Server == "server"
Sides == {Client, Server}

VARIABLES
  asked,     \* calls of query so far: the k-th is k
  takers,    \* client: promises of takeExternal that wait, oldest first
  answer,    \* the request whose reply a call's promise resolved with, or 0
  refused,   \* calls that threw
  internal,  \* a side's internal buffer, and the value its waiting pull was given
  msg,       \* the message of a side that the other has not received
  pulling,   \* stream of a side awaits pull, not an ACK
  external,  \* server: its external buffer, and the value the waiting take was given
  handling,  \* server: the request its handler works on
  nulls,     \* requests the handler answered with null
  session    \* open, ended, or ended with the endpoint's task cancelled

queryVars == <<asked, takers, answer, refused, internal, msg, pulling, external,
               handling, nulls, session>>

Queries == 1 .. MaxQueries

\* connect has started the session and both services exist.
Init ==
  /\ asked = 0
  /\ takers = <<>>
  /\ answer = [q \in Queries |-> 0]
  /\ refused = {}
  /\ internal = [s \in Sides |-> <<>>]
  /\ msg = [s \in Sides |-> <<>>]
  /\ pulling = [s \in Sides |-> TRUE]
  /\ external = <<>>
  /\ handling = <<>>
  /\ nulls = {}
  /\ session = "open"
-----------------------------------------------------------------------------
(***************************************************************************)
(* many: two CircularBuffers, which refuse a push when they are full.  A   *)
(* take that waits has one place more.                                     *)
(***************************************************************************)
\* Variant: the buffer takes one value more than it has places for.
InternalRoom_More(s) ==
  1 + (IF s = Client THEN ClientBuffer ELSE ServerBuffer) + IF pulling[s] THEN 1 ELSE 0

InternalRoom(s) ==
  (IF s = Client THEN ClientBuffer ELSE ServerBuffer) + IF pulling[s] THEN 1 ELSE 0

ExternalRoom == ServerBuffer + IF handling = <<>> THEN 1 ELSE 0

LoadInternal(s, q) ==
  internal' = IF Len(internal[s]) < InternalRoom(s)
              THEN [internal EXCEPT ![s] = Append(@, q)] ELSE internal

\* Variant: the newest waiting call is served first.
Reply_Newest(q) ==
  /\ takers # <<>>
  /\ takers' = SubSeq(takers, 1, Len(takers) - 1)
  /\ answer' = [answer EXCEPT ![takers[Len(takers)]] = q]

\* The reply to q resolves the oldest promise of takeExternal; one always waits
\* (NoReplyUnclaimed).
Reply(q) ==
  /\ takers # <<>>
  /\ takers' = Tail(takers)
  /\ answer' = [answer EXCEPT ![Head(takers)] = q]

\* service.external of the side that receives what s sent.  mapServiceHandler
\* ignores that it was refused.
Push(s, q) ==
  IF s = Server THEN Reply(q) /\ UNCHANGED external
  ELSE /\ external' = IF Len(external) < ExternalRoom THEN Append(external, q) ELSE external
       /\ UNCHANGED <<takers, answer>>
-----------------------------------------------------------------------------
\* query takes a place in the queue of replies before it loads the request; when
\* the load is refused it throws, and the place stays taken.
Query ==
  LET q == asked + 1
  IN /\ asked < MaxQueries
     /\ Len(takers) < Window
     /\ asked' = q
     /\ takers' = Append(takers, q)
     /\ refused' = IF Len(internal[Client]) < InternalRoom(Client)
                   THEN refused ELSE refused \union {q}
     /\ LoadInternal(Client, q)
     /\ UNCHANGED <<answer, msg, pulling, external, handling, nulls, session>>

\* The handler is called with the next request; each turn of the poll awaits the
\* handler's promise, and a cancelled task starts no other turn.
HandlerStarts ==
  /\ handling = <<>>
  /\ external # <<>>
  /\ session # "cancelled"
  /\ handling' = <<Head(external)>>
  /\ external' = Tail(external)
  /\ UNCHANGED <<asked, takers, answer, refused, internal, msg, pulling, nulls, session>>

\* Variant: the reply is loaded when the handler's promise settles and again when
\* the turn is resolved.
HandlerReplies_Twice ==
  /\ handling # <<>>
  /\ handling' = <<>>
  /\ internal' = [internal EXCEPT ![Server] = @ \o handling \o handling]
  /\ UNCHANGED <<asked, takers, answer, refused, msg, pulling, external, nulls, session>>

\* Variant: null is not loaded but stops the poll, and nobody ends the session.
HandlerReplies_NullStops ==
  /\ handling # <<>>
  /\ Head(handling) \notin nulls
  /\ \/ LoadInternal(Server, Head(handling)) /\ handling' = <<>> /\ UNCHANGED nulls
     \/ "null" \in Events /\ nulls' = nulls \union {Head(handling)} /\ UNCHANGED <<internal, handling>>
  /\ UNCHANGED <<asked, takers, answer, refused, msg, pulling, external, session>>

\* The handler's promise resolves and the reply is loaded, refused or not; or it rejects
\* and nothing is loaded.  Either way the turn is over and the poll goes on.
HandlerReplies ==
  /\ handling # <<>>
  /\ \/ /\ LoadInternal(Server, Head(handling))
        /\ nulls' \in {nulls} \union IF "null" \in Events THEN {nulls \union {Head(handling)}} ELSE {}
     \/ "reject" \in Events /\ UNCHANGED <<internal, nulls>>
  /\ handling' = <<>>
  /\ UNCHANGED <<asked, takers, answer, refused, msg, pulling, external, session>>
-----------------------------------------------------------------------------
(***************************************************************************)
(* The session.                                                            *)
(***************************************************************************)
\* pull resolves and stream sends; null ends the server's session.
Pull(s) ==
  /\ session = "open"
  /\ pulling[s]
  /\ internal[s] # <<>>
  /\ internal' = [internal EXCEPT ![s] = Tail(@)]
  /\ IF s = Server /\ Head(internal[s]) \in nulls
     THEN session' = "ended" /\ UNCHANGED <<msg, pulling>>
     ELSE /\ msg' = [msg EXCEPT ![s] = <<Head(internal[s])>>]
          /\ pulling' = [pulling EXCEPT ![s] = FALSE]
          /\ UNCHANGED session
  /\ UNCHANGED <<asked, takers, answer, refused, external, handling, nulls>>

\* The other side's listen acknowledges the message, then pushes it; what the
\* codec cannot decode or the schema rejects is ignored.
Receive(s) ==
  /\ session = "open"
  /\ msg[s] # <<>>
  /\ msg' = [msg EXCEPT ![s] = <<>>]
  /\ \/ Push(s, Head(msg[s]))
     \/ "invalid" \in Events /\ UNCHANGED <<takers, answer, external>>
  /\ UNCHANGED <<asked, refused, internal, pulling, handling, nulls, session>>

\* stream receives the ACK.
Acknowledged(s) ==
  /\ session = "open"
  /\ ~pulling[s]
  /\ msg[s] = <<>>
  /\ pulling' = [pulling EXCEPT ![s] = TRUE]
  /\ UNCHANGED <<asked, takers, answer, refused, internal, msg, external, handling, nulls, session>>

\* drop, or whatever else ends the session; nothing passes between the services
\* any more.  When the socket closed or the next turn's handshake timed out, the
\* endpoint's task is cancelled too.
SessionEnds ==
  /\ session = "open"
  /\ session' \in (IF "end" \in Events THEN {"ended"} ELSE {})
                    \union IF "cancel" \in Events THEN {"cancelled"} ELSE {}
  /\ UNCHANGED <<asked, takers, answer, refused, internal, msg, pulling, external, handling, nulls>>
-----------------------------------------------------------------------------
Progress ==
  \/ HandlerStarts \/ HandlerReplies
  \/ \E s \in Sides : Pull(s) \/ Receive(s) \/ Acknowledged(s)

Next == Query \/ Progress \/ SessionEnds

\* The event loop runs, the network delivers and the handler's promise settles:
\* whatever step a request or a reply waits for is taken at last.
Fairness ==
  /\ WF_queryVars(HandlerStarts)
  /\ WF_queryVars(HandlerReplies)
  /\ \A s \in Sides :
       WF_queryVars(Pull(s)) /\ WF_queryVars(Receive(s)) /\ WF_queryVars(Acknowledged(s))

Spec == Init /\ [][Next]_queryVars
FairSpec == Spec /\ Fairness
-----------------------------------------------------------------------------
\* Every variable has its type, and no buffer is filled past its size.
TypeOK ==
  /\ asked \in 0 .. MaxQueries
  /\ takers \in Seq(Queries)
  /\ answer \in [Queries -> 0 .. MaxQueries]
  /\ refused \subseteq Queries
  /\ internal \in [Sides -> Seq(Queries)]
  /\ msg \in [Sides -> Seq(Queries)]
  /\ pulling \in [Sides -> BOOLEAN]
  /\ external \in Seq(Queries)
  /\ handling \in Seq(Queries)
  /\ nulls \subseteq Queries
  /\ session \in {"open", "ended", "cancelled"}
  /\ Len(external) <= ServerBuffer + 1
  /\ Len(internal[Client]) <= ClientBuffer + 1
  /\ Len(internal[Server]) <= ServerBuffer + 1

\* What was asked and is not answered, wherever it is, oldest first.
Outgoing(s) == msg[s] \o internal[s]
Serving == handling \o external
Pipeline == Outgoing(Server) \o (Serving \o Outgoing(Client))

\* A call waits for each request on its way, and each waiting call has its own there.
NothingLost == Len(Pipeline) = Len(takers)

\* "Each message is paired with a response" (README.md): what a call resolves with is
\* the reply to its own request.  One refused call of query is enough to break it.
Paired == \A q \in Queries : answer[q] # 0 => answer[q] = q

\* As long as no request and no reply was refused or ignored and no handler rejected,
\* the calls are paired, although neither carries an identifier and whatever the
\* buffers' sizes.
RepliesPaired == NothingLost => Paired

\* "This happens in series" (asSendChannel): even when buffers overflow, a later
\* call is never given an earlier reply, and no reply comes before its request.
RepliesInOrder ==
  /\ \A p, q \in Queries : p < q /\ answer[p] # 0 /\ answer[q] # 0 => answer[p] < answer[q]
  /\ \A q \in Queries : answer[q] # 0 => answer[q] \in q .. asked

\* No reply comes to a client with no call waiting: it would be kept for a later
\* call, which query answers from the buffer before its request is even sent.
NoReplyUnclaimed == Len(Pipeline) <= Len(takers)

\* "If the buffer is full: [...] The `recv` side will immediately drop the
\* connection" (README.md): a request the server cannot keep ends the session.
FullBufferDropsConnection ==
  [][\A s \in Sides : Receive(s) /\ s = Client /\ Len(external) >= ExternalRoom
       => session' # "open"]_queryVars

\* "@throws Error if the input cannot be sent or the connection is closed" (send of
\* asSendChannel): a call gets its reply or throws, if the session stays open and
\* nothing is lost; otherwise it may do neither.
EveryQuerySettles ==
  \A q \in Queries : asked >= q ~>
    answer[q] # 0 \/ q \in refused \/ session # "open" \/ ~NothingLost

\* The same without the condition, as the comment of send says it.
EveryQueryReturns == \A q \in Queries : asked >= q ~> answer[q] # 0 \/ q \in refused
=============================================================================
