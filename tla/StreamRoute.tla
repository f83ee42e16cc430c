---------------------------- MODULE StreamRoute ----------------------------
(***************************************************************************)
(* The routes that stream: asSendStream, asSendListen and asSendDuplex     *)
(* with their receiving ends, over the services of recipies/many.ts and    *)
(* one session.  The session carries one message a direction and           *)
(* acknowledges it before the next is pulled (StopAndWait).                *)
(***************************************************************************)
EXTENDS Naturals, Sequences

CONSTANTS
  Kinds,    \* the kinds of route a behaviour may be about
  Buffer,   \* the buffer sizes given to the route, the same for all
  MaxLoad   \* bound: payloads the application of a side offers

KindsOfRoute == {"stream", "listen", "duplex"}

StreamAssumption ==
  Kinds \subseteq KindsOfRoute /\ Buffer \in Nat \ {0} /\ MaxLoad \in Nat

Client == "client"
Server == "server"
Sides == {Client, Server}
Other(s) == IF s = Client THEN Server ELSE Client

VARIABLES
  kind,      \* the route's kind; it does not change
  phase,     \* the session: off, open, dropped by the client, failed
  offered,   \* calls of a side's send so far, which are its payloads' names
  accepted,  \* the payloads for which send gave true
  internal,  \* a side's internal buffer, and the value its waiting pull was given
  pulling,   \* stream of a side awaits pull, not an ACK
  msg,       \* the message of a side that has not arrived
  external,  \* what the waiting take of a side's handler loop was given, and its buffer
  settled,   \* the payloads a side is done with: handled, or ignored
  ignored    \* those of them that did not decode or that its schema rejected

streamVars == <<kind, phase, offered, accepted, internal, pulling, msg, external, settled, ignored>>

\* A payload that waits on its way is a sequence of one, so that ways can be joined.
Init ==
  /\ kind \in Kinds
  /\ phase = "off"
  /\ offered = [s \in Sides |-> 0]
  /\ accepted = [s \in Sides |-> <<>>]
  /\ internal = [s \in Sides |-> <<>>]
  /\ pulling = [s \in Sides |-> FALSE]
  /\ msg = [s \in Sides |-> <<>>]
  /\ external = [s \in Sides |-> <<>>]
  /\ settled = [s \in Sides |-> <<>>]
  /\ ignored = [s \in Sides |-> {}]
-----------------------------------------------------------------------------
(***************************************************************************)
(* many: the sizes of the two buffers of a side's service.                 *)
(***************************************************************************)
InternalSizes ==
  [stream |-> [client |-> Buffer, server |-> 0],
   listen |-> [client |-> 1, server |-> Buffer],
   duplex |-> [client |-> Buffer, server |-> Buffer]]

ExternalSizes ==
  [stream |-> [client |-> 0, server |-> Buffer],
   listen |-> [client |-> Buffer, server |-> 1],
   duplex |-> [client |-> Buffer, server |-> Buffer]]

\* Variant: the buffer takes one value more than it has places for.
InternalRoom_More(s) == InternalSizes[kind][s] + 1 + IF pulling[s] THEN 1 ELSE 0

\* A pull that waits has one place more.
InternalRoom(s) == InternalSizes[kind][s] + IF pulling[s] THEN 1 ELSE 0

\* Variant: what a full buffer refuses replaces the newest value.
LoadInternal_Replaces(s, v) ==
  LET fits == Len(internal[s]) < InternalRoom(s)
      q == internal[s]
  IN /\ internal' = [internal EXCEPT ![s] =
                       IF fits THEN Append(q, v) ELSE [q EXCEPT ![Len(q)] = v]]
     /\ accepted' = IF fits THEN [accepted EXCEPT ![s] = Append(@, v)] ELSE accepted

\* service.loadInternal, and whether it gave true.
LoadInternal(s, v) ==
  LET fits == Len(internal[s]) < InternalRoom(s)
  IN /\ internal' = IF fits THEN [internal EXCEPT ![s] = Append(@, v)] ELSE internal
     /\ accepted' = IF fits THEN [accepted EXCEPT ![s] = Append(@, v)] ELSE accepted
-----------------------------------------------------------------------------
\* Has the application of a side been given a send that reaches the service?  The
\* client of a duplex route gets it with its session; the server of a listen route
\* with the initial payload; that of a duplex route as soon as its service exists,
\* before any client has connected.
MaySend(s) ==
  \/ kind = "stream" /\ s = Client
  \/ kind = "listen" /\ s = Server /\ \E i \in DOMAIN settled[s] : settled[s][i] \notin ignored[s]
  \/ kind = "duplex" /\ (s = Server \/ phase # "off")

\* send, whatever became of the session.
Send(s) ==
  /\ MaySend(s)
  /\ offered[s] < MaxLoad
  /\ offered' = [offered EXCEPT ![s] = @ + 1]
  /\ LoadInternal(s, offered[s] + 1)
  /\ UNCHANGED <<kind, phase, pulling, msg, external, settled, ignored>>

\* The session is established, and the pulls of both services wait.
Opens ==
  /\ phase = "off"
  /\ phase' = "open"
  /\ pulling' = [s \in Sides |-> TRUE]
  /\ UNCHANGED <<kind, msg, external, settled, ignored>>

\* connect of asSendStream.
ConnectStream ==
  /\ kind = "stream"
  /\ Opens
  /\ UNCHANGED <<offered, accepted, internal>>

\* recv of asSendListen loads the initial payload, and does not look whether it fitted.
ConnectListen ==
  /\ kind = "listen"
  /\ Opens
  /\ LoadInternal(Client, 1)
  /\ offered' = [offered EXCEPT ![Client] = 1]

\* recv of asSendDuplex gives the route's send its service.
ConnectDuplex ==
  /\ kind = "duplex"
  /\ Opens
  /\ UNCHANGED <<offered, accepted, internal>>

\* The take of the handler loop resolves: the handler is called, unless the client's
\* task was cancelled, and the next take waits.  drop does not cancel the task, and the
\* server's loop runs on the endpoint's task.
Handle(s) ==
  /\ phase # "failed" \/ s = Server
  /\ external[s] # <<>>
  /\ external' = [external EXCEPT ![s] = Tail(@)]
  /\ settled' = [settled EXCEPT ![s] = Append(@, Head(external[s]))]
  /\ UNCHANGED <<kind, phase, offered, accepted, internal, pulling, msg, ignored>>

\* The loops of asRecvStream, of both ends of a listen route and of a duplex route.
HandleStream == kind = "stream" /\ Handle(Server)
HandleListen(s) == kind = "listen" /\ Handle(s)
HandleDuplex(s) == kind = "duplex" /\ Handle(s)
-----------------------------------------------------------------------------
(***************************************************************************)
(* The session.                                                            *)
(***************************************************************************)
\* pull resolves and stream sends.
Pull(s) ==
  /\ phase = "open"
  /\ pulling[s]
  /\ internal[s] # <<>>
  /\ internal' = [internal EXCEPT ![s] = Tail(@)]
  /\ msg' = [msg EXCEPT ![s] = <<Head(internal[s])>>]
  /\ pulling' = [pulling EXCEPT ![s] = FALSE]
  /\ UNCHANGED <<kind, phase, offered, accepted, external, settled, ignored>>

\* Variant: the next message may come while the handler loop has not taken the last.
Receive_Early(s) ==
  /\ phase = "open" \/ (phase = "dropped" /\ s = Client)
  /\ msg[s] # <<>>
  /\ msg' = [msg EXCEPT ![s] = <<>>]
  /\ LET o == Other(s)
     IN external' = IF Len(external[o]) < ExternalSizes[kind][o]
                    THEN [external EXCEPT ![o] = Append(@, Head(msg[s]))] ELSE external
  /\ UNCHANGED <<kind, phase, offered, accepted, internal, pulling, settled, ignored>>

\* The other side's listen acknowledges and pushes; mapServiceHandler ignores what the
\* codec cannot decode or the schema rejects, and whether the service had room.  A
\* message arrives in a task of the event loop, when the continuations of the handler
\* loop have run and its take waits.  After drop the server still receives what was
\* sent before.
Receive(s) ==
  LET o == Other(s)
      p == Head(msg[s])
  IN /\ phase = "open" \/ (phase = "dropped" /\ s = Client)
     /\ msg[s] # <<>>
     /\ external[o] = <<>>
     /\ msg' = [msg EXCEPT ![s] = <<>>]
     /\ \/ /\ external' = IF Len(external[o]) < ExternalSizes[kind][o] + 1
                           THEN [external EXCEPT ![o] = Append(@, p)] ELSE external
           /\ UNCHANGED <<settled, ignored>>
        \/ /\ settled' = [settled EXCEPT ![o] = Append(@, p)]
           /\ ignored' = [ignored EXCEPT ![o] = @ \union {p}]
           /\ UNCHANGED external
     /\ UNCHANGED <<kind, phase, offered, accepted, internal, pulling>>

\* stream receives the ACK.
Acknowledged(s) ==
  /\ phase = "open"
  /\ ~pulling[s]
  /\ msg[s] = <<>>
  /\ pulling' = [pulling EXCEPT ![s] = TRUE]
  /\ UNCHANGED <<kind, phase, offered, accepted, internal, msg, external, settled, ignored>>

\* drop of the client, or whatever else ends the session and cancels its tasks.
Drop(how) ==
  /\ phase = "open"
  /\ phase' = how
  /\ UNCHANGED <<kind, offered, accepted, internal, pulling, msg, external, settled, ignored>>
-----------------------------------------------------------------------------
Progress ==
  \/ HandleStream
  \/ \E s \in Sides : HandleListen(s) \/ HandleDuplex(s)
  \/ \E s \in Sides : Pull(s) \/ Receive(s) \/ Acknowledged(s)

Next ==
  \/ ConnectStream \/ ConnectListen \/ ConnectDuplex
  \/ Progress
  \/ \E s \in Sides : Send(s)
  \/ \E how \in {"dropped", "failed"} : Drop(how)

Spec == Init /\ [][Next]_streamVars

\* The event loop runs and the network delivers.
Fairness ==
  \A s \in Sides :
    /\ WF_streamVars(Handle(s)) /\ WF_streamVars(Pull(s))
    /\ WF_streamVars(Receive(s)) /\ WF_streamVars(Acknowledged(s))

FairSpec == Spec /\ Fairness
-----------------------------------------------------------------------------
\* Every variable has its type and no buffer is filled past its size.
TypeOK ==
  /\ kind \in Kinds
  /\ phase \in {"off", "open", "dropped", "failed"}
  /\ offered \in [Sides -> 0 .. MaxLoad + 1]
  /\ pulling \in [Sides -> BOOLEAN]
  /\ \A s \in Sides :
       /\ Len(internal[s]) <= InternalSizes[kind][s] + 1
       /\ Len(external[s]) <= ExternalSizes[kind][s] + 1
       /\ Len(msg[s]) <= 1
       /\ pulling[s] => msg[s] = <<>>

\* "The order of replies is guaranteed" (buffer of asRecvListen and asRecvDuplex):
\* what send accepted on one side is, in order, what the other side is done with and
\* what is still on its way; it is done with a payload when its handler was called or
\* when its codec or schema refused the payload itself.  The services' buffers may
\* refuse one too and nobody looks whether they did, but none is lost that way.
AcceptedIsHandled ==
  phase # "failed" =>
    \A s \in Sides :
      LET o == Other(s)
      IN settled[o] \o external[o] \o msg[s] \o internal[s] = accepted[s]

\* In a session that stays open, an accepted payload is handled, or refused by the
\* other side's codec or schema, and those behind it are handled none the less.
AcceptedGetsHandled ==
  \A s \in Sides, n \in 1 .. MaxLoad :
    Len(accepted[s]) >= n ~> Len(settled[Other(s)]) >= n \/ phase # "open"

\* "sends may fail if the buffer is full or the connection is closed" (README.md), and
\* "`false` if the input cannot be sent": send gives true only while there is, or will
\* be, a session that can send it.
TrueOnlyWhenSendable ==
  [][accepted' # accepted => phase \in {"off", "open"}]_streamVars
=============================================================================
