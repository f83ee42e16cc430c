------------------------------- MODULE Session -------------------------------
(***************************************************************************)
(* One session between connect (protocol/connect.ts) on the client and one *)
(* turn of channel (protocol/channel.ts) on the server: the handshake, the *)
(* two streams of acknowledged messages, the listeners and the teardown,   *)
(* over a pair of VirtualSockets.                                          *)
(*                                                                         *)
(* An action is one continuation the event loop runs.  Deliveries, socket  *)
(* events and timers are tasks of the event loop: they start only when the *)
(* side has no continuation left (Quiet).  Application code runs anywhere. *)
(***************************************************************************)
EXTENDS Naturals, Sequences, FiniteSets

CONSTANTS
  ConnectLimit,  \* Atomic limit of connect.ts
  ChannelLimit,  \* Atomic limit of channel.ts
  InCap,         \* bufferSize.in of both sockets
  Batch,         \* most frames one socket event hands over
  Reordering,    \* sides whose socket may deliver frames out of order
  RootSocket,    \* connect was given the websocket, not a multiplexed socket
  Events,        \* what may go wrong in a behaviour, see EventKinds
  MaxLoad        \* bound: payloads each application loads

EventKinds == {"sig", "ack", "listen", "cancel", "drop", "disconnect"}

Client == "client"
Server == "server"
Sides == {Client, Server}
Other(s) == IF s = Client THEN Server ELSE Client

ASSUME LimitAssumption ==
  ConnectLimit \in Nat \ {0} /\ ChannelLimit \in Nat \ {0}
ASSUME CapAssumption == InCap \in Nat /\ Batch \in Nat \ {0} /\ MaxLoad \in Nat
ASSUME EventAssumption ==
  Events \subseteq EventKinds /\ Reordering \subseteq Sides /\ RootSocket \in BOOLEAN

VARIABLES
  up,       \* the websocket connection exists
  net,      \* frames on the way to a side
  reg,      \* the buffers of a side that bufferIn fills
  buf,      \* their contents
  phase,    \* how far connect or the channel's turn is
  task,     \* the session's Task: live, clean (cleanup) or cancelled
  stream,   \* stream's loop: awaiting pull, awaiting the ACK, returned
  listen,   \* listen's loop: awaiting a message, returned
  loaded, ended,  \* the application: payloads supplied, pull gives null after
  sent, acked, recvd

vars == <<up, net, reg, buf, phase, task, stream, listen, loaded, ended,
          sent, acked, recvd>>

\* The receive buffers: "sig" is channelSocket until the channel's next turn
\* reads it, "term" termSocket, "msg" the listener's socket, "ack" streamSocket
\* or, on the client, the socket itself.
Buffers == {"sig", "term", "msg", "ack"}
SessionBuffers == {"term", "msg", "ack"}
Phases == {"idle", "opening", "opened", "open", "closing", "closed", "failed"}

Message == [t : {"INIT", "TERM", "ACK", "MSG"}, n : Nat, d : Nat]

\* Variant: the client's Atomic wraps one step late.
Limit_OffByOne(s) == IF s = Client THEN ConnectLimit + 1 ELSE ChannelLimit

\* The step of the k-th message a side sends, and of the k-th it receives:
\* both Atomics gave 0 to the handshake.  d names the payload, for properties.
Limit(s) == IF s = Client THEN ConnectLimit ELSE ChannelLimit
Step(s, k) == k % Limit(s)
Expected(s) == Step(s, Len(recvd[s]) + 1)

Init ==
  /\ up = TRUE
  /\ net = [s \in Sides |-> <<>>]
  /\ reg = [s \in Sides |-> IF s = Client THEN {"ack"} ELSE {"sig"}]
  /\ buf = [s \in Sides |-> [b \in Buffers |-> <<>>]]
  /\ phase = [s \in Sides |-> "idle"]
  /\ task = [s \in Sides |-> "live"]
  /\ stream = [s \in Sides |-> "off"]
  /\ listen = [s \in Sides |-> "off"]
  /\ loaded = [s \in Sides |-> 0]
  /\ ended = [s \in Sides |-> FALSE]
  /\ sent = [s \in Sides |-> 0]
  /\ acked = [s \in Sides |-> 0]
  /\ recvd = [s \in Sides |-> <<>>]
-----------------------------------------------------------------------------
\* Task.cancel and Task.cleanup.
Cancelled(s) == task' = [task EXCEPT ![s] = "cancelled"]
Cleaned(s) == task' = [task EXCEPT ![s] = IF @ = "live" THEN "clean" ELSE @]

\* Variant: the check is left out.
Interrupted_Never(s) == FALSE

\* `typeof task.isCancelled() === "string"`, asked before and after each await.
Interrupted(s) == task[s] = "cancelled"

\* VirtualSocket.send through the websocket, which drops what it cannot send.
Emit(s, m) == net' = IF up THEN [net EXCEPT ![Other(s)] = Append(@, m)] ELSE net

\* The waiting recv takes the oldest frame of the buffer.
Pop(s, b) == buf' = [buf EXCEPT ![s][b] = Tail(@)]
Front(s, b) == buf[s][b][1]
Holds(s, b) == buf[s][b] # <<>>

\* A recv is waiting on the buffer.
Reading(s, b) ==
  CASE b = "sig" -> s = Server /\ phase[s] = "idle"
    [] b = "term" -> s = Server /\ phase[s] = "open"
    [] b = "msg" -> listen[s] = "recv"
    [] b = "ack" -> stream[s] = "ack" \/ (s = Client /\ phase[s] = "opening")

\* Variant: the push is not refused.
FirstOf_All(q, n) == q

FirstOf(q, n) == SubSeq(q, 1, IF Len(q) < n THEN Len(q) ELSE n)

\* The frame that a recv of the session was given and has not looked at; the recv of
\* a handshake has when its buffer is dropped.
Handed(s, b) == IF b \in SessionBuffers /\ Reading(s, b) THEN FirstOf(buf[s][b], 1) ELSE <<>>

\* VirtualSocket.drop of the given buffers: they stop filling and what they held is out
\* of reach, but a recv that was given a frame goes on with it.
Unregister(s, bs) ==
  /\ reg' = [reg EXCEPT ![s] = @ \ bs]
  /\ buf' = [buf EXCEPT ![s] = [b \in Buffers |-> IF b \in bs THEN Handed(s, b) ELSE @[b]]]

-----------------------------------------------------------------------------
(***************************************************************************)
(* Which continuations a side has left to run.                             *)
(***************************************************************************)
SigBuffer(s) == IF s = Client THEN "ack" ELSE "sig"
Handshaking(s) == phase[s] = IF s = Client THEN "opening" ELSE "idle"
PullReady(s) == stream[s] = "pull" /\ (sent[s] < loaded[s] \/ ended[s])

Quiet(s) ==
  /\ Handshaking(s) => ~Holds(s, SigBuffer(s)) /\ task[s] = "live"
  /\ phase[s] \notin {"opened", "closing"}
  /\ ~PullReady(s)
  /\ stream[s] = "ack" => ~Holds(s, "ack") /\ task[s] = "live"
  /\ listen[s] = "recv" => ~Holds(s, "msg") /\ task[s] = "live"
  /\ phase[s] = "open" =>
       IF s = Client THEN stream[s] # "done"
                     ELSE ~Holds(s, "term") /\ task[s] = "live"
-----------------------------------------------------------------------------
(***************************************************************************)
(* Handshake.                                                              *)
(***************************************************************************)
\* connect: the recv for the ACK is placed before INIT is sent.
Connect ==
  /\ phase[Client] = "idle"
  /\ phase' = [phase EXCEPT ![Client] = "opening"]
  /\ Emit(Client, [t |-> "INIT", n |-> 0, d |-> 0])
  /\ UNCHANGED <<up, reg, buf, task, stream, listen, loaded, ended, sent, acked, recvd>>

\* The handshake's recv filters one frame; INIT on the server ends the turn,
\* and the next turn's recv takes channelSocket over.
Handshake(s) ==
  /\ Handshaking(s)
  /\ Holds(s, SigBuffer(s))
  /\ LET m == Front(s, SigBuffer(s))
         match == m.n = 0 /\ m.t = IF s = Client THEN "ACK" ELSE "INIT"
     IN /\ phase' = IF match THEN [phase EXCEPT ![s] = "opened"] ELSE phase
        /\ IF match /\ s = Server THEN Unregister(s, {"sig"})
                                  ELSE Pop(s, SigBuffer(s)) /\ UNCHANGED reg
  /\ UNCHANGED <<up, net, task, stream, listen, loaded, ended, sent, acked, recvd>>

\* estab.reason: the handshake ended without its frame.  connect only cancels
\* its task; channel also ends its poll, which drops channelSocket.
HandshakeFailed(s) ==
  /\ Cancelled(s)
  /\ phase' = [phase EXCEPT ![s] = "failed"]
  /\ IF s = Server THEN Unregister(s, {"sig"}) ELSE UNCHANGED <<reg, buf>>
  /\ UNCHANGED <<up, net, stream, listen, loaded, ended, sent, acked, recvd>>

HandshakeReason(s) ==
  /\ Handshaking(s)
  /\ task[s] # "live"
  /\ HandshakeFailed(s)

HandshakeTimeout(s) ==
  /\ "sig" \in Events
  /\ Handshaking(s)
  /\ Quiet(s)
  /\ HandshakeFailed(s)

\* After the handshake: new multiplexed sockets, then listen and stream.  Both
\* polls return at once when the task is cancelled.  The server acknowledges
\* INIT in the same continuation, whatever the state of its task.
Open(s) ==
  /\ phase[s] = "opened"
  /\ phase' = [phase EXCEPT ![s] = "open"]
  /\ reg' = [reg EXCEPT ![s] = @ \union IF s = Client THEN {"msg"} ELSE SessionBuffers]
  /\ listen' = [listen EXCEPT ![s] = IF Interrupted(s) THEN "done" ELSE "recv"]
  /\ stream' = [stream EXCEPT ![s] = IF Interrupted(s) THEN "done" ELSE "pull"]
  /\ IF s = Server THEN Emit(s, [t |-> "ACK", n |-> 0, d |-> 0]) ELSE UNCHANGED net
  /\ UNCHANGED <<up, buf, task, loaded, ended, sent, acked, recvd>>
-----------------------------------------------------------------------------
(***************************************************************************)
(* stream: one message at a time, each acknowledged before the next.  When *)
(* the loop returns, connect and channel clean the task up.                *)
(***************************************************************************)
StreamReturns(s) ==
  /\ stream' = [stream EXCEPT ![s] = "done"]
  /\ Cleaned(s)

\* Variant: the next payload is pulled without waiting for the ACK.
Transmit_NoWait(s) ==
  /\ sent' = [sent EXCEPT ![s] = @ + 1]
  /\ Emit(s, [t |-> "MSG", n |-> Step(s, sent[s] + 1), d |-> sent[s] + 1])
  /\ UNCHANGED stream

\* The message takes the next step, and its ACK is awaited.
Transmit(s) ==
  /\ sent' = [sent EXCEPT ![s] = @ + 1]
  /\ Emit(s, [t |-> "MSG", n |-> Step(s, sent[s] + 1), d |-> sent[s] + 1])
  /\ stream' = [stream EXCEPT ![s] = "ack"]

\* `await pull()` resolves: with a payload, or with null once the application
\* has ended.  The task is checked again after the await.
Pull(s) ==
  /\ PullReady(s)
  /\ IF Interrupted(s) \/ sent[s] = loaded[s]
     THEN /\ StreamReturns(s)
          /\ UNCHANGED <<net, sent>>
     ELSE Transmit(s) /\ UNCHANGED task
  /\ UNCHANGED <<up, reg, buf, phase, listen, loaded, ended, acked, recvd>>

\* The recv for the ACK filters one frame; other frames are discarded.
AwaitAck(s) ==
  /\ stream[s] = "ack"
  /\ Holds(s, "ack")
  /\ Pop(s, "ack")
  /\ IF Front(s, "ack").t = "ACK" /\ Front(s, "ack").n = Step(s, sent[s])
     THEN /\ acked' = [acked EXCEPT ![s] = @ + 1]
          /\ IF Interrupted(s) THEN StreamReturns(s)
             ELSE stream' = [stream EXCEPT ![s] = "pull"] /\ UNCHANGED task
     ELSE UNCHANGED <<acked, stream, task>>
  /\ UNCHANGED <<up, net, reg, phase, listen, loaded, ended, sent, recvd>>

\* The recv for the ACK ends with a reason, and poll cancels the task with it:
\* the task is settled, or the deadline passed.
AckReason(s) ==
  /\ stream[s] = "ack"
  /\ \/ task[s] # "live"
     \/ "ack" \in Events /\ Quiet(s)
  /\ stream' = [stream EXCEPT ![s] = "done"]
  /\ Cancelled(s)
  /\ UNCHANGED <<up, net, reg, buf, phase, listen, loaded, ended, sent, acked, recvd>>
-----------------------------------------------------------------------------
(***************************************************************************)
(* listen: acknowledge each expected message and push it.                  *)
(***************************************************************************)
\* Variant: no ACK is sent.
Acknowledge_Skipped(s, m) == UNCHANGED net

Acknowledge(s, m) == Emit(s, [t |-> "ACK", n |-> m.n, d |-> m.d])

\* Variant: the ACK is sent before the task is checked again.
Listen_AckFirst(s) ==
  /\ listen[s] = "recv"
  /\ Holds(s, "msg")
  /\ Pop(s, "msg")
  /\ LET m == Front(s, "msg")
     IN IF m.t # "MSG" \/ m.n # Expected(s)
        THEN UNCHANGED <<net, listen, recvd>>
        ELSE /\ Acknowledge(s, m)
             /\ IF Interrupted(s)
                THEN listen' = [listen EXCEPT ![s] = "done"] /\ UNCHANGED recvd
                ELSE recvd' = [recvd EXCEPT ![s] = Append(@, m.d)] /\ UNCHANGED listen
  /\ UNCHANGED <<up, reg, phase, task, stream, loaded, ended, sent, acked>>

\* The recv for the message filters one frame; the task is checked again after
\* the await, then the message is acknowledged and pushed.
Listen(s) ==
  /\ listen[s] = "recv"
  /\ Holds(s, "msg")
  /\ Pop(s, "msg")
  /\ LET m == Front(s, "msg")
     IN IF m.t # "MSG" \/ m.n # Expected(s)
        THEN UNCHANGED <<net, listen, recvd>>
        ELSE IF Interrupted(s)
        THEN /\ listen' = [listen EXCEPT ![s] = "done"]
             /\ UNCHANGED <<net, recvd>>
        ELSE /\ Acknowledge(s, m)
             /\ recvd' = [recvd EXCEPT ![s] = Append(@, m.d)]
             /\ UNCHANGED listen
  /\ UNCHANGED <<up, reg, phase, task, stream, loaded, ended, sent, acked>>

\* The recv for the message ends with a reason: the task is settled, or the
\* other side was silent for too long.  The task ends cancelled.
ListenReason(s) ==
  /\ listen[s] = "recv"
  /\ \/ task[s] # "live"
     \/ "listen" \in Events /\ Quiet(s)
  /\ listen' = [listen EXCEPT ![s] = "done"]
  /\ Cancelled(s)
  /\ UNCHANGED <<up, net, reg, buf, phase, stream, loaded, ended, sent, acked, recvd>>
-----------------------------------------------------------------------------
(***************************************************************************)
(* Teardown.                                                               *)
(***************************************************************************)
\* Variant: the client leaves without a word.
SendTerm_Silent == UNCHANGED net

SendTerm == Emit(Client, [t |-> "TERM", n |-> Step(Client, sent[Client] + 1), d |-> 0])

\* What connect drops: its socket and the listener's.
ClientSockets == {"ack", "msg"}

\* Variant: connect waits for its task to be settled, not for stream.
StreamReturned_Settled == task[Client] # "live"

\* `await streamHandle`; listen is not awaited.
StreamReturned == stream[Client] = "done"

\* connect, once stream has returned: TERM, then both sockets are dropped.  The
\* websocket itself closes when dropped, after the frames it has accepted.
ClientTerm ==
  /\ phase[Client] = "open"
  /\ StreamReturned
  /\ phase' = [phase EXCEPT ![Client] = "closed"]
  /\ SendTerm
  /\ Unregister(Client, ClientSockets)
  /\ up' = (up /\ ~RootSocket)
  /\ UNCHANGED <<task, stream, listen, loaded, ended, sent, acked, recvd>>

\* channel's recv for TERM filters one frame, with any step.
AwaitTerm ==
  /\ phase[Server] = "open"
  /\ Holds(Server, "term")
  /\ Pop(Server, "term")
  /\ IF Front(Server, "term").t = "TERM"
     THEN Cleaned(Server) /\ phase' = [phase EXCEPT ![Server] = "closing"]
     ELSE UNCHANGED <<task, phase>>
  /\ UNCHANGED <<up, net, reg, stream, listen, loaded, ended, sent, acked, recvd>>

\* The recv for TERM runs on the session's task itself and ends with it.
TermReason ==
  /\ phase[Server] = "open"
  /\ task[Server] # "live"
  /\ phase' = [phase EXCEPT ![Server] = "closing"]
  /\ UNCHANGED <<up, net, reg, buf, task, stream, listen, loaded, ended, sent, acked, recvd>>

\* Variant: the stream's socket is left registered.
ServerSockets_NoStream == {"term", "msg"}

\* What channel drops once the recv for TERM ends: termSocket, sessionSocket and
\* streamSocket.
ServerSockets == {"term", "msg", "ack"}

ServerDrop ==
  /\ phase[Server] = "closing"
  /\ phase' = [phase EXCEPT ![Server] = "closed"]
  /\ Unregister(Server, ServerSockets)
  /\ UNCHANGED <<up, net, task, stream, listen, loaded, ended, sent, acked, recvd>>
-----------------------------------------------------------------------------
(***************************************************************************)
(* The network and the websockets.                                         *)
(***************************************************************************)
\* A full CircularBuffer refuses the push; a waiting recv has one place more.
Room(s, b) == InCap + IF Reading(s, b) THEN 1 ELSE 0

\* bufferIn of the frames ms, one after another, before any continuation runs.
BufferIn(s, ms) ==
  buf' = [buf EXCEPT ![s] = [b \in Buffers |->
            IF b \in reg[s] THEN FirstOf(@[b] \o ms, Room(s, b)) ELSE @[b]]]

\* One socket event: the next frames, or one frame that overtakes others.
Deliver(s) ==
  /\ Quiet(s)
  /\ net[s] # <<>>
  /\ \/ \E n \in 1 .. Batch :
          /\ n <= Len(net[s])
          /\ BufferIn(s, SubSeq(net[s], 1, n))
          /\ net' = [net EXCEPT ![s] = SubSeq(@, n + 1, Len(@))]
     \/ /\ s \in Reordering
        /\ \E i \in 2 .. Len(net[s]) :
             /\ BufferIn(s, <<net[s][i]>>)
             /\ net' = [net EXCEPT ![s] = SubSeq(@, 1, i - 1) \o SubSeq(@, i + 1, Len(@))]
  /\ UNCHANGED <<up, reg, phase, task, stream, listen, loaded, ended, sent, acked, recvd>>

\* The connection breaks; what was on the way is lost.
Disconnect ==
  /\ "disconnect" \in Events
  /\ up
  /\ up' = FALSE
  /\ net' = [s \in Sides |-> <<>>]
  /\ UNCHANGED <<reg, buf, phase, task, stream, listen, loaded, ended, sent, acked, recvd>>

\* The websocket's close event: dropAll, and `closed` cancels the task that
\* Initiate or Endpoint gave to the session.
SocketClosed(s) ==
  /\ ~up
  /\ net[s] = <<>>
  /\ Quiet(s)
  /\ reg[s] # {}
  /\ Unregister(s, Buffers)
  /\ Cancelled(s)
  /\ UNCHANGED <<up, net, phase, stream, listen, loaded, ended, sent, acked, recvd>>
-----------------------------------------------------------------------------
(***************************************************************************)
(* The application.                                                        *)
(***************************************************************************)
Load(s) ==
  /\ ~ended[s]
  /\ loaded[s] < MaxLoad
  /\ loaded' = [loaded EXCEPT ![s] = @ + 1]
  /\ UNCHANGED <<up, net, reg, buf, phase, task, stream, listen, ended, sent, acked, recvd>>

End(s) ==
  /\ ~ended[s]
  /\ ended' = [ended EXCEPT ![s] = TRUE]
  /\ UNCHANGED <<up, net, reg, buf, phase, task, stream, listen, loaded, sent, acked, recvd>>

\* task.cancel; on the server this is the parent task, which a handler, the
\* socket or the next turn's handshake deadline cancels.
Cancel(s) ==
  /\ "cancel" \in Events
  /\ phase[s] # "idle" \/ s = Server
  /\ task[s] # "cancelled"
  /\ Cancelled(s)
  /\ UNCHANGED <<up, net, reg, buf, phase, stream, listen, loaded, ended, sent, acked, recvd>>

\* drop() of a client route: task.cleanup.
Drop ==
  /\ "drop" \in Events
  /\ phase[Client] # "idle"
  /\ task[Client] = "live"
  /\ Cleaned(Client)
  /\ UNCHANGED <<up, net, reg, buf, phase, stream, listen, loaded, ended, sent, acked, recvd>>
-----------------------------------------------------------------------------
\* The continuations of a side.
Continue(s) ==
  \/ Handshake(s) \/ HandshakeReason(s) \/ Open(s)
  \/ Pull(s) \/ AwaitAck(s) \/ AckReason(s)
  \/ Listen(s) \/ ListenReason(s)
  \/ s = Client /\ ClientTerm
  \/ s = Server /\ (AwaitTerm \/ TermReason \/ ServerDrop)

Next ==
  \/ Connect \/ Drop \/ Disconnect
  \/ \E s \in Sides :
       \/ Continue(s) \/ HandshakeTimeout(s)
       \/ Deliver(s) \/ SocketClosed(s)
       \/ Load(s) \/ End(s) \/ Cancel(s)

\* Continuations run, frames arrive, closed sockets are noticed and armed timers
\* fire.  The client connects; nothing else is assumed of the applications, nor of
\* the connection's life.
Fairness ==
  /\ WF_vars(Connect)
  /\ \A s \in Sides :
       /\ WF_vars(Continue(s))
       /\ WF_vars(HandshakeTimeout(s))
       /\ WF_vars(Deliver(s))
       /\ WF_vars(SocketClosed(s))

Spec == Init /\ [][Next]_vars
FairSpec == Spec /\ Fairness
-----------------------------------------------------------------------------
\* Every variable has its type, and no receive buffer holds more than its size
\* and the frame a waiting recv was handed.
TypeOK ==
  /\ up \in BOOLEAN
  /\ net \in [Sides -> Seq(Message)]
  /\ reg \in [Sides -> SUBSET Buffers]
  /\ buf \in [Sides -> [Buffers -> Seq(Message)]]
  /\ \A s \in Sides, b \in Buffers : Len(buf[s][b]) <= InCap + 1
  /\ phase \in [Sides -> Phases]
  /\ task \in [Sides -> {"live", "clean", "cancelled"}]
  /\ stream \in [Sides -> {"off", "pull", "ack", "done"}]
  /\ listen \in [Sides -> {"off", "recv", "done"}]
  /\ loaded \in [Sides -> 0 .. MaxLoad]
  /\ ended \in [Sides -> BOOLEAN]
  /\ sent \in [Sides -> Nat]
  /\ acked \in [Sides -> Nat]
  /\ recvd \in [Sides -> Seq(Nat)]

ToServer == INSTANCE StopAndWait
              WITH loaded <- loaded[Client], sent <- sent[Client],
                   got <- recvd[Server], acked <- acked[Client]
ToClient == INSTANCE StopAndWait
              WITH loaded <- loaded[Server], sent <- sent[Server],
                   got <- recvd[Client], acked <- acked[Server]

\* Both directions of a session implement stop-and-wait delivery: whatever is
\* reordered, refused by a full buffer, timed out or cancelled, a listener is
\* never given a payload twice, out of turn or before it was sent, and stream
\* takes no ACK for a message the other side did not push.
ImplementsStopAndWait == ToServer!Spec /\ ToClient!Spec

Frames(q) == {q[i] : i \in DOMAIN q}

\* The message that stream awaits an ACK for can still reach the listener, or
\* its ACK can still reach stream.
AnswerComing(s) ==
  LET o == Other(s)
      k == sent[s]
  IN \/ /\ Len(recvd[o]) = k - 1
        /\ \E m \in Frames(net[o]) \union Frames(buf[o]["msg"]) :
             m.t = "MSG" /\ m.d = k /\ m.n = Expected(o)
     \/ /\ Len(recvd[o]) = k
        /\ \E m \in Frames(net[s]) \union Frames(buf[s]["ack"]) :
             m.t = "ACK" /\ m.d = k /\ m.n = Step(s, k)

\* "Listens for contiguous ordered data on a socket, sending an ACK for each
\* message" (listen.ts): while both tasks are live and the connection is up, a
\* sent message is never left without its answer under way, so no ACK deadline
\* runs out on a healthy session.
NoStrandedMessage ==
  \A s \in Sides :
    stream[s] = "ack" /\ up /\ (\A e \in Sides : task[e] = "live") => AnswerComing(s)

\* Flow control: of the frames on the way to a side at most one is a message
\* and at most one an ACK, which is what makes a receive buffer of one place
\* enough.
OneOfEachInFlight ==
  \A s \in Sides, t \in {"MSG", "ACK"} :
    Cardinality({i \in DOMAIN net[s] : net[s][i].t = t}) <= 1

\* What the client sends after TERM is at most the ACK of the one message that its
\* listener had been given by then, never a message: connect waits for stream before
\* it sends TERM (connect.ts:53), but not for listen.
OnlyAckAfterTerm ==
  \A i, j \in DOMAIN net[Server] :
    net[Server][i].t = "TERM" /\ i < j => net[Server][j].t = "ACK" /\ j = i + 1

\* Cancelling is final: whatever awaits were pending when a task was cancelled,
\* no later step of that side sends a message or gives one to the application.
CancelIsFinal ==
  [][\A s \in Sides : task[s] = "cancelled" =>
       sent'[s] = sent[s] /\ recvd'[s] = recvd[s]]_vars

Released(s) == reg[s] \intersect SessionBuffers = {}

\* The server lets go of a session that ended, however it ended: the buffers of
\* its three sockets stop filling.
ServerReleases == task[Server] # "live" ~> Released(Server)

\* The same of the client, "Closes and disposes of the connection" (drop in
\* Route.ts).
ClientReleases == task[Client] # "live" ~> Released(Client)

\* Without failures a payload the client loads is pushed on the server, unless
\* the server's application ends the session; and the other way round.
Delivered ==
  \A s \in Sides, k \in 1 .. MaxLoad :
    loaded[s] >= k ~> Len(recvd[Other(s)]) >= k \/ ended[Other(s)]

\* A client that ends is noticed: TERM ends the server's session.
ServerNotices == stream[Client] = "done" /\ up ~> task[Server] # "live" \/ ~up
=============================================================================
