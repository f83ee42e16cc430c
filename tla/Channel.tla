------------------------------ MODULE Channel ------------------------------
(***************************************************************************)
(* The sessions of one route over one socket: the nonces the starter of    *)
(* the client gives them (Initiate, Route), and the server's endpoint,     *)
(* whose channel opens a session for every INIT and tells sessions apart   *)
(* by their nonce and step only.  What a session does on its own is        *)
(* Session's; here a frame finds the sessions that wait for it.            *)
(***************************************************************************)
EXTENDS Naturals, Sequences, FiniteSets

CONSTANTS
  MaxSessions,    \* bound: sessions the client opens
  MaxMessages,    \* bound: messages an end of a session sends
  NonceLimit,     \* limit of the Atomic that counts nonces
  SharedStarter,  \* one Initiate per connected route, not one per recv
  NonceFree,      \* assumed: no nonce is given while a session has it
  Silence,        \* clientSilentDeadline in ticks, 0 for Infinity
  Events          \* what may happen besides, see EventKinds

EventKinds == {"abandon", "serverEnds", "handlerCancels", "socketCloses"}

ASSUME ChannelAssumption ==
  /\ MaxSessions \in Nat /\ MaxMessages \in Nat /\ NonceLimit \in Nat \ {0}
  /\ SharedStarter \in BOOLEAN /\ NonceFree \in BOOLEAN
  /\ Silence \in Nat /\ Events \subseteq EventKinds

Client == "client"
Server == "server"
Sides == {Client, Server}
Other(s) == IF s = Client THEN Server ELSE Client

\* The client's sessions in the order they start.  An INIT opens one session on
\* the server, which has the number of the client's session that sent it.
Sessions == 1 .. MaxSessions

VARIABLES
  started,    \* sessions the client has started
  nonce,      \* the nonce of a session, at both ends
  phase,      \* an end of a session: none, opening, open, closed, or dropped before open
  sent,       \* messages an end has sent, the last one's step
  unacked,    \* an end waits for the ACK of its last message
  got,        \* the session that sent each message an end has taken, in order
  way,        \* frames on their way to a side, in order
  accepting,  \* the endpoint's task is not cancelled
  quiet,      \* ticks since a session of the server took a message
  idle        \* ticks since the endpoint took an INIT

channelVars ==
  <<started, nonce, phase, sent, unacked, got, way, accepting, quiet, idle>>

Init ==
  /\ started = 0
  /\ nonce = [i \in Sessions |-> 0]
  /\ phase = [s \in Sides |-> [i \in Sessions |-> "none"]]
  /\ sent = [s \in Sides |-> [i \in Sessions |-> 0]]
  /\ unacked = [s \in Sides |-> [i \in Sessions |-> FALSE]]
  /\ got = [s \in Sides |-> [i \in Sessions |-> <<>>]]
  /\ way = [s \in Sides |-> <<>>]
  /\ accepting = TRUE
  /\ quiet = [i \in Sessions |-> 0]
  /\ idle = 0
-----------------------------------------------------------------------------
Frame(type, i, step) == [type |-> type, nonce |-> nonce[i], step |-> step, from |-> i]

Sends(s, frames) == way' = [way EXCEPT ![Other(s)] = @ \o frames]

\* An end of a session with this nonce is alive, or a frame of one is under way.
InUse(n) ==
  \/ \E s \in Sides, i \in 1 .. started :
       nonce[i] = n /\ phase[s][i] \in {"opening", "open"}
  \/ \E s \in Sides : \E k \in DOMAIN way[s] : way[s][k].nonce = n

\* Variant: the counter is not brought back to zero at its limit.
NextNonce_Unlimited == IF SharedStarter THEN started ELSE 0

\* A starter counts its sessions; a starter of its own counts one.
NextNonce == IF SharedStarter THEN started % NonceLimit ELSE 0

\* Initiate.start and connect: the INIT goes out.
Start ==
  LET i == started + 1
  IN /\ started < MaxSessions
     /\ NonceFree => ~InUse(NextNonce)
     /\ started' = i
     /\ nonce' = [nonce EXCEPT ![i] = NextNonce]
     /\ phase' = [phase EXCEPT ![Client][i] = "opening"]
     /\ way' = [way EXCEPT ![Server] =
                  Append(@, [type |-> "INIT", nonce |-> NextNonce, step |-> 0, from |-> i])]
     /\ UNCHANGED <<sent, unacked, got, accepting, quiet, idle>>

\* The stream of an open session has a payload.
Send(s, i) ==
  /\ phase[s][i] = "open"
  /\ ~unacked[s][i]
  /\ sent[s][i] < MaxMessages
  /\ sent' = [sent EXCEPT ![s][i] = @ + 1]
  /\ unacked' = [unacked EXCEPT ![s][i] = TRUE]
  /\ Sends(s, <<Frame("MSG", i, sent[s][i] + 1)>>)
  /\ UNCHANGED <<started, nonce, phase, got, accepting, quiet, idle>>

\* The stream of the client's end is over: it sends TERM.
ClientEnds(i) ==
  /\ phase[Client][i] = "open"
  /\ phase' = [phase EXCEPT ![Client][i] = "closed"]
  /\ Sends(Client, <<Frame("TERM", i, sent[Client][i] + 1)>>)
  /\ UNCHANGED <<started, nonce, sent, unacked, got, accepting, quiet, idle>>

\* The client drops the session, or its ACK is late, before it is open: no TERM.
Abandon(i) ==
  /\ "abandon" \in Events
  /\ phase[Client][i] = "opening"
  /\ phase' = [phase EXCEPT ![Client][i] = "dropped"]
  /\ UNCHANGED <<started, nonce, sent, unacked, got, way, accepting, quiet, idle>>

\* The server's end is over (its stream has finished, or its ACK is late): the
\* client is told nothing.
ServerEnds(i) ==
  /\ "serverEnds" \in Events
  /\ phase[Server][i] = "open"
  /\ phase' = [phase EXCEPT ![Server][i] = "closed"]
  /\ UNCHANGED <<started, nonce, sent, unacked, got, way, accepting, quiet, idle>>
-----------------------------------------------------------------------------
(***************************************************************************)
(* A frame is taken by every end whose recv matches it: an ACK of the      *)
(* INIT, the ACK of the last message, the next message, or TERM.           *)
(***************************************************************************)

\* Variant: the nonce is not compared.
Takes_AnyNonce(s, i, f) ==
  CASE f.type = "MSG" -> phase[s][i] = "open" /\ f.step = Len(got[s][i]) + 1
    [] f.type = "ACK" -> \/ phase[s][i] = "opening" /\ f.step = 0
                         \/ phase[s][i] = "open" /\ unacked[s][i] /\ f.step = sent[s][i]
    [] f.type = "TERM" -> s = Server /\ phase[s][i] = "open"
    [] OTHER -> FALSE

\* Variant: TERM is looked for with the step of INIT.
Takes_TermAtInit(s, i, f) ==
  /\ Takes_AnyNonce(s, i, f)
  /\ f.nonce = nonce[i]
  /\ f.type = "TERM" => f.step = 0

Takes(s, i, f) ==
  /\ f.nonce = nonce[i]
  /\ CASE f.type = "MSG" -> phase[s][i] = "open" /\ f.step = Len(got[s][i]) + 1
       [] f.type = "ACK" -> \/ phase[s][i] = "opening" /\ f.step = 0
                            \/ phase[s][i] = "open" /\ unacked[s][i] /\ f.step = sent[s][i]
       [] f.type = "TERM" -> s = Server /\ phase[s][i] = "open"
       [] OTHER -> FALSE

Takers(s, f) == {i \in Sessions : Takes(s, i, f)}

\* The members of a set in any order: the takers' loops run in no given one.
Orders(S) ==
  {o \in [1 .. Cardinality(S) -> S] : \A i \in S : \E k \in DOMAIN o : o[k] = i}

\* The frame at the head has arrived, and the answers are on their way.
Arrives(s, answers) ==
  way' = [way EXCEPT ![s] = Tail(@), ![Other(s)] = @ \o answers]

\* A message goes to the service and is acknowledged, once by each taker.
ReceiveMessage(s) ==
  LET f == Head(way[s])
      takers == Takers(s, f)
  IN /\ way[s] # <<>>
     /\ f.type = "MSG"
     /\ got' = [got EXCEPT ![s] = [i \in Sessions |->
                  IF i \in takers THEN Append(@[i], f.from) ELSE @[i]]]
     /\ quiet' = [i \in Sessions |-> IF s = Server /\ i \in takers THEN 0 ELSE quiet[i]]
     /\ \E order \in Orders(takers) :
          Arrives(s, [k \in DOMAIN order |-> Frame("ACK", order[k], f.step)])
     /\ UNCHANGED <<started, nonce, phase, sent, unacked, accepting, idle>>

\* An ACK of the INIT opens the client's end, one of a message frees the stream.
ReceiveAck(s) ==
  LET takers == Takers(s, Head(way[s]))
  IN /\ way[s] # <<>>
     /\ Head(way[s]).type = "ACK"
     /\ phase' = [phase EXCEPT ![s] = [i \in Sessions |->
                    IF i \in takers THEN "open" ELSE @[i]]]
     /\ unacked' = [unacked EXCEPT ![s] = [i \in Sessions |->
                      IF i \in takers THEN FALSE ELSE @[i]]]
     /\ Arrives(s, <<>>)
     /\ UNCHANGED <<started, nonce, sent, got, accepting, quiet, idle>>

\* TERM settles the server's task of the session.
ReceiveTerm ==
  LET takers == Takers(Server, Head(way[Server]))
  IN /\ way[Server] # <<>>
     /\ Head(way[Server]).type = "TERM"
     /\ phase' = [phase EXCEPT ![Server] = [i \in Sessions |->
                    IF i \in takers THEN "closed" ELSE @[i]]]
     /\ Arrives(Server, <<>>)
     /\ UNCHANGED <<started, nonce, sent, unacked, got, accepting, quiet, idle>>

\* Variant: the turns do not look at the endpoint's task.
ReceiveInit_Always ==
  LET f == Head(way[Server])
  IN /\ way[Server] # <<>>
     /\ f.type = "INIT"
     /\ phase' = [phase EXCEPT ![Server][f.from] = "open"]
     /\ idle' = 0
     /\ Arrives(Server, <<Frame("ACK", f.from, 0)>>)
     /\ UNCHANGED <<started, nonce, sent, unacked, got, accepting, quiet>>

\* Variant: no turn waits for INIT while a session is open.
ReceiveInit_OneByOne ==
  LET f == Head(way[Server])
  IN /\ way[Server] # <<>>
     /\ f.type = "INIT"
     /\ IF accepting /\ \A i \in Sessions : phase[Server][i] # "open"
        THEN /\ phase' = [phase EXCEPT ![Server][f.from] = "open"]
             /\ idle' = 0
             /\ Arrives(Server, <<Frame("ACK", f.from, 0)>>)
        ELSE /\ Arrives(Server, <<>>)
             /\ UNCHANGED <<phase, idle>>
     /\ UNCHANGED <<started, nonce, sent, unacked, got, accepting, quiet>>

\* The turn that waits for INIT opens a session with the INIT's nonce and the
\* next turn waits; an endpoint whose task was cancelled hears nothing.
ReceiveInit ==
  LET f == Head(way[Server])
  IN /\ way[Server] # <<>>
     /\ f.type = "INIT"
     /\ IF accepting
        THEN /\ phase' = [phase EXCEPT ![Server][f.from] = "open"]
             /\ idle' = 0
             /\ Arrives(Server, <<Frame("ACK", f.from, 0)>>)
        ELSE /\ Arrives(Server, <<>>)
             /\ UNCHANGED <<phase, idle>>
     /\ UNCHANGED <<started, nonce, sent, unacked, got, accepting, quiet>>
-----------------------------------------------------------------------------
(***************************************************************************)
(* The endpoint's task, and time.  The turn that waits for INIT and every  *)
(* session's listen have the same deadline.                                *)
(***************************************************************************)

\* cancel of the endpoint's task: the sessions' tasks are subtasks of it.
Stop ==
  /\ accepting
  /\ accepting' = FALSE
  /\ phase' = [phase EXCEPT ![Server] = [i \in Sessions |->
                 IF @[i] = "open" THEN "closed" ELSE @[i]]]

\* No INIT came in time: the turn cancels its session's task, its result has a
\* reason, and poll cancels the endpoint's.
AcceptTimeout ==
  /\ Silence > 0
  /\ idle = Silence
  /\ Stop
  /\ UNCHANGED <<started, nonce, sent, unacked, got, way, quiet, idle>>

\* A handler cancels the task of its context, which is the endpoint's.
HandlerCancels ==
  /\ "handlerCancels" \in Events
  /\ \E i \in Sessions : phase[Server][i] = "open"
  /\ Stop
  /\ UNCHANGED <<started, nonce, sent, unacked, got, way, quiet, idle>>

\* The socket closes: the tasks of both sides are cancelled and frames are lost.
SocketCloses ==
  /\ "socketCloses" \in Events
  /\ accepting
  /\ accepting' = FALSE
  /\ phase' = [s \in Sides |-> [i \in Sessions |->
                 IF phase[s][i] \in {"opening", "open"} THEN "closed" ELSE phase[s][i]]]
  /\ way' = [s \in Sides |-> <<>>]
  /\ UNCHANGED <<started, nonce, sent, unacked, got, quiet, idle>>

\* A session of the server has heard no message for the deadline.
SilenceTimeout(i) ==
  /\ Silence > 0
  /\ phase[Server][i] = "open"
  /\ quiet[i] = Silence
  /\ phase' = [phase EXCEPT ![Server][i] = "closed"]
  /\ UNCHANGED <<started, nonce, sent, unacked, got, way, accepting, quiet, idle>>

\* Time passes, but not past a deadline.
Tick ==
  /\ Silence > 0
  /\ accepting => idle < Silence
  /\ \A i \in Sessions : phase[Server][i] = "open" => quiet[i] < Silence
  /\ idle' = IF accepting THEN idle + 1 ELSE idle
  /\ quiet' = [i \in Sessions |->
                 IF phase[Server][i] = "open" THEN quiet[i] + 1 ELSE quiet[i]]
  /\ <<idle, quiet>> # <<idle', quiet'>>
  /\ UNCHANGED <<started, nonce, phase, sent, unacked, got, way, accepting>>

Receive(s) ==
  \/ ReceiveMessage(s)
  \/ ReceiveAck(s)
  \/ s = Server /\ (ReceiveTerm \/ ReceiveInit)

Next ==
  \/ Start
  \/ \E i \in Sessions :
       \/ \E s \in Sides : Send(s, i)
       \/ ClientEnds(i) \/ Abandon(i) \/ ServerEnds(i) \/ SilenceTimeout(i)
  \/ \E s \in Sides : Receive(s)
  \/ AcceptTimeout \/ HandlerCancels \/ SocketCloses \/ Tick

Spec == Init /\ [][Next]_channelVars

\* The network delivers.
Fairness == \A s \in Sides : WF_channelVars(Receive(s))

FairSpec == Spec /\ Fairness
-----------------------------------------------------------------------------
Phases == {"none", "opening", "open", "closed", "dropped"}

Frames == [type : {"INIT", "ACK", "MSG", "TERM"}, nonce : 0 .. NonceLimit - 1,
           step : Nat, from : Sessions]

\* Every variable has its type, and nonces stay below the limit of the Atomic that
\* counts them (Initiate.ts), which is what a frame can carry.
TypeOK ==
  /\ started \in 0 .. MaxSessions
  /\ nonce \in [Sessions -> 0 .. NonceLimit - 1]
  /\ phase \in [Sides -> [Sessions -> Phases]]
  /\ sent \in [Sides -> [Sessions -> 0 .. MaxMessages]]
  /\ unacked \in [Sides -> [Sessions -> BOOLEAN]]
  /\ got \in [Sides -> [Sessions -> Seq(Sessions)]]
  /\ way \in [Sides -> Seq(Frames)]
  /\ accepting \in BOOLEAN
  /\ quiet \in [Sessions -> 0 .. Silence]
  /\ idle \in 0 .. Silence

\* An end of a session takes messages of the other end of its own session only
\* (recv matches by nonce and step; Initiate counts the nonces of a route).
NoCrossTalk ==
  \A s \in Sides, i \in Sessions : \A k \in DOMAIN got[s][i] : got[s][i][k] = i

\* TERM frees the server's end of the session whose client sent it, and of no other
\* (channel.ts takes a TERM of any step that has the session's nonce).
TermEndsItsOwn ==
  [][\A i \in Sessions :
       ReceiveTerm /\ phase[Server][i] = "open"
         => (phase'[Server][i] = "closed" <=> Head(way[Server]).from = i)]_channelVars

\* A session the client starts does not wait for ever for its first ACK: the
\* endpoint, unless it was stopped, has a turn waiting whatever its other sessions do
\* (channel.ts).
EveryStartIsAnswered ==
  \A i \in Sessions :
    phase[Client][i] = "opening" ~> phase[Client][i] # "opening" \/ ~accepting

\* No session of the server is open once the endpoint's task is cancelled
\* (channel.ts: the sessions' tasks are subtasks, and poll looks at the task).
StoppedMeansOver ==
  ~accepting => \A i \in Sessions : phase[Server][i] # "open"

\* A session of the server in which messages keep arriving is not ended for
\* silence (clientSilentDeadline, README: long lived streams).
ActiveSessionSurvives ==
  [][\A i \in Sessions :
       (AcceptTimeout /\ phase[Server][i] = "open" /\ phase[Client][i] = "open"
          /\ quiet[i] < Silence)
         => phase'[Server][i] = "open"]_channelVars
=============================================================================
