--------------------------- MODULE ChannelProofs ---------------------------
(***************************************************************************)
(* Proofs about Channel for any number of sessions and messages: its       *)
(* types, and that sessions of one socket do not mix, as long as no nonce  *)
(* is given again while a session or a frame still has it.                 *)
(***************************************************************************)
EXTENDS Channel, FiniteSetTheorems, SequenceTheorems, TLAPS

\* An end of the session is alive, or a frame of it is on its way.
Alive(i) ==
  \/ \E s \in Sides : phase[s][i] \in {"opening", "open"}
  \/ \E s \in Sides : \E k \in DOMAIN way[s] : way[s][k].from = i

\* A session that has not started has left no trace.
FreshIsNew == \A s \in Sides, i \in Sessions : i > started => phase[s][i] = "none"

\* A frame has the nonce of the session that sent it.
FramesAreBranded ==
  \A s \in Sides : \A k \in DOMAIN way[s] :
    way[s][k].from <= started /\ way[s][k].nonce = nonce[way[s][k].from]

\* No two sessions that are alive have the same nonce.
OneOwner ==
  \A i, j \in Sessions : Alive(i) /\ Alive(j) /\ nonce[i] = nonce[j] => i = j

CInv == TypeOK /\ FreshIsNew /\ FramesAreBranded /\ OneOwner /\ NoCrossTalk

-----------------------------------------------------------------------------
\* A value of a concatenation is a value of one of its parts.
LEMMA InConcat ==
  ASSUME NEW S, NEW a \in Seq(S), NEW b \in Seq(S), NEW k \in DOMAIN (a \o b)
  PROVE  \/ \E m \in DOMAIN a : (a \o b)[k] = a[m]
         \/ \E m \in DOMAIN b : (a \o b)[k] = b[m]
<1>1. k \in 1 .. Len(a) + Len(b)
  BY ConcatProperties, LenProperties
<1>2. CASE k <= Len(a)
  BY <1>1, <1>2, ConcatProperties, LenProperties
<1>3. CASE k > Len(a)
  <2>1. k - Len(a) \in DOMAIN b
    BY <1>1, <1>3, LenProperties
  <2>2. (a \o b)[k] = b[k - Len(a)]
    BY <1>1, <1>3, ConcatProperties, LenProperties
  <2> QED
    BY <2>1, <2>2
<1> QED
  BY <1>1, <1>2, <1>3, LenProperties

\* A value of a sequence's tail is a value of the sequence, and so is its head.
LEMMA InTail ==
  ASSUME NEW S, NEW a \in Seq(S), a # <<>>
  PROVE  /\ Tail(a) \in Seq(S) /\ Head(a) \in S
         /\ \E m \in DOMAIN a : Head(a) = a[m]
         /\ \A k \in DOMAIN Tail(a) : \E m \in DOMAIN a : Tail(a)[k] = a[m]
<1>1. Tail(a) \in Seq(S) /\ Head(a) \in S
  BY HeadTailProperties
<1>2. Len(a) \in Nat \ {0} /\ DOMAIN a = 1 .. Len(a) /\ Head(a) = a[1]
  BY EmptySeq, LenProperties, HeadTailProperties
<1>3. /\ Len(Tail(a)) = Len(a) - 1 /\ DOMAIN Tail(a) = 1 .. Len(Tail(a))
      /\ \A k \in 1 .. Len(Tail(a)) : Tail(a)[k] = a[k + 1]
  BY <1>1, HeadTailProperties, LenProperties
<1> QED
  BY <1>1, <1>2, <1>3

\* An order of some sessions is a sequence of them.
LEMMA OrderIsSeq ==
  ASSUME NEW S \in SUBSET Sessions, NEW o \in Orders(S)
  PROVE  o \in Seq(S) /\ DOMAIN o = 1 .. Len(o)
<1>1. IsFiniteSet(S)
  <2>1. IsFiniteSet(1 .. MaxSessions)
    BY FS_Interval, ChannelAssumption
  <2> QED
    BY <2>1, FS_Subset DEF Sessions
<1>2. Cardinality(S) \in Nat
  BY <1>1, FS_CardinalityType
<1> QED
  BY <1>2, SeqDef, LenProperties DEF Orders

\* The ACKs of a message are frames, and each is of a session that took it.
LEMMA AnswersAreFrames ==
  ASSUME nonce \in [Sessions -> 0 .. NonceLimit - 1], NEW S \in SUBSET Sessions,
         NEW o \in Orders(S), NEW step \in Nat
  PROVE  [k \in DOMAIN o |-> Frame("ACK", o[k], step)] \in Seq(Frames)
<1>1. o \in Seq(S) /\ DOMAIN o = 1 .. Len(o) /\ Len(o) \in Nat
  BY OrderIsSeq, LenProperties
<1>2. \A k \in DOMAIN o : Frame("ACK", o[k], step) \in Frames
  <2> TAKE k \in DOMAIN o
  <2>1. o[k] \in Sessions
    BY <1>1, ElementOfSeq
  <2> QED
    BY <2>1 DEF Frame, Frames
<1> QED
  BY <1>1, <1>2, SeqDef

\* A starter gives nonces below the limit.
LEMMA NonceType ==
  ASSUME TypeOK
  PROVE  NextNonce \in 0 .. NonceLimit - 1
  BY ChannelAssumption DEF TypeOK, NextNonce

\* Frames put on the way, and a head taken from it, leave ways.
LEMMA WayType ==
  ASSUME way \in [Sides -> Seq(Frames)], NEW s \in Sides, NEW new \in Seq(Frames)
  PROVE  /\ Sends(s, new) => way' \in [Sides -> Seq(Frames)]
         /\ way[s] # <<>> /\ Arrives(s, new) => way' \in [Sides -> Seq(Frames)]
<1>1. \A x \in Sides : way[x] \in Seq(Frames) /\ way[x] \o new \in Seq(Frames)
  BY ConcatProperties
<1>2. way[s] # <<>> => Tail(way[s]) \in Seq(Frames)
  BY <1>1, InTail
<1> QED
  BY <1>1, <1>2 DEF Sends, Arrives, Sides, Other, Client, Server

\* One end of one session changes its phase.
LEMMA PhaseType ==
  ASSUME phase \in [Sides -> [Sessions -> Phases]], NEW s \in Sides, NEW i \in Sessions,
         NEW v \in Phases, phase' = [phase EXCEPT ![s][i] = v]
  PROVE  phase' \in [Sides -> [Sessions -> Phases]]
  OBVIOUS

\* Some ends of one side change their phase.
LEMMA PhasesType ==
  ASSUME phase \in [Sides -> [Sessions -> Phases]], NEW s \in Sides, NEW v \in Phases,
         NEW S
  PROVE  [phase EXCEPT ![s] = [i \in Sessions |-> IF i \in S THEN v ELSE @[i]]]
           \in [Sides -> [Sessions -> Phases]]
  OBVIOUS

\* The endpoint's task takes the sessions of the server with it.
LEMMA StopType ==
  ASSUME phase \in [Sides -> [Sessions -> Phases]], Stop
  PROVE  accepting' \in BOOLEAN /\ phase' \in [Sides -> [Sessions -> Phases]]
<1>1. [i \in Sessions |-> IF phase[Server][i] = "open" THEN "closed" ELSE phase[Server][i]]
        \in [Sessions -> Phases]
  BY DEF Sides, Phases
<1> QED
  BY <1>1 DEF Stop, Sides

\* Every step keeps the types.
LEMMA TypeStep == TypeOK /\ [Next]_channelVars => TypeOK'
<1> SUFFICES ASSUME TypeOK, [Next]_channelVars
             PROVE  TypeOK'
  OBVIOUS
<1> USE ChannelAssumption
<1>t. /\ started \in 0 .. MaxSessions
      /\ nonce \in [Sessions -> 0 .. NonceLimit - 1]
      /\ phase \in [Sides -> [Sessions -> Phases]]
      /\ sent \in [Sides -> [Sessions -> 0 .. MaxMessages]]
      /\ unacked \in [Sides -> [Sessions -> BOOLEAN]]
      /\ got \in [Sides -> [Sessions -> Seq(Sessions)]]
      /\ way \in [Sides -> Seq(Frames)]
      /\ accepting \in BOOLEAN
      /\ quiet \in [Sessions -> 0 .. Silence]
      /\ idle \in 0 .. Silence
  BY DEF TypeOK
<1>p. /\ Client \in Sides /\ Server \in Sides /\ <<>> \in Seq(Frames)
      /\ "none" \in Phases /\ "opening" \in Phases /\ "open" \in Phases
      /\ "closed" \in Phases /\ "dropped" \in Phases
  BY DEF Sides, Phases
<1>1. CASE Start
  <2>1. NextNonce \in 0 .. NonceLimit - 1 /\ started + 1 \in Sessions
    BY <1>1, <1>t, NonceType DEF Start, Sessions
  <2>2. [type |-> "INIT", nonce |-> NextNonce, step |-> 0, from |-> started + 1] \in Frames
    BY <2>1 DEF Frames
  <2>3. way' \in [Sides -> Seq(Frames)]
    <3>1. Append(way[Server], [type |-> "INIT", nonce |-> NextNonce, step |-> 0,
                               from |-> started + 1]) \in Seq(Frames)
      BY <2>2, <1>t, <1>p, AppendProperties
    <3> QED
      BY <1>1, <1>t, <3>1 DEF Start
  <2>4. phase' \in [Sides -> [Sessions -> Phases]]
    <3>1. phase' = [phase EXCEPT ![Client][started + 1] = "opening"]
      BY <1>1 DEF Start
    <3> QED
      BY <1>t, <1>p, <2>1, <3>1, PhaseType
  <2>5. nonce' \in [Sessions -> 0 .. NonceLimit - 1] /\ started' \in 0 .. MaxSessions
    BY <1>1, <1>t, <2>1 DEF Start, Sessions
  <2> QED
    BY <1>1, <1>t, <2>3, <2>4, <2>5 DEF Start, TypeOK
<1>2. ASSUME NEW s \in Sides, NEW i \in Sessions, Send(s, i)
      PROVE  TypeOK'
  <2>1. Frame("MSG", i, sent[s][i] + 1) \in Frames
    BY <1>t DEF Frame, Frames
  <2>2. way' \in [Sides -> Seq(Frames)]
    <3>1. <<Frame("MSG", i, sent[s][i] + 1)>> \in Seq(Frames)
      BY <2>1
    <3>2. Sends(s, <<Frame("MSG", i, sent[s][i] + 1)>>)
      BY <1>2 DEF Send
    <3> QED
      BY <1>t, <3>1, <3>2, WayType
  <2>3. sent[s][i] + 1 \in 0 .. MaxMessages
    BY <1>2, <1>t DEF Send
  <2>4. sent' \in [Sides -> [Sessions -> 0 .. MaxMessages]]
    BY <1>2, <1>t, <2>3 DEF Send
  <2>5. unacked' \in [Sides -> [Sessions -> BOOLEAN]]
    BY <1>2, <1>t DEF Send
  <2> QED
    BY <1>2, <1>t, <2>2, <2>4, <2>5 DEF Send, TypeOK
<1>3. ASSUME NEW i \in Sessions, ClientEnds(i)
      PROVE  TypeOK'
  <2>1. Frame("TERM", i, sent[Client][i] + 1) \in Frames
    BY <1>t, <1>p DEF Frame, Frames
  <2>2. way' \in [Sides -> Seq(Frames)]
    <3>1. <<Frame("TERM", i, sent[Client][i] + 1)>> \in Seq(Frames)
      BY <2>1
    <3>2. Sends(Client, <<Frame("TERM", i, sent[Client][i] + 1)>>)
      BY <1>3 DEF ClientEnds
    <3> QED
      BY <1>t, <1>p, <3>1, <3>2, WayType
  <2>3. phase' \in [Sides -> [Sessions -> Phases]]
    <3>1. phase' = [phase EXCEPT ![Client][i] = "closed"]
      BY <1>3 DEF ClientEnds
    <3> QED
      BY <1>t, <1>p, <3>1, PhaseType
  <2> QED
    BY <1>3, <1>t, <2>2, <2>3 DEF ClientEnds, TypeOK
<1>4. ASSUME NEW i \in Sessions, Abandon(i) \/ ServerEnds(i) \/ SilenceTimeout(i)
      PROVE  TypeOK'
  <2>1. phase' \in [Sides -> [Sessions -> Phases]]
    <3>1. \/ phase' = [phase EXCEPT ![Client][i] = "dropped"]
          \/ phase' = [phase EXCEPT ![Server][i] = "closed"]
      BY <1>4 DEF Abandon, ServerEnds, SilenceTimeout
    <3> QED
      BY <1>t, <1>p, <3>1, PhaseType
  <2> QED
    BY <1>4, <1>t, <2>1 DEF Abandon, ServerEnds, SilenceTimeout, TypeOK
<1>5. ASSUME NEW s \in Sides, ReceiveMessage(s)
      PROVE  TypeOK'
  <2> DEFINE f == Head(way[s])
             takers == Takers(s, f)
  <2>1. f \in Frames
    BY <1>5, <1>t, InTail DEF ReceiveMessage
  <2>2. takers \in SUBSET Sessions
    BY DEF Takers
  <2>3. PICK order \in Orders(takers) :
          Arrives(s, [k \in DOMAIN order |-> Frame("ACK", order[k], f.step)])
    BY <1>5 DEF ReceiveMessage
  <2>4. [k \in DOMAIN order |-> Frame("ACK", order[k], f.step)] \in Seq(Frames)
    <3>1. f.step \in Nat
      BY <2>1 DEF Frames
    <3>2. nonce \in [Sessions -> 0 .. NonceLimit - 1]
      BY <1>t
    <3> HIDE DEF f, takers
    <3> QED
      BY <2>2, <2>3, <3>1, <3>2, AnswersAreFrames
  <2>5. way' \in [Sides -> Seq(Frames)]
    <3>1. way[s] # <<>>
      BY <1>5 DEF ReceiveMessage
    <3> HIDE DEF f
    <3> QED
      BY <1>t, <2>3, <2>4, <3>1, WayType
  <2>6. f.from \in Sessions
    BY <2>1 DEF Frames
  <2>7. got' \in [Sides -> [Sessions -> Seq(Sessions)]]
    <3>1. \A i \in Sessions : /\ got[s][i] \in Seq(Sessions)
                              /\ Append(got[s][i], f.from) \in Seq(Sessions)
      BY <1>t, <2>6, AppendProperties
    <3>2. [i \in Sessions |-> IF i \in takers THEN Append(got[s][i], f.from)
                              ELSE got[s][i]] \in [Sessions -> Seq(Sessions)]
      BY <3>1
    <3>3. got' = [got EXCEPT ![s] = [i \in Sessions |->
                    IF i \in takers THEN Append(got[s][i], f.from) ELSE got[s][i]]]
      BY <1>5 DEF ReceiveMessage
    <3> QED
      BY <1>t, <3>2, <3>3
  <2>8. quiet' \in [Sessions -> 0 .. Silence]
    BY <1>5, <1>t DEF ReceiveMessage
  <2> QED
    BY <1>5, <1>t, <2>5, <2>7, <2>8 DEF ReceiveMessage, TypeOK
<1>6. ASSUME NEW s \in Sides, ReceiveAck(s)
      PROVE  TypeOK'
  <2>1. way' \in [Sides -> Seq(Frames)]
    BY <1>6, <1>t, <1>p, WayType DEF ReceiveAck
  <2>2. phase' \in [Sides -> [Sessions -> Phases]]
    BY <1>6, <1>t, <1>p, PhasesType DEF ReceiveAck
  <2>3. unacked' \in [Sides -> [Sessions -> BOOLEAN]]
    BY <1>6, <1>t DEF ReceiveAck
  <2> QED
    BY <1>6, <1>t, <2>1, <2>2, <2>3 DEF ReceiveAck, TypeOK
<1>7. CASE ReceiveTerm
  <2>1. way' \in [Sides -> Seq(Frames)]
    BY <1>7, <1>t, <1>p, WayType DEF ReceiveTerm
  <2>2. phase' \in [Sides -> [Sessions -> Phases]]
    BY <1>7, <1>t, <1>p, PhasesType DEF ReceiveTerm
  <2> QED
    BY <1>7, <1>t, <2>1, <2>2 DEF ReceiveTerm, TypeOK
<1>8. CASE ReceiveInit
  <2>1. Head(way[Server]) \in Frames
    BY <1>8, <1>t, <1>p, InTail DEF ReceiveInit
  <2>2. Head(way[Server]).from \in Sessions
    BY <2>1 DEF Frames
  <2>3. Frame("ACK", Head(way[Server]).from, 0) \in Frames
    BY <2>2, <1>t DEF Frame, Frames
  <2>4. CASE accepting
    <3>1. way' \in [Sides -> Seq(Frames)]
      <4>1. way[Server] # <<>> /\ Arrives(Server, <<Frame("ACK", Head(way[Server]).from, 0)>>)
        BY <1>8, <2>4 DEF ReceiveInit
      <4>2. <<Frame("ACK", Head(way[Server]).from, 0)>> \in Seq(Frames)
        BY <2>3
      <4> QED
        BY <4>1, <4>2, <1>t, <1>p, WayType
    <3>2. phase' \in [Sides -> [Sessions -> Phases]]
      <4>1. phase' = [phase EXCEPT ![Server][Head(way[Server]).from] = "open"]
        BY <1>8, <2>4 DEF ReceiveInit
      <4> QED
        BY <1>t, <1>p, <2>2, <4>1, PhaseType
    <3> QED
      BY <1>8, <2>4, <1>t, <3>1, <3>2 DEF ReceiveInit, TypeOK
  <2>5. CASE ~accepting
    <3>1. way' \in [Sides -> Seq(Frames)]
      BY <1>8, <2>5, <1>t, <1>p, WayType DEF ReceiveInit
    <3> QED
      BY <1>8, <2>5, <1>t, <3>1 DEF ReceiveInit, TypeOK
  <2> QED
    BY <2>4, <2>5
<1>9. CASE AcceptTimeout \/ HandlerCancels
  <2>1. Stop
    BY <1>9 DEF AcceptTimeout, HandlerCancels
  <2>2. UNCHANGED <<started, nonce, sent, unacked, got, way, quiet, idle>>
    BY <1>9 DEF AcceptTimeout, HandlerCancels
  <2> QED
    BY <1>t, <2>1, <2>2, StopType DEF TypeOK
<1>10. CASE SocketCloses
  <2>1. phase' \in [Sides -> [Sessions -> Phases]]
    BY <1>10, <1>t, <1>p DEF SocketCloses
  <2>2. way' \in [Sides -> Seq(Frames)]
    BY <1>10, <1>p DEF SocketCloses
  <2> QED
    BY <1>10, <1>t, <2>1, <2>2 DEF SocketCloses, TypeOK
<1>11. CASE Tick
  <2>1. idle' \in 0 .. Silence
    BY <1>11, <1>t DEF Tick
  <2>2. quiet' \in [Sessions -> 0 .. Silence]
    BY <1>11, <1>t DEF Tick
  <2> QED
    BY <1>11, <1>t, <2>1, <2>2 DEF Tick, TypeOK
<1>12. CASE UNCHANGED channelVars
  BY <1>12, <1>t DEF channelVars, TypeOK
<1> QED
  BY <1>1, <1>2, <1>3, <1>4, <1>5, <1>6, <1>7, <1>8, <1>9, <1>10, <1>11, <1>12
  DEF Next, Receive

\* The variables keep their types (Channel, for every number of sessions).
THEOREM ChannelTypeCorrect == Spec => []TypeOK
<1>1. Init => TypeOK
  BY ChannelAssumption DEF Init, TypeOK, Phases, Sides
<1> QED
  BY <1>1, TypeStep, PTL DEF Spec

-----------------------------------------------------------------------------
\* A frame of a session that is alive, with the session's nonce.
Branded(f) == f.from \in Sessions /\ Alive(f.from) /\ f.nonce = nonce[f.from]

\* A step that starts no session: what is alive after it was alive before.
Tame ==
  /\ nonce' = nonce /\ started' = started
  /\ \A s \in Sides, i \in Sessions : phase'[s][i] \in {"opening", "open"} => Alive(i)
  /\ \A s \in Sides, i \in Sessions : i > started => phase'[s][i] = "none"
  /\ \A s \in Sides : \A k \in DOMAIN way'[s] : Branded(way'[s][k])

\* What is alive has started.
LEMMA AliveStarted ==
  ASSUME TypeOK, FreshIsNew, FramesAreBranded
  PROVE  \A i \in Sessions : Alive(i) => i <= started
<1> SUFFICES ASSUME NEW i \in Sessions, Alive(i)
             PROVE  i <= started
  OBVIOUS
<1>1. i \in Nat /\ started \in Nat
  BY ChannelAssumption DEF Sessions, TypeOK
<1>2. CASE \E s \in Sides : phase[s][i] \in {"opening", "open"}
  BY <1>1, <1>2 DEF FreshIsNew
<1>3. CASE \E s \in Sides : \E k \in DOMAIN way[s] : way[s][k].from = i
  BY <1>3 DEF FramesAreBranded
<1> QED
  BY <1>2, <1>3 DEF Alive

\* Every frame on its way is of a session that is alive.
LEMMA FramesAlive ==
  ASSUME TypeOK, FramesAreBranded, NEW s \in Sides, NEW k \in DOMAIN way[s]
  PROVE  way[s][k] \in Frames /\ Branded(way[s][k])
<1>1. way[s] \in Seq(Frames)
  BY DEF TypeOK
<1>2. way[s][k] \in Frames
  BY <1>1, ElementOfSeq, LenProperties
<1>3. way[s][k].from \in Sessions
  BY <1>2 DEF Frames
<1> QED
  BY <1>2, <1>3 DEF Branded, Alive, FramesAreBranded

\* A tame step keeps one owner for each nonce in use.
LEMMA TameKeeps ==
  ASSUME CInv, TypeOK', Tame
  PROVE  FreshIsNew' /\ FramesAreBranded' /\ OneOwner'
<1>1. \A i \in Sessions : Alive(i) => i <= started
  BY AliveStarted DEF CInv
<1>2. FreshIsNew'
  BY DEF Tame, FreshIsNew
<1>3. FramesAreBranded'
  BY <1>1 DEF Tame, FramesAreBranded, Branded
<1>4. \A i \in Sessions : Alive(i)' => Alive(i)
  <2> SUFFICES ASSUME NEW i \in Sessions, Alive(i)'
               PROVE  Alive(i)
    OBVIOUS
  <2>1. CASE \E s \in Sides : phase'[s][i] \in {"opening", "open"}
    BY <2>1 DEF Tame
  <2>2. CASE \E s \in Sides : \E k \in DOMAIN way'[s] : way'[s][k].from = i
    BY <2>2 DEF Tame, Branded
  <2> QED
    BY <2>1, <2>2 DEF Alive
<1>5. OneOwner'
  BY <1>4 DEF CInv, OneOwner, Tame
<1> QED
  BY <1>2, <1>3, <1>5

\* What is on its way after frames were sent or one arrived.
LEMMA WayOrigin ==
  ASSUME TypeOK, NEW s \in Sides, NEW new \in Seq(Frames),
         Sends(s, new) \/ (way[s] # <<>> /\ Arrives(s, new)),
         NEW x \in Sides, NEW k \in DOMAIN way'[x]
  PROVE  \/ \E m \in DOMAIN way[x] : way'[x][k] = way[x][m]
         \/ \E m \in DOMAIN new : way'[x][k] = new[m]
<1>1. way \in [Sides -> Seq(Frames)]
  BY DEF TypeOK
<1>2. CASE x = Other(s)
  <2>1. way'[x] = way[x] \o new
    BY <1>1, <1>2 DEF Sends, Arrives, Sides, Other, Client, Server
  <2> QED
    BY <1>1, <2>1, InConcat
<1>3. CASE x # Other(s)
  <2>1. x = s
    BY <1>3 DEF Sides, Other, Client, Server
  <2>2. CASE Sends(s, new)
    <3>1. way'[x] = way[x]
      BY <1>1, <1>3, <2>2 DEF Sends
    <3> QED
      BY <3>1
  <2>3. CASE way[s] # <<>> /\ Arrives(s, new)
    <3>1. way'[x] = Tail(way[x])
      BY <1>1, <1>3, <2>1, <2>3 DEF Arrives
    <3> QED
      BY <1>1, <2>1, <2>3, <3>1, InTail
  <2> QED
    BY <2>2, <2>3
<1> QED
  BY <1>2, <1>3

\* Frames of sessions that are alive keep the ways tame.
LEMMA TameWay ==
  ASSUME TypeOK, FramesAreBranded, NEW s \in Sides, NEW new \in Seq(Frames),
         Sends(s, new) \/ (way[s] # <<>> /\ Arrives(s, new)),
         \A m \in DOMAIN new : Branded(new[m])
  PROVE  \A x \in Sides : \A k \in DOMAIN way'[x] : Branded(way'[x][k])
<1> TAKE x \in Sides
<1> TAKE k \in DOMAIN way'[x]
<1>1. \/ \E m \in DOMAIN way[x] : way'[x][k] = way[x][m]
      \/ \E m \in DOMAIN new : way'[x][k] = new[m]
  BY WayOrigin
<1> QED
  BY <1>1, FramesAlive

\* The phases of a step by which no session that was not alive becomes so.
LEMMA TamePhase ==
  ASSUME TypeOK, FreshIsNew, FramesAreBranded, NEW S, NEW s \in Sides,
         \A i \in Sessions : i \in S => Alive(i),
         \A x \in Sides, i \in Sessions : phase'[x][i] # phase[x][i] => i \in S
  PROVE  /\ \A x \in Sides, i \in Sessions :
              phase'[x][i] \in {"opening", "open"} => Alive(i)
         /\ \A x \in Sides, i \in Sessions : i > started => phase'[x][i] = "none"
<1>1. \A i \in Sessions : Alive(i) => i <= started
  BY AliveStarted
<1>2. \A i \in Sessions : i > started => ~ (i <= started)
  BY ChannelAssumption DEF Sessions, TypeOK
<1> QED
  BY <1>1, <1>2 DEF FreshIsNew, Alive

\* A frame at the head, of a session that is alive, finds its own session only.
LEMMA TakesItsOwn ==
  ASSUME CInv, NEW s \in Sides, way[s] # <<>>
  PROVE  /\ Head(way[s]) \in Frames /\ Branded(Head(way[s]))
         /\ \A i \in Takers(s, Head(way[s])) :
              i \in Sessions /\ Alive(i) /\ i = Head(way[s]).from
<1>1. way[s] \in Seq(Frames)
  BY DEF CInv, TypeOK
<1>2. PICK m \in DOMAIN way[s] : Head(way[s]) = way[s][m]
  BY <1>1, InTail
<1>3. Head(way[s]) \in Frames /\ Branded(Head(way[s]))
  BY <1>2, FramesAlive DEF CInv
<1>4. ASSUME NEW i \in Takers(s, Head(way[s]))
      PROVE  i \in Sessions /\ Alive(i) /\ i = Head(way[s]).from
  <2>1. i \in Sessions /\ Head(way[s]).nonce = nonce[i]
    BY <1>4 DEF Takers, Takes
  <2>2. phase[s][i] \in {"opening", "open"}
    BY <1>4 DEF Takers, Takes
  <2>3. Alive(i)
    BY <2>1, <2>2 DEF Alive
  <2> QED
    BY <1>3, <2>1, <2>3 DEF CInv, OneOwner, Branded
<1> QED
  BY <1>3, <1>4

\* A session starts with a nonce nothing has.
LEMMA StartKeeps ==
  ASSUME NonceFree, CInv, Start
  PROVE  FreshIsNew' /\ FramesAreBranded' /\ OneOwner' /\ NoCrossTalk'
<1> DEFINE n == started + 1
           init == [type |-> "INIT", nonce |-> NextNonce, step |-> 0, from |-> n]
<1> USE ChannelAssumption
<1>t. /\ started \in Nat /\ n \in Sessions
      /\ nonce \in [Sessions -> 0 .. NonceLimit - 1]
      /\ phase \in [Sides -> [Sessions -> Phases]]
      /\ way \in [Sides -> Seq(Frames)]
  BY DEF CInv, TypeOK, Start, Sessions
<1>p. Client \in Sides /\ Server \in Sides
  BY DEF Sides
<1>0. NextNonce \in 0 .. NonceLimit - 1
  BY NonceType DEF CInv
<1>1. init \in Frames
  BY <1>0, <1>t DEF Frames
<1>2. /\ nonce' = [nonce EXCEPT ![n] = NextNonce]
      /\ started' = n
      /\ phase' = [phase EXCEPT ![Client][n] = "opening"]
      /\ way' = [way EXCEPT ![Server] = Append(@, init)]
      /\ UNCHANGED got
      /\ ~InUse(NextNonce)
  BY DEF Start
<1>3. \A i \in Sessions : Alive(i) => i <= started
  BY AliveStarted DEF CInv
<1>4. \A i \in Sessions : i # n => nonce'[i] = nonce[i]
  BY <1>2, <1>t
<1>5. nonce'[n] = NextNonce
  BY <1>2, <1>t
<1>6. \A s \in Sides : \A k \in DOMAIN way'[s] :
        \/ \E m \in DOMAIN way[s] : way'[s][k] = way[s][m]
        \/ way'[s][k] = init
  <2> TAKE s \in Sides
  <2> TAKE k \in DOMAIN way'[s]
  <2>1. CASE s = Server
    <3>1. way'[s] = Append(way[s], init) /\ way[s] \in Seq(Frames)
      BY <1>2, <1>t, <2>1
    <3> HIDE DEF init
    <3>2. /\ DOMAIN way'[s] = 1 .. Len(way[s]) + 1
          /\ \A i \in 1 .. Len(way[s]) : way'[s][i] = way[s][i]
          /\ way'[s][Len(way[s]) + 1] = init
          /\ DOMAIN way[s] = 1 .. Len(way[s]) /\ Len(way[s]) \in Nat
      BY <1>1, <3>1, AppendProperties, LenProperties
    <3> QED
      BY <3>2
  <2>2. CASE s # Server
    BY <1>2, <1>t, <2>2
  <2> QED
    BY <2>1, <2>2
<1>7. FreshIsNew'
  <2> SUFFICES ASSUME NEW s \in Sides, NEW i \in Sessions, i > n
               PROVE  phase'[s][i] = "none"
    BY <1>2 DEF FreshIsNew
  <2>1. i > started /\ i # n
    BY <1>t DEF Sessions
  <2>2. phase'[s][i] = phase[s][i]
    BY <1>2, <1>t, <2>1
  <2> QED
    BY <2>1, <2>2 DEF CInv, FreshIsNew
<1>8. FramesAreBranded'
  <2> SUFFICES ASSUME NEW s \in Sides, NEW k \in DOMAIN way'[s]
               PROVE  way'[s][k].from <= n /\ way'[s][k].nonce = nonce'[way'[s][k].from]
    BY <1>2 DEF FramesAreBranded
  <2>1. CASE way'[s][k] = init
    BY <1>5, <1>t, <2>1
  <2>2. ASSUME NEW m \in DOMAIN way[s], way'[s][k] = way[s][m]
        PROVE  way'[s][k].from <= n /\ way'[s][k].nonce = nonce'[way'[s][k].from]
    <3>1. way[s][m].from \in Sessions /\ way[s][m].from <= started
            /\ way[s][m].nonce = nonce[way[s][m].from]
      BY FramesAlive DEF CInv, FramesAreBranded, Branded
    <3>2. way[s][m].from # n /\ way[s][m].from <= n
      BY <3>1, <1>t DEF Sessions
    <3> QED
      BY <2>2, <3>1, <3>2, <1>4
  <2> QED
    BY <1>6, <2>1, <2>2
<1>9. \A i \in Sessions : Alive(i)' /\ i # n => Alive(i)
  <2> SUFFICES ASSUME NEW i \in Sessions, Alive(i)', i # n
               PROVE  Alive(i)
    OBVIOUS
  <2>1. CASE \E s \in Sides : phase'[s][i] \in {"opening", "open"}
    <3>1. \A s \in Sides : phase'[s][i] = phase[s][i]
      BY <1>2, <1>t
    <3> QED
      BY <2>1, <3>1 DEF Alive
  <2>2. CASE \E s \in Sides : \E k \in DOMAIN way'[s] : way'[s][k].from = i
    BY <2>2, <1>6 DEF Alive
  <2> QED
    BY <2>1, <2>2 DEF Alive
<1>10. \A i \in Sessions : Alive(i) => i # n /\ nonce[i] # NextNonce
  <2> SUFFICES ASSUME NEW i \in Sessions, Alive(i)
               PROVE  i # n /\ nonce[i] # NextNonce
    OBVIOUS
  <2>1. i <= started /\ i # n /\ i \in 1 .. started
    BY <1>3, <1>t DEF Sessions
  <2>2. CASE \E s \in Sides : phase[s][i] \in {"opening", "open"}
    BY <1>2, <2>1, <2>2 DEF InUse
  <2>3. CASE \E s \in Sides : \E k \in DOMAIN way[s] : way[s][k].from = i
    BY <1>2, <2>1, <2>3 DEF InUse, CInv, FramesAreBranded
  <2> QED
    BY <2>1, <2>2, <2>3 DEF Alive
<1>11. OneOwner'
  <2> SUFFICES ASSUME NEW i \in Sessions, NEW j \in Sessions, Alive(i)', Alive(j)',
                      nonce'[i] = nonce'[j]
               PROVE  i = j
    BY DEF OneOwner
  <2>1. CASE i # n /\ j # n
    BY <2>1, <1>4, <1>9 DEF CInv, OneOwner
  <2>2. CASE i = n /\ j # n
    BY <2>2, <1>4, <1>5, <1>9, <1>10
  <2>3. CASE i # n /\ j = n
    BY <2>3, <1>4, <1>5, <1>9, <1>10
  <2> QED
    BY <2>1, <2>2, <2>3
<1>12. NoCrossTalk'
  BY <1>2 DEF CInv, NoCrossTalk
<1> QED
  BY <1>7, <1>8, <1>11, <1>12

\* Every step keeps the sessions apart.
LEMMA CInvStep ==
  ASSUME NonceFree
  PROVE  CInv /\ [Next]_channelVars => CInv'
<1> SUFFICES ASSUME CInv, [Next]_channelVars
             PROVE  CInv'
  OBVIOUS
<1>p. Client \in Sides /\ Server \in Sides
  BY DEF Sides
<1>t. TypeOK /\ TypeOK' /\ FreshIsNew /\ FramesAreBranded
  BY TypeStep DEF CInv
<1>w. way \in [Sides -> Seq(Frames)] /\ phase \in [Sides -> [Sessions -> Phases]]
  BY <1>t DEF TypeOK
<1> DEFINE Kept == FreshIsNew' /\ FramesAreBranded' /\ OneOwner' /\ NoCrossTalk'
<1>1. ASSUME Tame, UNCHANGED got
      PROVE  Kept
  BY <1>1, <1>t, TameKeeps DEF CInv, NoCrossTalk
<1>2. ASSUME UNCHANGED <<nonce, started, way, got>>,
             NEW S, NEW s \in Sides, \A i \in Sessions : i \in S => Alive(i),
             \A x \in Sides, i \in Sessions : phase'[x][i] # phase[x][i] => i \in S
      PROVE  Kept
  <2>1. \A x \in Sides : \A k \in DOMAIN way'[x] : Branded(way'[x][k])
    BY <1>2, <1>t, FramesAlive
  <2>2. Tame
    BY <1>2, <1>t, <2>1, TamePhase DEF Tame
  <2> QED
    BY <1>1, <1>2, <2>2
<1>3. ASSUME NEW s \in Sides, NEW i \in Sessions, Send(s, i)
      PROVE  Kept
  <2>1. phase[s][i] = "open" /\ Alive(i)
    BY <1>3 DEF Send, Alive
  <2>2. Branded(Frame("MSG", i, sent[s][i] + 1))
    BY <2>1 DEF Branded, Frame
  <2>3. <<Frame("MSG", i, sent[s][i] + 1)>> \in Seq(Frames)
    BY <1>t DEF Frame, Frames, TypeOK
  <2>4. Sends(s, <<Frame("MSG", i, sent[s][i] + 1)>>)
    BY <1>3 DEF Send
  <2>5. \A m \in DOMAIN <<Frame("MSG", i, sent[s][i] + 1)>> :
          Branded(<<Frame("MSG", i, sent[s][i] + 1)>>[m])
    BY <2>2
  <2>6. \A x \in Sides : \A k \in DOMAIN way'[x] : Branded(way'[x][k])
    BY <1>t, <2>3, <2>4, <2>5, TameWay
  <2>7. UNCHANGED <<nonce, started, phase, got>>
    BY <1>3 DEF Send
  <2>8. Tame
    BY <1>t, <2>6, <2>7 DEF Tame, FreshIsNew, Alive
  <2> QED
    BY <1>1, <2>7, <2>8
<1>4. ASSUME NEW i \in Sessions, ClientEnds(i)
      PROVE  Kept
  <2> DEFINE new == <<Frame("TERM", i, sent[Client][i] + 1)>>
  <2>1. phase[Client][i] = "open" /\ Alive(i)
    BY <1>4, <1>p DEF ClientEnds, Alive
  <2>2. Branded(Frame("TERM", i, sent[Client][i] + 1))
    BY <2>1 DEF Branded, Frame
  <2>3. new \in Seq(Frames)
    BY <1>t, <1>p DEF Frame, Frames, TypeOK
  <2>4. Sends(Client, new)
    BY <1>4 DEF ClientEnds
  <2>5. \A m \in DOMAIN new : Branded(new[m])
    BY <2>2
  <2>6. \A x \in Sides : \A k \in DOMAIN way'[x] : Branded(way'[x][k])
    BY <1>t, <1>p, <2>3, <2>4, <2>5, TameWay
  <2>7. UNCHANGED <<nonce, started, got>>
        /\ phase' = [phase EXCEPT ![Client][i] = "closed"]
    BY <1>4 DEF ClientEnds
  <2>8. \A x \in Sides, j \in Sessions : phase'[x][j] # phase[x][j] => j \in {i}
    BY <2>7, <1>w
  <2>9. Tame
    BY <1>t, <1>p, <2>1, <2>6, <2>7, <2>8, TamePhase DEF Tame
  <2> QED
    BY <1>1, <2>7, <2>9
<1>5. ASSUME NEW i \in Sessions, Abandon(i) \/ ServerEnds(i) \/ SilenceTimeout(i)
      PROVE  Kept
  <2>1. Alive(i)
    BY <1>5, <1>p DEF Abandon, ServerEnds, SilenceTimeout, Alive
  <2>2. \/ phase' = [phase EXCEPT ![Client][i] = "dropped"]
        \/ phase' = [phase EXCEPT ![Server][i] = "closed"]
    BY <1>5 DEF Abandon, ServerEnds, SilenceTimeout
  <2>3. \A x \in Sides, j \in Sessions : phase'[x][j] # phase[x][j] => j \in {i}
    BY <2>2, <1>w
  <2>4. UNCHANGED <<nonce, started, way, got>>
    BY <1>5 DEF Abandon, ServerEnds, SilenceTimeout
  <2> QED
    BY <1>2, <1>p, <2>1, <2>3, <2>4
<1>6. ASSUME NEW s \in Sides, ReceiveMessage(s)
      PROVE  Kept
  <2> DEFINE f == Head(way[s])
             takers == Takers(s, f)
  <2>1. /\ f \in Frames /\ Branded(f)
        /\ \A i \in takers : i \in Sessions /\ Alive(i) /\ i = f.from
    BY <1>6, TakesItsOwn DEF ReceiveMessage
  <2>2. PICK order \in Orders(takers) :
          Arrives(s, [k \in DOMAIN order |-> Frame("ACK", order[k], f.step)])
    BY <1>6 DEF ReceiveMessage
  <2> DEFINE new == [k \in DOMAIN order |-> Frame("ACK", order[k], f.step)]
  <2>3. order \in Seq(takers) /\ DOMAIN order = 1 .. Len(order)
    <3>1. takers \in SUBSET Sessions
      BY DEF Takers
    <3> HIDE DEF takers
    <3> QED
      BY <2>2, <3>1, OrderIsSeq
  <2>4. new \in Seq(Frames)
    <3>1. takers \in SUBSET Sessions /\ f.step \in Nat
      BY <2>1 DEF Takers, Frames
    <3>2. nonce \in [Sessions -> 0 .. NonceLimit - 1]
      BY <1>t DEF TypeOK
    <3> HIDE DEF takers, f
    <3> QED
      BY <2>2, <3>1, <3>2, AnswersAreFrames
  <2>5. \A m \in DOMAIN new : Branded(new[m])
    <3> SUFFICES ASSUME NEW m \in DOMAIN order
                 PROVE  Branded(Frame("ACK", order[m], f.step))
      OBVIOUS
    <3>1. order[m] \in takers
      BY <2>3, ElementOfSeq
    <3> QED
      BY <2>1, <3>1 DEF Branded, Frame
  <2>6. way[s] # <<>>
    BY <1>6 DEF ReceiveMessage
  <2>7. \A x \in Sides : \A k \in DOMAIN way'[x] : Branded(way'[x][k])
    <3> HIDE DEF new
    <3> QED
      BY <1>t, <2>2, <2>4, <2>5, <2>6, TameWay DEF new
  <2>8. UNCHANGED <<nonce, started, phase>>
    BY <1>6 DEF ReceiveMessage
  <2>9. Tame
    BY <1>t, <2>7, <2>8 DEF Tame, FreshIsNew, Alive
  <2>10. FreshIsNew' /\ FramesAreBranded' /\ OneOwner'
    BY <1>t, <2>9, TameKeeps
  <2>11. got' = [got EXCEPT ![s] = [i \in Sessions |->
                   IF i \in takers THEN Append(got[s][i], f.from) ELSE got[s][i]]]
    BY <1>6 DEF ReceiveMessage
  <2>12. NoCrossTalk'
    <3> SUFFICES ASSUME NEW x \in Sides, NEW i \in Sessions, NEW k \in DOMAIN got'[x][i]
                 PROVE  got'[x][i][k] = i
      BY DEF NoCrossTalk
    <3>1. got \in [Sides -> [Sessions -> Seq(Sessions)]]
      BY <1>t DEF TypeOK
    <3>2. CASE x = s /\ i \in takers
      <4>1. got'[x][i] = Append(got[x][i], f.from)
        BY <2>11, <3>1, <3>2
      <4>2. f.from = i
        BY <2>1, <3>2
      <4>3. /\ DOMAIN got'[x][i] = 1 .. Len(got[x][i]) + 1
            /\ \A m \in 1 .. Len(got[x][i]) : got'[x][i][m] = got[x][i][m]
            /\ got'[x][i][Len(got[x][i]) + 1] = f.from
            /\ DOMAIN got[x][i] = 1 .. Len(got[x][i]) /\ Len(got[x][i]) \in Nat
        <5>1. got[x][i] \in Seq(Sessions) /\ f.from \in Sessions
          BY <3>1, <4>2
        <5> HIDE DEF f
        <5> QED
          BY <4>1, <5>1, AppendProperties, LenProperties
      <4>4. \A m \in 1 .. Len(got[x][i]) : got[x][i][m] = i
        BY <4>3 DEF CInv, NoCrossTalk
      <4>5. CASE k \in 1 .. Len(got[x][i])
        BY <4>3, <4>4, <4>5
      <4>6. CASE k = Len(got[x][i]) + 1
        BY <4>2, <4>3, <4>6
      <4>7. k \in 1 .. Len(got[x][i]) \/ k = Len(got[x][i]) + 1
        <5>1. k \in 1 .. Len(got[x][i]) + 1 /\ Len(got[x][i]) \in Nat
          BY <4>3
        <5> QED
          BY <5>1
      <4> QED
        BY <4>5, <4>6, <4>7
    <3>3. CASE ~(x = s /\ i \in takers)
      <4>1. got'[x][i] = got[x][i]
        BY <2>11, <3>1, <3>3
      <4> QED
        BY <4>1 DEF CInv, NoCrossTalk
    <3> QED
      BY <3>2, <3>3
  <2> QED
    BY <2>10, <2>12
<1>7. ASSUME NEW s \in Sides, ReceiveAck(s)
      PROVE  Kept
  <2> DEFINE takers == Takers(s, Head(way[s]))
  <2>1. \A i \in takers : i \in Sessions /\ Alive(i)
    BY <1>7, TakesItsOwn DEF ReceiveAck
  <2>2. \A x \in Sides, j \in Sessions : phase'[x][j] # phase[x][j] => j \in takers
    <3>1. phase' = [phase EXCEPT ![s] = [i \in Sessions |->
                      IF i \in takers THEN "open" ELSE phase[s][i]]]
      BY <1>7 DEF ReceiveAck
    <3> HIDE DEF takers
    <3> QED
      BY <3>1, <1>w
  <2>3. way[s] # <<>> /\ Arrives(s, <<>>)
    BY <1>7 DEF ReceiveAck
  <2>4. \A x \in Sides : \A k \in DOMAIN way'[x] : Branded(way'[x][k])
    <3>1. <<>> \in Seq(Frames) /\ \A m \in DOMAIN <<>> : Branded(<<>>[m])
      BY EmptySeq
    <3> QED
      BY <1>t, <2>3, <3>1, TameWay
  <2>5. UNCHANGED <<nonce, started, got>>
    BY <1>7 DEF ReceiveAck
  <2>6. Tame
    <3> HIDE DEF takers
    <3> QED
      BY <1>t, <2>1, <2>2, <2>4, <2>5, TamePhase DEF Tame
  <2> QED
    BY <1>1, <2>5, <2>6
<1>8. ASSUME ReceiveTerm
      PROVE  Kept
  <2> DEFINE takers == Takers(Server, Head(way[Server]))
  <2>1. \A i \in takers : i \in Sessions /\ Alive(i)
    BY <1>8, <1>p, TakesItsOwn DEF ReceiveTerm
  <2>2. \A x \in Sides, j \in Sessions : phase'[x][j] # phase[x][j] => j \in takers
    <3>1. phase' = [phase EXCEPT ![Server] = [i \in Sessions |->
                      IF i \in takers THEN "closed" ELSE phase[Server][i]]]
      BY <1>8 DEF ReceiveTerm
    <3> HIDE DEF takers
    <3> QED
      BY <3>1, <1>w
  <2>3. way[Server] # <<>> /\ Arrives(Server, <<>>)
    BY <1>8 DEF ReceiveTerm
  <2>4. \A x \in Sides : \A k \in DOMAIN way'[x] : Branded(way'[x][k])
    <3>1. <<>> \in Seq(Frames) /\ \A m \in DOMAIN <<>> : Branded(<<>>[m])
      BY EmptySeq
    <3> QED
      BY <1>t, <1>p, <2>3, <3>1, TameWay
  <2>5. UNCHANGED <<nonce, started, got>>
    BY <1>8 DEF ReceiveTerm
  <2>6. Tame
    <3> HIDE DEF takers
    <3> QED
      BY <1>t, <1>p, <2>1, <2>2, <2>4, <2>5, TamePhase DEF Tame
  <2> QED
    BY <1>1, <2>5, <2>6
<1>9. ASSUME ReceiveInit
      PROVE  Kept
  <2> DEFINE f == Head(way[Server])
  <2>1. way[Server] # <<>> /\ f \in Frames /\ Branded(f)
    BY <1>9, <1>p, TakesItsOwn DEF ReceiveInit
  <2>2. UNCHANGED <<nonce, started, got>>
    BY <1>9 DEF ReceiveInit
  <2>3. f.from \in Sessions /\ Alive(f.from)
    BY <2>1 DEF Branded
  <2>4. CASE accepting
    <3>1. phase' = [phase EXCEPT ![Server][f.from] = "open"]
          /\ Arrives(Server, <<Frame("ACK", f.from, 0)>>)
      BY <1>9, <2>4 DEF ReceiveInit
    <3>2. Branded(Frame("ACK", f.from, 0))
      BY <2>3 DEF Branded, Frame
    <3>3. <<Frame("ACK", f.from, 0)>> \in Seq(Frames)
      <4>1. nonce[f.from] \in 0 .. NonceLimit - 1
        BY <1>t, <2>3 DEF TypeOK
      <4>2. Frame("ACK", f.from, 0) \in Frames
        BY <2>3, <4>1 DEF Frame, Frames
      <4> QED
        BY <4>2
    <3>4. \A m \in DOMAIN <<Frame("ACK", f.from, 0)>> :
            Branded(<<Frame("ACK", f.from, 0)>>[m])
      BY <3>2
    <3> HIDE DEF f
    <3>5. \A x \in Sides : \A k \in DOMAIN way'[x] : Branded(way'[x][k])
      BY <1>t, <1>p, <2>1, <3>1, <3>3, <3>4, TameWay
    <3>6. \A x \in Sides, j \in Sessions : phase'[x][j] # phase[x][j] => j \in {f.from}
      BY <3>1, <1>w, <2>3
    <3>7. Tame
      BY <1>t, <1>p, <2>2, <2>3, <3>5, <3>6, TamePhase DEF Tame
    <3> QED
      BY <1>1, <2>2, <3>7
  <2>5. CASE ~accepting
    <3>1. UNCHANGED phase /\ Arrives(Server, <<>>)
      BY <1>9, <2>5 DEF ReceiveInit
    <3>2. <<>> \in Seq(Frames) /\ \A m \in DOMAIN <<>> : Branded(<<>>[m])
      BY EmptySeq
    <3>3. \A x \in Sides : \A k \in DOMAIN way'[x] : Branded(way'[x][k])
      BY <1>t, <1>p, <2>1, <3>1, <3>2, TameWay
    <3>4. Tame
      BY <1>t, <2>2, <3>1, <3>3 DEF Tame, FreshIsNew, Alive
    <3> QED
      BY <1>1, <2>2, <3>4
  <2> QED
    BY <2>4, <2>5
<1>10. ASSUME AcceptTimeout \/ HandlerCancels
       PROVE  Kept
  <2>1. UNCHANGED <<nonce, started, way, got>>
    BY <1>10 DEF AcceptTimeout, HandlerCancels
  <2>2. phase' = [phase EXCEPT ![Server] = [i \in Sessions |->
                    IF phase[Server][i] = "open" THEN "closed" ELSE phase[Server][i]]]
    BY <1>10 DEF AcceptTimeout, HandlerCancels, Stop
  <2> DEFINE S == {i \in Sessions : phase[Server][i] = "open"}
  <2>3. \A x \in Sides, j \in Sessions : phase'[x][j] # phase[x][j] => j \in S
    BY <2>2, <1>w
  <2>4. \A i \in Sessions : i \in S => Alive(i)
    BY <1>p DEF Alive
  <2> HIDE DEF S
  <2> QED
    BY <1>2, <1>p, <2>1, <2>3, <2>4
<1>11. ASSUME SocketCloses
       PROVE  Kept
  <2>1. UNCHANGED <<nonce, started, got>> /\ way' = [s \in Sides |-> <<>>]
    BY <1>11 DEF SocketCloses
  <2>2. \A x \in Sides, j \in Sessions :
          phase'[x][j] = IF phase[x][j] \in {"opening", "open"} THEN "closed"
                         ELSE phase[x][j]
    BY <1>11 DEF SocketCloses
  <2>3. Tame
    BY <1>t, <2>1, <2>2 DEF Tame, FreshIsNew, Alive
  <2> QED
    BY <1>1, <2>1, <2>3
<1>12. ASSUME Tick \/ UNCHANGED channelVars
       PROVE  Kept
  <2>1. UNCHANGED <<nonce, started, phase, way, got>>
    BY <1>12 DEF Tick, channelVars
  <2>2. \A x \in Sides : \A k \in DOMAIN way'[x] : Branded(way'[x][k])
    BY <2>1, <1>t, FramesAlive
  <2>3. Tame
    BY <1>t, <2>1, <2>2 DEF Tame, FreshIsNew, Alive
  <2> QED
    BY <1>1, <2>1, <2>3
<1>13. ASSUME Start
       PROVE  Kept
  BY <1>13, StartKeeps
<1>14. Kept
  <2> HIDE DEF Kept
  <2> QED
    BY <1>3, <1>4, <1>5, <1>6, <1>7, <1>8, <1>9, <1>10, <1>11, <1>12, <1>13
    DEF Next, Receive
<1> QED
  BY <1>t, <1>14 DEF CInv

\* As long as no nonce is given again while it is in use, the ends of a session
\* take messages of each other only: MSG frames find the session that sent them
\* by nonce and step (recv, Initiate).
THEOREM SessionsAreApart ==
  ASSUME NonceFree
  PROVE  Spec => []NoCrossTalk
<1>1. Init => CInv
  BY ChannelAssumption
  DEF Init, CInv, TypeOK, Phases, Sides, FreshIsNew, FramesAreBranded, OneOwner, Alive,
      NoCrossTalk
<1>2. CInv /\ [Next]_channelVars => CInv'
  BY CInvStep
<1>3. CInv => NoCrossTalk
  BY DEF CInv
<1> QED
  BY <1>1, <1>2, <1>3, PTL DEF Spec

\* Under the same assumption a TERM frees its sender's session and no other
\* (channel.ts compares a TERM's nonce and not its step).
THEOREM TermsFindTheirSession ==
  ASSUME NonceFree
  PROVE  Spec => TermEndsItsOwn
<1>1. Init => CInv
  BY ChannelAssumption
  DEF Init, CInv, TypeOK, Phases, Sides, FreshIsNew, FramesAreBranded, OneOwner, Alive,
      NoCrossTalk
<1>2. CInv /\ [Next]_channelVars => CInv'
  BY CInvStep
<1> DEFINE Own == \A i \in Sessions :
              ReceiveTerm /\ phase[Server][i] = "open"
                => (phase'[Server][i] = "closed" <=> Head(way[Server]).from = i)
<1>3. CInv => Own
  <2> SUFFICES ASSUME CInv, NEW i \in Sessions, ReceiveTerm, phase[Server][i] = "open"
               PROVE  phase'[Server][i] = "closed" <=> Head(way[Server]).from = i
    OBVIOUS
  <2> DEFINE f == Head(way[Server])
  <2>p. Server \in Sides
    BY DEF Sides
  <2>1. phase' = [phase EXCEPT ![Server] = [j \in Sessions |->
                    IF j \in Takers(Server, f) THEN "closed" ELSE phase[Server][j]]]
    BY DEF ReceiveTerm
  <2>2. phase \in [Sides -> [Sessions -> Phases]]
    BY DEF CInv, TypeOK
  <2>3. phase'[Server][i] = "closed" <=> i \in Takers(Server, f)
    BY <2>p, <2>1, <2>2
  <2>4. way[Server] # <<>> /\ f.type = "TERM"
    BY DEF ReceiveTerm
  <2>5. i \in Takers(Server, f) => f.from = i
    BY <2>p, <2>4, TakesItsOwn
  <2>6. ASSUME f.from = i
        PROVE  i \in Takers(Server, f)
    <3>1. f \in Frames /\ Branded(f)
      BY <2>p, <2>4, TakesItsOwn
    <3>2. f.nonce = nonce[i]
      BY <2>6, <3>1 DEF Branded
    <3> QED
      BY <2>4, <3>2 DEF Takers, Takes
  <2> QED
    BY <2>3, <2>5, <2>6
<1> QED
  BY <1>1, <1>2, <1>3, PTL DEF Spec, TermEndsItsOwn

\* The server's end of a session is never opening: it opens with the INIT.
StopInv == StoppedMeansOver /\ \A i \in Sessions : phase[Server][i] # "opening"

\* No step opens a session of the server once the endpoint's task is cancelled.
LEMMA StoppedStep == TypeOK /\ StopInv /\ [Next]_channelVars => StopInv'
<1> SUFFICES ASSUME TypeOK, StopInv, [Next]_channelVars
             PROVE  StopInv'
  OBVIOUS
<1>w. phase \in [Sides -> [Sessions -> Phases]] /\ Server \in Sides /\ Client # Server
  BY DEF TypeOK, Sides, Client, Server
<1>1. ASSUME UNCHANGED accepting,
             \A i \in Sessions : phase'[Server][i] = "opening" => phase[Server][i] = "opening",
             ~accepting => \A i \in Sessions : phase'[Server][i] = "open"
                                                 => phase[Server][i] = "open"
      PROVE  StopInv'
  BY <1>1 DEF StopInv, StoppedMeansOver
<1>2. ASSUME NEW i \in Sessions, \/ \E s \in Sides : Send(s, i)
                                 \/ ClientEnds(i) \/ Abandon(i)
                                 \/ ServerEnds(i) \/ SilenceTimeout(i)
      PROVE  StopInv'
  <2>1. UNCHANGED accepting /\ \/ UNCHANGED phase
                               \/ \E s \in Sides, v \in {"closed", "dropped"} :
                                    phase' = [phase EXCEPT ![s][i] = v]
    BY <1>2, <1>w DEF Send, ClientEnds, Abandon, ServerEnds, SilenceTimeout, Sides
  <2>2. \A j \in Sessions : phase'[Server][j] \in {"opening", "open"}
                             => phase'[Server][j] = phase[Server][j]
    BY <1>w, <2>1
  <2> QED
    BY <1>1, <2>1, <2>2
<1>3. CASE Start
  <2>1. phase'[Server] = phase[Server] /\ UNCHANGED accepting
    BY <1>3, <1>w DEF Start
  <2> QED
    BY <1>1, <2>1
<1>4. ASSUME NEW s \in Sides, ReceiveMessage(s)
      PROVE  StopInv'
  <2>1. UNCHANGED phase /\ UNCHANGED accepting
    BY <1>4 DEF ReceiveMessage
  <2> QED
    BY <1>1, <2>1
<1>5. ASSUME NEW s \in Sides, ReceiveAck(s)
      PROVE  StopInv'
  <2>1. UNCHANGED accepting
    BY <1>5 DEF ReceiveAck
  <2>2. phase' = [phase EXCEPT ![s] = [i \in Sessions |->
                    IF i \in Takers(s, Head(way[s])) THEN "open" ELSE phase[s][i]]]
    BY <1>5 DEF ReceiveAck
  <2>3. CASE s = Client
    <3>1. phase'[Server] = phase[Server]
      BY <1>w, <2>2, <2>3
    <3> QED
      BY <1>1, <2>1, <3>1
  <2>4. CASE s = Server
    <3>1. Head(way[s]).type = "ACK"
      BY <1>5 DEF ReceiveAck
    <3>2. \A i \in Takers(s, Head(way[s])) : i \in Sessions /\ phase[s][i] = "open"
      BY <2>4, <3>1 DEF Takers, Takes, StopInv
    <3>3. \A i \in Sessions : phase'[Server][i] = phase[Server][i]
      BY <1>w, <2>2, <2>4, <3>2
    <3> QED
      BY <1>1, <2>1, <3>3
  <2> QED
    BY <2>3, <2>4 DEF Sides
<1>6. CASE ReceiveTerm
  <2>1. UNCHANGED accepting
    BY <1>6 DEF ReceiveTerm
  <2>2. phase' = [phase EXCEPT ![Server] = [i \in Sessions |->
                    IF i \in Takers(Server, Head(way[Server])) THEN "closed"
                    ELSE phase[Server][i]]]
    BY <1>6 DEF ReceiveTerm
  <2>3. \A i \in Sessions : phase'[Server][i] \in {"opening", "open"}
                             => phase'[Server][i] = phase[Server][i]
    BY <1>w, <2>2
  <2> QED
    BY <1>1, <2>1, <2>3
<1>7. CASE ReceiveInit
  <2>1. UNCHANGED accepting /\ \/ accepting /\ phase' = [phase EXCEPT
                                        ![Server][Head(way[Server]).from] = "open"]
                               \/ UNCHANGED phase
    BY <1>7 DEF ReceiveInit
  <2>2. \A i \in Sessions : phase'[Server][i] = "opening" => phase[Server][i] = "opening"
    BY <1>w, <2>1
  <2> QED
    BY <1>1, <2>1, <2>2
<1>8. CASE AcceptTimeout \/ HandlerCancels
  <2>1. phase' = [phase EXCEPT ![Server] = [i \in Sessions |->
                    IF phase[Server][i] = "open" THEN "closed" ELSE phase[Server][i]]]
    BY <1>8 DEF AcceptTimeout, HandlerCancels, Stop
  <2>2. \A i \in Sessions : phase'[Server][i] \notin {"opening", "open"}
    BY <1>w, <2>1 DEF StopInv
  <2> QED
    BY <2>2 DEF StopInv, StoppedMeansOver
<1>9. CASE SocketCloses
  <2>1. \A i \in Sessions : phase'[Server][i] \notin {"opening", "open"}
    BY <1>9, <1>w DEF SocketCloses
  <2> QED
    BY <2>1 DEF StopInv, StoppedMeansOver
<1>10. CASE Tick \/ UNCHANGED channelVars
  <2>1. UNCHANGED phase /\ UNCHANGED accepting
    BY <1>10 DEF Tick, channelVars
  <2> QED
    BY <1>1, <2>1
<1> QED
  BY <1>2, <1>3, <1>4, <1>5, <1>6, <1>7, <1>8, <1>9, <1>10 DEF Next, Receive

\* When the endpoint's task is cancelled, whatever the reason, none of its
\* sessions stays open and none opens later (channel.ts, Endpoint).
THEOREM StoppedEndpointIsOver == Spec => []StoppedMeansOver
<1>1. Init => TypeOK /\ StopInv
  BY ChannelAssumption DEF Init, TypeOK, StopInv, StoppedMeansOver, Phases, Sides
<1>2. StopInv => StoppedMeansOver
  BY DEF StopInv
<1> QED
  BY <1>1, <1>2, TypeStep, StoppedStep, PTL DEF Spec
=============================================================================
