---------------------------- MODULE SessionProofs ----------------------------
(***************************************************************************)
(* Proofs about Session for every limit, buffer size, batch and set of     *)
(* events: the type invariant with the bound on the receive buffers, the   *)
(* finality of cancellation, both directions implement StopAndWait, at     *)
(* most one message and one ACK are on the way to a side, no message       *)
(* follows TERM, and no message is stranded while all is well.             *)
(***************************************************************************)
EXTENDS Session, SequenceTheorems, FiniteSetTheorems, TLAPS

BufOK ==
  /\ buf \in [Sides -> [Buffers -> Seq(Message)]]
  /\ \A s \in Sides, b \in Buffers : Len(buf[s][b]) <= InCap + 1

NetOK == net \in [Sides -> Seq(Message)]

\* A remainder is a natural number.
LEMMA RemainderIsNat ==
  ASSUME NEW k \in Nat, NEW r \in Nat \ {0}
  PROVE  k % r \in Nat
  OBVIOUS

\* Steps are natural numbers.
LEMMA StepIsNat ==
  ASSUME NEW s \in Sides, NEW k \in Nat
  PROVE  Step(s, k) \in Nat
<1>1. Limit(s) \in Nat \ {0}
  BY LimitAssumption DEF Limit
<1> QED
  BY <1>1, RemainderIsNat DEF Step

\* Sending a message keeps the network well typed.
LEMMA EmitOK ==
  ASSUME NetOK, NEW s \in Sides, NEW m \in Message, Emit(s, m)
  PROVE  NetOK'
<1>1. Other(s) \in Sides
  BY DEF Other, Sides
<1>2. Append(net[Other(s)], m) \in Seq(Message)
  BY <1>1, AppendProperties DEF NetOK
<1> QED
  BY <1>1, <1>2 DEF NetOK, Emit

\* Taking a frame, dropping buffers and receiving frames keep the buffers well
\* typed and within their bound.
LEMMA PopOK ==
  ASSUME BufOK, NEW s \in Sides, NEW b \in Buffers, Holds(s, b), Pop(s, b)
  PROVE  BufOK'
<1>1. /\ Tail(buf[s][b]) \in Seq(Message)
      /\ Len(Tail(buf[s][b])) = Len(buf[s][b]) - 1
  BY HeadTailProperties DEF BufOK, Holds
<1>2. Len(buf[s][b]) \in Nat /\ Len(buf[s][b]) <= InCap + 1
  BY LenProperties DEF BufOK
<1>3. buf' = [buf EXCEPT ![s] = [buf[s] EXCEPT ![b] = Tail(buf[s][b])]]
  BY DEF Pop, BufOK
<1>4. buf' \in [Sides -> [Buffers -> Seq(Message)]]
  BY <1>1, <1>3 DEF BufOK
<1>5. \A x \in Sides, y \in Buffers :
        buf'[x][y] = IF x = s /\ y = b THEN Tail(buf[s][b]) ELSE buf[x][y]
  BY <1>3 DEF BufOK
<1>6. ASSUME NEW x \in Sides, NEW y \in Buffers PROVE Len(buf'[x][y]) <= InCap + 1
  <2>1. CASE x = s /\ y = b
    <3>1. Len(buf'[x][y]) = Len(buf[s][b]) - 1
      BY <1>1, <1>5, <2>1
    <3> QED
      BY <3>1, <1>2, CapAssumption
  <2>2. CASE ~(x = s /\ y = b)
    BY <1>5, <2>2 DEF BufOK
  <2> QED
    BY <2>1, <2>2
<1> QED
  BY <1>4, <1>6 DEF BufOK

LEMMA FirstOfOK ==
  ASSUME NEW q \in Seq(Message), NEW n \in Nat
  PROVE  FirstOf(q, n) \in Seq(Message) /\ Len(FirstOf(q, n)) <= n
<1>1. /\ Len(q) \in Nat
      /\ \A i \in 1 .. Len(q) : q[i] \in Message
  BY LenProperties, ElementOfSeq
<1> DEFINE k == IF Len(q) < n THEN Len(q) ELSE n
<1>2. k \in Nat /\ k <= n /\ k <= Len(q)
  BY <1>1
<1>3. \A i \in 1 .. k : q[i] \in Message
  BY <1>1, <1>2
<1> HIDE DEF k
<1>4. SubSeq(q, 1, k) \in Seq(Message) /\ Len(SubSeq(q, 1, k)) = IF 1 <= k THEN k - 1 + 1 ELSE 0
  BY <1>2, <1>3, SubSeqProperties
<1>5. FirstOf(q, n) = SubSeq(q, 1, k)
  BY DEF FirstOf, k
<1> QED
  BY <1>2, <1>4, <1>5

\* A recv was handed at most one frame, and it came from the buffer.
LEMMA HandedOK ==
  ASSUME BufOK, NEW s \in Sides, NEW b \in Buffers
  PROVE  /\ Handed(s, b) \in Seq(Message)
         /\ Len(Handed(s, b)) <= InCap + 1
         /\ Len(Handed(s, b)) <= 1
         /\ Handed(s, b) = <<>> \/ Handed(s, b) = FirstOf(buf[s][b], 1)
<1>1. FirstOf(buf[s][b], 1) \in Seq(Message) /\ Len(FirstOf(buf[s][b], 1)) <= 1
  BY FirstOfOK DEF BufOK
<1>2. <<>> \in Seq(Message) /\ Len(<<>>) = 0
  BY EmptySeq
<1>3. Handed(s, b) = <<>> \/ Handed(s, b) = FirstOf(buf[s][b], 1)
  BY DEF Handed
<1>4. Handed(s, b) \in Seq(Message) /\ Len(Handed(s, b)) <= 1
  <2>1. CASE Handed(s, b) = <<>>
    BY <1>2, <2>1
  <2>2. CASE Handed(s, b) = FirstOf(buf[s][b], 1)
    BY <1>1, <2>2
  <2> QED
    BY <1>3, <2>1, <2>2
<1>5. Len(Handed(s, b)) \in Nat
  BY <1>4, LenProperties
<1> QED
  BY <1>3, <1>4, <1>5, CapAssumption

\* What drop leaves of each buffer.
LEMMA UnregisterLeaves ==
  ASSUME BufOK, NEW s \in Sides, NEW bs, Unregister(s, bs)
  PROVE  \A x \in Sides, b \in Buffers :
           buf'[x][b] = IF x = s /\ b \in bs THEN Handed(s, b) ELSE buf[x][b]
  BY DEF Unregister, BufOK

LEMMA UnregisterOK ==
  ASSUME BufOK, reg \in [Sides -> SUBSET Buffers], NEW s \in Sides, NEW bs,
         Unregister(s, bs)
  PROVE  BufOK' /\ reg' \in [Sides -> SUBSET Buffers]
<1>1. reg' \in [Sides -> SUBSET Buffers]
  BY DEF Unregister
<1>2. \A x \in Sides : buf'[x] =
        IF x = s THEN [b \in Buffers |-> IF b \in bs THEN Handed(s, b) ELSE buf[s][b]] ELSE buf[x]
  BY DEF Unregister, BufOK
<1>3. \A b \in Buffers : Handed(s, b) \in Seq(Message) /\ Len(Handed(s, b)) <= InCap + 1
  BY HandedOK
<1>4. \A x \in Sides : buf'[x] \in [Buffers -> Seq(Message)]
  BY <1>2, <1>3 DEF BufOK
<1>5. buf' \in [Sides -> [Buffers -> Seq(Message)]]
  BY <1>4 DEF Unregister, BufOK
<1>6. \A x \in Sides, y \in Buffers : Len(buf'[x][y]) <= InCap + 1
  BY <1>3, UnregisterLeaves DEF BufOK
<1> QED
  BY <1>1, <1>5, <1>6 DEF BufOK

LEMMA BufferInOK ==
  ASSUME BufOK, NEW s \in Sides, NEW ms \in Seq(Message), BufferIn(s, ms)
  PROVE  BufOK'
<1> DEFINE kept(b) == FirstOf(buf[s][b] \o ms, Room(s, b))
<1>1. \A x \in Sides : buf'[x] =
        IF x = s THEN [b \in Buffers |-> IF b \in reg[s] THEN kept(b) ELSE buf[s][b]] ELSE buf[x]
  BY DEF BufferIn, BufOK
<1>2. \A b \in Buffers : Room(s, b) \in Nat /\ Room(s, b) <= InCap + 1
  BY CapAssumption DEF Room
<1>3. ASSUME NEW b \in Buffers
      PROVE  kept(b) \in Seq(Message) /\ Len(kept(b)) <= InCap + 1
  <2>1. buf[s][b] \o ms \in Seq(Message)
    BY ConcatProperties DEF BufOK
  <2>2. kept(b) \in Seq(Message) /\ Len(kept(b)) <= Room(s, b)
    BY <1>2, <2>1, FirstOfOK
  <2>3. Len(kept(b)) \in Nat
    BY <2>2, LenProperties
  <2> QED
    BY <1>2, <2>2, <2>3, CapAssumption
<1> HIDE DEF kept
<1>5. \A x \in Sides : buf'[x] \in [Buffers -> Seq(Message)]
  BY <1>1, <1>3 DEF BufOK
<1>6. buf' \in [Sides -> [Buffers -> Seq(Message)]]
  BY <1>5 DEF BufferIn, BufOK
<1>7. ASSUME NEW x \in Sides, NEW y \in Buffers PROVE Len(buf'[x][y]) <= InCap + 1
  <2>1. CASE x # s
    BY <1>1, <2>1 DEF BufOK
  <2>2. CASE x = s
    <3>1. buf'[x][y] = kept(y) \/ buf'[x][y] = buf[x][y]
      BY <1>1, <2>2
    <3> QED
      BY <3>1, <1>3 DEF BufOK
  <2> QED
    BY <2>1, <2>2
<1> QED
  BY <1>6, <1>7 DEF BufOK
-----------------------------------------------------------------------------
\* The types of the variables that are neither network nor buffers.
RestOK ==
  /\ up \in BOOLEAN
  /\ phase \in [Sides -> Phases]
  /\ task \in [Sides -> {"live", "clean", "cancelled"}]
  /\ stream \in [Sides -> {"off", "pull", "ack", "done"}]
  /\ listen \in [Sides -> {"off", "recv", "done"}]
  /\ loaded \in [Sides -> 0 .. MaxLoad]
  /\ ended \in [Sides -> BOOLEAN]
  /\ sent \in [Sides -> Nat]
  /\ acked \in [Sides -> Nat]
  /\ recvd \in [Sides -> Seq(Nat)]

RegOK == reg \in [Sides -> SUBSET Buffers]

LEMMA TypeParts == TypeOK <=> NetOK /\ BufOK /\ RegOK /\ RestOK
  BY DEF TypeOK, NetOK, BufOK, RegOK, RestOK

LEMMA InitTypeOK == Init => TypeOK
<1> SUFFICES ASSUME Init PROVE TypeOK
  OBVIOUS
<1>1. NetOK
  BY EmptySeq DEF Init, NetOK
<1>2. BufOK
  BY EmptySeq, CapAssumption DEF Init, BufOK
<1>3. RegOK
  BY DEF Init, RegOK, Buffers
<1>4. RestOK
  <2>1. up \in BOOLEAN /\ ended \in [Sides -> BOOLEAN]
    BY DEF Init
  <2>2. /\ phase \in [Sides -> Phases]
        /\ task \in [Sides -> {"live", "clean", "cancelled"}]
        /\ stream \in [Sides -> {"off", "pull", "ack", "done"}]
        /\ listen \in [Sides -> {"off", "recv", "done"}]
    BY DEF Init, Phases
  <2>3. /\ loaded \in [Sides -> 0 .. MaxLoad]
        /\ sent \in [Sides -> Nat]
        /\ acked \in [Sides -> Nat]
    BY CapAssumption DEF Init
  <2>4. recvd \in [Sides -> Seq(Nat)]
    BY EmptySeq DEF Init
  <2> QED
    BY <2>1, <2>2, <2>3, <2>4 DEF RestOK
<1> QED
  BY <1>1, <1>2, <1>3, <1>4, TypeParts

\* The front of a buffer is a message.
LEMMA FrontOK ==
  ASSUME BufOK, NEW s \in Sides, NEW b \in Buffers, Holds(s, b)
  PROVE  Front(s, b) \in Message
<1>1. Len(buf[s][b]) \in Nat /\ Len(buf[s][b]) # 0
  BY EmptySeq, LenProperties DEF BufOK, Holds
<1>2. 1 \in 1 .. Len(buf[s][b])
  BY <1>1
<1> QED
  BY <1>2, ElementOfSeq DEF BufOK, Front

LEMMA SigBufferOK ==
  ASSUME NEW s \in Sides
  PROVE  SigBuffer(s) \in Buffers
  BY DEF SigBuffer, Buffers

\* The steps of the handshake keep the types.
LEMMA HandshakeTypeOK ==
  ASSUME TypeOK, NEW s \in Sides,
         Connect \/ Handshake(s) \/ HandshakeReason(s) \/ HandshakeTimeout(s) \/ Open(s)
  PROVE  TypeOK'
<1>0. NetOK /\ BufOK /\ RegOK /\ RestOK
  BY TypeParts
<1>1. CASE Connect
  <2>1. NetOK'
    <3>1. Client \in Sides /\ [t |-> "INIT", n |-> 0, d |-> 0] \in Message
      BY DEF Sides, Message
    <3> QED
      BY <1>0, <1>1, <3>1, EmitOK DEF Connect
  <2>2. RestOK'
    BY <1>0, <1>1 DEF Connect, RestOK, Phases
  <2>3. BufOK' /\ RegOK'
    BY <1>0, <1>1 DEF Connect, BufOK, RegOK
  <2> QED
    BY <2>1, <2>2, <2>3 DEF TypeOK, NetOK, BufOK, RegOK, RestOK
<1>2. CASE Handshake(s)
  <2>1. BufOK' /\ RegOK'
    <3>1. CASE Unregister(s, {"sig"})
      BY <1>0, <3>1, UnregisterOK DEF RegOK
    <3>2. CASE Pop(s, SigBuffer(s)) /\ UNCHANGED reg
      BY <1>0, <1>2, <3>2, PopOK, SigBufferOK DEF RegOK, Handshake
    <3> QED
      BY <1>2, <3>1, <3>2 DEF Handshake
  <2>2. RestOK'
    BY <1>0, <1>2 DEF Handshake, RestOK, Phases
  <2>3. NetOK'
    BY <1>0, <1>2 DEF Handshake, NetOK
  <2> QED
    BY <2>1, <2>2, <2>3 DEF TypeOK, NetOK, BufOK, RegOK, RestOK
<1>3. CASE HandshakeReason(s) \/ HandshakeTimeout(s)
  <2>0. HandshakeFailed(s)
    BY <1>3 DEF HandshakeReason, HandshakeTimeout
  <2>1. BufOK' /\ RegOK'
    <3>1. CASE Unregister(s, {"sig"})
      BY <1>0, <3>1, UnregisterOK DEF RegOK
    <3>2. CASE UNCHANGED <<reg, buf>>
      BY <1>0, <3>2 DEF BufOK, RegOK
    <3> QED
      BY <2>0, <3>1, <3>2 DEF HandshakeFailed
  <2>2. RestOK'
    BY <1>0, <2>0 DEF HandshakeFailed, Cancelled, RestOK, Phases
  <2>3. NetOK'
    BY <1>0, <2>0 DEF HandshakeFailed, NetOK
  <2> QED
    BY <2>1, <2>2, <2>3 DEF TypeOK, NetOK, BufOK, RegOK, RestOK
<1>4. CASE Open(s)
  <2>1. NetOK'
    <3>1. [t |-> "ACK", n |-> 0, d |-> 0] \in Message
      BY DEF Message
    <3>2. CASE Emit(s, [t |-> "ACK", n |-> 0, d |-> 0])
      BY <1>0, <3>1, <3>2, EmitOK
    <3>3. CASE UNCHANGED net
      BY <1>0, <3>3 DEF NetOK
    <3> QED
      BY <1>4, <3>2, <3>3 DEF Open
  <2>2. RegOK'
    BY <1>0, <1>4 DEF Open, RegOK, Buffers, SessionBuffers
  <2>3. RestOK'
    BY <1>0, <1>4 DEF Open, RestOK, Phases
  <2>4. BufOK'
    BY <1>0, <1>4 DEF Open, BufOK
  <2> QED
    BY <2>1, <2>2, <2>3, <2>4 DEF TypeOK, NetOK, BufOK, RegOK, RestOK
<1> QED
  BY <1>1, <1>2, <1>3, <1>4

\* The steps of stream keep the types.
LEMMA StreamTypeOK ==
  ASSUME TypeOK, NEW s \in Sides, Pull(s) \/ AwaitAck(s) \/ AckReason(s)
  PROVE  TypeOK'
<1>0. NetOK /\ BufOK /\ RegOK /\ RestOK
  BY TypeParts
<1>1. CASE Pull(s)
  <2>1. CASE StreamReturns(s) /\ UNCHANGED <<net, sent>>
    <3>1. RestOK'
      BY <1>0, <1>1, <2>1 DEF Pull, StreamReturns, Cleaned, RestOK
    <3>2. NetOK' /\ BufOK' /\ RegOK'
      BY <1>0, <1>1, <2>1 DEF Pull, NetOK, BufOK, RegOK
    <3> QED
      BY <3>1, <3>2 DEF TypeOK, NetOK, BufOK, RegOK, RestOK
  <2>2. CASE Transmit(s) /\ UNCHANGED task
    <3>1. sent[s] + 1 \in Nat
      BY <1>0 DEF RestOK
    <3>2. [t |-> "MSG", n |-> Step(s, sent[s] + 1), d |-> sent[s] + 1] \in Message
      BY <3>1, StepIsNat DEF Message
    <3>3. NetOK'
      BY <1>0, <2>2, <3>2, EmitOK DEF Transmit
    <3>4. RestOK'
      BY <1>0, <1>1, <2>2, <3>1 DEF Pull, Transmit, RestOK
    <3>5. BufOK' /\ RegOK'
      BY <1>0, <1>1 DEF Pull, BufOK, RegOK
    <3> QED
      BY <3>3, <3>4, <3>5 DEF TypeOK, NetOK, BufOK, RegOK, RestOK
  <2> QED
    BY <1>1, <2>1, <2>2 DEF Pull
<1>2. CASE AwaitAck(s)
  <2>1. BufOK'
    <3>1. "ack" \in Buffers
      BY DEF Buffers
    <3> QED
      BY <1>0, <1>2, <3>1, PopOK DEF AwaitAck
  <2>2. RestOK'
    <3>1. CASE UNCHANGED <<acked, stream, task>>
      BY <1>0, <1>2, <3>1 DEF AwaitAck, RestOK
    <3>2. UNCHANGED <<up, phase, listen, loaded, ended, sent, recvd>>
      BY <1>2 DEF AwaitAck
    <3>3. CASE acked' = [acked EXCEPT ![s] = @ + 1] /\ StreamReturns(s)
      BY <1>0, <3>2, <3>3 DEF StreamReturns, Cleaned, RestOK
    <3>4. CASE /\ acked' = [acked EXCEPT ![s] = @ + 1]
               /\ stream' = [stream EXCEPT ![s] = "pull"]
               /\ UNCHANGED task
      BY <1>0, <3>2, <3>4 DEF RestOK
    <3> QED
      BY <1>2, <3>1, <3>3, <3>4 DEF AwaitAck
  <2>3. NetOK' /\ RegOK'
    BY <1>0, <1>2 DEF AwaitAck, NetOK, RegOK
  <2> QED
    BY <2>1, <2>2, <2>3 DEF TypeOK, NetOK, BufOK, RegOK, RestOK
<1>3. CASE AckReason(s)
  <2>1. RestOK'
    BY <1>0, <1>3 DEF AckReason, Cancelled, RestOK
  <2>2. NetOK' /\ BufOK' /\ RegOK'
    BY <1>0, <1>3 DEF AckReason, NetOK, BufOK, RegOK
  <2> QED
    BY <2>1, <2>2 DEF TypeOK, NetOK, BufOK, RegOK, RestOK
<1> QED
  BY <1>1, <1>2, <1>3

\* The steps of listen keep the types.
LEMMA ListenTypeOK ==
  ASSUME TypeOK, NEW s \in Sides, Listen(s) \/ ListenReason(s)
  PROVE  TypeOK'
<1>0. NetOK /\ BufOK /\ RegOK /\ RestOK
  BY TypeParts
<1>1. CASE Listen(s)
  <2> DEFINE m == Front(s, "msg")
  <2>1. "msg" \in Buffers
    BY DEF Buffers
  <2>2. m \in Message
    BY <1>0, <1>1, <2>1, FrontOK DEF Listen
  <2>3. BufOK'
    BY <1>0, <1>1, <2>1, PopOK DEF Listen
  <2>4. RegOK' /\ UNCHANGED <<up, phase, task, stream, loaded, ended, sent, acked>>
    BY <1>0, <1>1 DEF Listen, RegOK
  <2>5. \/ UNCHANGED <<net, listen, recvd>>
        \/ listen' = [listen EXCEPT ![s] = "done"] /\ UNCHANGED <<net, recvd>>
        \/ /\ Acknowledge(s, m)
           /\ recvd' = [recvd EXCEPT ![s] = Append(@, m.d)]
           /\ UNCHANGED listen
    BY <1>1 DEF Listen
  <2> HIDE DEF m
  <2>6. CASE UNCHANGED <<net, listen, recvd>>
    BY <1>0, <2>3, <2>4, <2>6 DEF TypeOK, NetOK, BufOK, RegOK, RestOK
  <2>7. CASE listen' = [listen EXCEPT ![s] = "done"] /\ UNCHANGED <<net, recvd>>
    BY <1>0, <2>3, <2>4, <2>7 DEF TypeOK, NetOK, BufOK, RegOK, RestOK
  <2>8. CASE /\ Acknowledge(s, m)
             /\ recvd' = [recvd EXCEPT ![s] = Append(@, m.d)]
             /\ UNCHANGED listen
    <3>1. NetOK'
      <4>1. [t |-> "ACK", n |-> m.n, d |-> m.d] \in Message
        BY <2>2 DEF Message
      <4> QED
        BY <1>0, <2>8, <4>1, EmitOK DEF Acknowledge
    <3>2. recvd' \in [Sides -> Seq(Nat)]
      <4>1. Append(recvd[s], m.d) \in Seq(Nat)
        BY <1>0, <2>2, AppendProperties DEF RestOK, Message
      <4> QED
        BY <1>0, <2>8, <4>1 DEF RestOK
    <3> QED
      BY <1>0, <2>3, <2>4, <2>8, <3>1, <3>2 DEF TypeOK, NetOK, BufOK, RegOK, RestOK
  <2> QED
    BY <2>5, <2>6, <2>7, <2>8
<1>2. CASE ListenReason(s)
  <2>1. RestOK'
    BY <1>0, <1>2 DEF ListenReason, Cancelled, RestOK
  <2>2. NetOK' /\ BufOK' /\ RegOK'
    BY <1>0, <1>2 DEF ListenReason, NetOK, BufOK, RegOK
  <2> QED
    BY <2>1, <2>2 DEF TypeOK, NetOK, BufOK, RegOK, RestOK
<1> QED
  BY <1>1, <1>2

\* The steps of the teardown keep the types.
LEMMA TeardownTypeOK ==
  ASSUME TypeOK, ClientTerm \/ AwaitTerm \/ TermReason \/ ServerDrop
  PROVE  TypeOK'
<1>0. NetOK /\ BufOK /\ RegOK /\ RestOK
  BY TypeParts
<1>s. Client \in Sides /\ Server \in Sides
  BY DEF Sides
<1>1. CASE ClientTerm
  <2>1. NetOK'
    <3>1. sent[Client] + 1 \in Nat
      BY <1>0, <1>s DEF RestOK
    <3>2. [t |-> "TERM", n |-> Step(Client, sent[Client] + 1), d |-> 0] \in Message
      BY <1>s, <3>1, StepIsNat DEF Message
    <3> QED
      BY <1>0, <1>1, <1>s, <3>2, EmitOK DEF ClientTerm, SendTerm
  <2>2. BufOK' /\ RegOK'
    BY <1>0, <1>1, <1>s, UnregisterOK DEF ClientTerm, RegOK
  <2>3. up' \in BOOLEAN
    BY <1>1 DEF ClientTerm
  <2>4. phase' \in [Sides -> Phases]
    BY <1>0, <1>1 DEF ClientTerm, RestOK, Phases
  <2>5. UNCHANGED <<task, stream, listen, loaded, ended, sent, acked, recvd>>
    BY <1>1 DEF ClientTerm
  <2> QED
    BY <1>0, <2>1, <2>2, <2>3, <2>4, <2>5 DEF TypeOK, NetOK, BufOK, RegOK, RestOK
<1>2. CASE AwaitTerm
  <2>1. BufOK'
    <3>1. "term" \in Buffers
      BY DEF Buffers
    <3> QED
      BY <1>0, <1>2, <1>s, <3>1, PopOK DEF AwaitTerm
  <2>2. NetOK' /\ RegOK' /\ UNCHANGED <<up, stream, listen, loaded, ended, sent, acked, recvd>>
    BY <1>0, <1>2 DEF AwaitTerm, NetOK, RegOK
  <2>3. /\ task' \in [Sides -> {"live", "clean", "cancelled"}]
        /\ phase' \in [Sides -> Phases]
    BY <1>0, <1>2 DEF AwaitTerm, Cleaned, RestOK, Phases
  <2> QED
    BY <1>0, <2>1, <2>2, <2>3 DEF TypeOK, NetOK, BufOK, RegOK, RestOK
<1>3. CASE TermReason
  <2>1. RestOK'
    BY <1>0, <1>3 DEF TermReason, RestOK, Phases
  <2>2. NetOK' /\ BufOK' /\ RegOK'
    BY <1>0, <1>3 DEF TermReason, NetOK, BufOK, RegOK
  <2> QED
    BY <2>1, <2>2 DEF TypeOK, NetOK, BufOK, RegOK, RestOK
<1>4. CASE ServerDrop
  <2>1. BufOK' /\ RegOK'
    BY <1>0, <1>4, <1>s, UnregisterOK DEF ServerDrop, RegOK
  <2>2. NetOK' /\ RestOK'
    BY <1>0, <1>4 DEF ServerDrop, NetOK, RestOK, Phases
  <2> QED
    BY <2>1, <2>2 DEF TypeOK, NetOK, BufOK, RegOK, RestOK
<1> QED
  BY <1>1, <1>2, <1>3, <1>4

\* Subsequences of frames are frames.
LEMMA FramesOK ==
  ASSUME NEW q \in Seq(Message), NEW a \in Nat \ {0}, NEW b \in Nat, b <= Len(q)
  PROVE  SubSeq(q, a, b) \in Seq(Message)
<1>1. \A i \in a .. b : q[i] \in Message
  BY ElementOfSeq, LenProperties
<1> QED
  BY <1>1, SubSeqProperties

\* Deliveries and socket events keep the types.
LEMMA NetworkTypeOK ==
  ASSUME TypeOK, NEW s \in Sides, Deliver(s) \/ Disconnect \/ SocketClosed(s)
  PROVE  TypeOK'
<1>0. NetOK /\ BufOK /\ RegOK /\ RestOK
  BY TypeParts
<1>1. CASE Deliver(s)
  <2>0. net[s] \in Seq(Message) /\ Len(net[s]) \in Nat
    BY <1>0, LenProperties DEF NetOK
  <2>1. RegOK' /\ RestOK'
    BY <1>0, <1>1 DEF Deliver, RegOK, RestOK
  <2>2. ASSUME NEW n \in 1 .. Batch, n <= Len(net[s]),
               BufferIn(s, SubSeq(net[s], 1, n)),
               net' = [net EXCEPT ![s] = SubSeq(@, n + 1, Len(@))]
        PROVE  NetOK' /\ BufOK'
    <3>0. n \in Nat /\ n + 1 \in Nat \ {0}
      BY CapAssumption
    <3>1. SubSeq(net[s], 1, n) \in Seq(Message)
      BY <2>0, <2>2, <3>0, FramesOK
    <3>2. SubSeq(net[s], n + 1, Len(net[s])) \in Seq(Message)
      BY <2>0, <3>0, FramesOK
    <3>3. BufOK'
      BY <1>0, <2>2, <3>1, BufferInOK
    <3>4. NetOK'
      BY <1>0, <2>2, <3>2 DEF NetOK
    <3> QED
      BY <3>3, <3>4
  <2>3. ASSUME NEW i \in 2 .. Len(net[s]),
               BufferIn(s, <<net[s][i]>>),
               net' = [net EXCEPT ![s] = SubSeq(@, 1, i - 1) \o SubSeq(@, i + 1, Len(@))]
        PROVE  NetOK' /\ BufOK'
    <3>0. i - 1 \in Nat /\ i + 1 \in Nat \ {0} /\ i - 1 <= Len(net[s])
      BY <2>0
    <3>1. net[s][i] \in Message
      BY <2>0, ElementOfSeq
    <3>2. <<net[s][i]>> \in Seq(Message)
      BY <3>1
    <3>3. BufOK'
      BY <1>0, <2>3, <3>2, BufferInOK
    <3>4. SubSeq(net[s], 1, i - 1) \in Seq(Message)
      BY <2>0, <3>0, FramesOK
    <3>5. SubSeq(net[s], i + 1, Len(net[s])) \in Seq(Message)
      BY <2>0, <3>0, FramesOK
    <3>6. SubSeq(net[s], 1, i - 1) \o SubSeq(net[s], i + 1, Len(net[s])) \in Seq(Message)
      BY <3>4, <3>5, ConcatProperties
    <3>7. NetOK'
      BY <1>0, <2>3, <3>6 DEF NetOK
    <3> QED
      BY <3>3, <3>7
  <2>4. NetOK' /\ BufOK'
    BY <1>1, <2>2, <2>3 DEF Deliver
  <2> QED
    BY <2>1, <2>4 DEF TypeOK, NetOK, BufOK, RegOK, RestOK
<1>2. CASE Disconnect
  <2>1. NetOK'
    BY <1>2, EmptySeq DEF Disconnect, NetOK
  <2>2. RestOK' /\ BufOK' /\ RegOK'
    BY <1>0, <1>2 DEF Disconnect, RestOK, BufOK, RegOK
  <2> QED
    BY <2>1, <2>2 DEF TypeOK, NetOK, BufOK, RegOK, RestOK
<1>3. CASE SocketClosed(s)
  <2>1. BufOK' /\ RegOK'
    BY <1>0, <1>3, UnregisterOK DEF SocketClosed, RegOK
  <2>2. NetOK' /\ RestOK'
    BY <1>0, <1>3 DEF SocketClosed, Cancelled, NetOK, RestOK
  <2> QED
    BY <2>1, <2>2 DEF TypeOK, NetOK, BufOK, RegOK, RestOK
<1> QED
  BY <1>1, <1>2, <1>3

\* The application's steps keep the types.
LEMMA ApplicationTypeOK ==
  ASSUME TypeOK, NEW s \in Sides, Load(s) \/ End(s) \/ Cancel(s) \/ Drop
  PROVE  TypeOK'
<1>0. NetOK /\ BufOK /\ RegOK /\ RestOK
  BY TypeParts
<1>1. NetOK' /\ BufOK' /\ RegOK'
  BY <1>0 DEF Load, End, Cancel, Drop, NetOK, BufOK, RegOK
<1>2. CASE Load(s)
  <2>1. loaded[s] + 1 \in 0 .. MaxLoad
    BY <1>0, <1>2, CapAssumption DEF Load, RestOK
  <2>2. RestOK'
    BY <1>0, <1>2, <2>1 DEF Load, RestOK
  <2> QED
    BY <1>1, <2>2 DEF TypeOK, NetOK, BufOK, RegOK, RestOK
<1>3. CASE End(s)
  <2>1. RestOK'
    BY <1>0, <1>3 DEF End, RestOK
  <2> QED
    BY <1>1, <2>1 DEF TypeOK, NetOK, BufOK, RegOK, RestOK
<1>4. CASE Cancel(s) \/ Drop
  <2>1. RestOK'
    BY <1>0, <1>4 DEF Cancel, Drop, Cancelled, Cleaned, RestOK
  <2> QED
    BY <1>1, <2>1 DEF TypeOK, NetOK, BufOK, RegOK, RestOK
<1> QED
  BY <1>2, <1>3, <1>4

\* Every variable of a session always has its type, and no receive buffer ever
\* holds more frames than its size and the one a waiting recv was handed.
THEOREM TypeCorrect == Spec => []TypeOK
<1>1. TypeOK /\ [Next]_vars => TypeOK'
  <2> SUFFICES ASSUME TypeOK, [Next]_vars PROVE TypeOK'
    OBVIOUS
  <2>0. Client \in Sides
    BY DEF Sides
  <2>1. ASSUME NEW s \in Sides, Continue(s) PROVE TypeOK'
    BY <2>1, HandshakeTypeOK, StreamTypeOK, ListenTypeOK, TeardownTypeOK DEF Continue
  <2>2. ASSUME NEW s \in Sides, HandshakeTimeout(s) PROVE TypeOK'
    BY <2>2, HandshakeTypeOK
  <2>3. ASSUME NEW s \in Sides, Deliver(s) \/ SocketClosed(s) PROVE TypeOK'
    BY <2>3, NetworkTypeOK
  <2>4. ASSUME NEW s \in Sides, Load(s) \/ End(s) \/ Cancel(s) PROVE TypeOK'
    BY <2>4, ApplicationTypeOK
  <2>5. CASE Connect
    BY <2>0, <2>5, HandshakeTypeOK
  <2>6. CASE Drop
    BY <2>0, <2>6, ApplicationTypeOK
  <2>7. CASE Disconnect
    BY <2>0, <2>7, NetworkTypeOK
  <2>8. CASE UNCHANGED vars
    BY <2>8 DEF vars, TypeOK
  <2> QED
    BY <2>1, <2>2, <2>3, <2>4, <2>5, <2>6, <2>7, <2>8 DEF Next
<1> QED
  BY <1>1, InitTypeOK, PTL DEF Spec
-----------------------------------------------------------------------------
\* Cancelling is final: the steps that send a message or give one to the
\* application are Pull and Listen, and both ask the task after their await.
Final(s) == task[s] = "cancelled" => sent'[s] = sent[s] /\ recvd'[s] = recvd[s]

LEMMA PullIsFinal ==
  ASSUME TypeOK, NEW s \in Sides, NEW e \in Sides, Pull(e)
  PROVE  Final(s)
<1>0. sent \in [Sides -> Nat] /\ UNCHANGED recvd
  BY DEF TypeOK, Pull
<1>1. CASE Interrupted(e)
  <2>1. UNCHANGED sent
    BY <1>1 DEF Pull
  <2> QED
    BY <1>0, <2>1 DEF Final
<1>2. CASE ~Interrupted(e)
  <2>1. sent' = sent \/ sent' = [sent EXCEPT ![e] = @ + 1]
    BY DEF Pull, Transmit
  <2>2. task[s] = "cancelled" => s # e
    BY <1>2 DEF Interrupted
  <2> QED
    BY <1>0, <2>1, <2>2 DEF Final
<1> QED
  BY <1>1, <1>2

LEMMA ListenIsFinal ==
  ASSUME TypeOK, NEW s \in Sides, NEW e \in Sides, Listen(e)
  PROVE  Final(s)
<1>0. recvd \in [Sides -> Seq(Nat)] /\ UNCHANGED sent
  BY DEF TypeOK, Listen
<1>1. CASE Interrupted(e)
  <2>1. UNCHANGED recvd
    BY <1>1 DEF Listen
  <2> QED
    BY <1>0, <2>1 DEF Final
<1>2. CASE ~Interrupted(e)
  <2>1. \/ recvd' = recvd
        \/ recvd' = [recvd EXCEPT ![e] = Append(@, Front(e, "msg").d)]
    BY DEF Listen
  <2>2. task[s] = "cancelled" => s # e
    BY <1>2 DEF Interrupted
  <2> QED
    BY <1>0, <2>1, <2>2 DEF Final
<1> QED
  BY <1>1, <1>2

\* In every behaviour, for every limit, buffer size and set of failures, a side
\* whose task is cancelled sends no further message and pushes none.
THEOREM CancellationFinal == Spec => CancelIsFinal
<1>1. TypeOK /\ [Next]_vars => [\A s \in Sides : Final(s)]_vars
  <2> SUFFICES ASSUME TypeOK, [Next]_vars, NEW s \in Sides PROVE Final(s)
    OBVIOUS
  <2>1. ASSUME NEW e \in Sides, Continue(e) PROVE Final(s)
    <3>1. CASE Pull(e)
      BY <3>1, PullIsFinal
    <3>2. CASE Listen(e)
      BY <3>2, ListenIsFinal
    <3>3. CASE Handshake(e) \/ HandshakeReason(e) \/ Open(e) \/ AwaitAck(e)
               \/ AckReason(e) \/ ListenReason(e)
      BY <3>3 DEF Handshake, HandshakeReason, HandshakeFailed, Open, AwaitAck,
                  AckReason, ListenReason, Final
    <3>4. CASE ClientTerm \/ AwaitTerm \/ TermReason \/ ServerDrop
      BY <3>4 DEF ClientTerm, AwaitTerm, TermReason, ServerDrop, Final
    <3> QED
      BY <2>1, <3>1, <3>2, <3>3, <3>4 DEF Continue
  <2>2. ASSUME NEW e \in Sides,
               HandshakeTimeout(e) \/ Deliver(e) \/ SocketClosed(e)
               \/ Load(e) \/ End(e) \/ Cancel(e)
        PROVE  Final(s)
    BY <2>2 DEF HandshakeTimeout, HandshakeFailed, Deliver, SocketClosed, Load, End,
                Cancel, Final
  <2>3. CASE Connect \/ Drop \/ Disconnect
    BY <2>3 DEF Connect, Drop, Disconnect, Final
  <2>4. CASE UNCHANGED vars
    BY <2>4 DEF vars, Final
  <2> QED
    BY <2>1, <2>2, <2>3, <2>4 DEF Next
<1>2. [\A s \in Sides : Final(s)]_vars
        <=> [\A s \in Sides : task[s] = "cancelled" =>
              sent'[s] = sent[s] /\ recvd'[s] = recvd[s]]_vars
  BY DEF Final
<1> QED
  BY <1>1, <1>2, TypeCorrect, PTL DEF Spec, CancelIsFinal
-----------------------------------------------------------------------------
(***************************************************************************)
(* The two directions.  The argument: a message on its way is the last one *)
(* sent and was neither pushed nor acknowledged; an ACK on its way answers *)
(* the last one sent, which was pushed.  So a message and its ACK are      *)
(* never both under way, and nothing old is left to be taken for the next  *)
(* message or ACK when the steps wrap.                                     *)
(***************************************************************************)
Kinds == {"MSG", "ACK", "hello"}

\* The kind of a frame; "hello" is the handshake's ACK.
Kind(m) == IF m.t = "ACK" /\ m.d = 0 THEN "hello" ELSE m.t

\* The network n and the buffer b hold at most one frame of kind c, and which.
AtMostOne(n, b, c) ==
  /\ \A i, j \in DOMAIN n : Kind(n[i]) = c /\ Kind(n[j]) = c => i = j
  /\ \A i, j \in DOMAIN b : Kind(b[i]) = c /\ Kind(b[j]) = c => i = j
  /\ \A i \in DOMAIN n, j \in DOMAIN b : ~(Kind(n[i]) = c /\ Kind(b[j]) = c)

Of(n, b, c) == {m \in Frames(n) \union Frames(b) : Kind(m) = c}

\* From n and b to n2 and b2 no frame of kind c was added or copied.
Fewer(n2, b2, n, b, c) ==
  /\ AtMostOne(n, b, c) => AtMostOne(n2, b2, c)
  /\ Of(n2, b2, c) \subseteq Of(n, b, c)
-----------------------------------------------------------------------------
(***************************************************************************)
(* What the operations on sequences do to the frames of a kind.            *)
(***************************************************************************)
LEMMA FewerSame ==
  ASSUME NEW n, NEW b, NEW c
  PROVE  Fewer(n, b, n, b, c)
  BY DEF Fewer

LEMMA FewerEmpty ==
  ASSUME NEW n, NEW b, NEW c
  PROVE  Fewer(n, <<>>, n, b, c) /\ Fewer(<<>>, b, n, b, c)
  BY DEF Fewer, AtMostOne, Of, Frames

LEMMA FewerTrans ==
  ASSUME NEW n, NEW b, NEW n2, NEW b2, NEW n3, NEW b3, NEW c,
         Fewer(n2, b2, n, b, c), Fewer(n3, b3, n2, b2, c)
  PROVE  Fewer(n3, b3, n, b, c)
  BY DEF Fewer

\* A buffer that lost its front.
LEMMA FewerTail ==
  ASSUME NEW n \in Seq(Message), NEW b \in Seq(Message), b # <<>>, NEW c
  PROVE  /\ Fewer(n, Tail(b), n, b, c)
         /\ b[1] \in Frames(b)
         /\ AtMostOne(n, b, c) /\ Kind(b[1]) = c => Of(n, Tail(b), c) = {}
<1>1. /\ DOMAIN b = 1 .. Len(b)
      /\ Len(b) \in Nat \ {0}
      /\ DOMAIN Tail(b) = 1 .. (Len(b) - 1)
      /\ \A i \in 1 .. (Len(b) - 1) : Tail(b)[i] = b[i + 1]
  BY HeadTailProperties, LenProperties, EmptySeq
<1>2. \A i \in DOMAIN Tail(b) : i + 1 \in DOMAIN b /\ Tail(b)[i] = b[i + 1] /\ i + 1 # 1
  BY <1>1
<1>3. 1 \in DOMAIN b
  BY <1>1
<1>4. \A i, j \in DOMAIN Tail(b) : i + 1 = j + 1 => i = j
  BY <1>1
<1>5. AtMostOne(n, b, c) => AtMostOne(n, Tail(b), c)
  BY <1>2, <1>4 DEF AtMostOne
<1>6. Of(n, Tail(b), c) \subseteq Of(n, b, c)
  BY <1>2 DEF Of, Frames
<1>7. ASSUME AtMostOne(n, b, c), Kind(b[1]) = c
      PROVE  Of(n, Tail(b), c) = {}
  BY <1>2, <1>3, <1>7 DEF AtMostOne, Of, Frames
<1> QED
  BY <1>3, <1>5, <1>6, <1>7 DEF Fewer, Frames

\* A frame that is put on the network.
LEMMA Sent ==
  ASSUME NEW n \in Seq(Message), NEW b \in Seq(Message), NEW m \in Message, NEW c
  PROVE  /\ Kind(m) # c => Fewer(Append(n, m), b, n, b, c)
         /\ Of(n, b, c) = {} =>
              AtMostOne(Append(n, m), b, c) /\ Of(Append(n, m), b, c) \subseteq {m}
<1> DEFINE n2 == Append(n, m)
<1>1. /\ DOMAIN n = 1 .. Len(n)
      /\ Len(n) \in Nat
      /\ DOMAIN n2 = 1 .. (Len(n) + 1)
      /\ \A i \in 1 .. Len(n) : n2[i] = n[i]
      /\ n2[Len(n) + 1] = m
  BY AppendProperties, LenProperties
<1>2. \A i \in DOMAIN n2 : (i \in DOMAIN n /\ n2[i] = n[i]) \/ (i = Len(n) + 1 /\ n2[i] = m)
  BY <1>1
<1> HIDE DEF n2
<1>3. ASSUME Kind(m) # c
      PROVE  Fewer(n2, b, n, b, c)
  <2>1. \A i \in DOMAIN n2 : Kind(n2[i]) = c => i \in DOMAIN n /\ n2[i] = n[i]
    BY <1>2, <1>3
  <2> QED
    BY <2>1 DEF Fewer, AtMostOne, Of, Frames
<1>4. ASSUME Of(n, b, c) = {}
      PROVE  AtMostOne(n2, b, c) /\ Of(n2, b, c) \subseteq {m}
  <2>1. /\ \A i \in DOMAIN n : Kind(n[i]) # c
        /\ \A i \in DOMAIN b : Kind(b[i]) # c
    BY <1>4 DEF Of, Frames
  <2>2. \A i \in DOMAIN n2 : Kind(n2[i]) = c => i = Len(n) + 1 /\ n2[i] = m
    BY <1>2, <2>1
  <2> QED
    BY <2>1, <2>2 DEF AtMostOne, Of, Frames
<1> QED
  BY <1>3, <1>4 DEF n2

\* The frames that FirstOf keeps are where they were.
LEMMA FirstOfFrames ==
  ASSUME NEW q \in Seq(Message), NEW k \in Nat
  PROVE  \A i \in DOMAIN FirstOf(q, k) : i \in DOMAIN q /\ FirstOf(q, k)[i] = q[i]
<1>1. /\ Len(q) \in Nat
      /\ DOMAIN q = 1 .. Len(q)
      /\ \A i \in 1 .. Len(q) : q[i] \in Message
  BY LenProperties, ElementOfSeq
<1> DEFINE j == IF Len(q) < k THEN Len(q) ELSE k
<1>2. j \in Nat /\ j <= Len(q)
  BY <1>1
<1>3. FirstOf(q, k) = SubSeq(q, 1, j)
  BY DEF FirstOf
<1> HIDE DEF j
<1>4. /\ SubSeq(q, 1, j) \in Seq(Message)
      /\ Len(SubSeq(q, 1, j)) = IF 1 <= j THEN j - 1 + 1 ELSE 0
      /\ \A i \in 1 .. j - 1 + 1 : SubSeq(q, 1, j)[i] = q[1 + i - 1]
  BY <1>1, <1>2, SubSeqProperties
<1>5. DOMAIN SubSeq(q, 1, j) = 1 .. j
  BY <1>2, <1>4, LenProperties
<1> QED
  BY <1>1, <1>2, <1>3, <1>4, <1>5

\* The buffer keeps its first frames only.
LEMMA FewerFirst ==
  ASSUME NEW n, NEW b \in Seq(Message), NEW k \in Nat, NEW c
  PROVE  Fewer(n, FirstOf(b, k), n, b, c)
<1>1. \A i \in DOMAIN FirstOf(b, k) : i \in DOMAIN b /\ FirstOf(b, k)[i] = b[i]
  BY FirstOfFrames
<1> QED
  BY <1>1 DEF Fewer, AtMostOne, Of, Frames

\* A part of a sequence of frames.
LEMMA PartFrames ==
  ASSUME NEW q \in Seq(Message), NEW a \in Nat \ {0}, NEW z \in Nat, a <= z + 1, z <= Len(q)
  PROVE  /\ SubSeq(q, a, z) \in Seq(Message)
         /\ Len(SubSeq(q, a, z)) = z + 1 - a
         /\ \A i \in 1 .. (z + 1 - a) :
              a + i - 1 \in DOMAIN q /\ SubSeq(q, a, z)[i] = q[a + i - 1]
<1>1. /\ Len(q) \in Nat
      /\ DOMAIN q = 1 .. Len(q)
      /\ \A i \in a .. z : q[i] \in Message
  BY LenProperties, ElementOfSeq
<1>2. /\ SubSeq(q, a, z) \in Seq(Message)
      /\ Len(SubSeq(q, a, z)) = IF a <= z THEN z - a + 1 ELSE 0
      /\ \A i \in 1 .. z - a + 1 : SubSeq(q, a, z)[i] = q[a + i - 1]
  BY <1>1, SubSeqProperties
<1> QED
  BY <1>1, <1>2

\* Frames at the positions X of the network move to the end of the buffer, or
\* are refused; the others stay.  f and g give the former positions.
Moved(n, b, n2, b2, X, f, g) ==
  /\ \A i \in DOMAIN n2 : f[i] \in DOMAIN n /\ f[i] \notin X /\ n2[i] = n[f[i]]
  /\ \A i, j \in DOMAIN n2 : f[i] = f[j] => i = j
  /\ \A i \in DOMAIN b2 :
       \/ i \in DOMAIN b /\ b2[i] = b[i]
       \/ i \notin DOMAIN b /\ g[i] \in DOMAIN n \intersect X /\ b2[i] = n[g[i]]
  /\ \A i, j \in DOMAIN b2 \ DOMAIN b : g[i] = g[j] => i = j

LEMMA FewerMoved ==
  ASSUME NEW n, NEW b, NEW n2, NEW b2, NEW c, NEW X, NEW f, NEW g,
         Moved(n, b, n2, b2, X, f, g)
  PROVE  Fewer(n2, b2, n, b, c)
<1> USE DEF Moved
<1>1. Of(n2, b2, c) \subseteq Of(n, b, c)
  BY DEF Of, Frames
<1>2. ASSUME AtMostOne(n, b, c)
      PROVE  AtMostOne(n2, b2, c)
  <2>1. \A i, j \in DOMAIN n2 : Kind(n2[i]) = c /\ Kind(n2[j]) = c => i = j
    BY <1>2 DEF AtMostOne
  <2>2. ASSUME NEW i \in DOMAIN b2, NEW j \in DOMAIN b2, Kind(b2[i]) = c, Kind(b2[j]) = c
        PROVE  i = j
    BY <1>2, <2>2 DEF AtMostOne
  <2>3. ASSUME NEW i \in DOMAIN n2, NEW j \in DOMAIN b2, Kind(n2[i]) = c, Kind(b2[j]) = c
        PROVE  FALSE
    BY <1>2, <2>3 DEF AtMostOne
  <2> QED
    BY <2>1, <2>2, <2>3 DEF AtMostOne
<1> QED
  BY <1>1, <1>2 DEF Fewer

\* Frames leave the network and none enters the buffer.
LEMMA FewerGone ==
  ASSUME NEW n, NEW b, NEW n2, NEW c, NEW f,
         \A i \in DOMAIN n2 : f[i] \in DOMAIN n /\ n2[i] = n[f[i]],
         \A i, j \in DOMAIN n2 : f[i] = f[j] => i = j
  PROVE  Fewer(n2, b, n, b, c)
<1>1. Moved(n, b, n2, b, {}, f, f)
  BY DEF Moved
<1> QED
  BY <1>1, FewerMoved

\* The first x frames of the network are handed to the buffer, in order, or to none.
LEMMA FewerHanded ==
  ASSUME NEW n \in Seq(Message), NEW b \in Seq(Message), NEW c,
         NEW x \in Nat \ {0}, x <= Len(n), NEW k \in Nat
  PROVE  /\ Fewer(SubSeq(n, x + 1, Len(n)), FirstOf(b \o SubSeq(n, 1, x), k), n, b, c)
         /\ Fewer(SubSeq(n, x + 1, Len(n)), b, n, b, c)
<1> DEFINE n1 == SubSeq(n, 1, x)
           n2 == SubSeq(n, x + 1, Len(n))
           b2 == FirstOf(b \o n1, k)
<1>1. /\ DOMAIN n = 1 .. Len(n) /\ Len(n) \in Nat
      /\ DOMAIN b = 1 .. Len(b) /\ Len(b) \in Nat
  BY LenProperties
<1>2. /\ n1 \in Seq(Message)
      /\ Len(n1) = x
      /\ \A i \in 1 .. x : i \in DOMAIN n /\ n1[i] = n[i]
  BY <1>1, PartFrames
<1>3. /\ DOMAIN n2 = 1 .. Len(n) - x
      /\ \A i \in 1 .. Len(n) - x : x + i \in DOMAIN n /\ n2[i] = n[x + i]
  BY <1>1, PartFrames, LenProperties
<1>4. /\ b \o n1 \in Seq(Message)
      /\ DOMAIN (b \o n1) = 1 .. Len(b) + x
      /\ \A i \in 1 .. Len(b) + x :
           (b \o n1)[i] = IF i <= Len(b) THEN b[i] ELSE n1[i - Len(b)]
  BY <1>2, ConcatProperties, LenProperties
<1>5. \A i \in DOMAIN b2 : i \in 1 .. Len(b) + x /\ b2[i] = (b \o n1)[i]
  BY <1>4, FirstOfFrames
<1> HIDE DEF n1, n2, b2
<1> DEFINE f == [i \in DOMAIN n2 |-> x + i]
           g == [i \in DOMAIN b2 |-> i - Len(b)]
           X == 1 .. x
<1>6. \A i \in DOMAIN n2 : f[i] \in DOMAIN n /\ f[i] \notin X /\ n2[i] = n[f[i]]
  BY <1>1, <1>3
<1>7. \A i, j \in DOMAIN n2 : f[i] = f[j] => i = j
  BY <1>3
<1>8. ASSUME NEW i \in DOMAIN b2
      PROVE  \/ i \in DOMAIN b /\ b2[i] = b[i]
             \/ i \notin DOMAIN b /\ g[i] \in DOMAIN n \intersect X /\ b2[i] = n[g[i]]
  BY <1>1, <1>2, <1>4, <1>5
<1>9. \A i, j \in DOMAIN b2 \ DOMAIN b : g[i] = g[j] => i = j
  BY <1>1, <1>5
<1> HIDE DEF f, g, X
<1>10. Moved(n, b, n2, b2, X, f, g)
  BY <1>6, <1>7, <1>8, <1>9 DEF Moved
<1>11. Fewer(n2, b2, n, b, c)
  BY <1>10, FewerMoved
<1>12. Fewer(n2, b, n, b, c)
  BY <1>6, <1>7, FewerGone
<1> QED
  BY <1>11, <1>12 DEF n1, n2, b2

\* The places after y in a sequence of length l.
LEMMA PlacesAfter ==
  ASSUME NEW y \in Nat, NEW l \in Nat, y <= l
  PROVE  /\ y + 1 \in Nat \ {0}
         /\ y + 1 <= l + 1
         /\ l + 1 - (y + 1) = l - y
         /\ \A i \in 1 .. l - y : (y + 1) + i - 1 = y + i
  OBVIOUS

\* A sequence of frames without the one at place y.
LEMMA WithoutFrame ==
  ASSUME NEW n \in Seq(Message), NEW y \in 2 .. Len(n)
  PROVE  LET n2 == SubSeq(n, 1, y - 1) \o SubSeq(n, y + 1, Len(n))
         IN /\ DOMAIN n2 = 1 .. Len(n) - 1
            /\ \A i \in 1 .. Len(n) - 1 : n2[i] = IF i <= y - 1 THEN n[i] ELSE n[i + 1]
<1> DEFINE p == SubSeq(n, 1, y - 1)
           q == SubSeq(n, y + 1, Len(n))
           n2 == p \o q
<1>1. DOMAIN n = 1 .. Len(n) /\ Len(n) \in Nat /\ y \in Nat /\ 2 <= y /\ y <= Len(n)
  BY LenProperties
<1>2. /\ p \in Seq(Message)
      /\ Len(p) = y - 1
      /\ \A i \in 1 .. y - 1 : p[i] = n[i]
  BY <1>1, PartFrames
<1>3. /\ q \in Seq(Message)
      /\ Len(q) = Len(n) - y
      /\ \A i \in 1 .. Len(n) - y : q[i] = n[y + i]
  <2>1. /\ y + 1 \in Nat \ {0}
        /\ y + 1 <= Len(n) + 1
        /\ Len(n) + 1 - (y + 1) = Len(n) - y
        /\ \A i \in 1 .. Len(n) - y : (y + 1) + i - 1 = y + i
    BY <1>1, PlacesAfter
  <2>2. /\ q \in Seq(Message)
        /\ Len(q) = Len(n) + 1 - (y + 1)
        /\ \A i \in 1 .. (Len(n) + 1 - (y + 1)) : q[i] = n[(y + 1) + i - 1]
    BY <1>1, <2>1, PartFrames
  <2> QED
    BY <2>1, <2>2
<1>4. /\ n2 \in Seq(Message)
      /\ Len(n2) = Len(p) + Len(q)
      /\ \A i \in 1 .. Len(p) + Len(q) :
           n2[i] = IF i <= Len(p) THEN p[i] ELSE q[i - Len(p)]
  BY <1>2, <1>3, ConcatProperties
<1> HIDE DEF p, q, n2
<1>5. DOMAIN n2 = 1 .. Len(n) - 1
  <2>1. Len(n2) = Len(n) - 1
    BY <1>1, <1>2, <1>3, <1>4
  <2> QED
    BY <1>4, <2>1, LenProperties
<1>6. ASSUME NEW i \in 1 .. Len(n) - 1
      PROVE  n2[i] = IF i <= y - 1 THEN n[i] ELSE n[i + 1]
  <2>0. n2[i] = IF i <= y - 1 THEN p[i] ELSE q[i - (y - 1)]
    BY <1>1, <1>2, <1>3, <1>4
  <2>1. CASE i <= y - 1
    BY <1>2, <2>0, <2>1
  <2>2. CASE ~(i <= y - 1)
    <3>1. i - (y - 1) \in 1 .. Len(n) - y /\ y + (i - (y - 1)) = i + 1
      BY <1>1, <2>2
    <3>2. q[i - (y - 1)] = n[i + 1]
      BY <1>3, <3>1
    <3> QED
      BY <2>0, <2>2, <3>2
  <2> QED
    BY <2>1, <2>2
<1> QED
  BY <1>5, <1>6 DEF p, q, n2

\* The frame at place y of the network is handed to the buffer.
LEMMA FewerOvertaken ==
  ASSUME NEW n \in Seq(Message), NEW b \in Seq(Message), NEW c,
         NEW y \in 2 .. Len(n), NEW k \in Nat
  PROVE  /\ Fewer(SubSeq(n, 1, y - 1) \o SubSeq(n, y + 1, Len(n)),
                  FirstOf(b \o <<n[y]>>, k), n, b, c)
         /\ Fewer(SubSeq(n, 1, y - 1) \o SubSeq(n, y + 1, Len(n)), b, n, b, c)
<1> DEFINE n2 == SubSeq(n, 1, y - 1) \o SubSeq(n, y + 1, Len(n))
           b2 == FirstOf(b \o <<n[y]>>, k)
<1>1. /\ DOMAIN n = 1 .. Len(n) /\ Len(n) \in Nat
      /\ DOMAIN b = 1 .. Len(b) /\ Len(b) \in Nat
      /\ y \in DOMAIN n /\ n[y] \in Message
  BY LenProperties, ElementOfSeq
<1>4. /\ DOMAIN n2 = 1 .. Len(n) - 1
      /\ \A i \in 1 .. Len(n) - 1 : n2[i] = IF i <= y - 1 THEN n[i] ELSE n[i + 1]
  BY WithoutFrame
<1>5. /\ <<n[y]>> \in Seq(Message)
      /\ Len(<<n[y]>>) = 1
      /\ <<n[y]>>[1] = n[y]
  BY <1>1
<1>6. /\ b \o <<n[y]>> \in Seq(Message)
      /\ DOMAIN (b \o <<n[y]>>) = 1 .. Len(b) + 1
      /\ \A i \in 1 .. Len(b) + 1 :
           (b \o <<n[y]>>)[i] = IF i <= Len(b) THEN b[i] ELSE n[y]
  BY <1>1, <1>5, ConcatProperties, LenProperties
<1>7. \A i \in DOMAIN b2 : i \in 1 .. Len(b) + 1 /\ b2[i] = (b \o <<n[y]>>)[i]
  BY <1>6, FirstOfFrames
<1> HIDE DEF n2, b2
<1> DEFINE f == [i \in DOMAIN n2 |-> IF i <= y - 1 THEN i ELSE i + 1]
           g == [i \in DOMAIN b2 |-> y]
           X == {y}
<1>8. \A i \in DOMAIN n2 : f[i] \in DOMAIN n /\ f[i] \notin X /\ n2[i] = n[f[i]]
  BY <1>1, <1>4
<1>9. \A i, j \in DOMAIN n2 : f[i] = f[j] => i = j
  BY <1>4
<1>10. \A i \in DOMAIN b2 : \/ i \in DOMAIN b /\ b2[i] = b[i]
                            \/ i \notin DOMAIN b /\ g[i] \in DOMAIN n \intersect X /\ b2[i] = n[g[i]]
  BY <1>1, <1>6, <1>7
<1>11. \A i, j \in DOMAIN b2 \ DOMAIN b : g[i] = g[j] => i = j
  BY <1>1, <1>7
<1> HIDE DEF f, g, X
<1>12. Moved(n, b, n2, b2, X, f, g)
  BY <1>8, <1>9, <1>10, <1>11 DEF Moved
<1>13. Fewer(n2, b2, n, b, c)
  BY <1>12, FewerMoved
<1>14. Fewer(n2, b, n, b, c)
  BY <1>8, <1>9, FewerGone
<1> QED
  BY <1>13, <1>14 DEF n2, b2
-----------------------------------------------------------------------------
(***************************************************************************)
(* The inductive invariant.                                                *)
(***************************************************************************)
\* connect has not seen the handshake's ACK, and never will if it failed.
Early == {"idle", "opening", "failed"}

\* The server's session has been opened, so its ACK of INIT has been sent.
Hailed == phase[Server] \notin {"idle", "opened", "failed"}

Greeting == ~Hailed => phase[Client] \in Early

Counts(s) ==
  /\ acked[s] <= Len(recvd[Other(s)])
  /\ Len(recvd[Other(s)]) <= sent[s]
  /\ sent[s] <= loaded[s]
  /\ stream[s] \in {"off", "pull"} => acked[s] = sent[s]
  /\ stream[s] = "off" => sent[s] = 0
  /\ phase[s] \in Early \union {"opened"} => stream[s] = "off"

\* The message on its way from s is the last one, and was not pushed yet.
MsgFlow(s) ==
  LET o == Other(s)
  IN /\ AtMostOne(net[o], buf[o]["msg"], "MSG")
     /\ \A m \in Of(net[o], buf[o]["msg"], "MSG") :
          m.d = sent[s] /\ Len(recvd[o]) + 1 = sent[s] /\ acked[s] + 1 = sent[s]

\* The ACK on its way to s answers the last message, which was pushed.
AckFlow(s) ==
  /\ AtMostOne(net[s], buf[s]["ack"], "ACK")
  /\ \A m \in Of(net[s], buf[s]["ack"], "ACK") :
       m.d = sent[s] /\ Len(recvd[Other(s)]) = sent[s] /\ acked[s] + 1 = sent[s]

\* The handshake's ACK is on its way only before connect has taken it.
HelloFlow(s) ==
  /\ AtMostOne(net[s], buf[s]["ack"], "hello")
  /\ \A m \in Of(net[s], buf[s]["ack"], "hello") :
       s = Client /\ phase[Client] \in Early /\ Hailed

Flows(s) == Counts(s) /\ MsgFlow(s) /\ AckFlow(s) /\ HelloFlow(s)

IInv == Greeting /\ \A s \in Sides : Flows(s)

LEMMA OtherSide ==
  ASSUME NEW s \in Sides
  PROVE  /\ Other(s) \in Sides
         /\ Other(s) # s
         /\ Other(Other(s)) = s
         /\ \A e \in Sides : e = s \/ e = Other(s)
  BY DEF Sides, Other, Client, Server

LEMMA InitIInv == Init => IInv
<1> SUFFICES ASSUME Init PROVE IInv
  OBVIOUS
<1>1. Greeting
  BY DEF Init, Greeting, Early, Sides
<1>2. ASSUME NEW s \in Sides PROVE Flows(s)
  <2>0. Other(s) \in Sides
    BY OtherSide
  <2>1. Counts(s)
    BY <2>0, EmptySeq, CapAssumption DEF Init, Counts, Early
  <2>2. \A x \in Sides, b \in Buffers : net[x] = <<>> /\ buf[x][b] = <<>>
    BY DEF Init
  <2>3. \A c : AtMostOne(<<>>, <<>>, c) /\ Of(<<>>, <<>>, c) = {}
    BY DEF AtMostOne, Of, Frames
  <2>4. "msg" \in Buffers /\ "ack" \in Buffers
    BY DEF Buffers
  <2>5. /\ net[Other(s)] = <<>> /\ buf[Other(s)]["msg"] = <<>>
        /\ net[s] = <<>> /\ buf[s]["ack"] = <<>>
    BY <2>0, <2>2, <2>4
  <2> QED
    BY <2>1, <2>3, <2>5 DEF Flows, MsgFlow, AckFlow, HelloFlow
<1> QED
  BY <1>1, <1>2 DEF IInv
-----------------------------------------------------------------------------
(***************************************************************************)
(* What the handlers do to the frames on their way to a side and buffer.   *)
(***************************************************************************)
BufFewer(x, b, c) == Fewer(net[x], buf'[x][b], net[x], buf[x][b], c)
AllFewer(x, b, c) == Fewer(net'[x], buf'[x][b], net[x], buf[x][b], c)

\* No handler that only sends frames of other kinds adds one of these.
Calm == \A x \in Sides, b \in Buffers, c \in Kinds : AllFewer(x, b, c)

LEMMA PopFewer ==
  ASSUME TypeOK, NEW e \in Sides, NEW b \in Buffers, Holds(e, b), Pop(e, b)
  PROVE  /\ \A x \in Sides, y \in Buffers, c \in Kinds : BufFewer(x, y, c)
         /\ Front(e, b) \in Frames(buf[e][b])
         /\ \A c \in Kinds : AtMostOne(net[e], buf[e][b], c) /\ Kind(Front(e, b)) = c
              => Of(net[e], buf'[e][b], c) = {}
<1>1. net[e] \in Seq(Message) /\ buf[e][b] \in Seq(Message) /\ buf[e][b] # <<>>
  BY DEF TypeOK, Holds
<1>2. \A x \in Sides, y \in Buffers :
        buf'[x][y] = IF x = e /\ y = b THEN Tail(buf[e][b]) ELSE buf[x][y]
  BY DEF Pop, TypeOK
<1>3. /\ \A c : Fewer(net[e], Tail(buf[e][b]), net[e], buf[e][b], c)
      /\ buf[e][b][1] \in Frames(buf[e][b])
      /\ \A c : AtMostOne(net[e], buf[e][b], c) /\ Kind(buf[e][b][1]) = c
           => Of(net[e], Tail(buf[e][b]), c) = {}
  BY <1>1, FewerTail
<1>4. ASSUME NEW x \in Sides, NEW y \in Buffers, NEW c \in Kinds PROVE BufFewer(x, y, c)
  BY <1>2, <1>3, FewerSame DEF BufFewer
<1> QED
  BY <1>2, <1>3, <1>4 DEF Front

LEMMA UnregisterFewer ==
  ASSUME TypeOK, NEW e \in Sides, NEW bs, Unregister(e, bs)
  PROVE  \A x \in Sides, y \in Buffers, c \in Kinds : BufFewer(x, y, c)
<1>1. ASSUME NEW x \in Sides, NEW y \in Buffers
      PROVE  \/ buf'[x][y] = <<>> \/ buf'[x][y] = buf[x][y]
             \/ buf'[x][y] = FirstOf(buf[x][y], 1)
  BY TypeParts, UnregisterLeaves, HandedOK
<1>2. ASSUME NEW x \in Sides, NEW y \in Buffers, NEW c \in Kinds
      PROVE  Fewer(net[x], FirstOf(buf[x][y], 1), net[x], buf[x][y], c)
  BY FewerFirst DEF TypeOK
<1> QED
  BY <1>1, <1>2, FewerSame, FewerEmpty DEF BufFewer

LEMMA EmitFewer ==
  ASSUME TypeOK, TypeOK', NEW e \in Sides, NEW m \in Message, Emit(e, m),
         NEW x \in Sides, NEW b \in Buffers, NEW c, BufFewer(x, b, c)
  PROVE  /\ x # Other(e) \/ Kind(m) # c => AllFewer(x, b, c)
         /\ Of(net[x], buf'[x][b], c) = {} =>
              /\ AtMostOne(net'[x], buf'[x][b], c)
              /\ Of(net'[x], buf'[x][b], c) \subseteq {m}
<1>1. net[x] \in Seq(Message) /\ buf'[x][b] \in Seq(Message)
  BY DEF TypeOK
<1>2. \/ net'[x] = net[x]
      \/ x = Other(e) /\ net'[x] = Append(net[x], m)
  BY OtherSide DEF Emit, TypeOK
<1>3. CASE net'[x] = net[x]
  <2>1. AllFewer(x, b, c)
    BY <1>3 DEF BufFewer, AllFewer
  <2>2. ASSUME Of(net[x], buf'[x][b], c) = {}
        PROVE  /\ AtMostOne(net'[x], buf'[x][b], c)
               /\ Of(net'[x], buf'[x][b], c) \subseteq {m}
    BY <1>3, <2>2 DEF Of, Frames, AtMostOne
  <2> QED
    BY <2>1, <2>2
<1>4. CASE x = Other(e) /\ net'[x] = Append(net[x], m)
  <2>1. /\ Kind(m) # c => Fewer(net'[x], buf'[x][b], net[x], buf'[x][b], c)
        /\ Of(net[x], buf'[x][b], c) = {} =>
             /\ AtMostOne(net'[x], buf'[x][b], c)
             /\ Of(net'[x], buf'[x][b], c) \subseteq {m}
    BY <1>1, <1>4, Sent
  <2>2. Kind(m) # c => AllFewer(x, b, c)
    BY <2>1, FewerTrans DEF BufFewer, AllFewer
  <2> QED
    BY <1>4, <2>1, <2>2
<1> QED
  BY <1>2, <1>3, <1>4

\* A handler that changes no buffer.
LEMMA SameFewer ==
  ASSUME buf' = buf
  PROVE  \A x \in Sides, y \in Buffers, c \in Kinds : BufFewer(x, y, c)
  BY FewerSame DEF BufFewer

\* A handler that sends nothing.
LEMMA SilentCalm ==
  ASSUME net' = net, \A x \in Sides, y \in Buffers, c \in Kinds : BufFewer(x, y, c)
  PROVE  Calm
  BY DEF Calm, AllFewer, BufFewer

\* A handler that sends INIT or TERM.
LEMMA SignalCalm ==
  ASSUME TypeOK, TypeOK', NEW e \in Sides, NEW m \in Message, Emit(e, m),
         m.t \in {"INIT", "TERM"},
         \A x \in Sides, y \in Buffers, c \in Kinds : BufFewer(x, y, c)
  PROVE  Calm
<1>1. Kind(m) \notin Kinds
  BY DEF Kind, Kinds
<1> QED
  BY <1>1, EmitFewer DEF Calm

LEMMA DeliverCalm ==
  ASSUME TypeOK, NEW s \in Sides, Deliver(s)
  PROVE  Calm
<1>0. /\ \A x \in Sides : net[x] \in Seq(Message) /\ Len(net[x]) \in Nat
      /\ \A x \in Sides, b \in Buffers : buf[x][b] \in Seq(Message)
  BY LenProperties DEF TypeOK
<1>1. \A b \in Buffers : Room(s, b) \in Nat
  BY CapAssumption DEF Room
<1>2. ASSUME NEW n \in 1 .. Batch, n <= Len(net[s]),
             BufferIn(s, SubSeq(net[s], 1, n)),
             net' = [net EXCEPT ![s] = SubSeq(@, n + 1, Len(@))]
      PROVE  Calm
  <2>0. n \in Nat \ {0}
    BY CapAssumption
  <2>1. \A x \in Sides, b \in Buffers :
          buf'[x][b] = IF x # s THEN buf[x][b]
                       ELSE IF b \in reg[s]
                       THEN FirstOf(buf[s][b] \o SubSeq(net[s], 1, n), Room(s, b))
                       ELSE buf[s][b]
    BY <1>2 DEF BufferIn, TypeOK
  <2>2. \A x \in Sides :
          net'[x] = IF x = s THEN SubSeq(net[s], n + 1, Len(net[s])) ELSE net[x]
    BY <1>2 DEF TypeOK
  <2>3. ASSUME NEW b \in Buffers, NEW c
        PROVE  /\ Fewer(SubSeq(net[s], n + 1, Len(net[s])),
                        FirstOf(buf[s][b] \o SubSeq(net[s], 1, n), Room(s, b)),
                        net[s], buf[s][b], c)
               /\ Fewer(SubSeq(net[s], n + 1, Len(net[s])), buf[s][b],
                        net[s], buf[s][b], c)
    BY <1>0, <1>1, <1>2, <2>0, FewerHanded
  <2>4. ASSUME NEW x \in Sides, NEW b \in Buffers, NEW c \in Kinds
        PROVE  AllFewer(x, b, c)
    BY <2>1, <2>2, <2>3, FewerSame DEF AllFewer
  <2> QED
    BY <2>4 DEF Calm
<1>3. ASSUME NEW i \in 2 .. Len(net[s]),
             BufferIn(s, <<net[s][i]>>),
             net' = [net EXCEPT ![s] = SubSeq(@, 1, i - 1) \o SubSeq(@, i + 1, Len(@))]
      PROVE  Calm
  <2> DEFINE rest == SubSeq(net[s], 1, i - 1) \o SubSeq(net[s], i + 1, Len(net[s]))
  <2>1. \A x \in Sides, b \in Buffers :
          buf'[x][b] = IF x # s THEN buf[x][b]
                       ELSE IF b \in reg[s]
                       THEN FirstOf(buf[s][b] \o <<net[s][i]>>, Room(s, b))
                       ELSE buf[s][b]
    BY <1>3 DEF BufferIn, TypeOK
  <2>2. \A x \in Sides : net'[x] = IF x = s THEN rest ELSE net[x]
    BY <1>3 DEF TypeOK
  <2>3. ASSUME NEW b \in Buffers, NEW c
        PROVE  /\ Fewer(rest, FirstOf(buf[s][b] \o <<net[s][i]>>, Room(s, b)),
                        net[s], buf[s][b], c)
               /\ Fewer(rest, buf[s][b], net[s], buf[s][b], c)
    BY <1>0, <1>1, <1>3, FewerOvertaken
  <2> HIDE DEF rest
  <2>4. ASSUME NEW x \in Sides, NEW b \in Buffers, NEW c \in Kinds
        PROVE  AllFewer(x, b, c)
    BY <2>1, <2>2, <2>3, FewerSame DEF AllFewer
  <2> QED
    BY <2>4 DEF Calm
<1> QED
  BY <1>2, <1>3 DEF Deliver

LEMMA SocketCalm ==
  ASSUME TypeOK, NEW s \in Sides, Disconnect \/ SocketClosed(s)
  PROVE  Calm
<1>1. CASE Disconnect
  BY <1>1, FewerEmpty DEF Disconnect, Calm, AllFewer
<1>2. CASE SocketClosed(s)
  BY <1>2, UnregisterFewer, SilentCalm DEF SocketClosed
<1> QED
  BY <1>1, <1>2
-----------------------------------------------------------------------------
(***************************************************************************)
(* Steps that change no frame that matters and no count.                   *)
(***************************************************************************)
LEMMA KeepMsg ==
  ASSUME TypeOK, TypeOK', NEW s \in Sides, MsgFlow(s), AllFewer(Other(s), "msg", "MSG"),
         sent'[s] = sent[s], acked'[s] = acked[s],
         recvd'[Other(s)] = recvd[Other(s)]
  PROVE  MsgFlow(s)'
  BY DEF MsgFlow, AllFewer, Fewer

LEMMA KeepAck ==
  ASSUME NEW s \in Sides, AckFlow(s), AllFewer(s, "ack", "ACK"),
         sent'[s] = sent[s], acked'[s] = acked[s],
         recvd'[Other(s)] = recvd[Other(s)]
  PROVE  AckFlow(s)'
  BY DEF AckFlow, AllFewer, Fewer

LEMMA KeepHello ==
  ASSUME NEW s \in Sides, HelloFlow(s), AllFewer(s, "ack", "hello"),
         phase[Client] \in Early /\ Hailed => (phase[Client] \in Early /\ Hailed)'
  PROVE  HelloFlow(s)'
  BY DEF HelloFlow, AllFewer, Fewer

\* The control of a side moves without disturbing what Counts says.
Steady(s) ==
  /\ loaded'[s] >= loaded[s]
  /\ stream'[s] \in {"off", "pull"} => stream[s] \in {"off", "pull"}
  /\ stream'[s] = "off" => stream[s] = "off"
  /\ phase'[s] \in Early \union {"opened"} => stream'[s] = "off"

LEMMA KeepCounts ==
  ASSUME TypeOK, TypeOK', NEW s \in Sides, Counts(s), Steady(s),
         UNCHANGED <<sent, acked, recvd>>
  PROVE  Counts(s)'
<1>1. /\ sent[s] \in Nat /\ acked[s] \in Nat
      /\ loaded[s] \in Nat /\ loaded'[s] \in Nat
  BY CapAssumption DEF TypeOK
<1>2. sent'[s] = sent[s] /\ acked'[s] = acked[s] /\ recvd'[Other(s)] = recvd[Other(s)]
  OBVIOUS
<1>3. sent'[s] <= loaded'[s]
  BY <1>1, <1>2 DEF Counts, Steady
<1> QED
  BY <1>2, <1>3 DEF Counts, Steady

LEMMA CalmStep ==
  ASSUME TypeOK, TypeOK', IInv, Calm, UNCHANGED <<sent, acked, recvd>>,
         \A s \in Sides : Steady(s),
         Greeting',
         phase[Client] \in Early /\ Hailed => (phase[Client] \in Early /\ Hailed)'
  PROVE  IInv'
<1>0. "msg" \in Buffers /\ "ack" \in Buffers /\ Kinds = {"MSG", "ACK", "hello"}
  BY DEF Buffers, Kinds
<1>1. ASSUME NEW s \in Sides PROVE Flows(s)'
  <2>0. Other(s) \in Sides
    BY OtherSide
  <2>1. Counts(s)'
    BY KeepCounts DEF IInv, Flows
  <2>2. MsgFlow(s)'
    BY <1>0, <2>0, KeepMsg DEF IInv, Flows, Calm
  <2>3. AckFlow(s)'
    BY <1>0, KeepAck DEF IInv, Flows, Calm
  <2>4. HelloFlow(s)'
    BY <1>0, KeepHello DEF IInv, Flows, Calm
  <2> QED
    BY <2>1, <2>2, <2>3, <2>4 DEF Flows
<1> QED
  BY <1>1 DEF IInv
-----------------------------------------------------------------------------
(***************************************************************************)
(* Each handler preserves the invariant.                                   *)
(***************************************************************************)
\* Steps that change neither a phase nor a stream, or end a stream.
LEMMA SteadySame ==
  ASSUME TypeOK, TypeOK', IInv, phase' = phase,
         \A s \in Sides : stream'[s] = stream[s]
                          \/ (stream[s] # "off" /\ stream'[s] = "done"),
         loaded' = loaded
  PROVE  /\ \A s \in Sides : Steady(s)
         /\ Greeting'
         /\ phase[Client] \in Early /\ Hailed => (phase[Client] \in Early /\ Hailed)'
<1>1. ASSUME NEW s \in Sides PROVE Steady(s)
  <2>1. loaded[s] \in Nat
    BY CapAssumption DEF TypeOK
  <2>2. phase[s] \in Early \union {"opened"} => stream[s] = "off"
    BY DEF IInv, Flows, Counts
  <2> QED
    BY <2>1, <2>2 DEF Steady
<1> QED
  BY <1>1 DEF IInv, Greeting, Hailed

LEMMA ConnectIInv ==
  ASSUME TypeOK, TypeOK', IInv, Connect
  PROVE  IInv'
<1>1. Client \in Sides /\ Server \in Sides /\ Client # Server
  BY DEF Sides, Client, Server
<1>2. Calm
  <2>1. [t |-> "INIT", n |-> 0, d |-> 0] \in Message
    BY DEF Message
  <2> QED
    BY <1>1, <2>1, SignalCalm, SameFewer DEF Connect
<1>3. /\ phase'[Client] = "opening" /\ phase[Client] = "idle"
      /\ phase'[Server] = phase[Server]
  BY <1>1 DEF Connect, TypeOK
<1>4. ASSUME NEW s \in Sides PROVE Steady(s)
  <2>1. loaded[s] \in Nat
    BY CapAssumption DEF TypeOK
  <2>2. phase[s] \in Early \union {"opened"} => stream[s] = "off"
    BY DEF IInv, Flows, Counts
  <2>3. phase'[s] \in Early \union {"opened"} => phase[s] \in Early \union {"opened"}
    BY <1>3 DEF Sides, Early
  <2> QED
    BY <2>1, <2>2, <2>3 DEF Steady, Connect
<1>5. Greeting' /\ (phase[Client] \in Early /\ Hailed => (phase[Client] \in Early /\ Hailed)')
  BY <1>3 DEF Greeting, Hailed, Early
<1>6. UNCHANGED <<sent, acked, recvd>>
  BY DEF Connect
<1> QED
  BY <1>2, <1>4, <1>5, <1>6, CalmStep

\* What the front of the client's buffer can be while connect waits for the ACK.
LEMMA GreetedByHello ==
  ASSUME TypeOK, IInv, Handshake(Client), Front(Client, "ack").t = "ACK"
  PROVE  /\ Kind(Front(Client, "ack")) = "hello"
         /\ Front(Client, "ack") \in Of(net[Client], buf[Client]["ack"], "hello")
<1> DEFINE m == Front(Client, "ack")
<1>1. Client \in Sides /\ "ack" \in Buffers
  BY DEF Sides, Buffers
<1>2. phase[Client] = "opening" /\ Holds(Client, "ack")
  BY DEF Handshake, Handshaking, SigBuffer
<1>3. m \in Frames(buf[Client]["ack"]) /\ m \in Message
  <2>1. buf[Client]["ack"] \in Seq(Message) /\ buf[Client]["ack"] # <<>>
    BY <1>1, <1>2 DEF TypeOK, Holds
  <2>2. 1 \in DOMAIN buf[Client]["ack"] /\ buf[Client]["ack"][1] \in Message
    BY <2>1, EmptySeq, LenProperties, ElementOfSeq
  <2> QED
    BY <2>2 DEF Front, Frames
<1>4. sent[Client] = 0
  BY <1>1, <1>2 DEF IInv, Flows, Counts, Early
<1>5. m.d # 0 => FALSE
  <2> SUFFICES ASSUME m.d # 0 PROVE FALSE
    OBVIOUS
  <2>1. m \in Of(net[Client], buf[Client]["ack"], "ACK")
    BY <1>3 DEF Of, Kind
  <2>2. m.d = sent[Client]
    BY <1>1, <2>1 DEF IInv, Flows, AckFlow
  <2> QED
    BY <1>4, <2>2
<1> QED
  BY <1>3, <1>5 DEF Kind, Of

LEMMA HandshakeIInv ==
  ASSUME TypeOK, TypeOK', IInv, NEW e \in Sides, Handshake(e)
  PROVE  IInv'
<1> DEFINE m == Front(e, SigBuffer(e))
           match == m.n = 0 /\ m.t = IF e = Client THEN "ACK" ELSE "INIT"
<1>0. /\ Client \in Sides /\ Server \in Sides /\ Client # Server
      /\ SigBuffer(e) \in Buffers /\ "ack" \in Buffers /\ "hello" \in Kinds
  BY DEF Sides, Client, Server, SigBuffer, Buffers, Kinds
<1>1. UNCHANGED <<net, stream, loaded, sent, acked, recvd>>
  BY DEF Handshake
<1>2. \A x \in Sides, y \in Buffers, c \in Kinds : BufFewer(x, y, c)
  BY <1>0, UnregisterFewer, PopFewer DEF Handshake
<1>3. Calm
  BY <1>1, <1>2, SilentCalm
<1>4. \A s \in Sides : phase[s] \in Early \union {"opened"} => stream[s] = "off"
  BY DEF IInv, Flows, Counts
<1>5. phase[e] = IF e = Client THEN "opening" ELSE "idle"
  BY DEF Handshake, Handshaking
<1>6. \A s \in Sides : Steady(s)
  <2> SUFFICES ASSUME NEW s \in Sides PROVE Steady(s)
    OBVIOUS
  <2>1. loaded[s] \in Nat
    BY CapAssumption DEF TypeOK
  <2>2. phase'[s] = phase[s] \/ s = e
    BY DEF Handshake, TypeOK
  <2> QED
    BY <1>1, <1>4, <1>5, <2>1, <2>2 DEF Steady, Early
<1>7. CASE ~match
  <2>1. phase' = phase
    BY <1>7 DEF Handshake
  <2>2. Greeting' /\ (phase[Client] \in Early /\ Hailed => (phase[Client] \in Early /\ Hailed)')
    BY <2>1 DEF IInv, Greeting, Hailed
  <2> QED
    BY <1>1, <1>3, <1>6, <2>2, CalmStep
<1>8. CASE match /\ e = Server
  <2>1. phase' = [phase EXCEPT ![Server] = "opened"] /\ phase[Server] = "idle"
    BY <1>0, <1>5, <1>8 DEF Handshake
  <2>2. phase'[Client] = phase[Client] /\ phase'[Server] = "opened"
    BY <1>0, <2>1 DEF TypeOK
  <2>3. Greeting' /\ (phase[Client] \in Early /\ Hailed => (phase[Client] \in Early /\ Hailed)')
    BY <2>1, <2>2 DEF IInv, Greeting, Hailed
  <2> QED
    BY <1>1, <1>3, <1>6, <2>3, CalmStep
<1>9. CASE match /\ e = Client
  <2>1. /\ phase' = [phase EXCEPT ![Client] = "opened"]
        /\ Pop(Client, "ack") /\ Holds(Client, "ack") /\ m.t = "ACK"
        /\ m = Front(Client, "ack")
    BY <1>0, <1>9 DEF Handshake, SigBuffer
  <2>2. phase'[Server] = phase[Server]
    BY <1>0, <2>1 DEF TypeOK
  <2>3. /\ Kind(m) = "hello"
        /\ m \in Of(net[Client], buf[Client]["ack"], "hello")
    BY <1>9, <2>1, GreetedByHello
  <2>4. Hailed /\ Hailed'
    <3>1. Hailed
      BY <1>0, <2>3 DEF IInv, Flows, HelloFlow
    <3> QED
      BY <2>2, <3>1 DEF Hailed
  <2>5. Of(net'[Client], buf'[Client]["ack"], "hello") = {}
    <3>1. AtMostOne(net[Client], buf[Client]["ack"], "hello")
      BY <1>0 DEF IInv, Flows, HelloFlow
    <3> QED
      BY <1>0, <1>1, <2>1, <2>3, <3>1, PopFewer
  <2>6. ASSUME NEW s \in Sides PROVE Flows(s)'
    <3>0. Other(s) \in Sides /\ "msg" \in Buffers /\ "MSG" \in Kinds /\ "ACK" \in Kinds
      BY OtherSide DEF Buffers, Kinds
    <3>1. Counts(s)'
      BY <1>1, <1>6, KeepCounts DEF IInv, Flows
    <3>2. MsgFlow(s)'
      BY <1>1, <1>3, <3>0, KeepMsg DEF IInv, Flows, Calm
    <3>3. AckFlow(s)'
      BY <1>0, <1>1, <1>3, <3>0, KeepAck DEF IInv, Flows, Calm
    <3>4. HelloFlow(s)'
      <4>1. AllFewer(s, "ack", "hello")
        BY <1>0, <1>3 DEF Calm
      <4>2. AtMostOne(net'[s], buf'[s]["ack"], "hello")
        BY <4>1 DEF AllFewer, Fewer, IInv, Flows, HelloFlow
      <4>3. Of(net'[s], buf'[s]["ack"], "hello") = {}
        BY <2>5, <4>1 DEF AllFewer, Fewer, IInv, Flows, HelloFlow
      <4> QED
        BY <4>2, <4>3 DEF HelloFlow
    <3> QED
      BY <3>1, <3>2, <3>3, <3>4 DEF Flows
  <2> QED
    BY <2>4, <2>6 DEF IInv, Greeting
<1>10. e = Client \/ e = Server
  BY DEF Sides
<1> QED
  BY <1>7, <1>8, <1>9, <1>10

LEMMA FailedIInv ==
  ASSUME TypeOK, TypeOK', IInv, NEW e \in Sides, Handshaking(e), HandshakeFailed(e)
  PROVE  IInv'
<1>0. Client \in Sides /\ Server \in Sides /\ Client # Server
  BY DEF Sides, Client, Server
<1>1. UNCHANGED <<net, stream, loaded, sent, acked, recvd>>
  BY DEF HandshakeFailed
<1>2. Calm
  BY <1>1, UnregisterFewer, SameFewer, SilentCalm DEF HandshakeFailed
<1>3. /\ phase[e] = IF e = Client THEN "opening" ELSE "idle"
      /\ phase'[e] = "failed"
      /\ \A s \in Sides : s # e => phase'[s] = phase[s]
  BY DEF Handshaking, HandshakeFailed, TypeOK
<1>4. ASSUME NEW s \in Sides PROVE Steady(s)
  <2>1. loaded[s] \in Nat
    BY CapAssumption DEF TypeOK
  <2>2. phase[s] \in Early \union {"opened"} => stream[s] = "off"
    BY DEF IInv, Flows, Counts
  <2> QED
    BY <1>1, <1>3, <2>1, <2>2 DEF Steady, Early
<1>5. Greeting' /\ (phase[Client] \in Early /\ Hailed => (phase[Client] \in Early /\ Hailed)')
  <2>1. CASE e = Client
    BY <1>0, <1>3, <2>1 DEF Greeting, Hailed, Early
  <2>2. CASE e = Server
    BY <1>0, <1>3, <2>2 DEF IInv, Greeting, Hailed, Early
  <2> QED
    BY <2>1, <2>2 DEF Sides
<1> QED
  BY <1>1, <1>2, <1>4, <1>5, CalmStep

LEMMA OpenIInv ==
  ASSUME TypeOK, TypeOK', IInv, NEW e \in Sides, Open(e)
  PROVE  IInv'
<1> DEFINE m == [t |-> "ACK", n |-> 0, d |-> 0]
<1>0. Client \in Sides /\ Server \in Sides /\ Client # Server /\ Other(Server) = Client
  BY DEF Sides, Client, Server, Other
<1>1. UNCHANGED <<buf, loaded, sent, acked, recvd>>
  BY DEF Open
<1>2. \A x \in Sides, y \in Buffers, c \in Kinds : BufFewer(x, y, c)
  BY <1>1, SameFewer
<1>3. /\ phase[e] = "opened" /\ phase'[e] = "open"
      /\ \A s \in Sides : s # e => phase'[s] = phase[s] /\ stream'[s] = stream[s]
      /\ stream'[e] \in {"pull", "done"}
  BY DEF Open, TypeOK
<1>4. ASSUME NEW s \in Sides PROVE Steady(s)
  <2>1. loaded[s] \in Nat
    BY CapAssumption DEF TypeOK
  <2>2. phase[s] \in Early \union {"opened"} => stream[s] = "off"
    BY DEF IInv, Flows, Counts
  <2> QED
    BY <1>1, <1>3, <2>1, <2>2 DEF Steady, Early
<1>5. CASE e = Client
  <2>1. Calm
    BY <1>0, <1>2, <1>5, SilentCalm DEF Open
  <2>2. Greeting' /\ (phase[Client] \in Early /\ Hailed => (phase[Client] \in Early /\ Hailed)')
    BY <1>0, <1>3, <1>5 DEF IInv, Greeting, Hailed, Early
  <2> QED
    BY <1>1, <1>4, <2>1, <2>2, CalmStep
<1>6. CASE e = Server
  <2>1. m \in Message /\ Kind(m) = "hello" /\ Emit(Server, m)
    BY <1>0, <1>6 DEF Open, Message, Kind
  <2>2. ~Hailed /\ Hailed' /\ phase'[Client] = phase[Client]
    BY <1>0, <1>3, <1>6 DEF Hailed
  <2>3. ASSUME NEW x \in Sides, NEW b \in Buffers, NEW c \in Kinds,
               c # "hello" \/ x # Client
        PROVE  AllFewer(x, b, c)
    BY <1>0, <1>2, <2>1, <2>3, EmitFewer
  <2>4. ASSUME NEW s \in Sides PROVE Flows(s)'
    <3>0. /\ Other(s) \in Sides /\ "msg" \in Buffers /\ "ack" \in Buffers
          /\ "MSG" \in Kinds /\ "ACK" \in Kinds /\ "hello" \in Kinds
      BY OtherSide DEF Buffers, Kinds
    <3>1. Counts(s)'
      BY <1>1, <1>4, KeepCounts DEF IInv, Flows
    <3>2. MsgFlow(s)'
      BY <1>1, <2>3, <3>0, KeepMsg DEF IInv, Flows
    <3>3. AckFlow(s)'
      BY <1>1, <2>3, <3>0, KeepAck DEF IInv, Flows
    <3>4. Of(net[s], buf[s]["ack"], "hello") = {}
      BY <2>2 DEF IInv, Flows, HelloFlow
    <3>5. HelloFlow(s)'
      <4>1. CASE s = Client
        <5>1. /\ AtMostOne(net'[s], buf'[s]["ack"], "hello")
              /\ Of(net'[s], buf'[s]["ack"], "hello") \subseteq {m}
          BY <1>0, <1>1, <1>2, <2>1, <3>0, <3>4, EmitFewer
        <5>2. phase'[Client] \in Early
          BY <2>2 DEF IInv, Greeting
        <5> QED
          BY <2>2, <4>1, <5>1, <5>2 DEF HelloFlow
      <4>2. CASE s # Client
        <5>1. AllFewer(s, "ack", "hello")
          BY <2>3, <3>0, <4>2
        <5> QED
          BY <3>4, <5>1 DEF AllFewer, Fewer, IInv, Flows, HelloFlow
      <4> QED
        BY <4>1, <4>2
    <3> QED
      BY <3>1, <3>2, <3>3, <3>5 DEF Flows
  <2> QED
    BY <2>2, <2>4 DEF IInv, Greeting
<1> QED
  BY <1>5, <1>6 DEF Sides

\* What Flows says of the side that does not send, when the other one does.
LEMMA KeepOther ==
  ASSUME TypeOK, TypeOK', IInv, NEW s \in Sides,
         AllFewer(Other(s), "msg", "MSG"), AllFewer(s, "ack", "ACK"),
         AllFewer(s, "ack", "hello"),
         sent'[s] = sent[s], acked'[s] = acked[s],
         recvd'[Other(s)] = recvd[Other(s)], loaded' = loaded,
         stream'[s] = stream[s], phase' = phase
  PROVE  Flows(s)'
<1>1. Counts(s)'
  BY DEF IInv, Flows, Counts
<1>2. MsgFlow(s)' /\ AckFlow(s)'
  BY KeepMsg, KeepAck DEF IInv, Flows
<1>3. HelloFlow(s)'
  BY KeepHello DEF IInv, Flows, Hailed
<1> QED
  BY <1>1, <1>2, <1>3 DEF Flows

LEMMA TransmitIInv ==
  ASSUME TypeOK, TypeOK', IInv, NEW s \in Sides, Transmit(s),
         stream[s] = "pull", sent[s] < loaded[s],
         UNCHANGED <<buf, phase, loaded, acked, recvd>>
  PROVE  IInv'
<1> DEFINE o == Other(s)
           k == sent[s]
           m == [t |-> "MSG", n |-> Step(s, k + 1), d |-> k + 1]
<1>0. /\ o \in Sides /\ o # s /\ Other(o) = s
      /\ \A e \in Sides : e = s \/ e = o
      /\ "msg" \in Buffers /\ "ack" \in Buffers
      /\ "MSG" \in Kinds /\ "ACK" \in Kinds /\ "hello" \in Kinds
  BY OtherSide DEF Buffers, Kinds
<1>1. /\ k \in Nat /\ acked[s] \in Nat /\ loaded[s] \in Nat
      /\ Len(recvd[o]) \in Nat
      /\ acked[s] = k /\ Len(recvd[o]) = k
  <2>1. k \in Nat /\ acked[s] \in Nat /\ loaded[s] \in Nat
    BY CapAssumption DEF TypeOK
  <2>2. Len(recvd[o]) \in Nat
    BY <1>0, LenProperties DEF TypeOK
  <2>3. acked[s] = k /\ acked[s] <= Len(recvd[o]) /\ Len(recvd[o]) <= k
    BY DEF IInv, Flows, Counts
  <2> QED
    BY <2>1, <2>2, <2>3
<1>2. /\ sent'[s] = k + 1 /\ sent'[o] = sent[o]
      /\ stream'[s] = "ack" /\ stream'[o] = stream[o]
  BY <1>0 DEF Transmit, TypeOK
<1>3. m \in Message /\ Kind(m) = "MSG" /\ Emit(s, m)
  BY <1>1, StepIsNat DEF Transmit, Message, Kind
<1>4. ASSUME NEW x \in Sides, NEW b \in Buffers, NEW c \in Kinds, c # "MSG" \/ x # o
      PROVE  AllFewer(x, b, c)
  BY <1>3, <1>4, SameFewer, EmitFewer
<1>5. Flows(o)'
  BY <1>0, <1>2, <1>4, KeepOther
<1>6. Counts(s)'
  BY <1>0, <1>1, <1>2 DEF IInv, Flows, Counts
<1>7. MsgFlow(s)'
  <2>1. Of(net[o], buf[o]["msg"], "MSG") = {}
    <3>1. \A f \in Of(net[o], buf[o]["msg"], "MSG") : acked[s] + 1 = k
      BY DEF IInv, Flows, MsgFlow
    <3> QED
      BY <1>1, <3>1
  <2>2. BufFewer(o, "msg", "MSG")
    BY <1>0, SameFewer
  <2>3. Of(net[o], buf'[o]["msg"], "MSG") = {}
    BY <2>1
  <2>4. /\ AtMostOne(net'[o], buf'[o]["msg"], "MSG")
        /\ Of(net'[o], buf'[o]["msg"], "MSG") \subseteq {m}
    BY <1>0, <1>3, <2>2, <2>3, EmitFewer
  <2> QED
    BY <1>0, <1>1, <1>2, <2>4 DEF MsgFlow
<1>8. AckFlow(s)'
  <2>1. Of(net[s], buf[s]["ack"], "ACK") = {}
    <3>1. \A f \in Of(net[s], buf[s]["ack"], "ACK") : acked[s] + 1 = k
      BY DEF IInv, Flows, AckFlow
    <3> QED
      BY <1>1, <3>1
  <2>2. AllFewer(s, "ack", "ACK")
    BY <1>0, <1>4
  <2> QED
    BY <2>1, <2>2 DEF AllFewer, Fewer, IInv, Flows, AckFlow
<1>9. HelloFlow(s)'
  BY <1>0, <1>4, KeepHello DEF IInv, Flows, Hailed
<1>10. Greeting'
  BY DEF IInv, Greeting, Hailed
<1> QED
  BY <1>0, <1>5, <1>6, <1>7, <1>8, <1>9, <1>10 DEF IInv, Flows

LEMMA PullIInv ==
  ASSUME TypeOK, TypeOK', IInv, NEW s \in Sides, Pull(s)
  PROVE  IInv'
<1>0. UNCHANGED <<buf, phase, loaded, acked, recvd>> /\ stream[s] = "pull"
  BY DEF Pull, PullReady
<1>1. CASE Interrupted(s) \/ sent[s] = loaded[s]
  <2>1. StreamReturns(s) /\ UNCHANGED <<net, sent>>
    BY <1>1 DEF Pull
  <2>2. Calm
    BY <1>0, <2>1, SameFewer, SilentCalm
  <2>3. \A e \in Sides : stream'[e] = stream[e] \/ (stream[e] # "off" /\ stream'[e] = "done")
    BY <1>0, <2>1 DEF StreamReturns, TypeOK
  <2> QED
    BY <1>0, <2>1, <2>2, <2>3, SteadySame, CalmStep
<1>2. CASE ~(Interrupted(s) \/ sent[s] = loaded[s])
  <2>1. Transmit(s)
    BY <1>2 DEF Pull
  <2>2. sent[s] < loaded[s]
    <3>1. sent[s] \in Nat /\ loaded[s] \in Nat
      BY CapAssumption DEF TypeOK
    <3>2. sent[s] <= loaded[s]
      BY DEF IInv, Flows, Counts
    <3> QED
      BY <1>2, <3>1, <3>2
  <2> QED
    BY <1>0, <2>1, <2>2, TransmitIInv
<1> QED
  BY <1>1, <1>2

\* The ACK that stream takes answers its last message.
LEMMA AcceptedAck ==
  ASSUME TypeOK, IInv, NEW s \in Sides, AwaitAck(s), Front(s, "ack").t = "ACK"
  PROVE  /\ Kind(Front(s, "ack")) = "ACK"
         /\ Front(s, "ack") \in Of(net[s], buf[s]["ack"], "ACK")
         /\ Len(recvd[Other(s)]) = sent[s]
         /\ acked[s] + 1 = sent[s]
<1> DEFINE m == Front(s, "ack")
<1>1. "ack" \in Buffers /\ stream[s] = "ack" /\ Holds(s, "ack") /\ Pop(s, "ack")
  BY DEF Buffers, AwaitAck
<1>2. m \in Frames(buf[s]["ack"])
  BY <1>1, PopFewer
<1>3. Kind(m) = "ACK"
  <2> SUFFICES ASSUME Kind(m) = "hello" PROVE FALSE
    BY DEF Kind
  <2>1. m \in Of(net[s], buf[s]["ack"], "hello")
    BY <1>2 DEF Of
  <2>2. s = Client /\ phase[s] \in Early
    BY <2>1 DEF IInv, Flows, HelloFlow
  <2>3. stream[s] = "off"
    BY <2>2 DEF IInv, Flows, Counts
  <2> QED
    BY <1>1, <2>3
<1>4. m \in Of(net[s], buf[s]["ack"], "ACK")
  BY <1>2, <1>3 DEF Of
<1> QED
  BY <1>3, <1>4 DEF IInv, Flows, AckFlow

LEMMA AwaitAckIInv ==
  ASSUME TypeOK, TypeOK', IInv, NEW s \in Sides, AwaitAck(s)
  PROVE  IInv'
<1> DEFINE o == Other(s)
           m == Front(s, "ack")
<1>0. /\ o \in Sides /\ o # s /\ Other(o) = s
      /\ \A e \in Sides : e = s \/ e = o
      /\ "msg" \in Buffers /\ "ack" \in Buffers
      /\ "MSG" \in Kinds /\ "ACK" \in Kinds /\ "hello" \in Kinds
  BY OtherSide DEF Buffers, Kinds
<1>1. /\ UNCHANGED <<net, phase, loaded, sent, recvd>>
      /\ stream[s] = "ack" /\ Holds(s, "ack") /\ Pop(s, "ack")
  BY DEF AwaitAck
<1>2. Calm
  BY <1>0, <1>1, PopFewer, SilentCalm
<1>3. CASE UNCHANGED <<acked, stream, task>>
  BY <1>1, <1>2, <1>3, SteadySame, CalmStep
<1>4. CASE ~(UNCHANGED <<acked, stream, task>>)
  <2>1. /\ m.t = "ACK"
        /\ acked' = [acked EXCEPT ![s] = @ + 1]
        /\ \/ stream' = [stream EXCEPT ![s] = "done"]
           \/ stream' = [stream EXCEPT ![s] = "pull"]
    BY <1>4 DEF AwaitAck, StreamReturns
  <2>2. /\ Kind(m) = "ACK"
        /\ m \in Of(net[s], buf[s]["ack"], "ACK")
        /\ Len(recvd[o]) = sent[s]
        /\ acked[s] + 1 = sent[s]
    BY <2>1, AcceptedAck
  <2>3. /\ acked'[s] = sent[s] /\ acked'[o] = acked[o]
        /\ stream'[s] \in {"pull", "done"} /\ stream'[o] = stream[o]
        /\ sent[s] \in Nat
    BY <1>0, <2>1, <2>2 DEF TypeOK
  <2>4. Flows(o)'
    BY <1>0, <1>1, <1>2, <2>3, KeepOther DEF Calm
  <2>5. Counts(s)'
    <3>1. phase[s] \notin Early \union {"opened"}
      BY <1>1 DEF IInv, Flows, Counts
    <3>2. sent[s] <= loaded[s]
      BY DEF IInv, Flows, Counts
    <3> QED
      BY <1>0, <1>1, <2>2, <2>3, <3>1, <3>2 DEF Counts
  <2>6. MsgFlow(s)'
    <3>1. Of(net[o], buf[o]["msg"], "MSG") = {}
      <4>1. \A f \in Of(net[o], buf[o]["msg"], "MSG") : Len(recvd[o]) + 1 = sent[s]
        BY DEF IInv, Flows, MsgFlow
      <4> QED
        BY <2>2, <2>3, <4>1
    <3>2. AllFewer(o, "msg", "MSG")
      BY <1>0, <1>2 DEF Calm
    <3> QED
      BY <3>1, <3>2 DEF AllFewer, Fewer, IInv, Flows, MsgFlow
  <2>7. AckFlow(s)'
    <3>1. AllFewer(s, "ack", "ACK")
      BY <1>0, <1>2 DEF Calm
    <3>2. AtMostOne(net[s], buf[s]["ack"], "ACK")
      BY DEF IInv, Flows, AckFlow
    <3>3. Of(net'[s], buf'[s]["ack"], "ACK") = {}
      BY <1>0, <1>1, <2>2, <3>2, PopFewer
    <3> QED
      BY <3>1, <3>2, <3>3 DEF AllFewer, Fewer, AckFlow
  <2>8. HelloFlow(s)'
    BY <1>0, <1>1, <1>2, KeepHello DEF IInv, Flows, Hailed, Calm
  <2>9. Greeting'
    BY <1>1 DEF IInv, Greeting, Hailed
  <2> QED
    BY <1>0, <2>4, <2>5, <2>6, <2>7, <2>8, <2>9 DEF IInv, Flows
<1> QED
  BY <1>3, <1>4

\* A message that is taken from the buffer and acknowledged.
LEMMA PushIInv ==
  ASSUME TypeOK, TypeOK', IInv, NEW o \in Sides, Holds(o, "msg"), Pop(o, "msg"),
         Front(o, "msg").t = "MSG", Acknowledge(o, Front(o, "msg")),
         recvd' = [recvd EXCEPT ![o] = Append(@, Front(o, "msg").d)],
         UNCHANGED <<phase, stream, loaded, sent, acked>>
  PROVE  IInv' /\ Front(o, "msg").d = Len(recvd[o]) + 1 /\ Len(recvd[o]) + 1 = sent[Other(o)]
<1> DEFINE s == Other(o)
           f == Front(o, "msg")
           m == [t |-> "ACK", n |-> f.n, d |-> f.d]
<1>0. /\ s \in Sides /\ o # s /\ Other(s) = o
      /\ \A e \in Sides : e = s \/ e = o
      /\ "msg" \in Buffers /\ "ack" \in Buffers
      /\ "MSG" \in Kinds /\ "ACK" \in Kinds /\ "hello" \in Kinds
  BY OtherSide DEF Buffers, Kinds
<1>1. /\ f \in Message
      /\ Kind(f) = "MSG"
      /\ f \in Of(net[o], buf[o]["msg"], "MSG")
  <2>1. f \in Frames(buf[o]["msg"])
    BY <1>0, PopFewer
  <2>2. Kind(f) = "MSG"
    BY DEF Kind
  <2>3. f \in Message
    <3>1. BufOK
      BY TypeParts
    <3> QED
      BY <1>0, <3>1, FrontOK
  <2> QED
    BY <2>1, <2>2, <2>3 DEF Of
<1>2. /\ f.d = sent[s] /\ Len(recvd[o]) + 1 = sent[s] /\ acked[s] + 1 = sent[s]
      /\ sent[s] \in Nat /\ Len(recvd[o]) \in Nat /\ acked[s] \in Nat
  <2>1. f.d = sent[s] /\ Len(recvd[o]) + 1 = sent[s] /\ acked[s] + 1 = sent[s]
    BY <1>0, <1>1 DEF IInv, Flows, MsgFlow
  <2>2. sent[s] \in Nat /\ Len(recvd[o]) \in Nat /\ acked[s] \in Nat
    BY <1>0, LenProperties DEF TypeOK
  <2> QED
    BY <2>1, <2>2
<1>3. /\ recvd'[s] = recvd[s]
      /\ Len(recvd'[o]) = Len(recvd[o]) + 1
  <2>1. recvd[o] \in Seq(Nat) /\ f.d \in Nat
    BY <1>0, <1>2 DEF TypeOK
  <2>2. recvd'[o] = Append(recvd[o], f.d) /\ recvd'[s] = recvd[s]
    BY <1>0 DEF TypeOK
  <2> QED
    BY <2>1, <2>2, AppendProperties
<1>4. m \in Message /\ Kind(m) = "ACK" /\ Emit(o, m)
  BY <1>1, <1>2 DEF Acknowledge, Message, Kind
<1>5. \A x \in Sides, b \in Buffers, c \in Kinds : BufFewer(x, b, c)
  BY <1>0, PopFewer
<1>6. ASSUME NEW x \in Sides, NEW b \in Buffers, NEW c \in Kinds, c # "ACK" \/ x # s
      PROVE  AllFewer(x, b, c)
  BY <1>4, <1>5, <1>6, EmitFewer
<1>7. Flows(o)'
  BY <1>0, <1>3, <1>6, KeepOther
<1>8. Counts(s)'
  BY <1>0, <1>2, <1>3 DEF IInv, Flows, Counts
<1>9. MsgFlow(s)'
  <2>1. AtMostOne(net[o], buf[o]["msg"], "MSG")
    BY <1>0 DEF IInv, Flows, MsgFlow
  <2>2. Of(net[o], buf'[o]["msg"], "MSG") = {}
    BY <1>0, <1>1, <2>1, PopFewer
  <2>3. AtMostOne(net[o], buf'[o]["msg"], "MSG")
    BY <1>0, <1>5, <2>1 DEF BufFewer, Fewer
  <2>4. net'[o] = net[o]
    BY <1>0, <1>4 DEF Emit, TypeOK
  <2> QED
    BY <1>0, <2>2, <2>3, <2>4 DEF MsgFlow
<1>10. AckFlow(s)'
  <2>1. Of(net[s], buf[s]["ack"], "ACK") = {}
    <3>1. \A g \in Of(net[s], buf[s]["ack"], "ACK") : Len(recvd[o]) = sent[s]
      BY <1>0 DEF IInv, Flows, AckFlow
    <3> QED
      BY <1>2, <3>1
  <2>2. Of(net[s], buf'[s]["ack"], "ACK") = {}
    BY <1>0, <1>5, <2>1 DEF BufFewer, Fewer
  <2>3. /\ AtMostOne(net'[s], buf'[s]["ack"], "ACK")
        /\ Of(net'[s], buf'[s]["ack"], "ACK") \subseteq {m}
    BY <1>0, <1>4, <1>5, <2>2, EmitFewer
  <2> QED
    BY <1>0, <1>2, <1>3, <2>3 DEF AckFlow
<1>11. HelloFlow(s)'
  BY <1>0, <1>6, KeepHello DEF IInv, Flows, Hailed
<1>12. Greeting'
  BY DEF IInv, Greeting, Hailed
<1> QED
  BY <1>0, <1>2, <1>7, <1>8, <1>9, <1>10, <1>11, <1>12 DEF IInv, Flows

\* Listen pushes and acknowledges its front, or neither.
LEMMA ListenCases ==
  ASSUME NEW s \in Sides, Listen(s)
  PROVE  /\ Holds(s, "msg") /\ Pop(s, "msg")
         /\ UNCHANGED <<phase, stream, loaded, sent, acked>>
         /\ \/ UNCHANGED <<net, recvd>>
            \/ /\ Front(s, "msg").t = "MSG"
               /\ Acknowledge(s, Front(s, "msg"))
               /\ recvd' = [recvd EXCEPT ![s] = Append(@, Front(s, "msg").d)]
  BY DEF Listen

LEMMA ListenIInv ==
  ASSUME TypeOK, TypeOK', IInv, NEW s \in Sides, Listen(s)
  PROVE  IInv'
<1>1. CASE UNCHANGED <<net, recvd>>
  <2>1. "msg" \in Buffers
    BY DEF Buffers
  <2>2. Calm
    BY <1>1, <2>1, ListenCases, PopFewer, SilentCalm
  <2> QED
    BY <1>1, <2>2, ListenCases, SteadySame, CalmStep
<1>2. CASE ~UNCHANGED <<net, recvd>>
  BY <1>2, ListenCases, PushIInv
<1> QED
  BY <1>1, <1>2

\* The steps that end with a reason, the application's steps and the socket's
\* events: no frame is sent, and a stream can only end.
LEMMA ReasonIInv ==
  ASSUME TypeOK, TypeOK', IInv, NEW s \in Sides, AckReason(s) \/ ListenReason(s)
  PROVE  IInv'
<1>1. /\ UNCHANGED <<net, buf, phase, loaded, sent, acked, recvd>>
      /\ \A e \in Sides : stream'[e] = stream[e] \/ (stream[e] # "off" /\ stream'[e] = "done")
  BY DEF AckReason, ListenReason, TypeOK
<1>2. Calm
  BY <1>1, SameFewer, SilentCalm
<1> QED
  BY <1>1, <1>2, SteadySame, CalmStep

LEMMA NetworkIInv ==
  ASSUME TypeOK, TypeOK', IInv, NEW s \in Sides, Deliver(s) \/ Disconnect \/ SocketClosed(s)
  PROVE  IInv'
<1>1. Calm
  BY DeliverCalm, SocketCalm
<1>2. UNCHANGED <<phase, stream, loaded, sent, acked, recvd>>
  BY DEF Deliver, Disconnect, SocketClosed
<1> QED
  BY <1>1, <1>2, SteadySame, CalmStep

LEMMA LoadIInv ==
  ASSUME TypeOK, TypeOK', IInv, NEW s \in Sides, Load(s)
  PROVE  IInv'
<1>1. UNCHANGED <<net, buf, phase, stream, sent, acked, recvd>>
  BY DEF Load
<1>2. Calm
  BY <1>1, SameFewer, SilentCalm
<1>3. ASSUME NEW e \in Sides PROVE Steady(e)
  <2>1. loaded[e] \in Nat /\ loaded'[e] \in {loaded[e], loaded[e] + 1}
    BY CapAssumption DEF Load, TypeOK
  <2>2. phase[e] \in Early \union {"opened"} => stream[e] = "off"
    BY DEF IInv, Flows, Counts
  <2> QED
    BY <1>1, <2>1, <2>2 DEF Steady
<1>4. Greeting' /\ (phase[Client] \in Early /\ Hailed => (phase[Client] \in Early /\ Hailed)')
  BY <1>1 DEF IInv, Greeting, Hailed
<1> QED
  BY <1>1, <1>2, <1>3, <1>4, CalmStep

LEMMA ApplicationIInv ==
  ASSUME TypeOK, TypeOK', IInv, NEW s \in Sides, End(s) \/ Cancel(s) \/ Drop
  PROVE  IInv'
<1>1. UNCHANGED <<net, buf, phase, stream, loaded, sent, acked, recvd>>
  BY DEF End, Cancel, Drop
<1>2. Calm
  BY <1>1, SameFewer, SilentCalm
<1> QED
  BY <1>1, <1>2, SteadySame, CalmStep

\* The teardown: phases move past Early, and only TERM is sent.
LEMMA TeardownIInv ==
  ASSUME TypeOK, TypeOK', IInv, ClientTerm \/ AwaitTerm \/ TermReason \/ ServerDrop
  PROVE  IInv'
<1>0. Client \in Sides /\ Server \in Sides /\ Client # Server /\ "term" \in Buffers
  BY DEF Sides, Client, Server, Buffers
<1>1. UNCHANGED <<stream, loaded, sent, acked, recvd>>
  BY DEF ClientTerm, AwaitTerm, TermReason, ServerDrop
<1>2. Calm
  <2>1. CASE ClientTerm
    <3> DEFINE m == [t |-> "TERM", n |-> Step(Client, sent[Client] + 1), d |-> 0]
    <3>0. sent \in [Sides -> Nat]
      BY DEF TypeOK
    <3>1. sent[Client] + 1 \in Nat
      BY <1>0, <3>0
    <3>2. m \in Message /\ Emit(Client, m) /\ m.t = "TERM"
      BY <1>0, <2>1, <3>1, StepIsNat DEF Message, ClientTerm, SendTerm
    <3>3. \A x \in Sides, y \in Buffers, c \in Kinds : BufFewer(x, y, c)
      BY <1>0, <2>1, UnregisterFewer DEF ClientTerm
    <3> QED
      BY <1>0, <3>2, <3>3, SignalCalm
  <2>2. CASE AwaitTerm
    BY <1>0, <2>2, PopFewer, SilentCalm DEF AwaitTerm
  <2>3. CASE TermReason
    BY <2>3, SameFewer, SilentCalm DEF TermReason
  <2>4. CASE ServerDrop
    BY <1>0, <2>4, UnregisterFewer, SilentCalm DEF ServerDrop
  <2> QED
    BY <2>1, <2>2, <2>3, <2>4
<1>3. \/ phase' = phase
      \/ phase' = [phase EXCEPT ![Client] = "closed"] /\ phase[Client] = "open"
      \/ /\ phase' = [phase EXCEPT ![Server] = "closing"] /\ phase[Server] = "open"
      \/ /\ phase' = [phase EXCEPT ![Server] = "closed"] /\ phase[Server] = "closing"
  BY DEF ClientTerm, AwaitTerm, TermReason, ServerDrop
<1>4. /\ phase'[Client] = phase[Client]
         \/ (phase'[Client] = "closed" /\ phase[Client] = "open")
      /\ phase'[Server] = phase[Server]
         \/ (phase'[Server] \in {"closing", "closed"} /\ phase[Server] \in {"open", "closing"})
  BY <1>0, <1>3 DEF TypeOK
<1>5. ASSUME NEW s \in Sides PROVE Steady(s)
  <2>1. loaded[s] \in Nat
    BY CapAssumption DEF TypeOK
  <2>2. phase[s] \in Early \union {"opened"} => stream[s] = "off"
    BY DEF IInv, Flows, Counts
  <2>3. phase'[s] \in Early \union {"opened"} => phase[s] \in Early \union {"opened"}
    BY <1>4 DEF Sides, Early
  <2> QED
    BY <1>1, <2>1, <2>2, <2>3 DEF Steady
<1>6. Greeting' /\ (phase[Client] \in Early /\ Hailed => (phase[Client] \in Early /\ Hailed)')
  BY <1>4 DEF IInv, Greeting, Hailed, Early
<1> QED
  BY <1>1, <1>2, <1>5, <1>6, CalmStep

LEMMA NextIInv == TypeOK /\ TypeOK' /\ IInv /\ [Next]_vars => IInv'
<1> SUFFICES ASSUME TypeOK, TypeOK', IInv, [Next]_vars PROVE IInv'
  OBVIOUS
<1>0. Client \in Sides
  BY DEF Sides
<1>1. ASSUME NEW s \in Sides, Continue(s) PROVE IInv'
  <2>1. CASE Handshake(s) \/ HandshakeReason(s) \/ Open(s)
    BY <2>1, HandshakeIInv, FailedIInv, OpenIInv DEF HandshakeReason
  <2>2. CASE Pull(s) \/ AwaitAck(s) \/ AckReason(s)
    BY <2>2, PullIInv, AwaitAckIInv, ReasonIInv
  <2>3. CASE Listen(s) \/ ListenReason(s)
    BY <2>3, ListenIInv, ReasonIInv
  <2>4. CASE ClientTerm \/ AwaitTerm \/ TermReason \/ ServerDrop
    BY <2>4, TeardownIInv
  <2> QED
    BY <1>1, <2>1, <2>2, <2>3, <2>4 DEF Continue
<1>2. ASSUME NEW s \in Sides, HandshakeTimeout(s) PROVE IInv'
  BY <1>2, FailedIInv DEF HandshakeTimeout
<1>3. ASSUME NEW s \in Sides, Deliver(s) \/ SocketClosed(s) PROVE IInv'
  BY <1>3, NetworkIInv
<1>4. ASSUME NEW s \in Sides, Load(s) \/ End(s) \/ Cancel(s) PROVE IInv'
  BY <1>4, LoadIInv, ApplicationIInv
<1>5. CASE Connect
  BY <1>5, ConnectIInv
<1>6. CASE Drop
  BY <1>0, <1>6, ApplicationIInv
<1>7. CASE Disconnect
  BY <1>0, <1>7, NetworkIInv
<1>8. CASE UNCHANGED vars
  <2>1. UNCHANGED <<net, buf, phase, stream, loaded, sent, acked, recvd>>
    BY <1>8 DEF vars
  <2>2. Calm
    BY <2>1, SameFewer, SilentCalm
  <2> QED
    BY <2>1, <2>2, SteadySame, CalmStep
<1> QED
  BY <1>1, <1>2, <1>3, <1>4, <1>5, <1>6, <1>7, <1>8 DEF Next

\* The inductive invariant holds in every behaviour, whatever fails.
THEOREM Invariance == Spec => [](TypeOK /\ IInv)
  BY TypeCorrect, InitIInv, NextIInv, PTL DEF Spec
-----------------------------------------------------------------------------
(***************************************************************************)
(* Flow control.                                                           *)
(***************************************************************************)
\* A set whose elements are all equal has at most one.
LEMMA AtMostOneElement ==
  ASSUME NEW S, \A i, j \in S : i = j
  PROVE  Cardinality(S) <= 1
<1>1. CASE S = {}
  BY <1>1, FS_EmptySet
<1>2. CASE S # {}
  <2>1. PICK x : S = {x}
    BY <1>2
  <2> QED
    BY <2>1, FS_Singleton
<1> QED
  BY <1>1, <1>2

\* Of the frames on the way to a side at most one is a message and at most one
\* an ACK, for every limit, buffer size and set of failures: a receive buffer of
\* one place is enough for each.
THEOREM FlowControl == Spec => []OneOfEachInFlight
<1>1. TypeOK /\ IInv => OneOfEachInFlight
  <2> SUFFICES ASSUME TypeOK, IInv, NEW s \in Sides, NEW t \in {"MSG", "ACK"},
                      NEW i \in DOMAIN net[s], NEW j \in DOMAIN net[s],
                      net[s][i].t = t, net[s][j].t = t
               PROVE  i = j
    BY AtMostOneElement DEF OneOfEachInFlight
  <2>0. Other(s) \in Sides /\ Other(Other(s)) = s
    BY OtherSide
  <2>1. CASE t = "MSG"
    <3>1. AtMostOne(net[s], buf[s]["msg"], "MSG")
      BY <2>0 DEF IInv, Flows, MsgFlow
    <3> QED
      BY <2>1, <3>1 DEF AtMostOne, Kind
  <2>2. CASE t = "ACK"
    <3>1. /\ AtMostOne(net[s], buf[s]["ack"], "ACK")
          /\ AtMostOne(net[s], buf[s]["ack"], "hello")
      BY DEF IInv, Flows, AckFlow, HelloFlow
    <3>2. ASSUME NEW x \in DOMAIN net[s], NEW y \in DOMAIN net[s],
                 Kind(net[s][x]) = "ACK", Kind(net[s][y]) = "hello"
          PROVE  FALSE
      <4>1. /\ net[s][x] \in Of(net[s], buf[s]["ack"], "ACK")
            /\ net[s][y] \in Of(net[s], buf[s]["ack"], "hello")
        BY <3>2 DEF Of, Frames
      <4>2. acked[s] + 1 = sent[s]
        BY <4>1 DEF IInv, Flows, AckFlow
      <4>3. s = Client /\ phase[s] \in Early
        BY <4>1 DEF IInv, Flows, HelloFlow
      <4>4. sent[s] = 0
        BY <4>3 DEF IInv, Flows, Counts
      <4> QED
        BY <4>2, <4>4 DEF TypeOK
    <3>3. /\ Kind(net[s][i]) \in {"ACK", "hello"}
          /\ Kind(net[s][j]) \in {"ACK", "hello"}
      BY <2>2 DEF Kind
    <3> QED
      BY <3>1, <3>2, <3>3 DEF AtMostOne
  <2> QED
    BY <2>1, <2>2
<1> QED
  BY <1>1, Invariance, PTL
-----------------------------------------------------------------------------
(***************************************************************************)
(* The two directions implement StopAndWait.                               *)
(***************************************************************************)
\* A step of the session as a step of the direction from s.
OneStep(s) ==
  LET o == Other(s)
  IN \/ /\ loaded'[s] = loaded[s] + 1
        /\ UNCHANGED <<sent[s], recvd[o], acked[s]>>
     \/ /\ sent[s] < loaded[s]
        /\ acked[s] = sent[s]
        /\ sent'[s] = sent[s] + 1
        /\ UNCHANGED <<loaded[s], recvd[o], acked[s]>>
     \/ /\ Len(recvd[o]) < sent[s]
        /\ recvd'[o] = Append(recvd[o], Len(recvd[o]) + 1)
        /\ UNCHANGED <<loaded[s], sent[s], acked[s]>>
     \/ /\ acked[s] < Len(recvd[o])
        /\ acked'[s] = acked[s] + 1
        /\ UNCHANGED <<loaded[s], sent[s], recvd[o]>>
     \/ UNCHANGED <<loaded[s], sent[s], recvd[o], acked[s]>>

LEMMA PullStep ==
  ASSUME TypeOK, IInv, NEW e \in Sides, Pull(e), NEW s \in Sides
  PROVE  OneStep(s)
<1>0. UNCHANGED <<loaded, acked, recvd>> /\ stream[e] = "pull"
  BY DEF Pull, PullReady
<1>1. CASE UNCHANGED sent
  BY <1>0, <1>1 DEF OneStep
<1>2. CASE ~UNCHANGED sent
  <2>1. sent' = [sent EXCEPT ![e] = @ + 1] /\ sent[e] # loaded[e]
    BY <1>2 DEF Pull, Transmit
  <2>2. sent[e] \in Nat /\ loaded[e] \in Nat /\ sent[e] <= loaded[e] /\ acked[e] = sent[e]
    BY <1>0, CapAssumption DEF TypeOK, IInv, Flows, Counts
  <2>3. CASE s = e
    <3>1. sent'[s] = sent[s] + 1 /\ sent[s] < loaded[s] /\ acked[s] = sent[s]
      BY <2>1, <2>2, <2>3 DEF TypeOK
    <3> QED
      BY <1>0, <3>1 DEF OneStep
  <2>4. CASE s # e
    <3>1. sent'[s] = sent[s]
      BY <2>1, <2>4 DEF TypeOK
    <3> QED
      BY <1>0, <3>1 DEF OneStep
  <2> QED
    BY <2>3, <2>4
<1> QED
  BY <1>1, <1>2

LEMMA AwaitAckStep ==
  ASSUME TypeOK, IInv, NEW e \in Sides, AwaitAck(e), NEW s \in Sides
  PROVE  OneStep(s)
<1>0. UNCHANGED <<loaded, sent, recvd>>
  BY DEF AwaitAck
<1>1. CASE UNCHANGED acked
  BY <1>0, <1>1 DEF OneStep
<1>2. CASE ~UNCHANGED acked
  <2>1. acked' = [acked EXCEPT ![e] = @ + 1] /\ Front(e, "ack").t = "ACK"
    BY <1>2 DEF AwaitAck
  <2>2. Len(recvd[Other(e)]) = sent[e] /\ acked[e] + 1 = sent[e] /\ acked[e] \in Nat
    BY <2>1, AcceptedAck DEF TypeOK
  <2>3. CASE s = e
    <3>1. acked'[s] = acked[s] + 1 /\ acked[s] < Len(recvd[Other(s)])
      BY <2>1, <2>2, <2>3 DEF TypeOK
    <3> QED
      BY <1>0, <3>1 DEF OneStep
  <2>4. CASE s # e
    <3>1. acked'[s] = acked[s]
      BY <2>1, <2>4 DEF TypeOK
    <3> QED
      BY <1>0, <3>1 DEF OneStep
  <2> QED
    BY <2>3, <2>4
<1> QED
  BY <1>1, <1>2

LEMMA ListenStep ==
  ASSUME TypeOK, TypeOK', IInv, NEW o \in Sides, Listen(o), NEW s \in Sides
  PROVE  OneStep(s)
<1>0. UNCHANGED <<loaded, sent, acked>>
  BY ListenCases
<1>1. CASE UNCHANGED recvd
  BY <1>0, <1>1 DEF OneStep
<1>2. CASE ~UNCHANGED recvd
  <2>1. /\ recvd' = [recvd EXCEPT ![o] = Append(@, Front(o, "msg").d)]
        /\ Front(o, "msg").d = Len(recvd[o]) + 1
        /\ Len(recvd[o]) + 1 = sent[Other(o)]
    BY <1>2, ListenCases, PushIInv
  <2>2. Len(recvd[o]) \in Nat
    BY LenProperties DEF TypeOK
  <2>3. CASE Other(s) = o
    <3>1. /\ recvd'[Other(s)] = Append(recvd[Other(s)], Len(recvd[Other(s)]) + 1)
          /\ Len(recvd[Other(s)]) < sent[s]
      BY <2>1, <2>2, <2>3, OtherSide DEF TypeOK
    <3> QED
      BY <1>0, <3>1 DEF OneStep
  <2>4. CASE Other(s) # o
    <3>1. recvd'[Other(s)] = recvd[Other(s)]
      BY <2>1, <2>4, OtherSide DEF TypeOK
    <3> QED
      BY <1>0, <3>1 DEF OneStep
  <2> QED
    BY <2>3, <2>4
<1> QED
  BY <1>1, <1>2

LEMMA LoadStep ==
  ASSUME TypeOK, NEW e \in Sides, Load(e), NEW s \in Sides
  PROVE  OneStep(s)
<1>1. /\ UNCHANGED <<sent, acked, recvd>>
      /\ loaded'[s] = loaded[s] \/ loaded'[s] = loaded[s] + 1
  BY DEF Load, TypeOK
<1> QED
  BY <1>1 DEF OneStep

LEMMA NextStep ==
  ASSUME TypeOK, TypeOK', IInv, [Next]_vars, NEW s \in Sides
  PROVE  OneStep(s)
<1>1. ASSUME NEW e \in Sides, Pull(e) \/ AwaitAck(e) \/ Listen(e) \/ Load(e)
      PROVE  OneStep(s)
  BY <1>1, PullStep, AwaitAckStep, ListenStep, LoadStep
<1>2. CASE UNCHANGED <<loaded, sent, acked, recvd>>
  BY <1>2 DEF OneStep
<1>3. ASSUME NEW e \in Sides,
             \/ Handshake(e) \/ HandshakeReason(e) \/ Open(e) \/ AckReason(e)
             \/ ListenReason(e) \/ HandshakeTimeout(e)
             \/ Deliver(e) \/ SocketClosed(e) \/ End(e) \/ Cancel(e)
      PROVE  UNCHANGED <<loaded, sent, acked, recvd>>
  BY <1>3 DEF Handshake, HandshakeReason, HandshakeFailed, Open, AckReason, ListenReason,
              HandshakeTimeout, Deliver, SocketClosed, End, Cancel
<1>4. ASSUME \/ ClientTerm \/ AwaitTerm \/ TermReason \/ ServerDrop
             \/ Connect \/ Drop \/ Disconnect \/ UNCHANGED vars
      PROVE  UNCHANGED <<loaded, sent, acked, recvd>>
  BY <1>4 DEF ClientTerm, AwaitTerm, TermReason, ServerDrop, Connect, Drop, Disconnect, vars
<1> QED
  BY <1>1, <1>2, <1>3, <1>4 DEF Next, Continue

\* For every limit of the step counters, buffer size, batch and set of failures,
\* what a listener's application is given is what the other side loaded, in
\* order and each once, and stream takes ACKs only for what was pushed.
THEOREM Refinement == Spec => ImplementsStopAndWait
<1>1. Init => ToServer!Init /\ ToClient!Init
  BY DEF Init, ToServer!Init, ToClient!Init, Sides
<1>2. TypeOK /\ TypeOK' /\ IInv /\ [Next]_vars
        => [ToServer!Next]_ToServer!vars /\ [ToClient!Next]_ToClient!vars
  <2> SUFFICES ASSUME TypeOK, TypeOK', IInv, [Next]_vars
               PROVE  [ToServer!Next]_ToServer!vars /\ [ToClient!Next]_ToClient!vars
    OBVIOUS
  <2>0. /\ Client \in Sides /\ Server \in Sides
        /\ Other(Client) = Server /\ Other(Server) = Client
    BY DEF Sides, Client, Server, Other
  <2>1. OneStep(Client) /\ OneStep(Server)
    BY <2>0, NextStep
  <2>2. [ToServer!Next]_ToServer!vars
    BY <2>0, <2>1 DEF OneStep, ToServer!Next, ToServer!Load, ToServer!Send,
         ToServer!Receive, ToServer!Acknowledge, ToServer!vars
  <2>3. [ToClient!Next]_ToClient!vars
    BY <2>0, <2>1 DEF OneStep, ToClient!Next, ToClient!Load, ToClient!Send,
         ToClient!Receive, ToClient!Acknowledge, ToClient!vars
  <2> QED
    BY <2>2, <2>3
<1> QED
  BY <1>1, <1>2, Invariance, PTL DEF Spec, ImplementsStopAndWait, ToServer!Spec, ToClient!Spec
-----------------------------------------------------------------------------
(***************************************************************************)
(* After TERM the client sends an ACK at most.  A client that sent it has  *)
(* stream behind it and its listener's buffer dropped: of what it held, at *)
(* most the frame that the listener's recv was given is left, and once the *)
(* ACK is on the network it is gone from the buffer.                       *)
(***************************************************************************)
NoTerm(n) == \A i \in DOMAIN n : n[i].t # "TERM"

\* Behind a TERM of n are ACKs only, and with k frames more there is one at most.
AckAfter(n, k) ==
  \A i \in DOMAIN n : n[i].t = "TERM" =>
    /\ Len(n) + k <= i + 1
    /\ \A j \in DOMAIN n : i < j => n[j].t = "ACK"

\* A client that sent TERM has only its listener left to run.
Left == phase[Client] = "closed" => stream[Client] = "done" /\ "msg" \notin reg[Client]

\* What the client's listener was given and has not looked at.
ToLook == Len(buf[Client]["msg"])

TermInv ==
  /\ Left
  /\ phase[Client] # "closed" => NoTerm(net[Server])
  /\ AckAfter(net[Server], ToLook)

LEMMA NoTermAfter ==
  ASSUME NEW n, NEW k, NoTerm(n)
  PROVE  AckAfter(n, k)
  BY DEF NoTerm, AckAfter

LEMMA AckAfterLess ==
  ASSUME NEW n \in Seq(Message), NEW k \in Nat, NEW k2 \in Nat, k2 <= k, AckAfter(n, k)
  PROVE  AckAfter(n, k2)
<1>1. Len(n) \in Nat /\ DOMAIN n = 1 .. Len(n)
  BY LenProperties
<1> QED
  BY <1>1 DEF AckAfter

\* Frames that stay on the way keep their order; f gives their former places.
LEMMA TermPart ==
  ASSUME NEW n, NEW n2, NEW f, NEW k \in Nat, Len(n) \in Nat, Len(n2) \in Nat,
         \A i \in DOMAIN n2 : i \in Nat /\ f[i] \in DOMAIN n /\ f[i] \in Nat /\ n2[i] = n[f[i]],
         \A i \in DOMAIN n2 : Len(n2) + f[i] <= Len(n) + i,
         \A i, j \in DOMAIN n2 : i < j => f[i] < f[j]
  PROVE  /\ AckAfter(n, k) => AckAfter(n2, k)
         /\ NoTerm(n) => NoTerm(n2)
<1>1. NoTerm(n) => NoTerm(n2)
  BY DEF NoTerm
<1>2. ASSUME AckAfter(n, k), NEW i \in DOMAIN n2, n2[i].t = "TERM"
      PROVE  /\ Len(n2) + k <= i + 1
             /\ \A j \in DOMAIN n2 : i < j => n2[j].t = "ACK"
  <2>1. /\ Len(n) + k <= f[i] + 1
        /\ \A j \in DOMAIN n : f[i] < j => n[j].t = "ACK"
    BY <1>2 DEF AckAfter
  <2>2. Len(n2) + k <= i + 1
    BY <2>1
  <2>3. \A j \in DOMAIN n2 : i < j => n2[j].t = "ACK"
    BY <2>1
  <2> QED
    BY <2>2, <2>3
<1> QED
  BY <1>1, <1>2 DEF AckAfter

LEMMA TermDelivered ==
  ASSUME TypeOK, TypeOK', NEW s \in Sides, Deliver(s)
  PROVE  /\ \A k \in Nat : AckAfter(net[Server], k) => AckAfter(net'[Server], k)
         /\ NoTerm(net[Server]) => NoTerm(net'[Server])
<1>0. Server \in Sides
  BY DEF Sides
<1>1. CASE s # Server
  <2>1. net'[Server] = net[Server]
    BY <1>0, <1>1 DEF Deliver, TypeOK
  <2> QED
    BY <2>1
<1>2. CASE s = Server
  <2> DEFINE n == net[Server]
             l == Len(net[Server])
  <2>1. n \in Seq(Message) /\ DOMAIN n = 1 .. l /\ l \in Nat
    BY <1>0, LenProperties DEF TypeOK
  <2>2. ASSUME NEW x \in 1 .. Batch, x <= l,
               net' = [net EXCEPT ![Server] = SubSeq(@, x + 1, Len(@))]
        PROVE  /\ \A k \in Nat : AckAfter(n, k) => AckAfter(net'[Server], k)
               /\ NoTerm(n) => NoTerm(net'[Server])
    <3> DEFINE n2 == SubSeq(n, x + 1, l)
               f == [i \in DOMAIN n2 |-> x + i]
    <3>0. x \in Nat /\ net'[Server] = n2
      BY <1>0, <2>2, CapAssumption DEF TypeOK
    <3>1. /\ x + 1 \in Nat \ {0}
          /\ x + 1 <= l + 1
          /\ l + 1 - (x + 1) = l - x
          /\ \A i \in 1 .. l - x : (x + 1) + i - 1 = x + i
      BY <2>1, <2>2, <3>0, PlacesAfter
    <3>2. /\ n2 \in Seq(Message)
          /\ Len(n2) = l - x
          /\ \A i \in 1 .. l - x : x + i \in DOMAIN n /\ n2[i] = n[x + i]
      BY <2>1, <3>1, PartFrames
    <3>3. DOMAIN n2 = 1 .. l - x
      BY <3>2, LenProperties
    <3> HIDE DEF n2
    <3>f. \A i \in DOMAIN n2 : f[i] = x + i
      OBVIOUS
    <3> HIDE DEF f
    <3>4. \A i \in DOMAIN n2 : i \in Nat /\ f[i] \in DOMAIN n /\ f[i] \in Nat /\ n2[i] = n[f[i]]
      BY <2>1, <3>2, <3>3, <3>f
    <3>5. \A i, j \in DOMAIN n2 : i < j => f[i] < f[j]
      BY <3>0, <3>3, <3>f
    <3>6. /\ Len(n2) \in Nat
          /\ \A i \in DOMAIN n2 : Len(n2) + f[i] <= l + i
      BY <2>1, <3>0, <3>2, <3>3, <3>f, LenProperties
    <3> QED
      BY <2>1, <3>0, <3>4, <3>5, <3>6, TermPart
  <2>3. ASSUME NEW y \in 2 .. l,
               net' = [net EXCEPT ![Server] = SubSeq(@, 1, y - 1) \o SubSeq(@, y + 1, Len(@))]
        PROVE  /\ \A k \in Nat : AckAfter(n, k) => AckAfter(net'[Server], k)
               /\ NoTerm(n) => NoTerm(net'[Server])
    <3> DEFINE n2 == SubSeq(n, 1, y - 1) \o SubSeq(n, y + 1, l)
               f == [i \in DOMAIN n2 |-> IF i <= y - 1 THEN i ELSE i + 1]
    <3>0. net'[Server] = n2
      BY <1>0, <2>3 DEF TypeOK
    <3>1. /\ DOMAIN n2 = 1 .. l - 1
          /\ \A i \in 1 .. l - 1 : n2[i] = IF i <= y - 1 THEN n[i] ELSE n[i + 1]
      BY <2>1, WithoutFrame
    <3> HIDE DEF n2
    <3>2. \A i \in DOMAIN n2 : i \in Nat /\ f[i] \in DOMAIN n /\ f[i] \in Nat /\ n2[i] = n[f[i]]
      BY <2>1, <3>1
    <3>3. \A i, j \in DOMAIN n2 : i < j => f[i] < f[j]
      BY <2>1, <3>1
    <3>4. Len(n2) = l - 1
      <4>1. net'[Server] \in Seq(Message)
        BY <1>0 DEF TypeOK
      <4> QED
        BY <2>1, <3>0, <3>1, <4>1, LenProperties
    <3>5. \A i \in DOMAIN n2 : Len(n2) + f[i] <= l + i
      BY <2>1, <3>1, <3>4
    <3>6. Len(n2) \in Nat
      BY <2>1, <2>3, <3>4
    <3> HIDE DEF f
    <3> QED
      BY <2>1, <3>0, <3>2, <3>3, <3>5, <3>6, TermPart
  <2> QED
    BY <1>2, <2>2, <2>3 DEF Deliver
<1> QED
  BY <1>1, <1>2

\* What a frame that is sent makes of them.
LEMMA TermSent ==
  ASSUME TypeOK, NEW e \in Sides, NEW m \in Message, Emit(e, m)
  PROVE  /\ e = Server => net'[Server] = net[Server]
         /\ NoTerm(net[Server]) /\ m.t # "TERM" => NoTerm(net'[Server])
         /\ NoTerm(net[Server]) => \A k \in 0 .. 1 : AckAfter(net'[Server], k)
         /\ m.t = "ACK" => \A k \in Nat :
              AckAfter(net[Server], k + 1) => AckAfter(net'[Server], k)
<1> DEFINE n == net[Server]
<1>0. /\ n \in Seq(Message) /\ DOMAIN n = 1 .. Len(n) /\ Len(n) \in Nat
      /\ net'[Server] = n \/ (net'[Server] = Append(n, m) /\ e # Server)
  BY OtherSide, LenProperties DEF Emit, TypeOK, Sides
<1>1. CASE net'[Server] = n
  <2>1. \A k \in Nat : AckAfter(n, k + 1) => AckAfter(n, k)
    BY <1>0, AckAfterLess
  <2> QED
    BY <1>1, <2>1, NoTermAfter
<1>2. CASE net'[Server] = Append(n, m) /\ e # Server
  <2> DEFINE n2 == Append(n, m)
  <2>1. /\ n2 \in Seq(Message)
        /\ Len(n2) = Len(n) + 1
        /\ DOMAIN n2 = 1 .. Len(n) + 1
        /\ \A i \in 1 .. Len(n) : n2[i] = n[i]
        /\ n2[Len(n) + 1] = m
    BY <1>0, AppendProperties, LenProperties
  <2> HIDE DEF n2
  <2>2. \A i \in DOMAIN n2 : \/ i \in DOMAIN n /\ n2[i] = n[i] /\ i < Len(n) + 1
                             \/ i = Len(n) + 1 /\ n2[i] = m
    BY <1>0, <2>1
  <2> HIDE DEF n
  <2>3. NoTerm(n) /\ m.t # "TERM" => NoTerm(n2)
    BY <2>2 DEF NoTerm
  <2>4. ASSUME NoTerm(n), NEW k \in 0 .. 1
        PROVE  AckAfter(n2, k)
    <3>1. \A i \in DOMAIN n2 : n2[i].t = "TERM" => i = Len(n) + 1
      BY <2>2, <2>4 DEF NoTerm
    <3>2. \A i \in DOMAIN n2 : n2[i].t = "TERM" => Len(n2) + k <= i + 1
      BY <1>0, <2>1, <3>1
    <3>3. \A j \in DOMAIN n2 : ~(Len(n) + 1 < j)
      BY <1>0, <2>1
    <3> QED
      BY <3>1, <3>2, <3>3 DEF AckAfter
  <2>5. ASSUME m.t = "ACK", NEW k \in Nat, AckAfter(n, k + 1), NEW i \in DOMAIN n2, n2[i].t = "TERM"
        PROVE  /\ Len(n2) + k <= i + 1
               /\ \A j \in DOMAIN n2 : i < j => n2[j].t = "ACK"
    <3>1. i \in DOMAIN n /\ n[i].t = "TERM"
      BY <2>2, <2>5
    <3>2. /\ Len(n) + (k + 1) <= i + 1
          /\ \A j \in DOMAIN n : i < j => n[j].t = "ACK"
      BY <2>5, <3>1 DEF AckAfter
    <3>3. Len(n2) + k <= i + 1
      BY <1>0, <2>1, <3>1, <3>2
    <3>4. \A j \in DOMAIN n2 : i < j => n2[j].t = "ACK"
      BY <2>2, <2>5, <3>2
    <3> QED
      BY <3>3, <3>4
  <2>6. m.t = "ACK" => \A k \in Nat : AckAfter(n, k + 1) => AckAfter(n2, k)
    BY <2>5 DEF AckAfter
  <2> QED
    BY <1>2, <2>3, <2>4, <2>6 DEF n, n2
<1> QED
  BY <1>0, <1>1, <1>2

\* Dropping buffers fills none.
LEMMA UnregisterLess ==
  ASSUME TypeOK, NEW s \in Sides, NEW bs, Unregister(s, bs)
  PROVE  \A x \in Sides, b \in Buffers : Len(buf'[x][b]) <= Len(buf[x][b])
<1>1. BufOK /\ \A x \in Sides, b \in Buffers : Len(buf[x][b]) \in Nat
  BY TypeParts, LenProperties DEF BufOK
<1>2. ASSUME NEW b \in Buffers PROVE Len(Handed(s, b)) <= Len(buf[s][b])
  <2>1. CASE Handed(s, b) = <<>>
    BY <1>1, <2>1, EmptySeq
  <2>2. CASE Handed(s, b) = FirstOf(buf[s][b], 1)
    <3>1. buf[s][b] \in Seq(Message)
      BY <1>1 DEF BufOK
    <3>2. FirstOf(buf[s][b], 1) \in Seq(Message)
          /\ \A i \in DOMAIN FirstOf(buf[s][b], 1) : i \in DOMAIN buf[s][b]
      BY <3>1, FirstOfOK, FirstOfFrames
    <3> QED
      BY <1>1, <2>2, <3>1, <3>2, LenProperties
  <2> QED
    BY <1>1, <2>1, <2>2, HandedOK
<1> QED
  BY <1>1, <1>2, UnregisterLeaves

LEMMA TermSteps ==
  ASSUME TypeOK, TypeOK', TermInv, [Next]_vars
  PROVE  TermInv'
<1>0. /\ Client \in Sides /\ Server \in Sides /\ Client # Server
      /\ phase \in [Sides -> Phases] /\ sent \in [Sides -> Nat]
      /\ "msg" \in Buffers
  BY DEF Sides, Client, Server, Buffers, TypeOK
<1>n. /\ net[Server] \in Seq(Message) /\ net'[Server] \in Seq(Message)
      /\ ToLook \in Nat /\ ToLook' \in Nat
  BY <1>0, LenProperties DEF TypeOK, ToLook
\* A client that did not send TERM.
<1>a. ASSUME phase'[Client] # "closed", NoTerm(net'[Server])
      PROVE  TermInv'
  BY <1>a, NoTermAfter DEF TermInv, Left
\* Steps that send nothing of the client's and do not end connect.
<1>1. ASSUME \A k \in Nat : AckAfter(net[Server], k) => AckAfter(net'[Server], k),
             NoTerm(net[Server]) => NoTerm(net'[Server]),
             phase'[Client] = "closed" <=> phase[Client] = "closed",
             Left', phase[Client] = "closed" => ToLook' <= ToLook
      PROVE  TermInv'
  <2>1. CASE phase[Client] = "closed"
    <3>1. AckAfter(net'[Server], ToLook)
      BY <1>1, <1>n DEF TermInv
    <3>2. AckAfter(net'[Server], ToLook')
      BY <1>1, <1>n, <2>1, <3>1, AckAfterLess
    <3> QED
      BY <1>1, <2>1, <3>2 DEF TermInv
  <2>2. CASE phase[Client] # "closed"
    BY <1>a, <1>1, <2>2 DEF TermInv
  <2> QED
    BY <2>1, <2>2
<1>2. CASE Connect
  <2>1. [t |-> "INIT", n |-> 0, d |-> 0] \in Message
    BY DEF Message
  <2>2. /\ phase[Client] = "idle" /\ phase'[Client] = "opening"
        /\ Emit(Client, [t |-> "INIT", n |-> 0, d |-> 0])
    BY <1>0, <1>2 DEF Connect
  <2>3. NoTerm(net'[Server])
    BY <1>0, <2>1, <2>2, TermSent DEF TermInv
  <2> QED
    BY <1>a, <2>2, <2>3
<1>3. ASSUME NEW s \in Sides, Pull(s) PROVE TermInv'
  <2>1. UNCHANGED <<reg, buf, phase>> /\ stream[s] = "pull"
    BY <1>3 DEF Pull, PullReady
  <2>2. Left' /\ ToLook' = ToLook
    <3>1. phase[Client] = "closed" => stream'[Client] = stream[Client]
      BY <1>0, <1>3, <2>1 DEF TermInv, Left, Pull, StreamReturns, Transmit, TypeOK
    <3> QED
      BY <2>1, <3>1 DEF TermInv, Left, ToLook
  <2>3. CASE net'[Server] = net[Server]
    BY <1>1, <1>n, <2>1, <2>2, <2>3
  <2>4. CASE net'[Server] # net[Server]
    <3> DEFINE m == [t |-> "MSG", n |-> Step(s, sent[s] + 1), d |-> sent[s] + 1]
    <3>1. m \in Message /\ m.t = "MSG"
      <4>1. sent[s] + 1 \in Nat
        BY <1>0
      <4> QED
        BY <4>1, StepIsNat DEF Message
    <3>2. Emit(s, m)
      BY <1>3, <2>4 DEF Pull, Transmit
    <3> HIDE DEF m
    <3>3. s = Client
      BY <2>4, <3>1, <3>2, TermSent DEF Sides
    <3>4. phase[Client] # "closed"
      BY <2>1, <3>3 DEF TermInv, Left
    <3>5. NoTerm(net'[Server])
      BY <3>1, <3>2, <3>4, TermSent DEF TermInv
    <3> QED
      BY <1>a, <2>1, <3>4, <3>5
  <2> QED
    BY <2>3, <2>4
\* The listener gives up the frame it was given for the ACK it sends.
<1>4. ASSUME NEW s \in Sides, Listen(s) PROVE TermInv'
  <2>1. UNCHANGED <<reg, phase, stream>> /\ Pop(s, "msg") /\ Holds(s, "msg")
    BY <1>4 DEF Listen
  <2>2. Left'
    BY <2>1 DEF TermInv, Left
  <2>3. ToLook' = IF s = Client THEN ToLook - 1 ELSE ToLook
    <3>1. buf[s]["msg"] \in Seq(Message) /\ buf[s]["msg"] # <<>>
      BY <1>0, <2>1 DEF TypeOK, Holds
    <3>2. Len(Tail(buf[s]["msg"])) = Len(buf[s]["msg"]) - 1
      BY <3>1, HeadTailProperties
    <3>3. buf'[Client]["msg"] = IF s = Client THEN Tail(buf[s]["msg"]) ELSE buf[Client]["msg"]
      BY <1>0, <2>1 DEF Pop, TypeOK
    <3> QED
      BY <3>2, <3>3 DEF ToLook
  <2>4. ToLook' <= ToLook
    BY <1>n, <2>3
  <2>5. CASE net'[Server] = net[Server]
    BY <1>1, <2>1, <2>2, <2>4, <2>5
  <2>6. CASE net'[Server] # net[Server]
    <3> DEFINE f == Front(s, "msg")
               m == [t |-> "ACK", n |-> f.n, d |-> f.d]
    <3>1. m \in Message /\ m.t = "ACK"
      <4>1. BufOK /\ "msg" \in Buffers
        BY TypeParts DEF Buffers
      <4>2. f \in Message
        BY <2>1, <4>1, FrontOK
      <4> QED
        BY <4>2 DEF Message
    <3>2. Emit(s, m)
      BY <1>4, <2>6 DEF Listen, Acknowledge
    <3> HIDE DEF m
    <3>3. s = Client
      BY <2>6, <3>1, <3>2, TermSent DEF Sides
    <3>4. AckAfter(net'[Server], ToLook')
      <4>1. ToLook' + 1 = ToLook
        BY <1>n, <2>3, <3>3
      <4> QED
        BY <1>n, <3>1, <3>2, <4>1, TermSent DEF TermInv
    <3>5. NoTerm(net[Server]) => NoTerm(net'[Server])
      BY <3>1, <3>2, TermSent
    <3> QED
      BY <2>1, <2>2, <3>4, <3>5 DEF TermInv
  <2> QED
    BY <2>5, <2>6
<1>5. CASE ClientTerm
  <2> DEFINE m == [t |-> "TERM", n |-> Step(Client, sent[Client] + 1), d |-> 0]
  <2>1. m \in Message /\ m.t = "TERM"
    <3>1. sent[Client] + 1 \in Nat
      BY <1>0
    <3> QED
      BY <1>0, <3>1, StepIsNat DEF Message
  <2>2. /\ phase[Client] = "open" /\ phase'[Client] = "closed" /\ stream'[Client] = "done"
        /\ Emit(Client, m) /\ Unregister(Client, ClientSockets)
    BY <1>0, <1>5 DEF ClientTerm, StreamReturned, SendTerm
  <2> HIDE DEF m
  <2>3. ToLook' \in 0 .. 1
    <3>1. BufOK
      BY TypeParts
    <3>2. ToLook' = Len(Handed(Client, "msg"))
      BY <1>0, <2>2, <3>1, UnregisterLeaves DEF ClientSockets, ToLook
    <3>3. Len(Handed(Client, "msg")) <= 1
      BY <1>0, <3>1, HandedOK
    <3>4. ToLook' <= 1
      BY <3>2, <3>3
    <3>5. \A k \in Nat : k <= 1 => k \in 0 .. 1
      OBVIOUS
    <3> QED
      BY <1>n, <3>4, <3>5
  <2>4. AckAfter(net'[Server], ToLook')
    BY <1>0, <2>1, <2>2, <2>3, TermSent DEF TermInv
  <2>5. "msg" \notin reg'[Client]
    BY <1>0, <2>2 DEF Unregister, ClientSockets, TypeOK
  <2> QED
    BY <2>2, <2>4, <2>5 DEF TermInv, Left
<1>6. ASSUME NEW s \in Sides, Deliver(s) PROVE TermInv'
  <2>1. UNCHANGED <<reg, phase, stream>>
    BY <1>6 DEF Deliver
  <2>2. Left'
    BY <2>1 DEF TermInv, Left
  <2>3. phase[Client] = "closed" => ToLook' = ToLook
    <3>1. PICK ms : BufferIn(s, ms)
      BY <1>6 DEF Deliver
    <3>2. s # Client \/ "msg" \notin reg[Client] => buf'[Client]["msg"] = buf[Client]["msg"]
      BY <1>0, <3>1 DEF BufferIn, TypeOK
    <3> QED
      BY <3>2 DEF TermInv, Left, ToLook
  <2> QED
    BY <1>1, <1>6, <1>n, <2>1, <2>2, <2>3, TermDelivered
<1>7. CASE Disconnect
  <2>1. net'[Server] = <<>> /\ UNCHANGED <<reg, buf, phase, stream>>
    BY <1>0, <1>7 DEF Disconnect
  <2>2. NoTerm(<<>>)
    BY DEF NoTerm
  <2> QED
    BY <2>1, <2>2, NoTermAfter DEF TermInv, Left
\* Steps that neither send nor take.
<1>8. ASSUME NEW s \in Sides, NEW bs, Unregister(s, bs),
             UNCHANGED <<net, stream>>,
             phase'[Client] = "closed" <=> phase[Client] = "closed"
      PROVE  TermInv'
  <2>1. reg'[Client] \subseteq reg[Client]
    BY <1>0, <1>8 DEF Unregister, TypeOK
  <2>2. Left'
    BY <1>8, <2>1 DEF TermInv, Left
  <2>3. ToLook' <= ToLook
    BY <1>0, <1>8, <1>n, UnregisterLess DEF ToLook
  <2> QED
    BY <1>1, <1>8, <2>2, <2>3
<1>9. ASSUME NEW s \in Sides, Handshake(s) PROVE TermInv'
  <2>1. UNCHANGED <<net, stream>>
    BY <1>9 DEF Handshake
  <2>2. phase'[Client] = "closed" <=> phase[Client] = "closed"
    BY <1>0, <1>9 DEF Handshake, Handshaking, Sides
  <2>3. CASE Unregister(s, {"sig"})
    BY <1>8, <2>1, <2>2, <2>3
  <2>4. CASE Pop(s, SigBuffer(s)) /\ UNCHANGED reg
    <3>1. buf'[Client]["msg"] = buf[Client]["msg"]
      BY <1>0, <2>4 DEF Pop, SigBuffer, Buffers, TypeOK
    <3> QED
      BY <1>1, <1>n, <2>1, <2>2, <2>4, <3>1 DEF TermInv, Left, ToLook
  <2> QED
    BY <1>9, <2>3, <2>4 DEF Handshake
<1>14. CASE UNCHANGED <<net, reg, buf, stream>>
            /\ (phase'[Client] = "closed" <=> phase[Client] = "closed")
  BY <1>1, <1>14, <1>n DEF TermInv, Left, ToLook
<1>10. ASSUME NEW s \in Sides, Handshaking(s), HandshakeFailed(s) PROVE TermInv'
  <2>1. UNCHANGED <<net, stream>>
    BY <1>10 DEF HandshakeFailed
  <2>2. phase'[Client] = "closed" <=> phase[Client] = "closed"
    BY <1>0, <1>10 DEF HandshakeFailed, Handshaking, Sides
  <2>3. CASE Unregister(s, {"sig"})
    BY <1>8, <2>1, <2>2, <2>3
  <2>4. CASE UNCHANGED <<reg, buf>>
    BY <1>14, <2>1, <2>2, <2>4
  <2> QED
    BY <1>10, <2>3, <2>4 DEF HandshakeFailed
<1>11. ASSUME NEW s \in Sides, Open(s) PROVE TermInv'
  <2>1. /\ phase[s] = "opened" /\ phase' = [phase EXCEPT ![s] = "open"]
        /\ reg' = [reg EXCEPT ![s] = @ \union IF s = Client THEN {"msg"} ELSE SessionBuffers]
        /\ \A x \in Sides : x # s => stream'[x] = stream[x]
        /\ UNCHANGED buf
    BY <1>11 DEF Open, TypeOK
  <2>2. phase'[Client] = "closed" <=> phase[Client] = "closed"
    BY <1>0, <2>1
  <2>3. Left'
    BY <1>0, <2>1 DEF TermInv, Left, TypeOK
  <2>4. net'[Server] = net[Server]
    BY <1>0, <1>11 DEF Open, Emit, Other, Sides, TypeOK
  <2>5. ToLook' = ToLook
    BY <2>1 DEF ToLook
  <2> QED
    BY <1>1, <1>n, <2>2, <2>3, <2>4, <2>5
<1>12. ASSUME NEW s \in Sides, AwaitAck(s) PROVE TermInv'
  <2>1. UNCHANGED <<net, reg, phase>> /\ stream[s] = "ack" /\ Pop(s, "ack")
    BY <1>12 DEF AwaitAck
  <2>2. phase[Client] = "closed" => stream'[Client] = stream[Client]
    BY <1>0, <1>12, <2>1 DEF TermInv, Left, AwaitAck, StreamReturns, TypeOK
  <2>3. buf'[Client]["msg"] = buf[Client]["msg"]
    BY <1>0, <2>1 DEF Pop, Buffers, TypeOK
  <2> QED
    BY <1>1, <1>n, <2>1, <2>2, <2>3 DEF TermInv, Left, ToLook
<1>13. ASSUME NEW s \in Sides, AckReason(s) PROVE TermInv'
  <2>1. UNCHANGED <<net, reg, buf, phase>> /\ stream' = [stream EXCEPT ![s] = "done"]
    BY <1>13 DEF AckReason
  <2>2. stream[Client] = "done" => stream'[Client] = "done"
    BY <1>0, <2>1 DEF TypeOK
  <2> QED
    BY <1>1, <1>n, <2>1, <2>2 DEF TermInv, Left, ToLook
<1>15. CASE AwaitTerm \/ TermReason
  <2>1. /\ UNCHANGED <<net, reg, stream>>
        /\ phase'[Client] = phase[Client]
        /\ buf'[Client] = buf[Client]
    BY <1>0, <1>15 DEF AwaitTerm, TermReason, Pop, TypeOK
  <2> QED
    BY <1>1, <1>n, <2>1 DEF TermInv, Left, ToLook
<1>16. CASE ServerDrop
  <2>1. phase'[Client] = phase[Client]
    BY <1>0, <1>16 DEF ServerDrop
  <2> QED
    BY <1>0, <1>8, <1>16, <2>1 DEF ServerDrop
<1>17. ASSUME NEW s \in Sides, SocketClosed(s) PROVE TermInv'
  BY <1>8, <1>17 DEF SocketClosed
<1>18. ASSUME NEW s \in Sides, ListenReason(s) \/ Load(s) \/ End(s) \/ Cancel(s) \/ Drop
       PROVE  TermInv'
  BY <1>14, <1>18 DEF ListenReason, Load, End, Cancel, Drop
<1>19. ASSUME NEW s \in Sides, Continue(s) PROVE TermInv'
  BY <1>3, <1>4, <1>5, <1>9, <1>10, <1>11, <1>12, <1>13, <1>15, <1>16, <1>18, <1>19
     DEF Continue, HandshakeReason
<1>20. ASSUME NEW s \in Sides, HandshakeTimeout(s) PROVE TermInv'
  BY <1>10, <1>20 DEF HandshakeTimeout
<1>21. CASE UNCHANGED vars
  BY <1>14, <1>21 DEF vars
<1> QED
  BY <1>0, <1>2, <1>6, <1>7, <1>17, <1>18, <1>19, <1>20, <1>21 DEF Next

\* For every limit, buffer size and set of failures, and with frames that
\* overtake others, the network carries nothing of the session after TERM but
\* the ACK of one message.
THEOREM NoMessageAfterTerm == Spec => []OnlyAckAfterTerm
<1>1. Init => TermInv
  <2> SUFFICES ASSUME Init PROVE TermInv
    OBVIOUS
  <2>1. net[Server] = <<>> /\ phase[Client] = "idle"
    BY DEF Init, Sides
  <2> QED
    BY <2>1, NoTermAfter DEF TermInv, Left, NoTerm
<1>2. TypeOK /\ TypeOK' /\ TermInv /\ [Next]_vars => TermInv'
  BY TermSteps
<1>3. TypeOK /\ TermInv => OnlyAckAfterTerm
  <2> SUFFICES ASSUME TypeOK, TermInv, NEW i \in DOMAIN net[Server], NEW j \in DOMAIN net[Server],
                      net[Server][i].t = "TERM", i < j
               PROVE  net[Server][j].t = "ACK" /\ j = i + 1
    BY DEF OnlyAckAfterTerm
  <2>1. /\ net[Server] \in Seq(Message) /\ buf[Client]["msg"] \in Seq(Message)
        /\ DOMAIN net[Server] = 1 .. Len(net[Server])
        /\ Len(net[Server]) \in Nat /\ ToLook \in Nat
    BY LenProperties DEF TypeOK, Sides, Buffers, ToLook
  <2>2. Len(net[Server]) + ToLook <= i + 1 /\ net[Server][j].t = "ACK"
    BY DEF TermInv, AckAfter
  <2> QED
    BY <2>1, <2>2
<1> QED
  BY <1>1, <1>2, <1>3, TypeCorrect, PTL DEF Spec
-----------------------------------------------------------------------------
(***************************************************************************)
(* No message is stranded.  A step is of one side: it leaves the state of  *)
(* the other side alone, and of the network it changes what is on the way  *)
(* to itself only by receiving, and to the other side only by sending.     *)
(***************************************************************************)
Moves(e) ==
  \/ Continue(e) \/ HandshakeTimeout(e) \/ Deliver(e) \/ SocketClosed(e)
  \/ Load(e) \/ End(e) \/ Cancel(e)
  \/ e = Client /\ (Connect \/ Drop)

LEMMA NextMoves == Next => Disconnect \/ \E e \in Sides : Moves(e)
  BY DEF Next, Moves, Sides

\* What a side has, and no step of the other side touches.
Own(x) == <<reg[x], buf[x], phase[x], task[x], stream[x], listen[x], loaded[x], ended[x],
            sent[x], acked[x], recvd[x]>>

LEMMA OthersUntouched ==
  ASSUME TypeOK, NEW e \in Sides, NEW x \in Sides, x # e, Moves(e)
  PROVE  UNCHANGED Own(x)
<1>0. Client \in Sides /\ Server \in Sides
  BY DEF Sides
<1>1. CASE Connect /\ e = Client
  BY <1>1 DEF Connect, Own, TypeOK
<1>2. CASE Handshake(e)
  BY <1>2 DEF Handshake, Unregister, Pop, Own, TypeOK
<1>3. CASE HandshakeReason(e) \/ HandshakeTimeout(e)
  BY <1>3 DEF HandshakeReason, HandshakeTimeout, HandshakeFailed, Cancelled, Unregister, Own, TypeOK
<1>4. CASE Open(e)
  BY <1>4 DEF Open, Own, TypeOK
<1>5. CASE Pull(e)
  BY <1>5 DEF Pull, StreamReturns, Cleaned, Transmit, Own, TypeOK
<1>6. CASE AwaitAck(e)
  BY <1>6 DEF AwaitAck, StreamReturns, Cleaned, Pop, Own, TypeOK
<1>7. CASE AckReason(e) \/ ListenReason(e)
  BY <1>7 DEF AckReason, ListenReason, Cancelled, Own, TypeOK
<1>8. CASE Listen(e)
  BY <1>8 DEF Listen, Pop, Own, TypeOK
<1>9. CASE ClientTerm /\ e = Client
  BY <1>9 DEF ClientTerm, Unregister, Own, TypeOK
<1>10. CASE (AwaitTerm \/ TermReason \/ ServerDrop) /\ e = Server
  BY <1>10 DEF AwaitTerm, TermReason, ServerDrop, Cleaned, Pop, Unregister, Own, TypeOK
<1>11. CASE Deliver(e)
  BY <1>11 DEF Deliver, BufferIn, Own, TypeOK
<1>12. CASE SocketClosed(e)
  BY <1>12 DEF SocketClosed, Unregister, Cancelled, Own, TypeOK
<1>13. CASE Load(e) \/ End(e) \/ Cancel(e) \/ (Drop /\ e = Client)
  BY <1>13 DEF Load, End, Cancel, Drop, Cancelled, Cleaned, Own, TypeOK
<1> QED
  BY <1>1, <1>2, <1>3, <1>4, <1>5, <1>6, <1>7, <1>8, <1>9, <1>10, <1>11, <1>12, <1>13
     DEF Moves, Continue

\* What taking a frame and dropping buffers do to each buffer.
LEMMA PopEffect ==
  ASSUME TypeOK, NEW e \in Sides, NEW b \in Buffers, Pop(e, b)
  PROVE  \A x \in Sides, y \in Buffers :
           buf'[x][y] = IF x = e /\ y = b THEN Tail(buf[e][b]) ELSE buf[x][y]
  BY DEF Pop, TypeOK

LEMMA UnregisterEffect ==
  ASSUME TypeOK, NEW e \in Sides, NEW bs, Unregister(e, bs)
  PROVE  /\ \A x \in Sides, y \in Buffers :
              buf'[x][y] = IF x = e /\ y \in bs THEN Handed(e, y) ELSE buf[x][y]
         /\ listen[e] # "recv" => Handed(e, "msg") = <<>>
         /\ reg'[e] = reg[e] \ bs
  BY DEF Unregister, Handed, Reading, TypeOK

\* A frame is sent to the other side, or none.
SentOne(o) == net'[o] = net[o] \/ \E m \in Message : net'[o] = Append(net[o], m)

LEMMA EmitsOne ==
  ASSUME TypeOK, NEW e \in Sides, NEW m \in Message, Emit(e, m)
  PROVE  net'[e] = net[e] /\ SentOne(Other(e))
  BY OtherSide DEF Emit, SentOne, TypeOK

LEMMA NetworkGrows ==
  ASSUME TypeOK, NEW e \in Sides, Moves(e), ~Deliver(e)
  PROVE  net'[e] = net[e] /\ SentOne(Other(e))
<1>0. Client \in Sides /\ Server \in Sides /\ "msg" \in Buffers
  BY DEF Sides, Buffers
<1>1. CASE net' = net
  BY <1>1 DEF SentOne
<1>2. CASE Connect /\ e = Client
  BY <1>2, EmitsOne DEF Connect, Message
<1>3. CASE Open(e)
  <2>1. [t |-> "ACK", n |-> 0, d |-> 0] \in Message
    BY DEF Message
  <2>2. CASE Emit(e, [t |-> "ACK", n |-> 0, d |-> 0])
    BY <2>1, <2>2, EmitsOne
  <2> QED
    BY <1>1, <1>3, <2>2 DEF Open
<1>4. CASE Pull(e)
  <2>1. sent[e] + 1 \in Nat
    BY DEF TypeOK
  <2>2. [t |-> "MSG", n |-> Step(e, sent[e] + 1), d |-> sent[e] + 1] \in Message
    BY <2>1, StepIsNat DEF Message
  <2> QED
    BY <1>1, <1>4, <2>2, EmitsOne DEF Pull, Transmit
<1>5. CASE Listen(e)
  <2>1. Front(e, "msg") \in Message
    <3>1. buf[e]["msg"] \in Seq(Message) /\ Len(buf[e]["msg"]) \in Nat /\ Len(buf[e]["msg"]) # 0
      BY <1>0, <1>5, LenProperties, EmptySeq DEF TypeOK, Listen, Holds
    <3>2. 1 \in 1 .. Len(buf[e]["msg"])
      BY <3>1
    <3> QED
      BY <3>1, <3>2, ElementOfSeq DEF Front
  <2>2. [t |-> "ACK", n |-> Front(e, "msg").n, d |-> Front(e, "msg").d] \in Message
    BY <2>1 DEF Message
  <2>3. net' = net \/ Emit(e, [t |-> "ACK", n |-> Front(e, "msg").n, d |-> Front(e, "msg").d])
    BY <1>5 DEF Listen, Acknowledge
  <2> QED
    BY <1>1, <2>2, <2>3, EmitsOne
<1>6. CASE ClientTerm /\ e = Client
  <2>1. sent[Client] + 1 \in Nat
    BY <1>0 DEF TypeOK
  <2>2. [t |-> "TERM", n |-> Step(Client, sent[Client] + 1), d |-> 0] \in Message
    BY <1>0, <2>1, StepIsNat DEF Message
  <2> QED
    BY <1>6, <2>2, EmitsOne DEF ClientTerm, SendTerm
<1>7. CASE Handshake(e) \/ HandshakeReason(e) \/ HandshakeTimeout(e) \/ AwaitAck(e)
        \/ AckReason(e) \/ ListenReason(e) \/ AwaitTerm \/ TermReason \/ ServerDrop
        \/ SocketClosed(e) \/ Load(e) \/ End(e) \/ Cancel(e) \/ Drop
  <2>1. net' = net
    BY <1>7 DEF Handshake, HandshakeReason, HandshakeTimeout, HandshakeFailed, AwaitAck,
       AckReason, ListenReason, AwaitTerm, TermReason, ServerDrop, SocketClosed, Load, End,
       Cancel, Drop
  <2> QED
    BY <1>1, <2>1
<1> QED
  BY <1>2, <1>3, <1>4, <1>5, <1>6, <1>7 DEF Moves, Continue
-----------------------------------------------------------------------------
(***************************************************************************)
(* Where the two sides are.                                                *)
(***************************************************************************)
Unopened == Early \union {"opened"}

\* A side that has not opened its session runs no loop and keeps no messages.
Dormant(s) ==
  phase[s] \in Unopened =>
    stream[s] = "off" /\ listen[s] = "off" /\ "msg" \notin reg[s] /\ buf[s]["msg"] = <<>>

\* While the connection is up and the task live, a side has not left, and from
\* Open on both its loops run, each with its buffer.
Working(s) ==
  up /\ task[s] = "live" =>
    /\ phase[s] \in {"idle", "opened", "open"} \union IF s = Client THEN {"opening"} ELSE {}
    /\ s = Client => "ack" \in reg[s]
    /\ phase[s] = "open" =>
         /\ stream[s] \in {"pull", "ack"} /\ listen[s] = "recv"
         /\ "msg" \in reg[s] /\ "ack" \in reg[s]

\* The client speaks first.
FirstContact ==
  phase[Client] = "idle" =>
    /\ net[Server] = <<>>
    /\ \A b \in Buffers : buf[Server][b] = <<>>
    /\ phase[Server] \in {"idle", "failed"}

\* The server's first frame is sent by Open.
ServerSecond == ~Hailed => net[Client] = <<>>

ControlInv ==
  /\ \A s \in Sides : Dormant(s) /\ Working(s)
  /\ FirstContact
  /\ ServerSecond

LEMMA InitControl == Init => ControlInv
<1> SUFFICES ASSUME Init PROVE ControlInv
  OBVIOUS
<1>0. Client \in Sides /\ Server \in Sides /\ "msg" \in Buffers /\ Client # Server
  BY DEF Sides, Buffers, Client, Server
<1>1. ASSUME NEW s \in Sides PROVE Dormant(s) /\ Working(s)
  BY <1>0 DEF Init, Dormant, Working
<1>2. FirstContact /\ ServerSecond
  BY <1>0 DEF Init, FirstContact, ServerSecond
<1> QED
  BY <1>1, <1>2 DEF ControlInv

\* Dormant and Working are kept by a side's own steps.
LEMMA OwnSteps ==
  ASSUME TypeOK, NEW e \in Sides, Dormant(e), Working(e), Moves(e)
  PROVE  Dormant(e)' /\ Working(e)'
<1>0. Client \in Sides /\ Server \in Sides /\ "msg" \in Buffers /\ Client # Server
  BY DEF Sides, Buffers, Client, Server
<1> USE DEF Dormant, Working, Unopened, Early
<1>1. CASE Connect /\ e = Client
  BY <1>0, <1>1 DEF Connect, TypeOK
<1>2. CASE Handshake(e)
  <2>1. buf'[e]["msg"] = buf[e]["msg"]
    <3>1. SigBuffer(e) # "msg" /\ SigBuffer(e) \in Buffers
      BY DEF SigBuffer, Buffers
    <3>2. Unregister(e, {"sig"}) \/ Pop(e, SigBuffer(e))
      BY <1>2 DEF Handshake
    <3> QED
      BY <1>0, <3>1, <3>2, PopEffect, UnregisterEffect
  <2>2. reg'[e] = reg[e] \/ (e = Server /\ reg'[e] = reg[e] \ {"sig"})
    BY <1>2 DEF Handshake, Unregister, TypeOK
  <2>3. /\ UNCHANGED <<up, task, stream, listen>>
        /\ phase[e] \in {"idle", "opening"}
        /\ phase'[e] = phase[e] \/ phase'[e] = "opened"
    BY <1>2 DEF Handshake, Handshaking, TypeOK
  <2> QED
    BY <1>0, <2>1, <2>2, <2>3
<1>3. CASE HandshakeReason(e) \/ HandshakeTimeout(e)
  <2>1. HandshakeFailed(e) /\ Handshaking(e)
    BY <1>3 DEF HandshakeReason, HandshakeTimeout
  <2>2. /\ task'[e] = "cancelled" /\ phase'[e] = "failed" /\ UNCHANGED <<stream, listen>>
        /\ phase[e] \in Early
    BY <2>1 DEF HandshakeFailed, Handshaking, Cancelled, TypeOK
  <2>3. "msg" \notin reg[e] => "msg" \notin reg'[e]
    BY <2>1 DEF HandshakeFailed, Unregister, TypeOK
  <2>4. buf'[e]["msg"] = buf[e]["msg"]
    <3>1. Unregister(e, {"sig"}) \/ UNCHANGED buf
      BY <2>1 DEF HandshakeFailed
    <3> QED
      BY <1>0, <3>1, UnregisterEffect
  <2> QED
    BY <2>2, <2>3, <2>4
<1>4. CASE Open(e)
  BY <1>4 DEF Open, Interrupted, TypeOK, SessionBuffers
<1>5. CASE Pull(e)
  <2>1. stream[e] = "pull"
    BY <1>5 DEF Pull, PullReady
  <2>2. \/ stream'[e] = "ack" /\ task' = task
        \/ task'[e] # "live"
    BY <1>5 DEF Pull, StreamReturns, Cleaned, Transmit, TypeOK
  <2>3. UNCHANGED <<up, reg, phase, listen, buf>>
    BY <1>5 DEF Pull
  <2> QED
    BY <2>1, <2>2, <2>3
<1>6. CASE AwaitAck(e)
  <2>1. stream[e] = "ack" /\ UNCHANGED <<up, reg, phase, listen>>
    BY <1>6 DEF AwaitAck
  <2>2. \/ stream'[e] = "pull" /\ task' = task
        \/ UNCHANGED <<stream, task>>
        \/ task'[e] # "live"
    BY <1>6 DEF AwaitAck, StreamReturns, Cleaned, TypeOK
  <2> QED
    BY <2>1, <2>2
<1>7. CASE AckReason(e) \/ ListenReason(e)
  <2>1. /\ stream[e] = "ack" \/ listen[e] = "recv"
        /\ UNCHANGED phase /\ task'[e] # "live"
    BY <1>7 DEF AckReason, ListenReason, Cancelled, TypeOK
  <2> QED
    BY <2>1
<1>8. CASE Listen(e)
  <2>1. listen[e] = "recv" /\ UNCHANGED <<up, reg, phase, task, stream>>
    BY <1>8 DEF Listen
  <2>2. listen'[e] = listen[e] \/ task[e] # "live"
    BY <1>8 DEF Listen, Interrupted
  <2> QED
    BY <2>1, <2>2
<1>9. CASE ClientTerm /\ e = Client
  BY <1>9 DEF ClientTerm, StreamReturned, TypeOK
<1>10. CASE AwaitTerm /\ e = Server
  <2>1. /\ phase[e] = "open" /\ UNCHANGED <<up, reg, stream, listen>>
        /\ \/ UNCHANGED <<task, phase>>
           \/ task'[e] # "live" /\ phase'[e] = "closing"
    BY <1>10 DEF AwaitTerm, Cleaned, TypeOK
  <2> QED
    BY <2>1
<1>11. CASE (TermReason \/ ServerDrop) /\ e = Server
  <2>1. /\ task[e] # "live" \/ phase[e] = "closing"
        /\ phase'[e] \in {"closing", "closed"}
        /\ UNCHANGED <<up, task>>
    BY <1>11 DEF TermReason, ServerDrop, TypeOK
  <2> QED
    BY <2>1
<1>12. CASE Deliver(e)
  <2>1. UNCHANGED <<up, reg, phase, task, stream, listen>>
    BY <1>12 DEF Deliver
  <2>2. "msg" \notin reg[e] => buf'[e]["msg"] = buf[e]["msg"]
    <3>1. \E ms : BufferIn(e, ms)
      BY <1>12 DEF Deliver
    <3>2. PICK ms : BufferIn(e, ms)
      BY <3>1
    <3> QED
      BY <1>0, <3>2 DEF BufferIn, TypeOK
  <2> QED
    BY <2>1, <2>2
<1>13. CASE SocketClosed(e)
  <2>1. /\ ~up' /\ UNCHANGED <<phase, stream, listen>>
        /\ reg'[e] = reg[e] \ Buffers
        /\ listen[e] # "recv" => buf'[e]["msg"] = <<>>
    <3>1. /\ ~up /\ UNCHANGED <<up, phase, stream, listen>>
          /\ Unregister(e, Buffers)
      BY <1>13 DEF SocketClosed
    <3> QED
      BY <1>0, <3>1, UnregisterEffect
  <2> QED
    BY <1>0, <2>1
<1>14. CASE Load(e) \/ End(e) \/ Cancel(e) \/ (Drop /\ e = Client)
  <2>1. /\ UNCHANGED <<up, reg, buf, phase, stream, listen>>
        /\ task'[e] = task[e] \/ task'[e] # "live"
    BY <1>14 DEF Load, End, Cancel, Drop, Cancelled, Cleaned, TypeOK
  <2> QED
    BY <2>1
<1> QED
  BY <1>1, <1>2, <1>3, <1>4, <1>5, <1>6, <1>7, <1>8, <1>9, <1>10, <1>11, <1>12, <1>13, <1>14
     DEF Moves, Continue

\* The connection does not come back, nor does a task that is over.
LEMMA NothingRevives ==
  ASSUME TypeOK, NEW e \in Sides, Moves(e)
  PROVE  /\ up' => up
         /\ task'[e] = "live" => task[e] = "live"
<1>1. up' => up
  BY DEF Moves, Continue, Handshake, HandshakeReason, HandshakeTimeout, HandshakeFailed, Open,
     Pull, AwaitAck, AckReason, Listen, ListenReason, ClientTerm, AwaitTerm, TermReason,
     ServerDrop, Deliver, SocketClosed, Load, End, Cancel, Connect, Drop
<1>2. \/ UNCHANGED task \/ Cancelled(e) \/ Cleaned(e) \/ (e = Client /\ Cleaned(Client))
      \/ (e = Server /\ Cleaned(Server))
  BY DEF Moves, Continue, Handshake, HandshakeReason, HandshakeTimeout, HandshakeFailed, Open,
     Pull, AwaitAck, AckReason, Listen, ListenReason, ClientTerm, AwaitTerm, TermReason,
     ServerDrop, Deliver, SocketClosed, Load, End, Cancel, Connect, Drop, StreamReturns
<1> QED
  BY <1>1, <1>2 DEF Cancelled, Cleaned, TypeOK

\* No step leads back to a phase before.
LEMMA PhasesGoOn ==
  ASSUME TypeOK, NEW e \in Sides, Moves(e), phase'[e] # phase[e]
  PROVE  /\ phase'[e] # "idle"
         /\ phase'[e] \in {"opened", "failed"} =>
              phase[e] = IF e = Client THEN "opening" ELSE "idle"
         /\ phase'[e] = "opening" => e = Client /\ Connect
         /\ phase'[e] = "opened" => Handshake(e)
         /\ phase'[e] = "open" => Open(e)
<1>1. CASE \/ Pull(e) \/ AwaitAck(e) \/ AckReason(e) \/ Listen(e) \/ ListenReason(e)
           \/ Deliver(e) \/ SocketClosed(e) \/ Load(e) \/ End(e) \/ Cancel(e) \/ Drop
  <2>1. phase' = phase
    BY <1>1 DEF Pull, AwaitAck, AckReason, Listen, ListenReason, Deliver, SocketClosed, Load,
                End, Cancel, Drop
  <2> QED
    BY <2>1
<1>2. CASE Handshake(e)
  BY <1>2 DEF Handshake, Handshaking, TypeOK
<1>3. CASE HandshakeReason(e) \/ HandshakeTimeout(e)
  BY <1>3 DEF HandshakeReason, HandshakeTimeout, HandshakeFailed, Handshaking, TypeOK
<1>4. CASE Open(e)
  BY <1>4 DEF Open, TypeOK
<1>5. CASE e = Client /\ (Connect \/ ClientTerm)
  BY <1>5 DEF Connect, ClientTerm, TypeOK
<1>6. CASE e = Server /\ (AwaitTerm \/ TermReason \/ ServerDrop)
  BY <1>6 DEF AwaitTerm, TermReason, ServerDrop, TypeOK
<1> QED
  BY <1>1, <1>2, <1>3, <1>4, <1>5, <1>6 DEF Moves, Continue

\* A dormant side sends nothing, but for the client's INIT and the server's
\* answer to it.
LEMMA DormantIsSilent ==
  ASSUME TypeOK, NEW e \in Sides, Dormant(e), Moves(e), phase[e] \in Unopened,
         net' # net
  PROVE  Deliver(e) \/ (e = Client /\ Connect) \/ (e = Server /\ Open(e))
<1>1. stream[e] = "off" /\ listen[e] = "off"
  BY DEF Dormant
<1>2. ~Pull(e) /\ ~Listen(e)
  BY <1>1 DEF Pull, PullReady, Listen
<1>3. ~(e = Client /\ ClientTerm)
  BY <1>1 DEF ClientTerm, StreamReturned
<1>4. Open(e) => e = Server
  BY DEF Open
<1>5. CASE Handshake(e) \/ HandshakeReason(e) \/ HandshakeTimeout(e) \/ AwaitAck(e)
        \/ AckReason(e) \/ ListenReason(e) \/ AwaitTerm \/ TermReason \/ ServerDrop
        \/ SocketClosed(e) \/ Load(e) \/ End(e) \/ Cancel(e) \/ Drop
  BY <1>5 DEF Handshake, HandshakeReason, HandshakeTimeout, HandshakeFailed, AwaitAck,
     AckReason, ListenReason, AwaitTerm, TermReason, ServerDrop, SocketClosed, Load, End,
     Cancel, Drop
<1> QED
  BY <1>2, <1>3, <1>4, <1>5 DEF Moves, Continue

LEMMA MovesControl ==
  ASSUME TypeOK, TypeOK', ControlInv, NEW e \in Sides, Moves(e)
  PROVE  ControlInv'
<1>0. Client \in Sides /\ Server \in Sides /\ Client # Server
  BY DEF Sides, Client, Server
<1>1. ASSUME NEW s \in Sides PROVE Dormant(s)' /\ Working(s)'
  <2>1. CASE s = e
    BY <2>1, OwnSteps DEF ControlInv
  <2>2. CASE s # e
    <3>1. UNCHANGED Own(s) /\ (up' => up)
      BY <2>2, OthersUntouched, NothingRevives
    <3> QED
      BY <3>1 DEF Own, ControlInv, Dormant, Working
  <2> QED
    BY <2>1, <2>2
<1>2. FirstContact'
  <2> SUFFICES ASSUME phase'[Client] = "idle" PROVE FirstContact'
    BY DEF FirstContact
  <2>1. phase[Client] = "idle"
    BY <1>0, PhasesGoOn, OthersUntouched DEF Own
  <2>2. /\ net[Server] = <<>>
        /\ \A b \in Buffers : buf[Server][b] = <<>>
        /\ phase[Server] \in {"idle", "failed"}
    BY <2>1 DEF ControlInv, FirstContact
  <2>3. ~Deliver(Server)
    BY <2>2 DEF Deliver
  <2>4. net'[Server] = <<>>
    <3>1. CASE e = Client
      <4>1. net' # net => Deliver(e) \/ Connect
        BY <1>0, <2>1, <3>1, DormantIsSilent DEF ControlInv, Unopened, Early
      <4>2. ~Connect
        BY <1>0 DEF Connect, TypeOK
      <4>3. Deliver(Client) => net'[Server] = net[Server]
        BY <1>0 DEF Deliver, TypeOK
      <4> QED
        BY <2>2, <3>1, <4>1, <4>2, <4>3
    <3>2. CASE e = Server
      BY <1>0, <2>2, <2>3, <3>2, NetworkGrows
    <3> QED
      BY <3>1, <3>2 DEF Sides
  <2>5. (\A b \in Buffers : buf'[Server][b] = <<>>) /\ phase'[Server] \in {"idle", "failed"}
    <3>1. CASE e = Client
      BY <1>0, <2>2, <3>1, OthersUntouched DEF Own
    <3>2. CASE e = Server
      <4>1. \A b \in Buffers : ~Holds(Server, b)
        BY <2>2 DEF Holds
      <4>2. stream[Server] = "off" /\ listen[Server] = "off"
        BY <1>0, <2>2 DEF ControlInv, Dormant, Unopened, Early
      <4>3. ~Handshake(e)
        BY <3>2, <4>1 DEF Handshake, SigBuffer, Buffers
      <4>4. phase'[Server] \in {"idle", "failed"}
        <5>1. phase'[Server] # "opened" /\ ~Open(Server)
          BY <2>2, <3>2, <4>3, PhasesGoOn DEF Open
        <5>2. ~AwaitTerm /\ ~TermReason /\ ~ServerDrop
          BY <2>2 DEF AwaitTerm, TermReason, ServerDrop
        <5>3. phase' = phase \/ phase'[e] = "failed"
          BY <1>0, <3>2, <4>3, <5>1, <5>2 DEF Moves, Continue, HandshakeReason, HandshakeTimeout,
             HandshakeFailed, Pull, AwaitAck, AckReason, Listen, ListenReason, Deliver,
             SocketClosed, Load, End, Cancel, TypeOK
        <5> QED
          BY <2>2, <3>2, <5>3
      <4>5. buf' = buf \/ \E bs : Unregister(Server, bs)
        <5>1. ~AwaitAck(e) /\ ~Listen(e) /\ ~Deliver(e) /\ ~AwaitTerm
          BY <2>3, <3>2, <4>1, <4>2 DEF AwaitAck, Listen, AwaitTerm, Buffers
        <5> QED
          BY <1>0, <3>2, <4>3, <5>1 DEF Moves, Continue, HandshakeReason, HandshakeTimeout,
             HandshakeFailed, Open, Pull, AckReason, ListenReason, TermReason, ServerDrop,
             SocketClosed, Load, End, Cancel
      <4>6. \A b \in Buffers : buf'[Server][b] = <<>>
        <5>1. CASE buf' = buf
          BY <2>2, <5>1
        <5>2. CASE \E bs : Unregister(Server, bs)
          <6>1. PICK bs : Unregister(Server, bs)
            BY <5>2
          <6>2. \A b \in Buffers : Len(buf'[Server][b]) <= 0
            BY <1>0, <2>2, <6>1, UnregisterLess, EmptySeq
          <6>3. \A b \in Buffers : buf'[Server][b] \in Seq(Message)
            BY <1>0 DEF TypeOK
          <6> QED
            BY <6>2, <6>3, LenProperties, EmptySeq
        <5> QED
          BY <4>5, <5>1, <5>2
      <4> QED
        BY <4>4, <4>6
    <3> QED
      BY <3>1, <3>2 DEF Sides
  <2> QED
    BY <2>4, <2>5 DEF FirstContact
<1>3. ServerSecond'
  <2> SUFFICES ASSUME ~Hailed' PROVE net'[Client] = <<>>
    BY DEF ServerSecond
  <2>1. ~Hailed
    <3>1. CASE phase'[Server] = phase[Server]
      BY <3>1 DEF Hailed
    <3>2. CASE phase'[Server] # phase[Server]
      <4>1. e = Server
        BY <1>0, <3>2, OthersUntouched DEF Own
      <4> QED
        BY <1>0, <3>2, <4>1, PhasesGoOn DEF Hailed
    <3> QED
      BY <3>1, <3>2
  <2>2. net[Client] = <<>>
    BY <2>1 DEF ControlInv, ServerSecond
  <2>3. CASE e = Client
    BY <2>2, <2>3, NetworkGrows DEF Deliver
  <2>4. CASE e = Server
    <3>1. phase[Server] \in Unopened
      BY <2>1 DEF Hailed, Unopened, Early
    <3>2. ~Open(Server)
      BY <1>0 DEF Open, Hailed, TypeOK
    <3>3. net' = net \/ Deliver(Server)
      BY <1>0, <2>4, <3>1, <3>2, DormantIsSilent DEF ControlInv
    <3>4. Deliver(Server) => net'[Client] = net[Client]
      BY <1>0 DEF Deliver, TypeOK
    <3> QED
      BY <2>2, <3>3, <3>4
  <2> QED
    BY <2>3, <2>4 DEF Sides
<1> QED
  BY <1>1, <1>2, <1>3 DEF ControlInv

LEMMA NextControl == TypeOK /\ TypeOK' /\ ControlInv /\ [Next]_vars => ControlInv'
<1> SUFFICES ASSUME TypeOK, TypeOK', ControlInv, [Next]_vars PROVE ControlInv'
  OBVIOUS
<1>1. CASE Disconnect
  <2>1. /\ ~up' /\ UNCHANGED <<reg, buf, phase, task, stream, listen>>
        /\ \A x \in Sides : net'[x] = <<>>
    BY <1>1 DEF Disconnect
  <2> QED
    BY <2>1 DEF ControlInv, Dormant, Working, FirstContact, ServerSecond, Hailed, Sides
<1>2. ASSUME NEW e \in Sides, Moves(e) PROVE ControlInv'
  BY <1>2, MovesControl
<1>3. CASE UNCHANGED vars
  BY <1>3 DEF vars, ControlInv, Dormant, Working, FirstContact, ServerSecond, Hailed
<1> QED
  BY <1>1, <1>2, <1>3, NextMoves
-----------------------------------------------------------------------------
(***************************************************************************)
(* A healthy session.                                                      *)
(***************************************************************************)
\* The websocket hands over one frame at a time, the client's in order: what the
\* server sends behind its hello must not come with it.
Timely == Batch = 1 /\ Client \notin Reordering

\* connect and channel count alike as far as this session goes.
StepsAgree == \A k \in 0 .. MaxLoad : Step(Client, k) = Step(Server, k)

Healthy == up /\ \A e \in Sides : task[e] = "live"

\* While all is well a side only goes on with the handshake, its loops and what
\* its application gives.
GoesOn(e) ==
  \/ e = Client /\ Connect
  \/ Handshake(e) \/ Open(e) \/ Pull(e) \/ AwaitAck(e) \/ Listen(e)
  \/ e = Server /\ AwaitTerm
  \/ Deliver(e) \/ Load(e) \/ End(e)

LEMMA HealthyStep ==
  ASSUME TypeOK, ControlInv, NEW e \in Sides, Moves(e), Healthy'
  PROVE  Healthy /\ GoesOn(e)
<1>1. Healthy
  <2>1. up /\ task[e] = "live"
    BY NothingRevives DEF Healthy
  <2>2. ASSUME NEW x \in Sides, x # e PROVE task[x] = "live"
    BY <2>2, OthersUntouched DEF Own, Healthy
  <2> QED
    BY <2>1, <2>2 DEF Healthy
<1>2. Working(e) /\ task[e] = "live" /\ task'[e] = "live" /\ up /\ up'
  BY <1>1 DEF ControlInv, Healthy
<1>3. ~HandshakeReason(e) /\ ~HandshakeTimeout(e) /\ ~AckReason(e) /\ ~ListenReason(e)
      /\ ~SocketClosed(e) /\ ~Cancel(e)
  BY <1>2 DEF HandshakeReason, HandshakeTimeout, HandshakeFailed, AckReason, ListenReason,
              SocketClosed, Cancel, Cancelled, TypeOK
<1>4. e = Client => ~ClientTerm /\ ~Drop
  BY <1>2 DEF ClientTerm, StreamReturned, Drop, Cleaned, Working, TypeOK
<1>5. e = Server => ~TermReason /\ ~ServerDrop
  BY <1>2 DEF TermReason, ServerDrop, Working
<1> QED
  BY <1>1, <1>3, <1>4, <1>5 DEF Moves, Continue, GoesOn

\* What such a step leaves as it was.
LEMMA QuietStep ==
  ASSUME TypeOK, NEW e \in Sides, GoesOn(e), ~Deliver(e)
  PROVE  /\ ~Listen(e) => buf'[e]["msg"] = buf[e]["msg"] /\ recvd'[e] = recvd[e]
         /\ ~AwaitAck(e) /\ ~(e = Client /\ Handshake(Client)) => buf'[e]["ack"] = buf[e]["ack"]
         /\ ~Pull(e) => sent'[e] = sent[e] /\ (stream'[e] = "ack" => stream[e] = "ack")
<1>0. /\ Client \in Sides /\ Server \in Sides
      /\ {"msg", "ack", "term", "sig"} \subseteq Buffers
  BY DEF Sides, Buffers
<1>1. CASE (e = Client /\ Connect) \/ Open(e) \/ Load(e) \/ End(e)
  BY <1>1 DEF Connect, Open, Load, End, TypeOK
<1>2. CASE Handshake(e)
  <2>1. UNCHANGED <<recvd, sent, stream>> /\ (Unregister(e, {"sig"}) \/ Pop(e, SigBuffer(e)))
    BY <1>2 DEF Handshake
  <2>2. SigBuffer(e) \in Buffers /\ SigBuffer(e) # "msg" /\ (e # Client => SigBuffer(e) # "ack")
    BY DEF SigBuffer, Buffers
  <2>3. buf'[e]["msg"] = buf[e]["msg"] /\ (e # Client => buf'[e]["ack"] = buf[e]["ack"])
    BY <1>0, <2>1, <2>2, PopEffect, UnregisterEffect
  <2> QED
    BY <1>2, <2>1, <2>3
<1>3. CASE Pull(e)
  <2>1. UNCHANGED <<buf, recvd>>
    BY <1>3 DEF Pull
  <2> QED
    BY <1>3, <2>1
<1>4. CASE AwaitAck(e)
  <2>1. Pop(e, "ack") /\ UNCHANGED <<recvd, sent>> /\ stream[e] = "ack"
    BY <1>4 DEF AwaitAck
  <2> QED
    BY <1>0, <1>4, <2>1, PopEffect
<1>5. CASE Listen(e)
  <2>1. Pop(e, "msg") /\ UNCHANGED <<sent, stream>>
    BY <1>5 DEF Listen
  <2> QED
    BY <1>0, <1>5, <2>1, PopEffect
<1>6. CASE e = Server /\ AwaitTerm
  <2>1. Pop(e, "term") /\ UNCHANGED <<recvd, sent, stream>>
    BY <1>6 DEF AwaitTerm
  <2> QED
    BY <1>0, <2>1, PopEffect
<1> QED
  BY <1>1, <1>2, <1>3, <1>4, <1>5, <1>6 DEF GoesOn
-----------------------------------------------------------------------------
(***************************************************************************)
(* Frames that are not lost.                                               *)
(***************************************************************************)
LEMMA AppendKeeps ==
  ASSUME NEW q \in Seq(Message), NEW m \in Message
  PROVE  /\ Frames(q) \subseteq Frames(Append(q, m))
         /\ m \in Frames(Append(q, m))
         /\ Append(q, m) # <<>>
         /\ q # <<>> => Append(q, m)[1] = q[1]
         /\ q = <<>> => Append(q, m)[1] = m
<1> DEFINE q2 == Append(q, m)
<1>1. /\ DOMAIN q = 1 .. Len(q)
      /\ Len(q) \in Nat
      /\ DOMAIN q2 = 1 .. (Len(q) + 1)
      /\ \A i \in 1 .. Len(q) : q2[i] = q[i]
      /\ q2[Len(q) + 1] = m
      /\ q = <<>> <=> Len(q) = 0
  BY AppendProperties, LenProperties, EmptySeq
<1>2. DOMAIN <<>> = 1 .. 0
  BY EmptySeq, LenProperties
<1> HIDE DEF q2
<1>3. q2 # <<>>
  BY <1>1, <1>2
<1>4. Len(q) + 1 \in DOMAIN q2 /\ \A i \in DOMAIN q : i \in DOMAIN q2 /\ q2[i] = q[i]
  BY <1>1
<1>5. /\ q # <<>> => q2[1] = q[1]
      /\ q = <<>> => q2[1] = m
  BY <1>1
<1> QED
  BY <1>1, <1>3, <1>4, <1>5 DEF q2, Frames

\* Of a buffer that is read only the front goes.
LEMMA TailKeeps ==
  ASSUME NEW q \in Seq(Message), q # <<>>
  PROVE  \A m \in Frames(q) : m = q[1] \/ m \in Frames(Tail(q))
<1>1. /\ DOMAIN q = 1 .. Len(q)
      /\ Len(q) \in Nat \ {0}
      /\ DOMAIN Tail(q) = 1 .. (Len(q) - 1)
      /\ \A i \in 1 .. (Len(q) - 1) : Tail(q)[i] = q[i + 1]
  BY HeadTailProperties, LenProperties, EmptySeq
<1>2. ASSUME NEW i \in DOMAIN q
      PROVE  i = 1 \/ (i - 1 \in DOMAIN Tail(q) /\ Tail(q)[i - 1] = q[i])
  <2>1. CASE i = 1
    BY <2>1
  <2>2. CASE i # 1
    <3>1. i - 1 \in 1 .. (Len(q) - 1) /\ (i - 1) + 1 = i
      BY <1>1, <2>2
    <3> QED
      BY <1>1, <3>1
  <2> QED
    BY <2>1, <2>2
<1> QED
  BY <1>2 DEF Frames

\* One socket event takes one frame off the network, the client's first one.
LEMMA DeliverOne ==
  ASSUME TypeOK, Timely, NEW e \in Sides, Deliver(e)
  PROVE  \E ms \in Seq(Message) :
           /\ Len(ms) = 1
           /\ BufferIn(e, ms)
           /\ \A m \in Frames(net[e]) : m = ms[1] \/ m \in Frames(net'[e])
           /\ e = Client => ms[1] = net[e][1]
<1> DEFINE n == net[e]
           l == Len(net[e])
<1>1. n \in Seq(Message) /\ DOMAIN n = 1 .. l /\ l \in Nat
  BY LenProperties DEF TypeOK
<1>2. ASSUME NEW x \in 1 .. Batch, x <= l,
             BufferIn(e, SubSeq(n, 1, x)),
             net' = [net EXCEPT ![e] = SubSeq(@, x + 1, Len(@))]
      PROVE  \E ms \in Seq(Message) :
               /\ Len(ms) = 1
               /\ BufferIn(e, ms)
               /\ \A m \in Frames(net[e]) : m = ms[1] \/ m \in Frames(net'[e])
               /\ e = Client => ms[1] = net[e][1]
  <2> DEFINE ms == SubSeq(n, 1, 1)
             n2 == SubSeq(n, 2, l)
  <2>1. x = 1 /\ l >= 1
    BY <1>1, <1>2 DEF Timely
  <2>2. net'[e] = n2
    BY <1>2, <2>1 DEF TypeOK
  <2>3. /\ ms \in Seq(Message)
        /\ Len(ms) = 1
        /\ ms[1] = n[1]
    BY <1>1, <2>1, PartFrames
  <2>4. /\ n2 \in Seq(Message)
        /\ Len(n2) = l - 1
        /\ \A i \in 1 .. l - 1 : n2[i] = n[1 + i]
    <3>1. /\ 1 + 1 \in Nat \ {0}
          /\ 1 + 1 <= l + 1
          /\ l + 1 - (1 + 1) = l - 1
          /\ \A i \in 1 .. l - 1 : (1 + 1) + i - 1 = 1 + i
      BY <1>1, <2>1, PlacesAfter
    <3>2. /\ SubSeq(n, 1 + 1, l) \in Seq(Message)
          /\ Len(SubSeq(n, 1 + 1, l)) = l + 1 - (1 + 1)
          /\ \A i \in 1 .. (l + 1 - (1 + 1)) : SubSeq(n, 1 + 1, l)[i] = n[(1 + 1) + i - 1]
      BY <1>1, <3>1, PartFrames
    <3> QED
      BY <3>1, <3>2
  <2>5. DOMAIN n2 = 1 .. l - 1
    BY <2>4, LenProperties
  <2>6. BufferIn(e, ms)
    BY <1>2, <2>1
  <2> HIDE DEF ms, n2
  <2>7. ASSUME NEW i \in DOMAIN n PROVE i = 1 \/ (i - 1 \in DOMAIN n2 /\ n2[i - 1] = n[i])
    <3>1. CASE i = 1
      BY <3>1
    <3>2. CASE i # 1
      <4>1. i - 1 \in 1 .. l - 1 /\ 1 + (i - 1) = i
        BY <1>1, <3>2
      <4> QED
        BY <2>4, <2>5, <4>1
    <3> QED
      BY <3>1, <3>2
  <2>8. \A m \in Frames(n) : m = ms[1] \/ m \in Frames(net'[e])
    BY <2>2, <2>3, <2>7 DEF Frames
  <2> QED
    BY <2>3, <2>6, <2>8
<1>3. ASSUME NEW y \in 2 .. l, e \in Reordering,
             BufferIn(e, <<n[y]>>),
             net' = [net EXCEPT ![e] = SubSeq(@, 1, y - 1) \o SubSeq(@, y + 1, Len(@))]
      PROVE  \E ms \in Seq(Message) :
               /\ Len(ms) = 1
               /\ BufferIn(e, ms)
               /\ \A m \in Frames(net[e]) : m = ms[1] \/ m \in Frames(net'[e])
               /\ e = Client => ms[1] = net[e][1]
  <2> DEFINE n2 == SubSeq(n, 1, y - 1) \o SubSeq(n, y + 1, l)
  <2>1. net'[e] = n2
    BY <1>3 DEF TypeOK
  <2>2. /\ DOMAIN n2 = 1 .. l - 1
        /\ \A i \in 1 .. l - 1 : n2[i] = IF i <= y - 1 THEN n[i] ELSE n[i + 1]
    BY <1>1, WithoutFrame
  <2> HIDE DEF n2
  <2>3. ASSUME NEW i \in DOMAIN n, i # y PROVE \E j \in DOMAIN n2 : n2[j] = n[i]
    <3>1. CASE i < y
      <4>1. i \in 1 .. l - 1 /\ i <= y - 1
        BY <1>1, <3>1
      <4> QED
        BY <2>2, <4>1
    <3>2. CASE i > y
      <4>1. i - 1 \in 1 .. l - 1 /\ ~(i - 1 <= y - 1) /\ (i - 1) + 1 = i
        BY <1>1, <3>2
      <4> QED
        BY <2>2, <4>1
    <3> QED
      BY <1>1, <2>3, <3>1, <3>2
  <2>4. \A m \in Frames(n) : m = n[y] \/ m \in Frames(net'[e])
    BY <2>1, <2>3 DEF Frames
  <2>5. n[y] \in Message
    BY <1>1, ElementOfSeq
  <2>6. <<n[y]>> \in Seq(Message) /\ Len(<<n[y]>>) = 1 /\ <<n[y]>>[1] = n[y]
    BY <2>5
  <2>7. e # Client
    BY <1>3 DEF Timely
  <2> QED
    BY <1>3, <2>4, <2>6, <2>7
<1> QED
  BY <1>2, <1>3 DEF Deliver

\* A waiting recv whose buffer is empty is given the frame, whatever the size.
LEMMA ReceivedAlone ==
  ASSUME TypeOK, NEW e \in Sides, NEW ms \in Seq(Message), Len(ms) = 1, BufferIn(e, ms),
         NEW b \in Buffers, Reading(e, b), b \in reg[e], buf[e][b] = <<>>
  PROVE  buf'[e][b] # <<>> /\ buf'[e][b][1] = ms[1] /\ ms[1] \in Frames(buf'[e][b])
<1>1. buf'[e][b] = FirstOf(<<>> \o ms, Room(e, b))
  BY DEF BufferIn, TypeOK
<1>2. <<>> \o ms = ms
  BY ConcatEmptySeq
<1>3. Room(e, b) \in Nat /\ Room(e, b) >= 1
  BY CapAssumption DEF Room
<1>4. FirstOf(ms, Room(e, b)) = SubSeq(ms, 1, 1)
  <2>1. (IF Len(ms) < Room(e, b) THEN Len(ms) ELSE Room(e, b)) = 1
    BY <1>3
  <2> QED
    BY <2>1 DEF FirstOf
<1>5. /\ SubSeq(ms, 1, 1) \in Seq(Message)
      /\ Len(SubSeq(ms, 1, 1)) = 1
      /\ SubSeq(ms, 1, 1)[1] = ms[1]
  <2>1. 1 \in Nat \ {0} /\ 1 <= 1 + 1 /\ 1 <= Len(ms) /\ 1 + 1 - 1 = 1
    OBVIOUS
  <2>2. /\ SubSeq(ms, 1, 1) \in Seq(Message)
        /\ Len(SubSeq(ms, 1, 1)) = 1 + 1 - 1
        /\ \A i \in 1 .. (1 + 1 - 1) :
             1 + i - 1 \in DOMAIN ms /\ SubSeq(ms, 1, 1)[i] = ms[1 + i - 1]
    BY <2>1, PartFrames
  <2> QED
    BY <2>2
<1>6. 1 \in DOMAIN SubSeq(ms, 1, 1) /\ SubSeq(ms, 1, 1) # <<>>
  <2> DEFINE q == SubSeq(ms, 1, 1)
  <2>1. q \in Seq(Message) /\ Len(q) = 1
    BY <1>5
  <2> HIDE DEF q
  <2>2. 1 \in DOMAIN q
    BY <2>1, LenProperties
  <2>3. q # <<>>
    BY <2>1, EmptySeq
  <2> QED
    BY <2>2, <2>3 DEF q
<1> QED
  BY <1>1, <1>2, <1>4, <1>5, <1>6 DEF Frames
-----------------------------------------------------------------------------
(***************************************************************************)
(* The hello reaches a client that waits for it, ahead of all else.        *)
(***************************************************************************)
Hello == [t |-> "ACK", n |-> 0, d |-> 0]

HelloComing ==
  Healthy /\ Hailed /\ phase[Client] = "opening" =>
    \/ net[Client] # <<>> /\ net[Client][1] = Hello
    \/ Holds(Client, "ack") /\ Front(Client, "ack") = Hello

\* A client that waits for the hello receives it, and nothing else before.
LEMMA HelloReceived ==
  ASSUME TypeOK, Timely, HelloComing, Healthy, Hailed, phase[Client] = "opening",
         Working(Client), Deliver(Client)
  PROVE  /\ net[Client] # <<>> /\ net[Client][1] = Hello
         /\ Holds(Client, "ack")' /\ Front(Client, "ack")' = Hello
<1>0. Client \in Sides /\ "ack" \in Buffers
  BY DEF Sides, Buffers
<1>1. ~Holds(Client, "ack")
  BY DEF Deliver, Quiet, Handshaking, SigBuffer
<1>2. net[Client] # <<>> /\ net[Client][1] = Hello
  BY <1>1 DEF HelloComing
<1>3. "ack" \in reg[Client]
  BY <1>0 DEF Working, Healthy
<1>4. Reading(Client, "ack")
  BY DEF Reading
<1>5. PICK ms \in Seq(Message) :
        /\ Len(ms) = 1
        /\ BufferIn(Client, ms)
        /\ Client = Client => ms[1] = net[Client][1]
  BY <1>0, DeliverOne
<1>6. buf'[Client]["ack"] # <<>> /\ buf'[Client]["ack"][1] = ms[1]
  BY <1>0, <1>1, <1>3, <1>4, <1>5, ReceivedAlone DEF Holds
<1> QED
  BY <1>2, <1>5, <1>6 DEF Holds, Front

LEMMA HelloMoves ==
  ASSUME TypeOK, TypeOK', Timely, ControlInv, HelloComing, NEW e \in Sides, Moves(e)
  PROVE  HelloComing'
<1>0. Client \in Sides /\ Server \in Sides /\ Client # Server /\ "ack" \in Buffers
      /\ Other(Server) = Client
  BY DEF Sides, Client, Server, Buffers, Other
<1> SUFFICES ASSUME Healthy', Hailed', phase'[Client] = "opening"
             PROVE  \/ net'[Client] # <<>> /\ net'[Client][1] = Hello
                    \/ Holds(Client, "ack")' /\ Front(Client, "ack")' = Hello
  BY DEF HelloComing
<1>1. Healthy /\ GoesOn(e)
  BY HealthyStep
<1>2. CASE e = Client
  <2>1. phase[Client] = "opening"
    <3>1. CASE phase'[Client] # phase[Client]
      <4>1. Connect
        BY <1>0, <1>2, <3>1, PhasesGoOn
      <4>2. phase[Client] = "idle"
        BY <4>1 DEF Connect
      <4>3. phase[Server] \in {"idle", "failed"} /\ phase'[Server] = phase[Server]
        BY <1>0, <1>2, <4>2, OthersUntouched DEF ControlInv, FirstContact, Own
      <4> QED
        BY <4>3 DEF Hailed
    <3> QED
      BY <3>1
  <2>2. Hailed
    BY <1>0, <1>2, OthersUntouched DEF Hailed, Own
  <2>3. CASE Deliver(Client)
    BY <1>0, <1>1, <2>1, <2>2, <2>3, HelloReceived DEF ControlInv
  <2>4. CASE ~Deliver(Client)
    <3>1. net'[Client] = net[Client]
      BY <1>0, <1>2, <2>4, NetworkGrows
    <3>2. CASE net[Client] # <<>> /\ net[Client][1] = Hello
      BY <3>1, <3>2
    <3>3. CASE Holds(Client, "ack") /\ Front(Client, "ack") = Hello
      <4>1. ~Handshake(Client)
        <5> SUFFICES ASSUME Handshake(Client) PROVE FALSE
          OBVIOUS
        <5>1. phase' = [phase EXCEPT ![Client] = "opened"]
          BY <3>3 DEF Handshake, SigBuffer, Hello
        <5> QED
          BY <1>0, <5>1 DEF TypeOK
      <4>2. ~AwaitAck(Client)
        <5>1. stream[Client] = "off"
          BY <1>0, <2>1 DEF ControlInv, Dormant, Unopened, Early
        <5> QED
          BY <5>1 DEF AwaitAck
      <4>3. buf'[Client]["ack"] = buf[Client]["ack"]
        BY <1>0, <1>1, <1>2, <2>4, <4>1, <4>2, QuietStep
      <4> QED
        BY <3>3, <4>3 DEF Holds, Front
    <3> QED
      BY <1>1, <2>1, <2>2, <3>2, <3>3 DEF HelloComing
  <2> QED
    BY <2>3, <2>4
<1>3. CASE e = Server
  <2>1. phase[Client] = "opening" /\ buf'[Client] = buf[Client]
    BY <1>0, <1>3, OthersUntouched DEF Own
  <2>2. net[Client] \in Seq(Message)
    BY <1>0 DEF TypeOK
  <2>3. CASE Hailed
    <3>1. CASE Holds(Client, "ack") /\ Front(Client, "ack") = Hello
      BY <2>1, <3>1 DEF Holds, Front
    <3>2. CASE net[Client] # <<>> /\ net[Client][1] = Hello
      <4>1. net'[Client] = net[Client] \/ \E m \in Message : net'[Client] = Append(net[Client], m)
        <5>1. Deliver(Server) => net'[Client] = net[Client]
          BY <1>0 DEF Deliver, TypeOK
        <5> QED
          BY <1>0, <1>3, <5>1, NetworkGrows DEF SentOne
      <4>2. CASE net'[Client] = net[Client]
        BY <3>2, <4>2
      <4>3. ASSUME NEW m \in Message, net'[Client] = Append(net[Client], m)
            PROVE  net'[Client] # <<>> /\ net'[Client][1] = Hello
        BY <2>2, <3>2, <4>3, AppendKeeps
      <4> QED
        BY <4>1, <4>2, <4>3
    <3> QED
      BY <1>1, <2>1, <2>3, <3>1, <3>2 DEF HelloComing
  <2>4. CASE ~Hailed
    <3>1. phase'[Server] # phase[Server]
      BY <2>4 DEF Hailed
    <3>2. Open(Server)
      <4>1. phase'[Server] # "opening" /\ phase'[Server] # "closing" /\ phase'[Server] # "closed"
        <5>1. Working(Server)' /\ task'[Server] = "live" /\ up'
          BY <1>0, <1>3, OwnSteps DEF ControlInv, Healthy
        <5> QED
          BY <1>0, <5>1 DEF Working
      <4>2. phase'[Server] = "open"
        BY <1>0, <4>1 DEF Hailed, TypeOK, Phases
      <4> QED
        BY <1>3, <3>1, <4>2, PhasesGoOn
    <3>3. net[Client] = <<>>
      BY <2>4 DEF ControlInv, ServerSecond
    <3>4. net'[Client] = Append(net[Client], Hello)
      BY <1>0, <1>1, <3>2 DEF Open, Emit, Hello, Healthy, TypeOK
    <3>5. Hello \in Message
      BY DEF Hello, Message
    <3> QED
      BY <2>2, <3>3, <3>4, <3>5, AppendKeeps
  <2> QED
    BY <2>3, <2>4
<1> QED
  BY <1>2, <1>3 DEF Sides

LEMMA NextHello ==
  TypeOK /\ TypeOK' /\ Timely /\ ControlInv /\ HelloComing /\ [Next]_vars => HelloComing'
<1> SUFFICES ASSUME TypeOK, TypeOK', Timely, ControlInv, HelloComing, [Next]_vars
             PROVE  HelloComing'
  OBVIOUS
<1>1. CASE Disconnect
  BY <1>1 DEF Disconnect, HelloComing, Healthy
<1>2. ASSUME NEW e \in Sides, Moves(e) PROVE HelloComing'
  BY <1>2, HelloMoves
<1>3. CASE UNCHANGED vars
  BY <1>3 DEF vars, HelloComing, Healthy, Hailed, Holds, Front
<1> QED
  BY <1>1, <1>2, <1>3, NextMoves
-----------------------------------------------------------------------------
(***************************************************************************)
(* The answer that stream waits for.                                       *)
(***************************************************************************)
\* The message, or then its ACK, is on its way.
MessageComing(s) ==
  /\ Len(recvd[Other(s)]) = sent[s] - 1
  /\ \E m \in Frames(net[Other(s)]) \union Frames(buf[Other(s)]["msg"]) :
       m.t = "MSG" /\ m.d = sent[s] /\ m.n = Expected(Other(s))

AckOnItsWay(s) ==
  /\ Len(recvd[Other(s)]) = sent[s]
  /\ \E m \in Frames(net[s]) \union Frames(buf[s]["ack"]) :
       m.t = "ACK" /\ m.d = sent[s] /\ m.n = Step(s, sent[s])

LEMMA AnswerParts ==
  ASSUME NEW s \in Sides
  PROVE  AnswerComing(s) <=> MessageComing(s) \/ AckOnItsWay(s)
  BY DEF AnswerComing, MessageComing, AckOnItsWay

\* A step that loses neither and counts nothing.
LEMMA StillComing ==
  ASSUME NEW s \in Sides, AnswerComing(s),
         sent'[s] = sent[s], recvd'[Other(s)] = recvd[Other(s)],
         Frames(net[Other(s)]) \union Frames(buf[Other(s)]["msg"])
           \subseteq Frames(net'[Other(s)]) \union Frames(buf'[Other(s)]["msg"]),
         Frames(net[s]) \union Frames(buf[s]["ack"])
           \subseteq Frames(net'[s]) \union Frames(buf'[s]["ack"])
  PROVE  AnswerComing(s)'
<1> DEFINE o == Other(s)
<1>1. Expected(o)' = Expected(o)
  BY DEF Expected, Step, Limit
<1>2. CASE MessageComing(s)
  BY <1>1, <1>2 DEF MessageComing, AnswerComing
<1>3. CASE AckOnItsWay(s)
  BY <1>3 DEF AckOnItsWay, AnswerComing, Step, Limit
<1> QED
  BY <1>2, <1>3, AnswerParts

\* Who waits for an ACK has opened its session, and so has the server it is for.
LEMMA WaitingIsOpen ==
  ASSUME TypeOK, IInv, ControlInv, Healthy, NEW s \in Sides, stream[s] = "ack"
  PROVE  /\ phase[s] = "open" /\ "ack" \in reg[s] /\ Hailed
         /\ phase[Server] = "open"
         /\ phase[Client] \in {"opening", "opened", "open"}
<1>0. Client \in Sides /\ Server \in Sides /\ Client # Server
  BY DEF Sides, Client, Server
<1>1. phase[s] = "open"
  BY DEF ControlInv, Dormant, Working, Healthy, Unopened, Early
<1>2. "ack" \in reg[s]
  BY <1>1 DEF ControlInv, Working, Healthy
<1>3. Hailed
  <2>1. CASE s = Server
    BY <1>1, <2>1 DEF Hailed
  <2>2. CASE s = Client
    BY <1>1, <2>2 DEF IInv, Greeting, Early
  <2> QED
    BY <2>1, <2>2 DEF Sides
<1>4. phase[Server] = "open"
  BY <1>0, <1>3 DEF Hailed, ControlInv, Working, Healthy
<1>5. phase[Client] \in {"opening", "opened", "open"}
  <2>1. phase[Client] # "idle"
    BY <1>4 DEF ControlInv, FirstContact
  <2> QED
    BY <1>0, <2>1 DEF ControlInv, Working, Healthy
<1> QED
  BY <1>1, <1>2, <1>3, <1>4, <1>5

\* The network of a side that sends keeps what it carries.
LEMMA NetworkKeeps ==
  ASSUME TypeOK, NEW x \in Sides, SentOne(x)
  PROVE  Frames(net[x]) \subseteq Frames(net'[x])
<1>1. net[x] \in Seq(Message)
  BY DEF TypeOK
<1>2. ASSUME NEW m \in Message, net'[x] = Append(net[x], m)
      PROVE  Frames(net[x]) \subseteq Frames(net'[x])
  BY <1>1, <1>2, AppendKeeps
<1> QED
  BY <1>2 DEF SentOne

\* The message is sent.
LEMMA MessageSent ==
  ASSUME TypeOK, TypeOK', IInv, StepsAgree, NEW s \in Sides, Pull(s), Healthy, Healthy',
         stream'[s] = "ack"
  PROVE  AnswerComing(s)'
<1> DEFINE o == Other(s)
           k == sent[s] + 1
           m == [t |-> "MSG", n |-> Step(s, k), d |-> k]
<1>0. o \in Sides /\ o # s
  BY OtherSide
<1>1. stream[s] = "pull" /\ (sent[s] < loaded[s] \/ ended[s]) /\ recvd' = recvd
  BY DEF Pull, PullReady
<1>2. Transmit(s)
  <2>1. ~StreamReturns(s)
    BY DEF StreamReturns, TypeOK
  <2> QED
    BY <2>1 DEF Pull
<1>3. sent[s] # loaded[s]
  <2>1. CASE sent[s] = loaded[s]
    <3>1. StreamReturns(s)
      BY <2>1 DEF Pull
    <3> QED
      BY <3>1 DEF StreamReturns, TypeOK
  <2> QED
    BY <2>1
<1>4. /\ sent[s] \in Nat /\ loaded[s] \in Nat /\ acked[s] \in Nat
      /\ Len(recvd[o]) \in Nat
  BY <1>0, CapAssumption, LenProperties DEF TypeOK
<1>5. acked[s] = sent[s] /\ Len(recvd[o]) = sent[s] /\ sent[s] <= loaded[s]
  BY <1>1, <1>4 DEF IInv, Flows, Counts
<1>6. k \in 0 .. MaxLoad
  <2>1. loaded[s] \in 0 .. MaxLoad
    BY DEF TypeOK
  <2>2. loaded[s] <= MaxLoad /\ MaxLoad \in Nat
    BY <2>1, CapAssumption
  <2> QED
    BY <1>3, <1>4, <1>5, <2>2
<1>7. Step(o, k) = Step(s, k)
  BY <1>0, <1>6, OtherSide DEF StepsAgree, Sides
<1>8. m \in Message
  <2>1. k \in Nat
    BY <1>4
  <2>2. Step(s, k) \in Nat
    BY <2>1, StepIsNat
  <2> QED
    BY <2>1, <2>2 DEF Message
<1>9. sent'[s] = k
  BY <1>2 DEF Transmit, TypeOK
<1>10. net'[o] = Append(net[o], m)
  <2>1. Emit(s, m)
    BY <1>2 DEF Transmit
  <2> QED
    BY <1>0, <2>1 DEF Emit, Healthy, TypeOK
<1>11. m \in Frames(net'[o])
  BY <1>0, <1>8, <1>10, AppendKeeps DEF TypeOK
<1>12. Expected(o)' = Step(s, k)
  <2>1. Expected(o)' = Step(o, Len(recvd'[o]) + 1)
    BY DEF Expected, Step, Limit
  <2> QED
    BY <1>1, <1>5, <1>7, <2>1
<1>13. m.t = "MSG" /\ m.d = k /\ m.n = Step(s, k)
  OBVIOUS
<1>14. Len(recvd'[o]) = k - 1
  BY <1>1, <1>4, <1>5
<1> HIDE DEF m, k
<1>15. MessageComing(s)'
  BY <1>9, <1>11, <1>12, <1>13, <1>14 DEF MessageComing
<1> QED
  BY <1>15 DEF MessageComing, AnswerComing

\* The message is acknowledged, and its ACK has the step that stream expects.
LEMMA AckSent ==
  ASSUME TypeOK, TypeOK', IInv, StepsAgree, NEW s \in Sides, Listen(Other(s)), Healthy,
         stream[s] = "ack", AnswerComing(s)
  PROVE  AnswerComing(s)'
<1> DEFINE o == Other(s)
           f == Front(o, "msg")
<1>0. o \in Sides /\ o # s /\ Other(o) = s /\ "msg" \in Buffers /\ "ack" \in Buffers
  BY OtherSide DEF Buffers
<1>1. /\ listen[o] = "recv" /\ Holds(o, "msg") /\ Pop(o, "msg")
      /\ UNCHANGED <<sent, stream>>
  BY DEF Listen
<1>2. /\ buf[o]["msg"] \in Seq(Message) /\ buf[o]["msg"] # <<>>
      /\ net[s] \in Seq(Message) /\ net[o] \in Seq(Message)
  BY <1>0, <1>1 DEF Holds, TypeOK
<1>3. f \in Message /\ f \in Frames(buf[o]["msg"])
  BY <1>0, <1>1, <1>2, FrontOK, FewerTail, TypeParts DEF Front
<1>4. buf'[o]["msg"] = Tail(buf[o]["msg"]) /\ buf'[s]["ack"] = buf[s]["ack"]
  BY <1>0, <1>1, PopEffect
<1>5. CASE f.t # "MSG" \/ f.n # Expected(o)
  <2>1. UNCHANGED <<net, recvd>>
    BY <1>5 DEF Listen
  <2>2. \A m \in Frames(buf[o]["msg"]) : m = f \/ m \in Frames(buf'[o]["msg"])
    BY <1>2, <1>4, TailKeeps DEF Front
  <2>3. CASE MessageComing(s)
    <3>1. PICK m \in Frames(net[o]) \union Frames(buf[o]["msg"]) :
            m.t = "MSG" /\ m.d = sent[s] /\ m.n = Expected(o)
      BY <2>3 DEF MessageComing
    <3>2. m # f
      BY <1>5, <3>1
    <3>3. m \in Frames(net'[o]) \union Frames(buf'[o]["msg"])
      BY <2>1, <2>2, <3>1, <3>2
    <3>4. Expected(o)' = Expected(o) /\ sent'[s] = sent[s]
      BY <1>1, <2>1 DEF Expected, Step, Limit
    <3>5. MessageComing(s)'
      BY <2>1, <2>3, <3>1, <3>3, <3>4 DEF MessageComing
    <3> QED
      BY <3>5 DEF MessageComing, AnswerComing
  <2>4. CASE AckOnItsWay(s)
    <3>1. AckOnItsWay(s)'
      BY <1>1, <1>4, <2>1, <2>4 DEF AckOnItsWay, Step, Limit
    <3> QED
      BY <3>1 DEF AckOnItsWay, AnswerComing
  <2> QED
    BY <2>3, <2>4, AnswerParts
<1>6. CASE f.t = "MSG" /\ f.n = Expected(o)
  <2> DEFINE m == [t |-> "ACK", n |-> f.n, d |-> f.d]
             k == sent[s]
  <2>1. ~Interrupted(o)
    BY <1>0 DEF Interrupted, Healthy
  <2>2. Emit(o, m) /\ recvd' = [recvd EXCEPT ![o] = Append(@, f.d)]
    BY <1>6, <2>1 DEF Listen, Acknowledge
  <2>3. f \in Of(net[o], buf[o]["msg"], "MSG")
    BY <1>3, <1>6 DEF Of, Kind
  <2>4. f.d = k /\ Len(recvd[o]) + 1 = k
    BY <2>3 DEF IInv, Flows, MsgFlow
  <2>5. recvd[o] \in Seq(Nat) /\ Len(recvd[o]) \in Nat /\ k \in Nat /\ f.d \in Nat
    BY <1>0, <1>3, LenProperties DEF TypeOK, Message
  <2>6. recvd'[o] = Append(recvd[o], f.d)
    BY <1>0, <2>2 DEF TypeOK
  <2>7. Len(recvd'[o]) = k
    BY <2>4, <2>5, <2>6, AppendProperties
  <2>8. k \in 0 .. MaxLoad
    <3>1. k <= loaded[s] /\ loaded[s] \in 0 .. MaxLoad
      BY DEF IInv, Flows, Counts, TypeOK
    <3> QED
      BY <2>5, <3>1, CapAssumption
  <2>9. m.t = "ACK" /\ m.d = k /\ m.n = Step(s, k)
    <3>1. f.n = Step(o, k)
      BY <1>6, <2>4 DEF Expected
    <3>2. Step(o, k) = Step(s, k)
      BY <1>0, <2>8, OtherSide DEF StepsAgree, Sides
    <3> QED
      BY <2>4, <3>1, <3>2
  <2>10. m \in Message
    BY <1>3 DEF Message
  <2> HIDE DEF m
  <2>11. m \in Frames(net'[s])
    <3>1. net'[s] = Append(net[s], m)
      BY <1>0, <2>2 DEF Emit, Healthy, TypeOK
    <3> QED
      BY <1>2, <2>10, <3>1, AppendKeeps
  <2>12. sent'[s] = k
    BY <1>1
  <2> HIDE DEF k
  <2>13. AckOnItsWay(s)'
    BY <2>7, <2>9, <2>11, <2>12 DEF AckOnItsWay, Step, Limit
  <2> QED
    BY <2>13 DEF AckOnItsWay, AnswerComing
<1> QED
  BY <1>5, <1>6

\* stream discards what is not the ACK.
LEMMA OthersDiscarded ==
  ASSUME TypeOK, IInv, NEW s \in Sides, AwaitAck(s), Healthy, Healthy', stream'[s] = "ack",
         AnswerComing(s)
  PROVE  AnswerComing(s)'
<1> DEFINE o == Other(s)
           f == Front(s, "ack")
<1>0. o \in Sides /\ o # s /\ "ack" \in Buffers /\ "msg" \in Buffers
  BY OtherSide DEF Buffers
<1>1. stream[s] = "ack" /\ Holds(s, "ack") /\ Pop(s, "ack") /\ UNCHANGED <<net, sent, recvd>>
  BY DEF AwaitAck
<1>2. buf'[s]["ack"] = Tail(buf[s]["ack"]) /\ buf'[o]["msg"] = buf[o]["msg"]
  BY <1>0, <1>1, PopEffect
<1>3. ~(f.t = "ACK" /\ f.n = Step(s, sent[s]))
  <2>1. ~StreamReturns(s) /\ stream' # [stream EXCEPT ![s] = "pull"]
    BY DEF StreamReturns, TypeOK
  <2> QED
    BY <2>1 DEF AwaitAck
<1>4. \A m \in Frames(buf[s]["ack"]) : m = f \/ m \in Frames(buf'[s]["ack"])
  <2>1. buf[s]["ack"] \in Seq(Message) /\ buf[s]["ack"] # <<>>
    BY <1>0, <1>1 DEF Holds, TypeOK
  <2> QED
    BY <1>2, <2>1, TailKeeps DEF Front
<1>5. CASE MessageComing(s)
  <2>1. MessageComing(s)'
    BY <1>1, <1>2, <1>5 DEF MessageComing, Expected, Step, Limit
  <2> QED
    BY <2>1 DEF MessageComing, AnswerComing
<1>6. CASE AckOnItsWay(s)
  <2>1. PICK m \in Frames(net[s]) \union Frames(buf[s]["ack"]) :
          m.t = "ACK" /\ m.d = sent[s] /\ m.n = Step(s, sent[s])
    BY <1>6 DEF AckOnItsWay
  <2>2. m \in Frames(net'[s]) \union Frames(buf'[s]["ack"])
    BY <1>1, <1>3, <1>4, <2>1
  <2>3. AckOnItsWay(s)'
    BY <1>1, <1>6, <2>1, <2>2 DEF AckOnItsWay, Step, Limit
  <2> QED
    BY <2>3 DEF AckOnItsWay, AnswerComing
<1> QED
  BY <1>5, <1>6, AnswerParts

\* The ACK is received.
LEMMA AckReceived ==
  ASSUME TypeOK, IInv, ControlInv, Timely, NEW s \in Sides, Deliver(s), Healthy,
         stream[s] = "ack", AnswerComing(s)
  PROVE  AnswerComing(s)'
<1>0. Other(s) \in Sides /\ Other(s) # s /\ "ack" \in Buffers
  BY OtherSide DEF Buffers
<1>1. UNCHANGED <<sent, recvd>> /\ net'[Other(s)] = net[Other(s)]
      /\ buf'[Other(s)] = buf[Other(s)]
  BY <1>0 DEF Deliver, BufferIn, TypeOK
<1>2. PICK ms \in Seq(Message) :
        /\ Len(ms) = 1
        /\ BufferIn(s, ms)
        /\ \A m \in Frames(net[s]) : m = ms[1] \/ m \in Frames(net'[s])
  BY DeliverOne
<1>3. buf[s]["ack"] = <<>>
  BY DEF Deliver, Quiet, Holds
<1>4. ms[1] \in Frames(buf'[s]["ack"])
  <2>1. Reading(s, "ack") /\ "ack" \in reg[s]
    BY WaitingIsOpen DEF Reading
  <2> QED
    BY <1>0, <1>2, <1>3, <2>1, ReceivedAlone
<1>5. Frames(net[s]) \union Frames(buf[s]["ack"])
        \subseteq Frames(net'[s]) \union Frames(buf'[s]["ack"])
  <2>1. Frames(buf[s]["ack"]) = {}
    BY <1>3 DEF Frames
  <2> QED
    BY <1>2, <1>4, <2>1
<1> QED
  BY <1>1, <1>5, StillComing

\* The message is received: the listener waits for it with an empty buffer, or
\* the hello comes first.
LEMMA MessageReceived ==
  ASSUME TypeOK, IInv, ControlInv, HelloComing, Timely, NEW s \in Sides, Deliver(Other(s)),
         Healthy, stream[s] = "ack", AnswerComing(s)
  PROVE  AnswerComing(s)'
<1> DEFINE o == Other(s)
<1>0. /\ o \in Sides /\ o # s /\ Other(o) = s /\ "msg" \in Buffers
      /\ Client \in Sides /\ Server \in Sides
  BY OtherSide DEF Buffers, Sides
<1>1. UNCHANGED <<sent, recvd>> /\ net'[s] = net[s] /\ buf'[s] = buf[s]
  BY <1>0 DEF Deliver, BufferIn, TypeOK
<1>2. PICK ms \in Seq(Message) :
        /\ Len(ms) = 1
        /\ BufferIn(o, ms)
        /\ \A m \in Frames(net[o]) : m = ms[1] \/ m \in Frames(net'[o])
        /\ o = Client => ms[1] = net[o][1]
  BY <1>0, DeliverOne
<1>3. CASE phase[o] = "open"
  <2>1. listen[o] = "recv" /\ "msg" \in reg[o]
    BY <1>0, <1>3 DEF ControlInv, Working, Healthy
  <2>2. buf[o]["msg"] = <<>> /\ Reading(o, "msg")
    BY <2>1 DEF Deliver, Quiet, Holds, Reading
  <2>3. ms[1] \in Frames(buf'[o]["msg"])
    BY <1>0, <1>2, <2>1, <2>2, ReceivedAlone
  <2>4. Frames(buf[o]["msg"]) = {}
    BY <2>2 DEF Frames
  <2>5. Frames(net[o]) \union Frames(buf[o]["msg"])
          \subseteq Frames(net'[o]) \union Frames(buf'[o]["msg"])
    BY <1>2, <2>3, <2>4
  <2> QED
    BY <1>1, <2>5, StillComing
<1>4. CASE phase[o] # "open"
  <2>1. o = Client /\ phase[Client] \in {"opening", "opened"}
    BY <1>0, <1>4, WaitingIsOpen DEF Sides
  <2>2. phase[Client] # "opened"
    BY <2>1 DEF Deliver, Quiet
  <2>3. ms[1] = Hello
    <3>1. Hailed
      BY WaitingIsOpen
    <3> QED
      BY <1>0, <1>2, <2>1, <2>2, <3>1, HelloReceived DEF ControlInv
  <2>4. buf[o]["msg"] = <<>>
    BY <1>0, <2>1 DEF ControlInv, Dormant, Unopened, Early
  <2>5. CASE MessageComing(s)
    <3>1. PICK m \in Frames(net[o]) \union Frames(buf[o]["msg"]) :
            m.t = "MSG" /\ m.d = sent[s] /\ m.n = Expected(o)
      BY <2>5 DEF MessageComing
    <3>2. m \in Frames(net[o]) /\ m # Hello
      BY <2>4, <3>1 DEF Frames, Hello
    <3>3. m \in Frames(net'[o]) \union Frames(buf'[o]["msg"])
      BY <1>2, <2>3, <3>2
    <3>4. Expected(o)' = Expected(o)
      BY <1>1 DEF Expected, Step, Limit
    <3>5. MessageComing(s)'
      BY <1>1, <2>5, <3>1, <3>3, <3>4 DEF MessageComing
    <3> QED
      BY <3>5 DEF MessageComing, AnswerComing
  <2>6. CASE AckOnItsWay(s)
    <3>1. AckOnItsWay(s)'
      BY <1>1, <2>6 DEF AckOnItsWay, Step, Limit
    <3> QED
      BY <3>1 DEF AckOnItsWay, AnswerComing
  <2> QED
    BY <2>5, <2>6, AnswerParts
<1> QED
  BY <1>3, <1>4

LEMMA StrandedMoves ==
  ASSUME TypeOK, TypeOK', IInv, ControlInv, HelloComing, NoStrandedMessage, Timely, StepsAgree,
         NEW e \in Sides, Moves(e)
  PROVE  NoStrandedMessage'
<1> SUFFICES ASSUME NEW s \in Sides, stream'[s] = "ack", Healthy'
             PROVE  AnswerComing(s)'
  BY DEF NoStrandedMessage, Healthy
<1> DEFINE o == Other(s)
<1>0. /\ o \in Sides /\ o # s /\ Other(o) = s /\ (e = s \/ e = o)
      /\ "msg" \in Buffers /\ "ack" \in Buffers
  BY OtherSide DEF Buffers
<1>1. Healthy /\ GoesOn(e)
  BY HealthyStep
<1>2. stream[s] = "ack" => AnswerComing(s)
  BY <1>1 DEF NoStrandedMessage, Healthy
<1>3. CASE Pull(e) /\ e = s
  BY <1>1, <1>3, MessageSent
<1>4. CASE e = s /\ ~Pull(e)
  <2>1. stream[s] = "ack"
    <3>1. CASE Deliver(e)
      BY <3>1 DEF Deliver
    <3>2. CASE ~Deliver(e)
      BY <1>1, <1>4, <3>2, QuietStep
    <3> QED
      BY <3>1, <3>2
  <2>2. CASE Deliver(s)
    BY <1>1, <1>2, <2>1, <2>2, AckReceived
  <2>3. CASE AwaitAck(s)
    BY <1>1, <1>2, <2>1, <2>3, OthersDiscarded
  <2>4. CASE ~Deliver(s) /\ ~AwaitAck(s)
    <3>1. ~(e = Client /\ Handshake(Client))
      <4>1. phase[s] = "open"
        BY <1>1, <2>1, WaitingIsOpen
      <4> QED
        BY <1>4, <4>1 DEF Handshake, Handshaking
    <3>2. buf'[s]["ack"] = buf[s]["ack"] /\ sent'[s] = sent[s]
      BY <1>1, <1>4, <2>4, <3>1, QuietStep
    <3>3. recvd'[o] = recvd[o] /\ buf'[o] = buf[o]
      BY <1>0, <1>4, OthersUntouched DEF Own
    <3>4. net'[s] = net[s] /\ Frames(net[o]) \subseteq Frames(net'[o])
      BY <1>0, <1>4, <2>4, NetworkGrows, NetworkKeeps
    <3>5. /\ Frames(net[o]) \union Frames(buf[o]["msg"])
               \subseteq Frames(net'[o]) \union Frames(buf'[o]["msg"])
          /\ Frames(net[s]) \union Frames(buf[s]["ack"])
               \subseteq Frames(net'[s]) \union Frames(buf'[s]["ack"])
      BY <3>2, <3>3, <3>4
    <3> QED
      BY <1>2, <2>1, <3>2, <3>3, <3>5, StillComing
  <2> QED
    BY <2>2, <2>3, <2>4
<1>5. CASE e = o
  <2>1. /\ stream[s] = "ack" /\ sent'[s] = sent[s] /\ buf'[s] = buf[s]
    BY <1>0, <1>5, OthersUntouched DEF Own
  <2>2. CASE Deliver(o)
    BY <1>1, <1>2, <2>1, <2>2, MessageReceived
  <2>3. CASE Listen(o)
    BY <1>1, <1>2, <2>1, <2>3, AckSent
  <2>4. CASE ~Deliver(o) /\ ~Listen(o)
    <3>1. recvd'[o] = recvd[o] /\ buf'[o]["msg"] = buf[o]["msg"]
      BY <1>0, <1>1, <1>5, <2>4, QuietStep
    <3>2. net'[o] = net[o] /\ Frames(net[s]) \subseteq Frames(net'[s])
      BY <1>0, <1>5, <2>4, NetworkGrows, NetworkKeeps
    <3>3. /\ Frames(net[o]) \union Frames(buf[o]["msg"])
               \subseteq Frames(net'[o]) \union Frames(buf'[o]["msg"])
          /\ Frames(net[s]) \union Frames(buf[s]["ack"])
               \subseteq Frames(net'[s]) \union Frames(buf'[s]["ack"])
      BY <2>1, <3>1, <3>2
    <3> QED
      BY <1>2, <2>1, <3>1, <3>3, StillComing
  <2> QED
    BY <2>2, <2>3, <2>4
<1> QED
  BY <1>0, <1>3, <1>4, <1>5

LEMMA NextStranded ==
  /\ TypeOK /\ TypeOK' /\ IInv /\ ControlInv /\ HelloComing /\ NoStrandedMessage
  /\ Timely /\ StepsAgree /\ [Next]_vars
  => NoStrandedMessage'
<1> SUFFICES ASSUME TypeOK, TypeOK', IInv, ControlInv, HelloComing, NoStrandedMessage,
                    Timely, StepsAgree, [Next]_vars
             PROVE  NoStrandedMessage'
  OBVIOUS
<1>1. CASE Disconnect
  BY <1>1 DEF Disconnect, NoStrandedMessage
<1>2. ASSUME NEW e \in Sides, Moves(e) PROVE NoStrandedMessage'
  BY <1>2, StrandedMoves
<1>3. CASE UNCHANGED vars
  BY <1>3 DEF vars, NoStrandedMessage, AnswerComing, Expected, Step, Limit
<1> QED
  BY <1>1, <1>2, <1>3, NextMoves

\* The two limits agree, or are larger than the session is long.
LEMMA StepsAgreeWhen ==
  \/ ConnectLimit = ChannelLimit
  \/ MaxLoad < ConnectLimit /\ MaxLoad < ChannelLimit
  => StepsAgree
<1>0. Client # Server
  BY DEF Client, Server
<1>1. CASE ConnectLimit = ChannelLimit
  BY <1>0, <1>1 DEF StepsAgree, Step, Limit
<1>2. CASE MaxLoad < ConnectLimit /\ MaxLoad < ChannelLimit
  <2> SUFFICES ASSUME NEW k \in 0 .. MaxLoad PROVE Step(Client, k) = Step(Server, k)
    BY DEF StepsAgree
  <2>1. k % ConnectLimit = k /\ k % ChannelLimit = k
    BY <1>2, LimitAssumption, CapAssumption
  <2> QED
    BY <1>0, <2>1 DEF Step, Limit
<1> QED
  BY <1>1, <1>2

\* For every buffer size and with every failure: while the connection is up and
\* both tasks live, the message whose ACK stream awaits, or that ACK, is under
\* way.  With the limits of the code this covers sessions of up to 65534 messages
\* a direction.  That frames come one by one, the client's in order, cannot be
\* left out (MCSessionEarly.cfg), nor can the agreement of the steps
\* (MCSessionWrap.cfg).
THEOREM NoMessageIsStranded ==
  ASSUME Timely,
         \/ ConnectLimit = ChannelLimit
         \/ MaxLoad < ConnectLimit /\ MaxLoad < ChannelLimit
  PROVE  Spec => []NoStrandedMessage
<1>1. Init => ControlInv /\ HelloComing /\ NoStrandedMessage
  <2>1. Init => HelloComing /\ NoStrandedMessage
    BY DEF Init, HelloComing, NoStrandedMessage, Sides
  <2> QED
    BY <2>1, InitControl
<1>2. StepsAgree
  BY StepsAgreeWhen
<1>3. /\ TypeOK /\ IInv /\ ControlInv /\ HelloComing /\ NoStrandedMessage
      /\ TypeOK' /\ [Next]_vars
      => (ControlInv /\ HelloComing /\ NoStrandedMessage)'
  BY <1>2, NextControl, NextHello, NextStranded
<1> QED
  BY <1>1, <1>3, Invariance, PTL DEF Spec
=============================================================================
