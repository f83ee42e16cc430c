------------------------- MODULE ClientSocketProofs -------------------------
(***************************************************************************)
(* Proofs about the two halves of a socket, for every buffer size, every   *)
(* set of frames and of receivers.  ClientSocket: its types and the order  *)
(* of what it sends.  VirtualSocket: takes wait only at empty buffers, and *)
(* a frame is handed to its receiver but for one for each cancelled recv.  *)
(***************************************************************************)
EXTENDS MCClientSocket, CircularBufferProofs, FiniteSetTheorems

\* Before the buffer is connected nothing was taken from it: it starts at the
\* first slot and holds, slot by slot, everything that was accepted.
HeldBack ==
  /\ ~connectedPush
  /\ readyState # "OPEN"
  /\ head = 0
  /\ wire = <<>>
  /\ Len(put) = tail
  /\ \A i \in 1 .. tail : buffer[i - 1] = put[i]

\* Afterwards the wire holds a prefix of what was accepted, and all of it as long
\* as the websocket is open.
Bound ==
  /\ connectedPush
  /\ readyState # "CONNECTING"
  /\ Len(wire) <= Len(put)
  /\ wire = SubSeq(put, 1, Len(wire))
  /\ readyState = "OPEN" => wire = put

CInv ==
  /\ ClientTypeOK
  /\ onPush = <<>>
  /\ HeldBack \/ Bound

-----------------------------------------------------------------------------
\* A prefix of a sequence stays one when the sequence grows.
LEMMA PrefixGrows ==
  ASSUME NEW p \in Seq(Values), NEW q \in Seq(Values), NEW v \in Values,
         Len(p) <= Len(q), p = SubSeq(q, 1, Len(p))
  PROVE  /\ Len(p) <= Len(Append(q, v))
         /\ p = SubSeq(Append(q, v), 1, Len(p))
  OBVIOUS

\* A sequence is its own prefix.
LEMMA WholePrefix ==
  ASSUME NEW q \in Seq(Values)
  PROVE  Len(q) <= Len(q) /\ q = SubSeq(q, 1, Len(q))
  OBVIOUS

\* A buffer that is held back drains into what was accepted.
LEMMA DrainedIsPut ==
  ASSUME CInv, HeldBack
  PROVE  Drained = put
<1>1. /\ tail \in 0 .. Size /\ head = 0
      /\ buffer \in [Slots -> Values \union {Hole}]
      /\ put \in Seq(Values)
      /\ Len(put) = tail
      /\ \A i \in 1 .. tail : buffer[i - 1] = put[i]
  BY DEF CInv, ClientTypeOK, TypeOK, HeldBack, Slots
<1>2. put = [i \in 1 .. tail |-> put[i]]
  BY <1>1
<1>3. Slice(0, tail) = put
  BY <1>1, <1>2, SizeAssumption DEF Slice
<1>4. CASE tail = 0
  <2>1. put = <<>>
    BY <1>1, <1>4, EmptySeq
  <2>2. Drained = <<>> \o <<>>
    <3>1. ~(head > tail) /\ ~(head # tail)
      BY <1>1, <1>4
    <3> QED
      BY <3>1, Zenon DEF Drained
  <2> QED
    BY <2>1, <2>2
<1>5. CASE tail # 0
  <2>1. Drained = <<>> \o put
    <3>1. ~(head > tail) /\ head # tail
      BY <1>1, <1>5, SizeAssumption
    <3> QED
      BY <1>3, <3>1, Zenon DEF Drained
  <2> QED
    BY <1>1, <2>1
<1> QED
  BY <1>4, <1>5

\* What a held-back buffer contains is what was accepted.
LEMMA PendingIsPut ==
  ASSUME CInv, HeldBack
  PROVE  Pending = put
<1>1. /\ tail \in 0 .. Size /\ head = 0 /\ head \in Slots /\ tail \in Slots
      /\ put \in Seq(Values)
      /\ Len(put) = tail
      /\ \A i \in 1 .. tail : buffer[i - 1] = put[i]
  BY DEF CInv, ClientTypeOK, TypeOK, HeldBack, Slots
<1>2. Contents = [i \in 1 .. Held(head, tail) |-> buffer[Place(head, i)]]
  BY <1>1, ContentsByPlace
<1>3. Held(head, tail) = tail
  BY <1>1, SizeAssumption DEF Held
<1>4. \A i \in 1 .. tail : Place(head, i) = i - 1
  BY <1>1, SizeAssumption DEF Place, Ring
<1>5. put = [i \in 1 .. tail |-> put[i]]
  BY <1>1
<1>6. Contents = put
  BY <1>1, <1>2, <1>3, <1>4, <1>5
<1> QED
  BY <1>6 DEF Pending, HeldBack
-----------------------------------------------------------------------------
LEMMA ClientInitInvariant == ClientInit => CInv
<1> SUFFICES ASSUME ClientInit PROVE CInv
  OBVIOUS
<1>1. ClientTypeOK
  BY SizeAssumption, HoleAssumption
     DEF ClientInit, Init, ClientTypeOK, TypeOK, Slots, ReadyStates
<1>2. /\ put = <<>> /\ wire = <<>> /\ onPush = <<>>
      /\ head = 0 /\ tail = 0
  BY DEF ClientInit, Init
<1>3. CASE readyState = "OPEN"
  <2>1. connectedPush
    BY <1>3, Zenon DEF ClientInit
  <2>2. Len(wire) <= Len(put) /\ wire = SubSeq(put, 1, Len(wire))
    BY <1>2, EmptySeq
  <2> QED
    BY <1>1, <1>2, <1>3, <2>1, <2>2 DEF CInv, Bound
<1>4. CASE readyState # "OPEN"
  <2>1. ~connectedPush
    BY <1>4, Zenon DEF ClientInit
  <2>2. Len(put) = 0
    BY <1>2
  <2> QED
    BY <1>1, <1>2, <1>4, <2>1, <2>2 DEF CInv, HeldBack
<1> QED
  BY <1>3, <1>4

LEMMA SendKeeps ==
  ASSUME CInv, NEW v \in Values, Send(v)
  PROVE  CInv'
<1> USE DEF CInv
<1>1. CASE connectedPush
  <2>1. /\ put' = Append(put, v) /\ got' = Append(got, v) /\ reply' = "accepted"
        /\ UNCHANGED <<head, tail, buffer, onPush, dropped, connectedPush, readyState>>
        /\ wire' = IF readyState = "OPEN" THEN Append(wire, v) ELSE wire
    BY <1>1 DEF Send, ConnectablePush
  <2>2. ClientTypeOK'
    BY <2>1 DEF ClientTypeOK, TypeOK
  <2>3. Bound /\ put \in Seq(Values) /\ wire \in Seq(Values)
    BY <1>1 DEF HeldBack, ClientTypeOK, TypeOK
  <2>4. CASE readyState = "OPEN"
    <3>1. wire' = put' /\ put' \in Seq(Values)
      BY <2>1, <2>3, <2>4 DEF Bound
    <3>2. Len(put') <= Len(put') /\ put' = SubSeq(put', 1, Len(put'))
      BY <3>1, WholePrefix
    <3>3. Bound'
      BY <2>1, <2>3, <3>1, <3>2 DEF Bound
    <3> QED
      BY <2>1, <2>2, <3>3
  <2>5. CASE readyState # "OPEN"
    <3>1. Len(wire) <= Len(put') /\ wire = SubSeq(put', 1, Len(wire))
      BY <2>1, <2>3, PrefixGrows DEF Bound
    <3>2. Bound'
      BY <2>1, <2>3, <2>5, <3>1 DEF Bound
    <3> QED
      BY <2>1, <2>2, <3>2
  <2> QED
    BY <2>4, <2>5
<1>2. CASE ~connectedPush
  <2>1. Push(v) /\ UNCHANGED <<connectedPush, readyState, wire>>
    BY <1>2 DEF Send, ConnectablePush
  <2>2. HeldBack
    BY <1>2 DEF Bound
  <2>3. /\ head \in Slots /\ tail \in Slots /\ tail \in 0 .. Size
        /\ buffer \in [Slots -> Values \union {Hole}]
        /\ put \in Seq(Values) /\ got \in Seq(Values)
    BY DEF ClientTypeOK, TypeOK, Slots
  <2>4. CASE Advance(tail) # head
    <3>1. /\ buffer' = [buffer EXCEPT ![tail] = v]
          /\ tail' = Advance(tail)
          /\ put' = Append(put, v)
          /\ reply' = "accepted"
          /\ UNCHANGED <<onPush, got, head, dropped>>
      BY <2>1, <2>4 DEF Push
    <3>2. Advance(tail) = Following(tail) /\ Following(tail) \in Slots
      BY <2>3, AdvanceIsFollowing
    <3>3. tail # Size /\ tail' = tail + 1
      BY <2>2, <2>4, <3>1, <3>2 DEF HeldBack, Following
    <3>4. ClientTypeOK'
      BY <2>1, <2>3, <3>1, <3>2 DEF ClientTypeOK, TypeOK
    <3>5. Len(put') = tail'
      BY <2>2, <2>3, <3>1, <3>3 DEF HeldBack
    <3>6. \A i \in 1 .. tail' : buffer'[i - 1] = put'[i]
      <4> SUFFICES ASSUME NEW i \in 1 .. tail + 1
                   PROVE  buffer'[i - 1] = put'[i]
        BY <3>3
      <4>1. i - 1 \in Slots
        BY <2>3, <3>3, SizeAssumption DEF Slots
      <4>2. CASE i = tail + 1
        BY <2>2, <2>3, <3>1, <4>1, <4>2 DEF HeldBack
      <4>3. CASE i \in 1 .. tail
        <5>1. i - 1 # tail
          BY <2>3, <4>3
        <5>2. buffer'[i - 1] = buffer[i - 1]
          BY <2>3, <3>1, <4>1, <5>1
        <5>3. put'[i] = put[i]
          BY <2>2, <2>3, <3>1, <4>3 DEF HeldBack
        <5> QED
          BY <2>2, <4>3, <5>2, <5>3 DEF HeldBack
      <4> QED
        BY <2>3, <4>2, <4>3
    <3> QED
      BY <2>1, <2>2, <3>1, <3>4, <3>5, <3>6 DEF HeldBack
  <2>5. CASE Advance(tail) = head
    <3>1. reply' = "full" /\ UNCHANGED <<head, tail, buffer, onPush, dropped, put, got>>
      BY <2>1, <2>5 DEF Push
    <3> QED
      BY <2>1, <2>2, <3>1 DEF ClientTypeOK, TypeOK, HeldBack
  <2> QED
    BY <2>4, <2>5
<1> QED
  BY <1>1, <1>2

LEMMA OpenKeeps ==
  ASSUME CInv, Open
  PROVE  CInv'
<1>1. HeldBack
  BY DEF CInv, Bound, Open
<1>2. /\ Drained = put
      /\ put \in Seq(Values)
      /\ head = 0 /\ tail \in 0 .. Size /\ wire = <<>>
      /\ got \in Seq(Values)
      /\ buffer \in [Slots -> Values \union {Hole}]
  BY <1>1, DrainedIsPut DEF CInv, ClientTypeOK, TypeOK, HeldBack, Slots
<1>3. wire' = put /\ got' = got \o put
  BY <1>2 DEF Open, ConnectPush
<1>4. head' \in Slots
  BY <1>2, SizeAssumption DEF Open, ConnectPush, Slots
<1>5. buffer' \in [Slots -> Values \union {Hole}]
  <2>1. \A i \in Slots : buffer[i] \in Values \union {Hole}
    BY <1>2
  <2> QED
    BY <2>1 DEF Open, ConnectPush
<1>6. ClientTypeOK'
  BY <1>2, <1>3, <1>4, <1>5
     DEF Open, ConnectPush, CInv, ClientTypeOK, TypeOK, ReadyStates
<1>7. Len(put) <= Len(put) /\ put = SubSeq(put, 1, Len(put))
  BY <1>2, WholePrefix
<1>8. Bound'
  BY <1>3, <1>7 DEF Open, ConnectPush, Bound
<1> QED
  BY <1>6, <1>8 DEF Open, ConnectPush, CInv

\* The websocket's own events and drop leave the buffer's values alone and do not
\* open the websocket.
LEMMA ClosingKeeps ==
  ASSUME CInv, DropAll \/ PeerCloses \/ Close
  PROVE  CInv'
<1>1. /\ UNCHANGED <<head, tail, buffer, onPush, put, got, reply, connectedPush, wire>>
      /\ dropped' \in BOOLEAN
      /\ readyState' \in {"CLOSING", "CLOSED"}
  BY DEF CInv, ClientTypeOK, TypeOK, DropAll, PeerCloses, Close, Drop, Closing,
         connectableVars, vars
<1>2. ClientTypeOK'
  BY <1>1 DEF CInv, ClientTypeOK, TypeOK, ReadyStates
<1>3. HeldBack \/ Bound => HeldBack' \/ Bound'
  BY <1>1 DEF HeldBack, Bound
<1> QED
  BY <1>1, <1>2, <1>3 DEF CInv

LEMMA ClientNextInvariant == CInv /\ [ClientNext]_clientVars => CInv'
<1> SUFFICES ASSUME CInv, [ClientNext]_clientVars PROVE CInv'
  OBVIOUS
<1>1. CASE \E v \in Values : Send(v)
  BY <1>1, SendKeeps
<1>2. CASE Open
  BY <1>2, OpenKeeps
<1>3. CASE DropAll \/ PeerCloses \/ Close
  BY <1>3, ClosingKeeps
<1>4. CASE UNCHANGED clientVars
  BY <1>4 DEF clientVars, connectableVars, vars, CInv, ClientTypeOK, TypeOK,
              HeldBack, Bound
<1> QED
  BY <1>1, <1>2, <1>3, <1>4 DEF ClientNext

\* The inductive invariant holds of every behaviour.
THEOREM ClientInvariance == ClientSpec => []CInv
<1> QED
  BY ClientInitInvariant, ClientNextInvariant, PTL DEF ClientSpec

\* Types, among them that no undefined reaches the websocket.
THEOREM ClientTypeCorrect == ClientSpec => []ClientTypeOK
<1>1. CInv => ClientTypeOK
  BY DEF CInv
<1> QED
  BY <1>1, ClientInvariance, PTL

\* Frames reach the wire in the order of send, none missing or repeated, across
\* the moment the buffer is connected.
THEOREM SendsInOrder == ClientSpec => []OutgoingInOrder
<1>1. CInv => OutgoingInOrder
  <2> SUFFICES ASSUME CInv PROVE OutgoingInOrder
    OBVIOUS
  <2>1. put \in Seq(Values)
    BY DEF CInv, ClientTypeOK, TypeOK
  <2>2. CASE HeldBack
    <3>1. Pending = put /\ wire = <<>>
      BY <2>2, PendingIsPut DEF HeldBack
    <3>2. wire \o Pending = put
      BY <2>1, <3>1
    <3> QED
      BY <2>1, <3>1, <3>2 DEF OutgoingInOrder
  <2>3. CASE Bound
    <3>1. Pending = <<>>
      BY <2>3 DEF Bound, Pending
    <3>2. readyState \in {"CONNECTING", "OPEN"} => wire \o Pending = put
      BY <2>1, <2>3, <3>1 DEF Bound
    <3> QED
      BY <2>3, <3>2 DEF Bound, OutgoingInOrder
  <2> QED
    BY <2>2, <2>3 DEF CInv
<1> QED
  BY <1>1, ClientInvariance, PTL
-----------------------------------------------------------------------------
(***************************************************************************)
(* The receiving half: VirtualSocket, reached as the instance V.           *)
(***************************************************************************)
\* A set of natural numbers that is not empty has a least element.  The intervals below
\* its elements are finite sets, and inclusion is well founded on those.
LEMMA LeastNumber ==
  ASSUME NEW T \in SUBSET Nat, T # {}
  PROVE  \E x \in T : \A y \in T : x <= y
<1> DEFINE Below(x) == 0 .. x - 1
           Belows == {Below(x) : x \in T}
           R == StrictSubsetOrdering(Nat)
<1>1. IsWellFoundedOn(R, FiniteSubsetsOf(Nat))
  BY FS_StrictSubsetOrderingWellFounded
<1>2. Belows \subseteq FiniteSubsetsOf(Nat) /\ Belows # {}
  <2>1. ASSUME NEW x \in T PROVE Below(x) \in FiniteSubsetsOf(Nat)
    <3>1. x \in Nat /\ 0 \in Int /\ x - 1 \in Int
      OBVIOUS
    <3>2. IsFiniteSet(Below(x)) /\ Below(x) \subseteq Nat
      BY <3>1, FS_Interval
    <3> QED
      BY <3>2 DEF FiniteSubsetsOf
  <2> QED
    BY <2>1
<1>3. \E X \in Belows : \A Y \in Belows : ~ (<<Y, X>> \in R)
  <2> HIDE DEF R, Belows
  <2> QED
    BY <1>1, <1>2, WFMin
<1>4. PICK x \in T : \A y \in T : ~ (<<Below(y), Below(x)>> \in R)
  BY <1>3
<1>5. \A y \in T : ~(y < x)
  <2> SUFFICES ASSUME NEW y \in T, y < x PROVE FALSE
    OBVIOUS
  <2>1. Below(y) \subseteq Below(x) /\ y \in Below(x) /\ y \notin Below(y)
    OBVIOUS
  <2>2. <<Below(y), Below(x)>> \in R
    BY <2>1 DEF StrictSubsetOrdering
  <2> QED
    BY <2>2, <1>4
<1> QED
  BY <1>5
-----------------------------------------------------------------------------
\* The invariant of all sockets, with the types of the two functions.
VInv ==
  /\ V!TypeOK /\ V!WaitersMeanEmpty
  /\ inBuffer \in [V!Sockets -> Seq(V!Frames)]
  /\ takes \in [V!Sockets -> Seq(V!Takes)]

LEMMA SocketsAre ==
  /\ V!Sockets = Receivers \cup {0} /\ V!Root = 0 /\ 0 \notin Receivers
  /\ Receivers \subseteq V!Sockets
  /\ \A r \in Receivers : V!SocketOf(r) \in V!Sockets
  /\ In \in Nat /\ MaxFrames \in Nat /\ MaxCalls \in Nat
  BY SocketConstants DEF V!SocketAssumption, V!Sockets, V!Root, V!SocketOf

LEMMA VInit == V!Init => VInv
<1> SUFFICES ASSUME V!Init PROVE VInv
  OBVIOUS
<1>1. <<>> \in Seq(V!Frames) /\ <<>> \in Seq(V!Takes) /\ Len(<<>>) = 0
  BY EmptySeq
<1>2. V!TypeOK
  <2>1. registered = {s \in V!Sockets : state[s] = "live"}
    BY SocketsAre DEF V!Init
  <2>2. \A s \in V!Sockets : inBuffer[s] \in Seq(V!Frames) /\ Len(inBuffer[s]) <= In
    BY <1>1, SocketsAre DEF V!Init
  <2>3. calls \in [Receivers -> 0 .. MaxCalls]
    BY SocketsAre DEF V!Init
  <2> QED
    BY <1>1, <2>1, <2>2, <2>3, SocketsAre DEF V!Init, V!TypeOK
<1>3. V!WaitersMeanEmpty
  BY DEF V!Init, V!WaitersMeanEmpty
<1> QED
  BY <1>1, <1>2, <1>3 DEF VInv, V!Init

\* A frame that arrives.
LEMMA FrameIsOne ==
  ASSUME VInv, arrived < MaxFrames, NEW for \in Receivers
  PROVE  [id |-> arrived + 1, for |-> for] \in V!Frames
  BY SocketsAre DEF VInv, V!TypeOK, V!Frames

\* push where no take waits.
LEMMA StoredIs ==
  ASSUME VInv, NEW s \in V!Sockets, NEW f \in V!Frames, takes[s] = <<>>
  PROVE  LET p == V!Pushed(s, f)
         IN /\ p.buffer \in Seq(V!Frames) /\ Len(p.buffer) <= In
            /\ p.buffer \in {inBuffer[s], Append(inBuffer[s], f)}
            /\ p.takes = <<>> /\ p.given = {} /\ p.missed = {}
            /\ p.owed \subseteq {f}
            /\ f \in p.owed => p.buffer = Append(inBuffer[s], f)
<1>1. inBuffer[s] \in Seq(V!Frames) /\ Len(inBuffer[s]) <= In
  BY DEF VInv, V!TypeOK
<1>2. /\ Append(inBuffer[s], f) \in Seq(V!Frames)
      /\ Len(Append(inBuffer[s], f)) = Len(inBuffer[s]) + 1
      /\ Len(inBuffer[s]) \in Nat
  BY <1>1, AppendProperties, LenProperties
<1>3. V!Pushed(s, f) = V!Stored(s, f)
  BY DEF V!Pushed
<1>4. CASE Len(inBuffer[s]) < In
  <2>1. /\ V!Stored(s, f).buffer = Append(inBuffer[s], f) /\ V!Stored(s, f).takes = <<>>
        /\ V!Stored(s, f).given = {} /\ V!Stored(s, f).missed = {}
        /\ V!Stored(s, f).owed = {f}
    BY <1>4 DEF V!Stored
  <2> QED
    BY <1>2, <1>3, <1>4, <2>1, SocketsAre
<1>5. CASE ~(Len(inBuffer[s]) < In)
  <2>1. /\ V!Stored(s, f).buffer = inBuffer[s] /\ V!Stored(s, f).takes = <<>>
        /\ V!Stored(s, f).given = {} /\ V!Stored(s, f).missed = {}
        /\ V!Stored(s, f).owed = {}
    BY <1>5 DEF V!Stored
  <2> QED
    BY <1>1, <1>3, <2>1
<1> QED
  BY <1>4, <1>5

\* The first take that waits at s accepts the frame.
Accepted(s, f) == V!Waits(takes[s][1]) /\ f.for = takes[s][1].by

\* push where a take waits: the first one leaves, or goes to the end.
LEMMA TakeIsGiven ==
  ASSUME VInv, NEW s \in V!Sockets, NEW f \in V!Frames, takes[s] # <<>>
  PROVE  /\ 1 \in DOMAIN takes[s] /\ takes[s][1] \in V!Takes
         /\ V!Pushed(s, f).buffer = inBuffer[s]
         /\ V!Pushed(s, f).takes \in Seq(V!Takes)
         /\ \A k \in DOMAIN V!Pushed(s, f).takes : \E j \in DOMAIN takes[s] :
              /\ V!Pushed(s, f).takes[k] = takes[s][j]
              /\ j = 1 => k = Len(takes[s]) /\ V!Waits(takes[s][1])
              /\ j # 1 => j = k + 1
         /\ \A j \in DOMAIN takes[s] :
              V!Waits(takes[s][j]) /\ (j = 1 => ~Accepted(s, f)) =>
                \E k \in DOMAIN V!Pushed(s, f).takes : V!Pushed(s, f).takes[k] = takes[s][j]
         /\ V!Pushed(s, f).given = IF Accepted(s, f) THEN {takes[s][1].by} ELSE {}
         /\ V!Pushed(s, f).owed = IF Accepted(s, f) THEN {} ELSE {f}
         /\ V!Pushed(s, f).missed =
              IF Accepted(s, f) THEN {} ELSE {[frame |-> f, take |-> takes[s][1]]}
<1> DEFINE t == takes[s][1]
           q == Tail(takes[s])
           p == V!Pushed(s, f)
<1>1. takes[s] \in Seq(V!Takes)
  BY DEF VInv, V!TypeOK
<1>2. /\ t \in V!Takes /\ q \in Seq(V!Takes) /\ Head(takes[s]) = t
      /\ Len(q) = Len(takes[s]) - 1 /\ Len(takes[s]) \in Nat /\ Len(takes[s]) # 0
      /\ \A k \in 1 .. Len(q) : q[k] = takes[s][k + 1]
      /\ DOMAIN takes[s] = 1 .. Len(takes[s]) /\ DOMAIN q = 1 .. Len(q)
  BY <1>1, HeadTailProperties, LenProperties, EmptySeq
<1>3. /\ Append(q, t) \in Seq(V!Takes)
      /\ Len(Append(q, t)) = Len(q) + 1 /\ Len(q) \in Nat
      /\ \A k \in 1 .. Len(q) : Append(q, t)[k] = q[k]
      /\ Append(q, t)[Len(q) + 1] = t
      /\ DOMAIN Append(q, t) = 1 .. Len(q) + 1
  BY <1>2, AppendProperties, LenProperties
<1>4. /\ p.buffer = inBuffer[s]
      /\ p.takes = IF V!Waits(t) /\ ~Accepted(s, f) THEN Append(q, t) ELSE q
      /\ p.given = IF Accepted(s, f) THEN {t.by} ELSE {}
      /\ p.owed = IF Accepted(s, f) THEN {} ELSE {f}
      /\ p.missed = IF Accepted(s, f) THEN {} ELSE {[frame |-> f, take |-> t]}
  BY <1>2 DEF V!Pushed, Accepted
<1> HIDE DEF t, q, p
<1>5. ASSUME NEW k \in DOMAIN p.takes
      PROVE  \E j \in DOMAIN takes[s] :
               /\ p.takes[k] = takes[s][j]
               /\ j = 1 => k = Len(takes[s]) /\ V!Waits(t)
               /\ j # 1 => j = k + 1
  <2>1. CASE k \in 1 .. Len(q)
    <3>1. p.takes[k] = q[k]
      BY <1>3, <1>4, <2>1
    <3>2. k + 1 \in DOMAIN takes[s] /\ q[k] = takes[s][k + 1] /\ k + 1 # 1
      BY <1>2, <2>1
    <3> QED
      BY <3>1, <3>2
  <2>2. CASE k \notin 1 .. Len(q)
    <3>1. p.takes = Append(q, t) /\ V!Waits(t) /\ k = Len(q) + 1
      BY <1>2, <1>3, <1>4, <1>5, <2>2
    <3>2. 1 \in DOMAIN takes[s] /\ p.takes[k] = takes[s][1] /\ k = Len(takes[s])
      BY <1>2, <1>3, <3>1 DEF t
    <3> QED
      BY <3>1, <3>2
  <2> QED
    BY <2>1, <2>2
<1>6. ASSUME NEW j \in DOMAIN takes[s], V!Waits(takes[s][j]), j = 1 => ~Accepted(s, f)
      PROVE  \E k \in DOMAIN p.takes : p.takes[k] = takes[s][j]
  <2>1. CASE j = 1
    <3>1. p.takes = Append(q, t) /\ Len(q) + 1 \in DOMAIN Append(q, t)
      BY <1>2, <1>3, <1>4, <1>6, <2>1 DEF t
    <3> QED
      BY <1>2, <1>3, <2>1, <3>1 DEF t
  <2>2. CASE j # 1
    <3>1. j - 1 \in 1 .. Len(q) /\ q[j - 1] = takes[s][j]
      BY <1>2, <1>6, <2>2
    <3>2. j - 1 \in DOMAIN p.takes /\ p.takes[j - 1] = q[j - 1]
      BY <1>2, <1>3, <1>4, <3>1
    <3> QED
      BY <3>1, <3>2
  <2> QED
    BY <2>1, <2>2
<1>7. p.takes \in Seq(V!Takes) /\ 1 \in DOMAIN takes[s]
  BY <1>2, <1>3, <1>4
<1> QED
  BY <1>2, <1>4, <1>5, <1>6, <1>7 DEF p, t

\* A frame that the take does not accept is owed, and missed by that take.
LEMMA NotAccepted ==
  ASSUME VInv, NEW s \in V!Sockets, NEW f \in V!Frames, takes[s] # <<>>
  PROVE  /\ 1 \in DOMAIN takes[s] /\ takes[s][1] \in V!Takes
         /\ \A g \in V!Pushed(s, f).owed :
              g = f /\ [frame |-> f, take |-> takes[s][1]] \in V!Pushed(s, f).missed
         /\ \A m \in V!Pushed(s, f).missed :
              m = [frame |-> f, take |-> takes[s][1]] /\ ~Accepted(s, f)
<1>1. 1 \in DOMAIN takes[s] /\ takes[s][1] \in V!Takes
  BY TakeIsGiven
<1>2. V!Pushed(s, f).owed = IF Accepted(s, f) THEN {} ELSE {f}
  BY TakeIsGiven
<1>3. V!Pushed(s, f).missed =
        IF Accepted(s, f) THEN {} ELSE {[frame |-> f, take |-> takes[s][1]]}
  BY TakeIsGiven
<1> QED
  BY <1>1, <1>2, <1>3

\* What push does to one socket.
LEMMA PushedIs ==
  ASSUME VInv, NEW s \in V!Sockets, NEW f \in V!Frames
  PROVE  /\ V!Pushed(s, f).buffer \in Seq(V!Frames)
         /\ Len(V!Pushed(s, f).buffer) <= In
         /\ V!Pushed(s, f).takes \in Seq(V!Takes)
         /\ V!Pushed(s, f).takes # <<>> => V!Pushed(s, f).buffer = <<>>
         /\ V!Pushed(s, f).owed \subseteq V!Frames
         /\ V!Pushed(s, f).missed \subseteq [frame : V!Frames, take : V!Takes]
         /\ \A r \in Receivers :
              /\ recvs[r] = "waiting" /\ r \notin V!Pushed(s, f).given
              /\ \E k \in DOMAIN takes[s] : takes[s][k] = [by |-> r, call |-> calls[r]]
              => \E k \in DOMAIN V!Pushed(s, f).takes :
                   V!Pushed(s, f).takes[k] = [by |-> r, call |-> calls[r]]
<1>1. /\ inBuffer[s] \in Seq(V!Frames) /\ Len(inBuffer[s]) <= In
      /\ takes[s] # <<>> => inBuffer[s] = <<>>
  BY DEF VInv, V!TypeOK, V!WaitersMeanEmpty
<1>2. CASE takes[s] = <<>>
  <2>1. DOMAIN takes[s] = {} /\ <<>> \in Seq(V!Takes)
    BY <1>2, EmptySeq
  <2> QED
    BY <1>2, <2>1, StoredIs
<1>3. CASE takes[s] # <<>>
  <2> DEFINE p == V!Pushed(s, f)
             t == takes[s][1]
  <2>1. /\ t \in V!Takes
        /\ p.buffer = inBuffer[s]
        /\ p.takes \in Seq(V!Takes)
        /\ \A j \in DOMAIN takes[s] :
             V!Waits(takes[s][j]) /\ (j = 1 => ~Accepted(s, f)) =>
               \E k \in DOMAIN p.takes : p.takes[k] = takes[s][j]
        /\ p.given = IF Accepted(s, f) THEN {t.by} ELSE {}
        /\ p.owed = IF Accepted(s, f) THEN {} ELSE {f}
        /\ p.missed = IF Accepted(s, f) THEN {} ELSE {[frame |-> f, take |-> t]}
    <3>1. t \in V!Takes
      BY <1>3, TakeIsGiven
    <3>2. p.buffer = inBuffer[s] /\ p.takes \in Seq(V!Takes)
      BY <1>3, TakeIsGiven
    <3>3. \A j \in DOMAIN takes[s] :
             V!Waits(takes[s][j]) /\ (j = 1 => ~Accepted(s, f)) =>
               \E k \in DOMAIN p.takes : p.takes[k] = takes[s][j]
      BY <1>3, TakeIsGiven
    <3>4. p.given = IF Accepted(s, f) THEN {t.by} ELSE {}
      BY <1>3, TakeIsGiven
    <3>5. p.owed = IF Accepted(s, f) THEN {} ELSE {f}
      BY <1>3, TakeIsGiven
    <3>6. p.missed = IF Accepted(s, f) THEN {} ELSE {[frame |-> f, take |-> t]}
      BY <1>3, TakeIsGiven
    <3> QED
      BY <3>1, <3>2, <3>3, <3>4, <3>5, <3>6
  <2> HIDE DEF p
  <2>2. ASSUME NEW r \in Receivers, recvs[r] = "waiting", r \notin p.given,
               NEW j \in DOMAIN takes[s], takes[s][j] = [by |-> r, call |-> calls[r]]
        PROVE  \E k \in DOMAIN p.takes : p.takes[k] = [by |-> r, call |-> calls[r]]
    <3>1. V!Waits(takes[s][j]) /\ takes[s][j].by = r
      BY <2>2 DEF V!Waits
    <3>2. j = 1 => ~Accepted(s, f)
      BY <2>1, <2>2, <3>1
    <3> QED
      BY <2>1, <2>2, <3>1, <3>2
  <2>3. p.missed \subseteq [frame : V!Frames, take : V!Takes] /\ p.owed \subseteq V!Frames
    BY <2>1
  <2> QED
    BY <1>1, <1>3, <2>1, <2>2, <2>3 DEF p
<1> QED
  BY <1>2, <1>3

\* What recv takes: everything up to the first frame of its own, or everything.
LEMMA TakenIs ==
  ASSUME NEW r \in Receivers, NEW q \in Seq(V!Frames)
  PROVE  LET k == V!TakenBy(r, q)
         IN /\ k \in 0 .. Len(q)
            /\ k > 0 => k \in DOMAIN q /\ q[k] \in V!Frames
            /\ ~(k > 0 /\ q[k].for = r) => k = Len(q)
            /\ \A j \in 1 .. k : q[j].for = r => j = k
<1> DEFINE T == {k \in DOMAIN q : q[k].for = r}
           First(k) == q[k].for = r /\ \A j \in 1 .. k - 1 : q[j].for # r
<1>1. DOMAIN q = 1 .. Len(q) /\ Len(q) \in Nat /\ \A k \in DOMAIN q : q[k] \in V!Frames
  BY LenProperties, ElementOfSeq
<1>2. CASE T = {}
  <2>1. V!TakenBy(r, q) = Len(q)
    BY <1>2 DEF V!TakenBy
  <2>2. \A j \in 1 .. Len(q) : q[j].for # r
    BY <1>1, <1>2
  <2> HIDE DEF T, First
  <2>3. Len(q) \in 0 .. Len(q) /\ (Len(q) > 0 => Len(q) \in DOMAIN q)
    BY <1>1
  <2> QED
    BY <1>1, <2>1, <2>2, <2>3
<1>3. CASE T # {}
  <2>1. PICK x \in T : \A y \in T : x <= y
    <3>1. T \in SUBSET Nat
      BY <1>1
    <3> HIDE DEF T
    <3> QED
      BY <1>3, <3>1, LeastNumber
  <2>2. x \in DOMAIN q /\ First(x)
    BY <1>1, <2>1
  <2>3. V!TakenBy(r, q) = CHOOSE k \in DOMAIN q : First(k)
    BY <1>3 DEF V!TakenBy
  <2>4. V!TakenBy(r, q) \in DOMAIN q /\ First(V!TakenBy(r, q))
    <3> HIDE DEF First
    <3> QED
      BY <2>2, <2>3
  <2>5. \A j \in 1 .. V!TakenBy(r, q) : q[j].for = r => j = V!TakenBy(r, q)
    BY <1>1, <2>4
  <2> QED
    BY <1>1, <2>4, <2>5
<1> QED
  BY <1>2, <1>3
-----------------------------------------------------------------------------
LEMMA BufferInKeeps ==
  ASSUME VInv, NEW for \in Receivers, V!BufferIn(for)
  PROVE  VInv'
<1> DEFINE f == [id |-> arrived + 1, for |-> for]
<1>1. f \in V!Frames /\ arrived + 1 \in 0 .. MaxFrames
  BY SocketsAre, FrameIsOne DEF V!BufferIn, VInv, V!TypeOK
<1>2. registered \subseteq V!Sockets
  BY DEF VInv, V!TypeOK
<1> HIDE DEF f
<1>3. /\ arrived' = arrived + 1
      /\ \A s \in V!Sockets :
           inBuffer'[s] = IF s \in registered THEN V!Pushed(s, f).buffer ELSE inBuffer[s]
      /\ \A s \in V!Sockets :
           takes'[s] = IF s \in registered THEN V!Pushed(s, f).takes ELSE takes[s]
      /\ recvs' = [r \in Receivers |->
                     IF \E s \in registered : r \in V!Pushed(s, f).given
                     THEN "got" ELSE recvs[r]]
      /\ owed' \in {owed, owed \cup V!Pushed(V!SocketOf(for), f).owed}
      /\ missed' \in {missed, missed \cup V!Pushed(V!SocketOf(for), f).missed}
      /\ DOMAIN inBuffer' = V!Sockets /\ DOMAIN takes' = V!Sockets
      /\ inBuffer' = [s \in V!Sockets |-> inBuffer'[s]]
      /\ takes' = [s \in V!Sockets |-> takes'[s]]
      /\ UNCHANGED <<registered, state, killed, calls, outDropped>>
  BY <1>2 DEF V!BufferIn, f
<1>4. \A s \in V!Sockets :
        /\ inBuffer'[s] \in Seq(V!Frames) /\ Len(inBuffer'[s]) <= In
        /\ takes'[s] \in Seq(V!Takes)
        /\ takes'[s] # <<>> => inBuffer'[s] = <<>>
  <2> TAKE s \in V!Sockets
  <2>1. CASE s \in registered
    <3>1. inBuffer'[s] = V!Pushed(s, f).buffer /\ takes'[s] = V!Pushed(s, f).takes
      BY <1>3, <2>1
    <3>2. /\ V!Pushed(s, f).buffer \in Seq(V!Frames) /\ Len(V!Pushed(s, f).buffer) <= In
          /\ V!Pushed(s, f).takes \in Seq(V!Takes)
          /\ V!Pushed(s, f).takes # <<>> => V!Pushed(s, f).buffer = <<>>
      BY <1>1, PushedIs
    <3> QED
      BY <3>1, <3>2, Zenon
  <2>2. CASE s \notin registered
    BY <1>3, <2>2 DEF VInv, V!TypeOK, V!WaitersMeanEmpty
  <2> QED
    BY <2>1, <2>2
<1>5. owed' \subseteq V!Frames /\ missed' \subseteq [frame : V!Frames, take : V!Takes]
  BY <1>1, <1>3, PushedIs, SocketsAre DEF VInv, V!TypeOK
<1>6. ASSUME NEW r \in Receivers, recvs'[r] = "waiting"
      PROVE  \E k \in DOMAIN takes'[V!SocketOf(r)] :
               takes'[V!SocketOf(r)][k] = [by |-> r, call |-> calls'[r]]
  <2> DEFINE s == V!SocketOf(r)
  <2>1. /\ s \in V!Sockets /\ recvs[r] = "waiting"
        /\ s \in registered => r \notin V!Pushed(s, f).given
        /\ \E k \in DOMAIN takes[s] : takes[s][k] = [by |-> r, call |-> calls[r]]
    BY <1>3, <1>6, SocketsAre DEF VInv, V!TypeOK, V!WaitersMeanEmpty
  <2> HIDE DEF s
  <2> QED
    BY <1>1, <1>3, <2>1, PushedIs DEF s
<1>7. recvs' \in [Receivers -> {"idle", "waiting", "got", "over", "failed"}]
  BY <1>3 DEF VInv, V!TypeOK
<1>8. inBuffer' \in [V!Sockets -> Seq(V!Frames)] /\ takes' \in [V!Sockets -> Seq(V!Takes)]
  BY <1>3, <1>4
<1> QED
  BY <1>1, <1>3, <1>4, <1>5, <1>6, <1>7, <1>8 DEF VInv, V!TypeOK, V!WaitersMeanEmpty

LEMMA RecvKeeps ==
  ASSUME VInv, NEW r \in Receivers, V!Recv(r)
  PROVE  VInv'
<1> DEFINE s == V!SocketOf(r)
           q == inBuffer[s]
           k == V!TakenBy(r, q)
           found == k > 0 /\ q[k].for = r
           take == [by |-> r, call |-> calls[r] + 1]
<1>1. /\ s \in V!Sockets /\ q \in Seq(V!Frames) /\ Len(q) <= In
      /\ takes[s] \in Seq(V!Takes)
      /\ takes[s] # <<>> => q = <<>>
  BY SocketsAre DEF VInv, V!TypeOK, V!WaitersMeanEmpty
<1>2. /\ k \in 0 .. Len(q) /\ Len(q) \in Nat
      /\ k > 0 => k \in DOMAIN q /\ q[k] \in V!Frames
      /\ ~found => k = Len(q)
  BY <1>1, TakenIs, LenProperties
<1>3. /\ recvs[r] \in {"idle", "got", "over"} /\ calls[r] < MaxCalls
      /\ calls' = [calls EXCEPT ![r] = calls[r] + 1]
      /\ UNCHANGED <<arrived, registered, state, killed, missed, outDropped>>
  BY DEF V!Recv
<1> HIDE DEF take
<1>6. calls' \in [Receivers -> 0 .. MaxCalls] /\ take \in V!Takes
      /\ take = [by |-> r, call |-> calls'[r]]
  BY <1>3, SocketsAre DEF VInv, V!TypeOK, V!Takes, take
<1>7. \A t \in Receivers : recvs[t] = "waiting" => calls'[t] = calls[t]
  BY <1>3 DEF VInv, V!TypeOK
<1>4. CASE state[s] = "dropped"
  <2>1. recvs' = [recvs EXCEPT ![r] = "failed"] /\ UNCHANGED <<inBuffer, takes, owed>>
    BY <1>4 DEF V!Recv
  <2>2. \A t \in Receivers : recvs'[t] = "waiting" => recvs[t] = "waiting"
    BY <2>1 DEF VInv, V!TypeOK
  <2>3. V!WaitersMeanEmpty'
    BY <1>7, <2>1, <2>2 DEF VInv, V!WaitersMeanEmpty, V!SocketOf
  <2> QED
    BY <1>3, <1>6, <2>1, <2>3 DEF VInv, V!TypeOK
<1>5. CASE state[s] # "dropped"
  <2> DEFINE rest == SubSeq(q, k + 1, Len(q))
  <2>1. /\ recvs' = [recvs EXCEPT ![r] = IF found THEN "got" ELSE "waiting"]
        /\ inBuffer' = [inBuffer EXCEPT ![s] = rest]
        /\ takes' = IF found THEN takes ELSE [takes EXCEPT ![s] = Append(takes[s], take)]
        /\ owed' = IF found THEN owed \ {q[k]} ELSE owed
    BY <1>5 DEF V!Recv, take
  <2>2. /\ rest \in Seq(V!Frames) /\ Len(rest) <= In
        /\ ~found => rest = <<>>
        /\ found => takes[s] = <<>>
    <3>1. rest \in Seq(V!Frames) /\ Len(rest) = IF k + 1 <= Len(q) THEN Len(q) - k ELSE 0
      BY <1>1, <1>2, SubSeqProperties
    <3>2. ~found => Len(rest) = 0
      BY <1>2, <3>1
    <3>3. q = <<>> => Len(q) = 0
      BY EmptySeq
    <3>4. rest \in Seq(V!Frames) /\ Len(rest) <= In
      BY <1>1, <1>2, <3>1, SocketsAre
    <3> HIDE DEF rest
    <3>5. Len(rest) = 0 => rest = <<>>
      BY <3>4, EmptySeq
    <3>6. found => Len(q) > 0
      BY <1>2
    <3> QED
      BY <1>1, <3>2, <3>3, <3>4, <3>5, <3>6
  <2>3. /\ Append(takes[s], take) \in Seq(V!Takes)
        /\ Len(Append(takes[s], take)) \in DOMAIN Append(takes[s], take)
        /\ Append(takes[s], take)[Len(Append(takes[s], take))] = take
        /\ \A j \in DOMAIN takes[s] : j \in DOMAIN Append(takes[s], take)
                                      /\ Append(takes[s], take)[j] = takes[s][j]
    BY <1>1, <1>6, AppendProperties, LenProperties
  <2>4. owed' \subseteq V!Frames
    BY <2>1 DEF VInv, V!TypeOK
  <2> HIDE DEF found, rest, k, q
  <2>5. /\ inBuffer' \in [V!Sockets -> Seq(V!Frames)]
        /\ \A t \in V!Sockets : Len(inBuffer'[t]) <= In
        /\ takes' \in [V!Sockets -> Seq(V!Takes)]
    BY <1>1, <2>1, <2>2, <2>3 DEF VInv, V!TypeOK
  <2>6. \A t \in V!Sockets : takes'[t] # <<>> => inBuffer'[t] = <<>>
    BY <1>1, <2>1, <2>2 DEF VInv, V!WaitersMeanEmpty
  <2>7. ASSUME NEW t \in Receivers, recvs'[t] = "waiting"
        PROVE  \E j \in DOMAIN takes'[V!SocketOf(t)] :
                 takes'[V!SocketOf(t)][j] = [by |-> t, call |-> calls'[t]]
    <3>1. CASE t = r
      <4>1. ~found
        BY <2>1, <2>7, <3>1 DEF VInv, V!TypeOK
      <4>2. takes'[s] = Append(takes[s], take)
        BY <1>1, <2>1, <4>1 DEF VInv
      <4> QED
        BY <1>6, <2>3, <3>1, <4>2
    <3>2. CASE t # r
      <4>1. recvs[t] = "waiting" /\ V!SocketOf(t) \in V!Sockets
        BY <2>1, <2>7, <3>2, SocketsAre DEF VInv, V!TypeOK
      <4>2. PICK j \in DOMAIN takes[V!SocketOf(t)] :
              takes[V!SocketOf(t)][j] = [by |-> t, call |-> calls[t]]
        BY <4>1 DEF VInv, V!WaitersMeanEmpty
      <4>3. takes'[V!SocketOf(t)] \in {takes[V!SocketOf(t)], Append(takes[V!SocketOf(t)], take)}
            /\ (takes'[V!SocketOf(t)] # takes[V!SocketOf(t)] => V!SocketOf(t) = s)
        BY <1>1, <2>1, <4>1 DEF VInv
      <4> QED
        BY <1>7, <2>3, <4>1, <4>2, <4>3
    <3> QED
      BY <3>1, <3>2
  <2>8. recvs' \in [Receivers -> {"idle", "waiting", "got", "over", "failed"}]
    BY <2>1 DEF VInv, V!TypeOK
  <2>9. V!TypeOK'
    BY <1>3, <1>6, <2>4, <2>5, <2>8 DEF VInv, V!TypeOK
  <2> QED
    BY <2>5, <2>6, <2>7, <2>9 DEF VInv, V!WaitersMeanEmpty
<1> QED
  BY <1>4, <1>5

LEMMA DropBuffersKeeps ==
  ASSUME VInv, NEW S \in SUBSET V!Sockets, V!DropBuffers(S),
         UNCHANGED <<arrived, calls, owed, missed>>,
         killed' \subseteq V!Sockets, outDropped' \in BOOLEAN
  PROVE  VInv'
<1>1. /\ state' = [s \in V!Sockets |-> IF s \in S THEN "dropped" ELSE state[s]]
      /\ registered' = registered \ S
      /\ inBuffer' = [s \in V!Sockets |-> IF s \in S THEN <<>> ELSE inBuffer[s]]
      /\ takes' = [s \in V!Sockets |-> IF s \in S THEN <<>> ELSE takes[s]]
      /\ recvs' = [r \in Receivers |->
                     IF recvs[r] = "waiting" /\ V!SocketOf(r) \in S THEN "failed" ELSE recvs[r]]
  BY DEF V!DropBuffers
<1>2. <<>> \in Seq(V!Frames) /\ <<>> \in Seq(V!Takes) /\ Len(<<>>) = 0 /\ 0 <= In
  BY EmptySeq, SocketsAre
<1>3. /\ inBuffer' \in [V!Sockets -> Seq(V!Frames)] /\ takes' \in [V!Sockets -> Seq(V!Takes)]
      /\ \A s \in V!Sockets : Len(inBuffer'[s]) <= In
      /\ \A s \in V!Sockets : takes'[s] # <<>> => inBuffer'[s] = <<>>
  BY <1>1, <1>2 DEF VInv, V!TypeOK, V!WaitersMeanEmpty
<1>4. registered' = {s \in V!Sockets : state'[s] = "live"}
  BY <1>1 DEF VInv, V!TypeOK
<1>5. V!TypeOK'
  BY <1>1, <1>3, <1>4 DEF VInv, V!TypeOK
<1>6. V!WaitersMeanEmpty'
  <2>1. ASSUME NEW r \in Receivers, recvs'[r] = "waiting"
        PROVE  \E k \in DOMAIN takes'[V!SocketOf(r)] :
               takes'[V!SocketOf(r)][k] = [by |-> r, call |-> calls'[r]]
    <3>1. recvs[r] = "waiting" /\ V!SocketOf(r) \in V!Sockets /\ V!SocketOf(r) \notin S
      BY <1>1, <2>1, SocketsAre
    <3>2. takes'[V!SocketOf(r)] = takes[V!SocketOf(r)]
      BY <1>1, <3>1
    <3> QED
      BY <3>1, <3>2 DEF VInv, V!WaitersMeanEmpty
  <2> QED
    BY <1>3, <2>1 DEF V!WaitersMeanEmpty
<1> QED
  BY <1>3, <1>5, <1>6 DEF VInv

LEMMA VStep == VInv /\ [V!Next]_V!socketVars => VInv'
<1> SUFFICES ASSUME VInv, [V!Next]_V!socketVars PROVE VInv'
  OBVIOUS
<1>1. ASSUME NEW s \in Receivers, V!Multiplex(s) PROVE VInv'
  <2>1. /\ state' = [state EXCEPT ![s] = "live"] /\ registered' = registered \cup {s}
        /\ UNCHANGED <<arrived, inBuffer, takes, killed, recvs, calls, owed, missed,
                     outDropped>>
    BY <1>1 DEF V!Multiplex
  <2>2. registered' = {t \in V!Sockets : state'[t] = "live"}
    BY <2>1, SocketsAre DEF VInv, V!TypeOK
  <2> QED
    BY <2>1, <2>2 DEF VInv, V!TypeOK, V!WaitersMeanEmpty
<1>2. ASSUME NEW r \in Receivers, V!CancelRecv(r) PROVE VInv'
  BY <1>2 DEF V!CancelRecv, VInv, V!TypeOK, V!WaitersMeanEmpty
<1>3. ASSUME NEW s \in V!Sockets, V!Drop(s) PROVE VInv'
  <2>1. /\ {s} \in SUBSET V!Sockets /\ V!DropBuffers({s})
        /\ UNCHANGED <<arrived, calls, owed, missed>>
        /\ killed' \subseteq V!Sockets /\ outDropped' \in BOOLEAN
    BY <1>3 DEF V!Drop, VInv, V!TypeOK
  <2> QED
    BY <2>1, DropBuffersKeeps
<1>4. CASE V!DropAll
  <2>1. /\ registered \in SUBSET V!Sockets /\ V!DropBuffers(registered)
        /\ UNCHANGED <<arrived, calls, owed, missed>>
        /\ killed' \subseteq V!Sockets /\ outDropped' \in BOOLEAN
    BY <1>4, SocketsAre DEF V!DropAll, VInv, V!TypeOK
  <2> QED
    BY <2>1, DropBuffersKeeps
<1>5. CASE UNCHANGED V!socketVars
  BY <1>5 DEF V!socketVars, VInv, V!TypeOK, V!WaitersMeanEmpty
<1> QED
  BY <1>1, <1>2, <1>3, <1>4, <1>5, BufferInKeeps, RecvKeeps DEF V!Next, V!Drops

\* The sending half does not take part.
LEMMA SocketParts == SocketSpec => V!Spec
<1>1. SocketInit => V!Init
  BY DEF SocketInit
<1>2. [SocketNext]_<<clientVars, socketVars, about>> => [V!Next]_V!socketVars
  BY DEF SocketNext, socketVars, V!socketVars
<1> QED
  BY <1>1, <1>2, PTL DEF SocketSpec, V!Spec

LEMMA SocketInvariant == V!Spec => []VInv
<1>1. V!Init => VInv
  BY VInit
<1>2. VInv /\ [V!Next]_V!socketVars => VInv'
  BY VStep
<1> QED
  BY <1>1, <1>2, PTL DEF V!Spec
-----------------------------------------------------------------------------
\* For any receivers, shared or not, any number of frames and every buffer size: a
\* buffer that holds frames has no take waiting, so that push of CircularBuffer.ts does
\* not throw its invariant violation, and each waiting recv has its take.
THEOREM NoTakeWaitsForAFrameThatIsThere == SocketSpec => []WaitersMeanEmpty
<1>1. VInv => WaitersMeanEmpty
  BY DEF VInv, WaitersMeanEmpty
<1> QED
  BY <1>1, SocketParts, SocketInvariant, PTL


\* Each receiver has a socket of its own, or there is only one.
OwnSockets == ~Shared \/ \A a, b \in Receivers : a = b

LEMMA OneReceiverEach ==
  ASSUME OwnSockets, NEW a \in Receivers, NEW b \in Receivers, V!SocketOf(a) = V!SocketOf(b)
  PROVE  a = b
  BY DEF OwnSockets, V!SocketOf

\* The takes that wait at a receiver's socket are of different calls of its own, made so
\* far.
TakesOfCalls ==
  \A r \in Receivers :
    /\ \A k \in DOMAIN takes[V!SocketOf(r)] :
         takes[V!SocketOf(r)][k].by = r /\ takes[V!SocketOf(r)][k].call <= calls[r]
    /\ \A i, j \in DOMAIN takes[V!SocketOf(r)] :
         i # j => takes[V!SocketOf(r)][i] # takes[V!SocketOf(r)][j]

\* A take that was given a frame waits no longer.
GivenIsGone ==
  \A m \in missed :
    /\ m.take.call <= calls[m.take.by]
    /\ \A k \in DOMAIN takes[V!SocketOf(m.take.by)] : takes[V!SocketOf(m.take.by)][k] # m.take

OwnInv == VInv /\ TakesOfCalls /\ GivenIsGone /\ V!MissedByCancelOnly

\* What the types say of the frames and takes that are recorded.
LEMMA RecordsAre ==
  ASSUME VInv
  PROVE  /\ \A f \in owed : f \in V!Frames /\ f.for \in Receivers
         /\ \A m \in missed : /\ m.frame \in V!Frames /\ m.frame.for \in Receivers
                              /\ m.take \in V!Takes /\ m.take.by \in Receivers
                              /\ m.take.call \in Nat
         /\ \A r \in Receivers : calls[r] \in Nat
  BY SocketsAre DEF VInv, V!TypeOK, V!Frames, V!Takes

\* push at a socket whose takes are of different calls leaves some of them, each once.
LEMMA PushedKeepsTakes ==
  ASSUME VInv, NEW s \in V!Sockets, NEW f \in V!Frames,
         \A i, j \in DOMAIN takes[s] : i # j => takes[s][i] # takes[s][j]
  PROVE  /\ \A k \in DOMAIN V!Pushed(s, f).takes : \E j \in DOMAIN takes[s] :
              V!Pushed(s, f).takes[k] = takes[s][j]
         /\ \A i, j \in DOMAIN V!Pushed(s, f).takes :
              i # j => V!Pushed(s, f).takes[i] # V!Pushed(s, f).takes[j]
         /\ takes[s] # <<>> /\ ~V!Waits(takes[s][1]) =>
              \A k \in DOMAIN V!Pushed(s, f).takes : V!Pushed(s, f).takes[k] # takes[s][1]
<1> DEFINE p == V!Pushed(s, f).takes
<1>1. CASE takes[s] = <<>>
  <2>1. V!Pushed(s, f).takes = <<>> /\ DOMAIN <<>> = {}
    BY <1>1, StoredIs
  <2> QED
    BY <1>1, <2>1
<1>2. CASE takes[s] # <<>>
  <2>1. \A k \in DOMAIN p : \E j \in DOMAIN takes[s] :
          /\ p[k] = takes[s][j]
          /\ j = 1 => k = Len(takes[s]) /\ V!Waits(takes[s][1])
          /\ j # 1 => j = k + 1
    BY <1>2, TakeIsGiven
  <2>2. 1 \in DOMAIN takes[s] /\ p \in Seq(V!Takes)
    BY <1>2, TakeIsGiven
  <2> HIDE DEF p
  <2>3. DOMAIN p \subseteq Nat
    BY <2>2, LenProperties
  <2>4. ASSUME NEW i \in DOMAIN p, NEW j \in DOMAIN p, i # j PROVE p[i] # p[j]
    <3>1. PICK x \in DOMAIN takes[s] :
            /\ p[i] = takes[s][x]
            /\ x = 1 => i = Len(takes[s])
            /\ x # 1 => x = i + 1
      BY <2>1
    <3>2. PICK y \in DOMAIN takes[s] :
            /\ p[j] = takes[s][y]
            /\ y = 1 => j = Len(takes[s])
            /\ y # 1 => y = j + 1
      BY <2>1
    <3>3. x # y
      BY <2>3, <2>4, <3>1, <3>2
    <3> QED
      BY <3>1, <3>2, <3>3
  <2>5. ASSUME ~V!Waits(takes[s][1]), NEW k \in DOMAIN p PROVE p[k] # takes[s][1]
    BY <2>1, <2>2, <2>5
  <2> QED
    BY <2>1, <2>4, <2>5 DEF p
<1> QED
  BY <1>1, <1>2
-----------------------------------------------------------------------------
\* A frame arrives.
LEMMA BufferInKeepsOwn ==
  ASSUME OwnSockets, OwnInv, NEW for \in Receivers, V!BufferIn(for)
  PROVE  TakesOfCalls' /\ GivenIsGone' /\ V!MissedByCancelOnly'
<1> DEFINE f == [id |-> arrived + 1, for |-> for]
           own == V!SocketOf(for)
<1>1. /\ f \in V!Frames /\ f.for = for /\ registered \subseteq V!Sockets /\ VInv
      /\ own \in V!Sockets
  BY FrameIsOne, SocketsAre DEF V!BufferIn, OwnInv, VInv, V!TypeOK
<1> HIDE DEF f
<1>2. /\ \A s \in V!Sockets :
           takes'[s] = IF s \in registered THEN V!Pushed(s, f).takes ELSE takes[s]
      /\ \A s \in V!Sockets :
           inBuffer'[s] = IF s \in registered THEN V!Pushed(s, f).buffer ELSE inBuffer[s]
      /\ owed' = IF own \in registered THEN owed \cup V!Pushed(own, f).owed ELSE owed
      /\ missed' = IF own \in registered THEN missed \cup V!Pushed(own, f).missed ELSE missed
      /\ \A r \in Receivers : recvs'[r] = "waiting" => recvs[r] = "waiting"
      /\ UNCHANGED <<state, calls>>
  BY <1>1 DEF V!BufferIn, f, OwnInv, VInv, V!TypeOK
<1> HIDE DEF own
<1>3. \A r \in Receivers :
        /\ \A k \in DOMAIN takes'[V!SocketOf(r)] : \E j \in DOMAIN takes[V!SocketOf(r)] :
             takes'[V!SocketOf(r)][k] = takes[V!SocketOf(r)][j]
        /\ \A i, j \in DOMAIN takes'[V!SocketOf(r)] :
             i # j => takes'[V!SocketOf(r)][i] # takes'[V!SocketOf(r)][j]
  <2> TAKE r \in Receivers
  <2>1. /\ V!SocketOf(r) \in V!Sockets
        /\ \A i, j \in DOMAIN takes[V!SocketOf(r)] :
             i # j => takes[V!SocketOf(r)][i] # takes[V!SocketOf(r)][j]
    BY SocketsAre DEF OwnInv, TakesOfCalls
  <2>2. CASE V!SocketOf(r) \in registered
    BY <1>1, <1>2, <2>1, <2>2, PushedKeepsTakes
  <2>3. CASE V!SocketOf(r) \notin registered
    BY <1>2, <2>1, <2>3
  <2> QED
    BY <2>2, <2>3
<1>4. TakesOfCalls'
  <2>1. \A r \in Receivers : \A k \in DOMAIN takes'[V!SocketOf(r)] :
          takes'[V!SocketOf(r)][k].by = r /\ takes'[V!SocketOf(r)][k].call <= calls'[r]
    BY <1>2, <1>3 DEF OwnInv, TakesOfCalls
  <2> QED
    BY <1>3, <2>1 DEF TakesOfCalls, V!SocketOf
\* The one new record, if any: the take had waited for an earlier recv of the same
\* receiver, and waits no longer.
<1>5. ASSUME NEW m \in missed', m \notin missed
      PROVE  /\ own \in registered /\ takes[own] # <<>>
             /\ m = [frame |-> f, take |-> takes[own][1]]
             /\ 1 \in DOMAIN takes[own]
             /\ takes[own][1].by = for /\ takes[own][1].call <= calls[for]
             /\ ~V!Waits(takes[own][1])
             /\ \A k \in DOMAIN takes'[own] : takes'[own][k] # takes[own][1]
  <2>1. own \in registered /\ m \in V!Pushed(own, f).missed
    BY <1>2, <1>5
  <2>2. takes[own] # <<>>
    BY <1>1, <2>1, StoredIs
  <2>3. /\ 1 \in DOMAIN takes[own]
        /\ ~Accepted(own, f) /\ m = [frame |-> f, take |-> takes[own][1]]
    BY <1>1, <2>1, <2>2, NotAccepted
  <2>4. takes[own][1].by = for /\ takes[own][1].call <= calls[for]
    BY <2>3 DEF OwnInv, TakesOfCalls, own
  <2>5. ~V!Waits(takes[own][1])
    BY <1>1, <2>3, <2>4 DEF Accepted
  <2>6. \A i, j \in DOMAIN takes[own] : i # j => takes[own][i] # takes[own][j]
    BY DEF OwnInv, TakesOfCalls, own
  <2>7. \A k \in DOMAIN takes'[own] : takes'[own][k] # takes[own][1]
    BY <1>1, <1>2, <2>1, <2>2, <2>5, <2>6, PushedKeepsTakes
  <2> QED
    BY <2>1, <2>2, <2>3, <2>4, <2>5, <2>7
<1>6. GivenIsGone'
  <2> SUFFICES ASSUME NEW m \in missed'
               PROVE  /\ m.take.call <= calls'[m.take.by]
                      /\ \A k \in DOMAIN takes'[V!SocketOf(m.take.by)] :
                           takes'[V!SocketOf(m.take.by)][k] # m.take
    BY DEF GivenIsGone, V!SocketOf
  <2>1. CASE m \in missed
    <3>1. m.take.by \in Receivers
      BY <1>1, <2>1, RecordsAre
    <3> QED
      BY <1>2, <1>3, <2>1, <3>1 DEF OwnInv, GivenIsGone
  <2>2. CASE m \notin missed
    BY <1>2, <1>5, <2>2 DEF own
  <2> QED
    BY <2>1, <2>2
<1>7. \A t \in V!Takes : V!Waits(t)' => V!Waits(t)
  BY <1>2 DEF V!Waits, V!Takes
<1>8. \A m \in missed' : m.take.by = m.frame.for /\ ~V!Waits(m.take)'
  <2> TAKE m \in missed'
  <2>1. CASE m \in missed
    BY <1>1, <1>7, <2>1, RecordsAre DEF OwnInv, V!MissedByCancelOnly
  <2>2. CASE m \notin missed
    <3>1. m.take \in V!Takes
      BY <1>1, <1>5, <2>2, NotAccepted
    <3> QED
      BY <1>1, <1>5, <1>7, <2>2, <3>1
  <2> QED
    BY <2>1, <2>2
<1>9. \A m, n \in missed' : m.take = n.take => m.frame = n.frame
  <2> SUFFICES ASSUME NEW m \in missed', NEW n \in missed', m.take = n.take
               PROVE  m.frame = n.frame
    OBVIOUS
  <2>1. ASSUME NEW x \in missed, NEW y \in missed', y \notin missed PROVE x.take # y.take
    BY <1>5, <2>1 DEF OwnInv, GivenIsGone, own
  <2>2. CASE m \in missed /\ n \in missed
    BY <2>2 DEF OwnInv, V!MissedByCancelOnly
  <2>3. CASE m \notin missed /\ n \notin missed
    BY <1>5, <2>3
  <2> QED
    BY <2>1, <2>2, <2>3
<1>10. \A g \in owed' : /\ \/ state'[V!SocketOf(g.for)] = "dropped"
                           \/ \E k \in DOMAIN inBuffer'[V!SocketOf(g.for)] :
                                inBuffer'[V!SocketOf(g.for)][k] = g
                           \/ \E m \in missed' : m.frame = g
  <2> TAKE g \in owed'
  <2>1. CASE g \in owed
    <3> DEFINE s == V!SocketOf(g.for)
    <3>1. s \in V!Sockets
      BY <1>1, <2>1, RecordsAre, SocketsAre
    <3>2. ASSUME NEW k \in DOMAIN inBuffer[s]
          PROVE  k \in DOMAIN inBuffer'[s] /\ inBuffer'[s][k] = inBuffer[s][k]
      <4>1. inBuffer[s] \in Seq(V!Frames)
        BY <1>1, <3>1 DEF VInv
      <4>2. /\ k \in DOMAIN Append(inBuffer[s], f)
            /\ Append(inBuffer[s], f)[k] = inBuffer[s][k]
        BY <1>1, <3>2, <4>1, AppendProperties, LenProperties
      <4>3. inBuffer'[s] \in {inBuffer[s], Append(inBuffer[s], f)}
        <5> HIDE DEF s
        <5>1. CASE s \notin registered
          BY <1>2, <3>1, <5>1
        <5>2. CASE s \in registered /\ takes[s] = <<>>
          BY <1>1, <1>2, <3>1, <5>2, StoredIs
        <5>3. CASE s \in registered /\ takes[s] # <<>>
          BY <1>1, <1>2, <3>1, <5>3, TakeIsGiven
        <5> QED
          BY <5>1, <5>2, <5>3
      <4> QED
        BY <3>2, <4>2, <4>3
    <3>3. missed \subseteq missed'
      BY <1>2
    <3>4. \/ state[s] = "dropped"
          \/ \E k \in DOMAIN inBuffer[s] : inBuffer[s][k] = g
          \/ \E m \in missed : m.frame = g
      BY <2>1 DEF OwnInv, V!MissedByCancelOnly
    <3> QED
      BY <1>2, <3>2, <3>3, <3>4
  <2>2. CASE g \notin owed
    <3>1. own \in registered /\ g \in V!Pushed(own, f).owed
      BY <1>2, <2>2
    <3>2. CASE takes[own] = <<>>
      <4>1. g = f /\ inBuffer'[own] = Append(inBuffer[own], f)
        BY <1>1, <1>2, <3>1, <3>2, StoredIs
      <4>2. inBuffer[own] \in Seq(V!Frames)
        BY <1>1 DEF VInv
      <4>3. /\ Len(inBuffer[own]) + 1 \in DOMAIN Append(inBuffer[own], f)
            /\ Append(inBuffer[own], f)[Len(inBuffer[own]) + 1] = f
        BY <1>1, <4>2, AppendProperties, LenProperties
      <4> QED
        BY <1>1, <4>1, <4>3 DEF own
    <3>3. CASE takes[own] # <<>>
      <4>1. g = f /\ [frame |-> f, take |-> takes[own][1]] \in V!Pushed(own, f).missed
        BY <1>1, <3>1, <3>3, NotAccepted
      <4> QED
        BY <1>2, <3>1, <4>1
    <3> QED
      BY <3>2, <3>3
  <2> QED
    BY <2>1, <2>2
<1>11. V!MissedByCancelOnly'
  BY <1>8, <1>9, <1>10 DEF V!MissedByCancelOnly, V!SocketOf
<1> QED
  BY <1>4, <1>6, <1>11

\* What is left of a sequence when its first k elements are gone.
LEMMA RestIs ==
  ASSUME NEW q \in Seq(V!Frames), NEW k \in 0 .. Len(q)
  PROVE  /\ Len(SubSeq(q, k + 1, Len(q))) = Len(q) - k
         /\ \A j \in 1 .. Len(q) - k : SubSeq(q, k + 1, Len(q))[j] = q[k + j]
         /\ DOMAIN SubSeq(q, k + 1, Len(q)) = 1 .. Len(q) - k
<1> DEFINE n == Len(q)
           rest == SubSeq(q, k + 1, n)
<1>1. n \in Nat /\ k \in Nat /\ k <= n /\ k + 1 \in Int /\ n \in Int
  BY LenProperties
<1>2. \A i \in k + 1 .. n : q[i] \in V!Frames
  BY <1>1, ElementOfSeq
<1> HIDE DEF n
<1>3. /\ rest \in Seq(V!Frames)
      /\ Len(rest) = IF k + 1 <= n THEN n - (k + 1) + 1 ELSE 0
      /\ \A i \in 1 .. n - (k + 1) + 1 : rest[i] = q[k + 1 + i - 1]
  BY <1>1, <1>2, SubSeqProperties
<1> HIDE DEF rest
<1>4. n - (k + 1) + 1 = n - k /\ \A i \in 1 .. n - k : k + 1 + i - 1 = k + i
  BY <1>1
<1>5. Len(rest) = n - k
  BY <1>1, <1>3
<1>6. \A i \in 1 .. n - k : rest[i] = q[k + i]
  BY <1>3, <1>4
<1>7. DOMAIN rest = 1 .. Len(rest)
  BY <1>3, LenProperties
<1> QED
  BY <1>5, <1>6, <1>7 DEF rest, n

\* recv is called.
LEMMA RecvKeepsOwn ==
  ASSUME OwnSockets, OwnInv, NEW r \in Receivers, V!Recv(r)
  PROVE  TakesOfCalls' /\ GivenIsGone' /\ V!MissedByCancelOnly'
<1> DEFINE s == V!SocketOf(r)
           q == inBuffer[s]
           k == V!TakenBy(r, q)
           found == k > 0 /\ q[k].for = r
           take == [by |-> r, call |-> calls[r] + 1]
<1>1. /\ VInv /\ s \in V!Sockets /\ q \in Seq(V!Frames) /\ takes[s] \in Seq(V!Takes)
      /\ inBuffer \in [V!Sockets -> Seq(V!Frames)]
      /\ takes \in [V!Sockets -> Seq(V!Takes)]
      /\ calls \in [Receivers -> Nat]
      /\ recvs \in [Receivers -> {"idle", "waiting", "got", "over", "failed"}]
  BY SocketsAre DEF OwnInv, VInv, V!TypeOK
<1>2. /\ k \in 0 .. Len(q) /\ Len(q) \in Nat
      /\ \A j \in 1 .. k : q[j].for = r => j = k
  BY <1>1, TakenIs, LenProperties
<1>3. /\ calls' = [calls EXCEPT ![r] = calls[r] + 1]
      /\ UNCHANGED <<state, missed>>
      /\ owed' \subseteq owed
      /\ takes' = takes \/ takes' = [takes EXCEPT ![s] = Append(takes[s], take)]
      /\ \/ inBuffer' = inBuffer
         \/ /\ inBuffer' = [inBuffer EXCEPT ![s] = SubSeq(q, k + 1, Len(q))]
            /\ found => q[k] \notin owed'
  BY DEF V!Recv
<1>4. \A t \in V!Takes : V!Waits(t)' => V!Waits(t) \/ (t.by = r /\ t.call = calls[r] + 1)
  <2>1. \A x \in Receivers \ {r} : recvs'[x] = recvs[x] /\ calls'[x] = calls[x]
    BY <1>1 DEF V!Recv
  <2>2. calls'[r] = calls[r] + 1
    BY <1>1, <1>3
  <2> QED
    BY <2>1, <2>2 DEF V!Waits, V!Takes
<1>5. \A x \in Receivers : calls[x] <= calls'[x] /\ calls'[r] = calls[r] + 1
  BY <1>1, <1>3
<1> HIDE DEF k, take, found
\* The takes at a receiver's socket: the ones before, and at its own the new one.
<1>6. ASSUME NEW x \in Receivers, takes'[V!SocketOf(x)] # takes[V!SocketOf(x)]
      PROVE  /\ x = r /\ takes'[s] = Append(takes[s], take)
             /\ DOMAIN takes[s] = 1 .. Len(takes[s]) /\ Len(takes[s]) \in Nat
             /\ DOMAIN takes'[s] = 1 .. Len(takes[s]) + 1
             /\ \A i \in 1 .. Len(takes[s]) : takes'[s][i] = takes[s][i]
             /\ takes'[s][Len(takes[s]) + 1] = take
  <2>1. V!SocketOf(x) = s /\ takes'[s] = Append(takes[s], take)
    BY <1>1, <1>3, <1>6, SocketsAre
  <2>2. x = r
    BY <2>1, OneReceiverEach
  <2>3. take \in V!Takes
    BY SocketsAre DEF V!Recv, take, V!Takes, OwnInv, VInv, V!TypeOK
  <2> HIDE DEF s
  <2> QED
    BY <1>1, <2>1, <2>2, <2>3, AppendProperties, LenProperties
<1>7. /\ take.by = r /\ take.call = calls[r] + 1 /\ calls[r] \in Nat
      /\ \A i \in DOMAIN takes[s] : takes[s][i].call <= calls[r] /\ takes[s][i].call \in Nat
  <2>1. \A i \in DOMAIN takes[s] : takes[s][i] \in V!Takes
    BY <1>1, LenProperties, ElementOfSeq
  <2> QED
    BY <1>1, <2>1 DEF take, OwnInv, TakesOfCalls, V!Takes
<1>8. TakesOfCalls'
  <2> SUFFICES ASSUME NEW x \in Receivers
               PROVE  LET now == takes'[V!SocketOf(x)]
                      IN /\ \A i \in DOMAIN now : now[i].by = x /\ now[i].call <= calls'[x]
                         /\ \A i, j \in DOMAIN now : i # j => now[i] # now[j]
    BY DEF TakesOfCalls, V!SocketOf
  <2>1. CASE takes'[V!SocketOf(x)] = takes[V!SocketOf(x)]
    <3>1. \A i \in DOMAIN takes[V!SocketOf(x)] : takes[V!SocketOf(x)][i].call \in Nat
      <4>1. takes[V!SocketOf(x)] \in Seq(V!Takes)
        BY <1>1, SocketsAre
      <4>2. \A i \in DOMAIN takes[V!SocketOf(x)] : takes[V!SocketOf(x)][i] \in V!Takes
        BY <4>1, LenProperties, ElementOfSeq
      <4> QED
        BY <4>2, SocketsAre DEF V!Takes
    <3>2. calls[x] \in Nat /\ calls'[x] \in Nat /\ calls[x] <= calls'[x]
      BY <1>1, <1>3
    <3>3. /\ \A i \in DOMAIN takes[V!SocketOf(x)] :
               takes[V!SocketOf(x)][i].by = x /\ takes[V!SocketOf(x)][i].call <= calls[x]
          /\ \A i, j \in DOMAIN takes[V!SocketOf(x)] :
               i # j => takes[V!SocketOf(x)][i] # takes[V!SocketOf(x)][j]
      BY DEF OwnInv, TakesOfCalls
    <3>4. \A i \in DOMAIN takes[V!SocketOf(x)] : takes[V!SocketOf(x)][i].call <= calls'[x]
      BY <3>1, <3>2, <3>3
    <3> QED
      BY <2>1, <3>3, <3>4
  <2>2. CASE takes'[V!SocketOf(x)] # takes[V!SocketOf(x)]
    <3>1. /\ x = r /\ DOMAIN takes[s] = 1 .. Len(takes[s]) /\ Len(takes[s]) \in Nat
          /\ DOMAIN takes'[s] = 1 .. Len(takes[s]) + 1
          /\ \A i \in 1 .. Len(takes[s]) : takes'[s][i] = takes[s][i]
          /\ takes'[s][Len(takes[s]) + 1] = take
      BY <1>6, <2>2
    <3>2. /\ \A i \in DOMAIN takes[s] : takes[s][i].by = r
          /\ \A i, j \in DOMAIN takes[s] : i # j => takes[s][i] # takes[s][j]
      BY DEF OwnInv, TakesOfCalls
    <3>3. \A i \in DOMAIN takes'[s] : i \in 1 .. Len(takes[s]) \/ i = Len(takes[s]) + 1
      BY <3>1
    <3> HIDE DEF s
    <3>4. \A i \in DOMAIN takes'[s] : takes'[s][i].by = r /\ takes'[s][i].call <= calls'[r]
      BY <1>5, <1>7, <3>1, <3>2, <3>3
    <3>5. \A i \in 1 .. Len(takes[s]) : takes[s][i] # take
      BY <1>7, <3>1
    <3>6. \A i, j \in DOMAIN takes'[s] : i # j => takes'[s][i] # takes'[s][j]
      BY <3>1, <3>2, <3>3, <3>5
    <3> QED
      BY <3>1, <3>4, <3>6 DEF s
  <2> QED
    BY <2>1, <2>2
<1>9. GivenIsGone'
  <2> SUFFICES ASSUME NEW m \in missed
               PROVE  /\ m.take.call <= calls'[m.take.by]
                      /\ \A i \in DOMAIN takes'[V!SocketOf(m.take.by)] :
                           takes'[V!SocketOf(m.take.by)][i] # m.take
    BY <1>3 DEF GivenIsGone, V!SocketOf
  <2>1. /\ m.take.by \in Receivers /\ m.take.call \in Nat
        /\ m.take.call <= calls[m.take.by]
        /\ \A i \in DOMAIN takes[V!SocketOf(m.take.by)] :
             takes[V!SocketOf(m.take.by)][i] # m.take
    BY <1>1, RecordsAre DEF OwnInv, GivenIsGone
  <2>2. m.take.call <= calls'[m.take.by]
    BY <1>1, <1>3, <2>1
  <2>3. m.take # take
    BY <1>7, <2>1
  <2>4. ASSUME takes'[V!SocketOf(m.take.by)] # takes[V!SocketOf(m.take.by)]
        PROVE  \A i \in DOMAIN takes'[V!SocketOf(m.take.by)] :
                 takes'[V!SocketOf(m.take.by)][i] # m.take
    <3>1. /\ m.take.by = r /\ DOMAIN takes[s] = 1 .. Len(takes[s]) /\ Len(takes[s]) \in Nat
          /\ DOMAIN takes'[s] = 1 .. Len(takes[s]) + 1
          /\ \A i \in 1 .. Len(takes[s]) : takes'[s][i] = takes[s][i]
          /\ takes'[s][Len(takes[s]) + 1] = take
      BY <1>6, <2>1, <2>4
    <3>2. \A i \in DOMAIN takes'[s] : i \in 1 .. Len(takes[s]) \/ i = Len(takes[s]) + 1
      BY <3>1
    <3> QED
      BY <2>1, <2>3, <3>1, <3>2
  <2> QED
    BY <2>1, <2>2, <2>4
<1>10. \A m \in missed' : m.take.by = m.frame.for /\ ~V!Waits(m.take)'
  <2> TAKE m \in missed'
  <2>1. m \in missed /\ m.take \in V!Takes /\ m.take.by \in Receivers /\ m.take.call \in Nat
    BY <1>1, <1>3, RecordsAre
  <2>2. m.take.call <= calls[m.take.by] /\ m.take.by = m.frame.for /\ ~V!Waits(m.take)
    BY <2>1 DEF OwnInv, GivenIsGone, V!MissedByCancelOnly
  <2> QED
    BY <1>4, <1>7, <2>1, <2>2
<1>11. \A g \in owed' : \/ state'[V!SocketOf(g.for)] = "dropped"
                        \/ \E i \in DOMAIN inBuffer'[V!SocketOf(g.for)] :
                             inBuffer'[V!SocketOf(g.for)][i] = g
                        \/ \E m \in missed' : m.frame = g
  <2> TAKE g \in owed'
  <2> DEFINE x == V!SocketOf(g.for)
  <2>1. /\ g \in owed /\ g.for \in Receivers /\ x \in V!Sockets
        /\ \/ state[x] = "dropped"
           \/ \E i \in DOMAIN inBuffer[x] : inBuffer[x][i] = g
           \/ \E m \in missed : m.frame = g
    BY <1>1, <1>3, RecordsAre, SocketsAre DEF OwnInv, V!MissedByCancelOnly
  <2>2. ASSUME NEW i \in DOMAIN inBuffer[x], inBuffer[x][i] = g
        PROVE  \E j \in DOMAIN inBuffer'[x] : inBuffer'[x][j] = g
    <3>1. CASE inBuffer'[x] = inBuffer[x]
      BY <2>2, <3>1
    <3>2. CASE inBuffer'[x] # inBuffer[x]
      <4>1. x = s /\ inBuffer'[s] = SubSeq(q, k + 1, Len(q)) /\ (found => q[k] \notin owed')
        BY <1>1, <1>3, <2>1, <3>2
      <4>2. g.for = r
        BY <2>1, <4>1, OneReceiverEach
      <4>3. i \in 1 .. Len(q) /\ q[i] = g
        BY <1>1, <2>2, <4>1, LenProperties
      <4>4. ~(i <= k)
        <5> SUFFICES ASSUME i <= k PROVE FALSE
          OBVIOUS
        <5>1. i = k /\ k > 0
          BY <1>2, <4>2, <4>3
        <5> QED
          BY <4>1, <4>2, <4>3, <5>1 DEF found
      <4>5. /\ Len(SubSeq(q, k + 1, Len(q))) = Len(q) - k
            /\ \A j \in 1 .. Len(q) - k : SubSeq(q, k + 1, Len(q))[j] = q[k + j]
            /\ DOMAIN SubSeq(q, k + 1, Len(q)) = 1 .. Len(q) - k
        BY <1>1, <1>2, RestIs
      <4>6. i - k \in 1 .. Len(q) - k /\ k + (i - k) = i
        BY <1>2, <4>3, <4>4
      <4> QED
        BY <4>1, <4>3, <4>5, <4>6
    <3> QED
      BY <3>1, <3>2
  <2> QED
    BY <1>3, <2>1, <2>2
<1>12. V!MissedByCancelOnly'
  BY <1>3, <1>10, <1>11 DEF V!MissedByCancelOnly, V!SocketOf, OwnInv
<1> QED
  BY <1>8, <1>9, <1>12

\* Buffers are dropped with the takes that wait at them.
LEMMA DropBuffersKeepsOwn ==
  ASSUME OwnInv, NEW S \in SUBSET V!Sockets, V!DropBuffers(S), UNCHANGED <<calls, owed, missed>>
  PROVE  TakesOfCalls' /\ GivenIsGone' /\ V!MissedByCancelOnly'
<1>1. /\ \A s \in V!Sockets : takes'[s] = IF s \in S THEN <<>> ELSE takes[s]
      /\ \A s \in V!Sockets : inBuffer'[s] = IF s \in S THEN <<>> ELSE inBuffer[s]
      /\ \A s \in V!Sockets : state'[s] = IF s \in S THEN "dropped" ELSE state[s]
      /\ \A r \in Receivers : recvs'[r] = "waiting" => recvs[r] = "waiting"
  BY DEF V!DropBuffers
<1>2. DOMAIN <<>> = {}
  OBVIOUS
<1>3. \A r \in Receivers : \A k \in DOMAIN takes'[V!SocketOf(r)] :
        takes'[V!SocketOf(r)] = takes[V!SocketOf(r)]
  BY <1>1, <1>2, SocketsAre
<1>4. TakesOfCalls'
  BY <1>3 DEF OwnInv, TakesOfCalls, V!SocketOf
<1>5. VInv
  BY DEF OwnInv
<1>6. GivenIsGone'
  BY <1>3, <1>5, RecordsAre DEF OwnInv, GivenIsGone, V!SocketOf
<1>7. \A m \in missed : m.take.by = m.frame.for /\ ~V!Waits(m.take)'
  BY <1>1, <1>5, RecordsAre DEF OwnInv, V!MissedByCancelOnly, V!Waits
<1>8. \A f \in owed : \/ state'[V!SocketOf(f.for)] = "dropped"
                      \/ \E k \in DOMAIN inBuffer'[V!SocketOf(f.for)] :
                           inBuffer'[V!SocketOf(f.for)][k] = f
                      \/ \E m \in missed : m.frame = f
  <2> TAKE f \in owed
  <2>1. V!SocketOf(f.for) \in V!Sockets
    BY <1>5, RecordsAre, SocketsAre
  <2> QED
    BY <1>1, <2>1 DEF OwnInv, V!MissedByCancelOnly
<1>9. V!MissedByCancelOnly'
  BY <1>7, <1>8 DEF OwnInv, V!MissedByCancelOnly, V!SocketOf
<1> QED
  BY <1>4, <1>6, <1>9

LEMMA OwnStep == OwnSockets /\ OwnInv /\ [V!Next]_V!socketVars => OwnInv'
<1> SUFFICES ASSUME OwnSockets, OwnInv, [V!Next]_V!socketVars
             PROVE  TakesOfCalls' /\ GivenIsGone' /\ V!MissedByCancelOnly'
  BY VStep DEF OwnInv
<1>1. VInv
  BY DEF OwnInv
<1>2. ASSUME NEW s \in Receivers, V!Multiplex(s)
      PROVE  TakesOfCalls' /\ GivenIsGone' /\ V!MissedByCancelOnly'
  <2>1. /\ UNCHANGED <<inBuffer, takes, recvs, calls, owed, missed>>
        /\ \A x \in V!Sockets : state[x] = "dropped" => state'[x] = "dropped"
    BY <1>1, <1>2 DEF V!Multiplex, VInv, V!TypeOK
  <2>2. \A f \in owed : V!SocketOf(f.for) \in V!Sockets
    BY <1>1, RecordsAre, SocketsAre
  <2>3. TakesOfCalls' /\ GivenIsGone'
    BY <2>1 DEF OwnInv, TakesOfCalls, GivenIsGone, V!SocketOf
  <2>4. V!MissedByCancelOnly'
    BY <2>1, <2>2 DEF OwnInv, V!MissedByCancelOnly, V!SocketOf, V!Waits
  <2> QED
    BY <2>3, <2>4
<1>3. ASSUME NEW r \in Receivers, V!CancelRecv(r)
      PROVE  TakesOfCalls' /\ GivenIsGone' /\ V!MissedByCancelOnly'
  <2>1. /\ UNCHANGED <<inBuffer, takes, state, calls, owed, missed>>
        /\ \A x \in Receivers : recvs'[x] = "waiting" => recvs[x] = "waiting"
    BY <1>1, <1>3 DEF V!CancelRecv, VInv, V!TypeOK
  <2>2. TakesOfCalls' /\ GivenIsGone'
    BY <2>1 DEF OwnInv, TakesOfCalls, GivenIsGone, V!SocketOf
  <2>3. \A m \in missed : ~V!Waits(m.take)'
    BY <1>1, <2>1, RecordsAre DEF OwnInv, V!MissedByCancelOnly, V!Waits
  <2>4. V!MissedByCancelOnly'
    BY <2>1, <2>3 DEF OwnInv, V!MissedByCancelOnly, V!SocketOf
  <2> QED
    BY <2>2, <2>4
<1>4. ASSUME NEW s \in V!Sockets, V!Drop(s)
      PROVE  TakesOfCalls' /\ GivenIsGone' /\ V!MissedByCancelOnly'
  BY <1>4, DropBuffersKeepsOwn DEF V!Drop
<1>5. CASE V!DropAll
  <2>1. registered \in SUBSET V!Sockets
    BY <1>1 DEF VInv, V!TypeOK
  <2> QED
    BY <1>5, <2>1, DropBuffersKeepsOwn DEF V!DropAll
<1>6. CASE UNCHANGED V!socketVars
  BY <1>6 DEF V!socketVars, OwnInv, TakesOfCalls, GivenIsGone, V!MissedByCancelOnly,
              V!SocketOf, V!Waits
<1> QED
  BY <1>2, <1>3, <1>4, <1>5, <1>6, BufferInKeepsOwn, RecvKeepsOwn DEF V!Next, V!Drops

\* Receivers with multiplexed sockets of their own, any number of them, or a single
\* receiver, however often each calls and cancels recv: a frame that its socket took in
\* is handed to it, waits in the buffer, or was given to the take of a recv that it
\* cancelled, at most one frame for each (recv of VirtualSocket.ts).
THEOREM CancelledRecvCostsOneFrame ==
  ASSUME OwnSockets
  PROVE  SocketSpec => []MissedByCancelOnly
<1>1. V!Init => OwnInv
  <2> SUFFICES ASSUME V!Init PROVE OwnInv
    OBVIOUS
  <2>1. \A s \in V!Sockets : DOMAIN takes[s] = {}
    BY DEF V!Init
  <2>2. owed = {} /\ missed = {}
    BY DEF V!Init
  <2> QED
    BY <2>1, <2>2, VInit, SocketsAre
       DEF OwnInv, TakesOfCalls, GivenIsGone, V!MissedByCancelOnly
<1>2. OwnInv /\ [V!Next]_V!socketVars => OwnInv'
  BY OwnStep
<1>3. OwnInv => MissedByCancelOnly
  BY DEF OwnInv, MissedByCancelOnly
<1> QED
  BY <1>1, <1>2, <1>3, SocketParts, PTL DEF V!Spec
=============================================================================
