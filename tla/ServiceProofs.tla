------------------------- MODULE ServiceProofs -------------------------
(***************************************************************************)
(* Proofs about the services of one-shot routes (OnceRoute, the instance O *)
(* of MCRoutes) and of streams (StreamRoute, the instance S), for every    *)
(* kind of route, buffer size and number of payloads.                      *)
(*                                                                         *)
(* Of a stream: its types, and that what send accepted is settled          *)
(* (handled, or refused by the codec or the schema) or still on its way,   *)
(* in order.  Nothing else is lost because each place that a payload moves *)
(* to is empty when it comes.  Of a one-shot route: its types, that nobody *)
(* leaves before the reply was sent, and that the reply is to the first    *)
(* call, whoever it is given to.                                           *)
(***************************************************************************)
EXTENDS MCRoutes, SequenceTheorems, TLAPS

\* The payloads of a side's send, from the last place to the first.
OnTheWay(s) == settled[S!Other(s)] \o streamExternal[S!Other(s)] \o streamMsg[s] \o streamInternal[s]

\* With the types, that the places hold sequences.
SInv ==
  /\ S!TypeOK
  /\ streamInternal \in [S!Sides -> Seq(Nat)]
  /\ streamMsg \in [S!Sides -> Seq(Nat)]
  /\ streamExternal \in [S!Sides -> Seq(Nat)]
  /\ settled \in [S!Sides -> Seq(Nat)]
  /\ accepted \in [S!Sides -> Seq(Nat)]

InOrder == \A s \in S!Sides : OnTheWay(s) = accepted[s]

\* Nothing is sent before there is a session.
NothingBefore == phase = "off" => \A s \in S!Sides : streamMsg[s] = <<>>
-----------------------------------------------------------------------------
(***************************************************************************)
(* What each move does to four sequences in a row.                         *)
(***************************************************************************)
\* A sequence is its head and its tail.
LEMMA HeadAndTail ==
  ASSUME NEW a \in Seq(Nat), a # <<>>
  PROVE  /\ Head(a) \in Nat /\ Tail(a) \in Seq(Nat) /\ Len(Tail(a)) = Len(a) - 1
         /\ <<Head(a)>> \in Seq(Nat)
         /\ a = <<Head(a)>> \o Tail(a)
<1>1. Head(a) \in Nat /\ Tail(a) \in Seq(Nat) /\ Len(Tail(a)) = Len(a) - 1
  BY HeadTailProperties
<1>2. <<Head(a)>> \in Seq(Nat) /\ Len(<<Head(a)>>) = 1 /\ <<Head(a)>>[1] = Head(a)
  BY <1>1
<1>3. /\ <<Head(a)>> \o Tail(a) \in Seq(Nat)
      /\ Len(<<Head(a)>> \o Tail(a)) = Len(a)
  BY <1>1, <1>2, ConcatProperties, LenProperties
<1>4. \A i \in 1 .. Len(a) : a[i] = (<<Head(a)>> \o Tail(a))[i]
  <2> TAKE i \in 1 .. Len(a)
  <2>1. (<<Head(a)>> \o Tail(a))[i] = IF i <= 1 THEN <<Head(a)>>[i] ELSE Tail(a)[i - 1]
    BY <1>1, <1>2, ConcatProperties, LenProperties
  <2>2. CASE i = 1
    BY <1>2, <2>1, <2>2
  <2>3. CASE i # 1
    <3>1. i - 1 \in 1 .. Len(Tail(a)) /\ Len(a) \in Nat
      BY <1>1, <2>3, LenProperties
    <3>2. Tail(a)[i - 1] = a[i]
      BY <3>1, HeadTailProperties
    <3> QED
      BY <2>1, <2>3, <3>1, <3>2
  <2> QED
    BY <2>2, <2>3
<1> QED
  BY <1>1, <1>2, <1>3, <1>4, SeqEqual

\* What moves over from the front of a sequence to the end of the one before it stays
\* where it is in the two together.
LEMMA MoveOver ==
  ASSUME NEW a \in Seq(Nat), NEW b \in Seq(Nat), b # <<>>
  PROVE  Append(a, Head(b)) \o Tail(b) = a \o b
<1>1. Head(b) \in Nat /\ <<Head(b)>> \in Seq(Nat) /\ Tail(b) \in Seq(Nat)
      /\ b = <<Head(b)>> \o Tail(b)
  BY HeadAndTail
<1>2. Append(a, Head(b)) = a \o <<Head(b)>>
  BY <1>1, AppendIsConcat
<1>3. (a \o <<Head(b)>>) \o Tail(b) = a \o (<<Head(b)>> \o Tail(b))
  BY <1>1, ConcatAssociative
<1> QED
  BY <1>1, <1>2, <1>3

\* send: the last of the four gets longer.
LEMMA Queued ==
  ASSUME NEW h \in Seq(Nat), NEW e \in Seq(Nat), NEW m \in Seq(Nat), NEW i \in Seq(Nat),
         NEW x \in Nat
  PROVE  h \o e \o m \o Append(i, x) = Append(h \o e \o m \o i, x)
<1> DEFINE a == h \o e \o m
<1>1. a \in Seq(Nat)
  BY ConcatProperties
<1>2. a \o Append(i, x) = Append(a \o i, x)
  <2> HIDE DEF a
  <2>1. /\ <<x>> \in Seq(Nat) /\ a \o i \in Seq(Nat)
        /\ Append(i, x) = i \o <<x>> /\ Append(a \o i, x) = (a \o i) \o <<x>>
    BY <1>1, ConcatProperties, AppendIsConcat
  <2> QED
    BY <1>1, <2>1, ConcatAssociative
<1> QED
  BY <1>2

\* pull: from the last to the third, which is empty.
LEMMA Pulled ==
  ASSUME NEW h \in Seq(Nat), NEW e \in Seq(Nat), NEW i \in Seq(Nat), i # <<>>
  PROVE  h \o e \o <<Head(i)>> \o Tail(i) = h \o e \o <<>> \o i
<1> DEFINE a == h \o e
<1>1. a \in Seq(Nat)
  BY ConcatProperties
<1>2. a \o <<Head(i)>> \o Tail(i) = a \o <<>> \o i
  <2> HIDE DEF a
  <2>1. Head(i) \in Nat /\ Append(a, Head(i)) = a \o <<Head(i)>>
    BY <1>1, HeadAndTail, AppendIsConcat
  <2>2. a \o <<>> = a
    BY <1>1, ConcatEmptySeq
  <2> QED
    BY <1>1, <2>1, <2>2, MoveOver
<1> QED
  BY <1>2

\* A message arrives: from the third to the second, which is empty.
LEMMA Received ==
  ASSUME NEW h \in Seq(Nat), NEW m \in Seq(Nat), NEW i \in Seq(Nat), m # <<>>, Len(m) <= 1
  PROVE  h \o Append(<<>>, Head(m)) \o <<>> \o i = h \o <<>> \o m \o i
<1>1. /\ Head(m) \in Nat /\ <<Head(m)>> \in Seq(Nat) /\ Tail(m) \in Seq(Nat)
      /\ Len(Tail(m)) = Len(m) - 1 /\ m = <<Head(m)>> \o Tail(m)
  BY HeadAndTail
<1>2. Tail(m) = <<>>
  BY <1>1, EmptySeq, LenProperties
<1>3. m = <<Head(m)>> /\ Append(<<>>, Head(m)) = <<Head(m)>>
  BY <1>1, <1>2, ConcatEmptySeq
<1>4. h \o m \in Seq(Nat) /\ (h \o m) \o <<>> = h \o m /\ h \o <<>> = h
  BY ConcatProperties, ConcatEmptySeq
<1> QED
  BY <1>3, <1>4

\* A message is refused: from the third to the first, with nothing between.
LEMMA Ignored ==
  ASSUME NEW h \in Seq(Nat), NEW m \in Seq(Nat), NEW i \in Seq(Nat), m # <<>>, Len(m) <= 1
  PROVE  Append(h, Head(m)) \o <<>> \o <<>> \o i = h \o <<>> \o m \o i
<1>1. /\ Head(m) \in Nat /\ <<Head(m)>> \in Seq(Nat) /\ Tail(m) \in Seq(Nat)
      /\ Len(Tail(m)) = Len(m) - 1 /\ m = <<Head(m)>> \o Tail(m)
  BY HeadAndTail
<1>2. Tail(m) = <<>>
  BY <1>1, EmptySeq, LenProperties
<1>3. m = <<Head(m)>> /\ Append(h, Head(m)) = h \o m
  BY <1>1, <1>2, ConcatEmptySeq, AppendIsConcat
<1>4. h \o m \in Seq(Nat) /\ (h \o m) \o <<>> = h \o m /\ h \o <<>> = h
  BY ConcatProperties, ConcatEmptySeq
<1> QED
  BY <1>3, <1>4

\* The handler is called: from the second to the first.
LEMMA Called ==
  ASSUME NEW h \in Seq(Nat), NEW e \in Seq(Nat), NEW m \in Seq(Nat), NEW i \in Seq(Nat),
         e # <<>>
  PROVE  Append(h, Head(e)) \o Tail(e) \o m \o i = h \o e \o m \o i
  BY MoveOver
-----------------------------------------------------------------------------
(***************************************************************************)
(* The types.                                                              *)
(***************************************************************************)
LEMMA SidesAre ==
  /\ S!Sides = {S!Client, S!Server} /\ S!Client # S!Server
  /\ \A s \in S!Sides : S!Other(s) \in S!Sides /\ S!Other(s) # s /\ S!Other(S!Other(s)) = s
  BY DEF S!Sides, S!Client, S!Server, S!Other

\* The sizes of all buffers are numbers.
LEMMA SizesAre ==
  ASSUME S!StreamAssumption, kind \in Kinds
  PROVE  \A s \in S!Sides :
           S!InternalSizes[kind][s] \in Nat /\ S!ExternalSizes[kind][s] \in Nat
<1>1. kind \in {"stream", "listen", "duplex"} /\ Buffer \in Nat
  BY DEF S!StreamAssumption, S!KindsOfRoute
<1> QED
  BY <1>1 DEF S!InternalSizes, S!ExternalSizes, S!Sides, S!Client, S!Server

LEMMA SInit == ASSUME S!StreamAssumption, S!Init PROVE SInv /\ InOrder
<1>1. kind \in Kinds /\ <<>> \in Seq(Nat) /\ Len(<<>>) = 0 /\ MaxLoad \in Nat
  BY DEF S!Init, S!StreamAssumption
<1>2. \A s \in S!Sides : S!InternalSizes[kind][s] \in Nat /\ S!ExternalSizes[kind][s] \in Nat
  BY <1>1, SizesAre
<1>3. SInv
  BY <1>1, <1>2 DEF S!Init, SInv, S!TypeOK
<1>4. \A s \in S!Sides : OnTheWay(s) = <<>>
  <2> TAKE s \in S!Sides
  <2>1. OnTheWay(s) = <<>> \o <<>> \o <<>> \o <<>>
    BY SidesAre DEF S!Init, OnTheWay
  <2> QED
    BY <1>1, <2>1, ConcatEmptySeq
<1> QED
  BY <1>3, <1>4 DEF S!Init, InOrder

\* send and loadInternal: what is accepted is in the buffer, and the buffer does not
\* outgrow its size.
LEMMA Loads ==
  ASSUME S!StreamAssumption, SInv, NEW s \in S!Sides, NEW x \in Nat, S!LoadInternal(s, x)
  PROVE  /\ streamInternal' \in [S!Sides -> Seq(Nat)] /\ accepted' \in [S!Sides -> Seq(Nat)]
         /\ \A t \in S!Sides : Len(streamInternal'[t]) <= S!InternalSizes[kind][t] + 1
         /\ \A t \in S!Sides : t # s => streamInternal'[t] = streamInternal[t] /\ accepted'[t] = accepted[t]
         /\ \/ streamInternal'[s] = streamInternal[s] /\ accepted'[s] = accepted[s]
            \/ /\ streamInternal'[s] = Append(streamInternal[s], x)
               /\ accepted'[s] = Append(accepted[s], x)
<1>1. /\ streamInternal \in [S!Sides -> Seq(Nat)] /\ accepted \in [S!Sides -> Seq(Nat)]
      /\ \A t \in S!Sides : Len(streamInternal[t]) <= S!InternalSizes[kind][t] + 1
      /\ kind \in Kinds
  BY DEF SInv, S!TypeOK
<1>2. CASE Len(streamInternal[s]) < S!InternalRoom(s)
  <2>1. /\ streamInternal' = [streamInternal EXCEPT ![s] = Append(streamInternal[s], x)]
        /\ accepted' = [accepted EXCEPT ![s] = Append(accepted[s], x)]
    BY <1>2 DEF S!LoadInternal
  <2>2. S!InternalRoom(s) <= S!InternalSizes[kind][s] + 1 /\ S!InternalSizes[kind][s] \in Nat
        /\ S!InternalRoom(s) \in Nat
    BY <1>1, SizesAre DEF S!InternalRoom
  <2>3. /\ Append(streamInternal[s], x) \in Seq(Nat) /\ Append(accepted[s], x) \in Seq(Nat)
        /\ Len(Append(streamInternal[s], x)) = Len(streamInternal[s]) + 1 /\ Len(streamInternal[s]) \in Nat
    BY <1>1, AppendProperties, LenProperties
  <2>4. Len(Append(streamInternal[s], x)) <= S!InternalSizes[kind][s] + 1
    BY <1>2, <2>2, <2>3
  <2> QED
    BY <1>1, <2>1, <2>3, <2>4
<1>3. CASE ~(Len(streamInternal[s]) < S!InternalRoom(s))
  BY <1>1, <1>3 DEF S!LoadInternal
<1> QED
  BY <1>2, <1>3

\* If a step leaves all but one direction's places as they were, the order need only
\* be shown of that direction.
LEMMA OneDirection ==
  ASSUME InOrder, NEW s \in S!Sides,
         \A t \in S!Sides : t # s =>
           /\ settled'[S!Other(t)] = settled[S!Other(t)] /\ streamExternal'[S!Other(t)] = streamExternal[S!Other(t)]
           /\ streamMsg'[t] = streamMsg[t] /\ streamInternal'[t] = streamInternal[t] /\ accepted'[t] = accepted[t],
         settled'[S!Other(s)] \o streamExternal'[S!Other(s)] \o streamMsg'[s] \o streamInternal'[s] = accepted'[s]
  PROVE  InOrder'
  BY DEF InOrder, OnTheWay

\* A load keeps the order, and the types that it changes.
LEMMA LoadKeepsOrder ==
  ASSUME S!StreamAssumption, SInv, InOrder, NEW s \in S!Sides, NEW x \in Nat,
         S!LoadInternal(s, x), UNCHANGED <<streamMsg, streamExternal, settled>>
  PROVE  InOrder'
<1>1. /\ streamInternal[s] \in Seq(Nat) /\ streamMsg[s] \in Seq(Nat)
      /\ streamExternal[S!Other(s)] \in Seq(Nat) /\ settled[S!Other(s)] \in Seq(Nat)
  BY SidesAre DEF SInv
<1>2. /\ \A t \in S!Sides : t # s => streamInternal'[t] = streamInternal[t] /\ accepted'[t] = accepted[t]
      /\ \/ streamInternal'[s] = streamInternal[s] /\ accepted'[s] = accepted[s]
         \/ /\ streamInternal'[s] = Append(streamInternal[s], x)
            /\ accepted'[s] = Append(accepted[s], x)
  BY Loads
<1>3. settled[S!Other(s)] \o streamExternal[S!Other(s)] \o streamMsg[s] \o streamInternal[s] = accepted[s]
  BY DEF InOrder, OnTheWay
<1>4. settled[S!Other(s)] \o streamExternal[S!Other(s)] \o streamMsg[s] \o streamInternal'[s] = accepted'[s]
  <2>1. settled[S!Other(s)] \o streamExternal[S!Other(s)] \o streamMsg[s] \o Append(streamInternal[s], x)
          = Append(accepted[s], x)
    <3> DEFINE h == settled[S!Other(s)]
               e == streamExternal[S!Other(s)]
               m == streamMsg[s]
               i == streamInternal[s]
    <3>1. h \in Seq(Nat) /\ e \in Seq(Nat) /\ m \in Seq(Nat) /\ i \in Seq(Nat)
      BY <1>1
    <3>2. h \o e \o m \o Append(i, x) = Append(h \o e \o m \o i, x)
      <4> HIDE DEF h, e, m, i
      <4> QED
        BY <3>1, Queued
    <3> QED
      BY <1>3, <3>2, Zenon
  <2>2. CASE streamInternal'[s] = streamInternal[s] /\ accepted'[s] = accepted[s]
    BY <1>3, <2>2, Zenon
  <2>3. CASE streamInternal'[s] = Append(streamInternal[s], x) /\ accepted'[s] = Append(accepted[s], x)
    BY <2>1, <2>3, Zenon
  <2> QED
    BY <1>2, <2>2, <2>3
<1> QED
  BY <1>2, <1>4, OneDirection
-----------------------------------------------------------------------------
(***************************************************************************)
(* The steps.                                                              *)
(***************************************************************************)
LEMMA SendKeeps ==
  ASSUME S!StreamAssumption, SInv, InOrder, NEW s \in S!Sides, S!Send(s)
  PROVE  SInv' /\ InOrder'
<1>1. offered[s] + 1 \in Nat /\ offered[s] + 1 <= MaxLoad /\ MaxLoad \in Nat
  BY DEF SInv, S!TypeOK, S!Send, S!StreamAssumption
<1>2. S!LoadInternal(s, offered[s] + 1) /\ UNCHANGED <<kind, phase, streamPulling, streamMsg, streamExternal, settled>>
  BY DEF S!Send
<1>3. offered' \in [S!Sides -> 0 .. MaxLoad + 1]
  BY <1>1 DEF SInv, S!TypeOK, S!Send
<1>4. SInv'
  BY <1>1, <1>2, <1>3, Loads DEF SInv, S!TypeOK
<1> QED
  BY <1>1, <1>2, <1>4, LoadKeepsOrder

\* The three ways to connect.
LEMMA ConnectKeeps ==
  ASSUME S!StreamAssumption, SInv, InOrder, S!ConnectStream \/ S!ConnectListen \/ S!ConnectDuplex,
         \A s \in S!Sides : streamMsg[s] = <<>>
  PROVE  SInv' /\ InOrder'
<1>1. /\ UNCHANGED <<kind, streamMsg, streamExternal, settled>>
      /\ phase' = "open" /\ streamPulling' = [s \in S!Sides |-> TRUE]
  BY DEF S!ConnectStream, S!ConnectListen, S!ConnectDuplex, S!Opens
<1>2. CASE S!ConnectListen
  <2>1. S!LoadInternal(S!Client, 1) /\ 1 \in Nat /\ S!Client \in S!Sides
    BY <1>2, SidesAre DEF S!ConnectListen
  <2>2. offered' \in [S!Sides -> 0 .. MaxLoad + 1]
    <3>1. offered' = [offered EXCEPT ![S!Client] = 1] /\ offered \in [S!Sides -> 0 .. MaxLoad + 1]
      BY <1>2 DEF S!ConnectListen, SInv, S!TypeOK
    <3>2. 1 \in 0 .. MaxLoad + 1
      BY DEF S!StreamAssumption
    <3> QED
      BY <3>1, <3>2
  <2>3. SInv'
    BY <1>1, <2>1, <2>2, Loads DEF SInv, S!TypeOK
  <2> QED
    BY <1>1, <2>1, <2>3, LoadKeepsOrder
<1>3. CASE S!ConnectStream \/ S!ConnectDuplex
  <2>1. UNCHANGED <<offered, accepted, streamInternal>>
    BY <1>3 DEF S!ConnectStream, S!ConnectDuplex
  <2> QED
    BY <1>1, <2>1 DEF SInv, S!TypeOK, InOrder, OnTheWay
<1> QED
  BY <1>2, <1>3

LEMMA PullKeeps ==
  ASSUME S!StreamAssumption, SInv, InOrder, NEW s \in S!Sides, S!Pull(s)
  PROVE  SInv' /\ InOrder'
<1>1. /\ streamInternal[s] \in Seq(Nat) /\ streamInternal[s] # <<>> /\ streamMsg[s] = <<>>
      /\ streamExternal[S!Other(s)] \in Seq(Nat) /\ settled[S!Other(s)] \in Seq(Nat)
      /\ Len(streamInternal[s]) <= S!InternalSizes[kind][s] + 1
      /\ kind \in Kinds
  BY SidesAre DEF SInv, S!TypeOK, S!Pull
<1>2. /\ Head(streamInternal[s]) \in Nat /\ Tail(streamInternal[s]) \in Seq(Nat)
      /\ Len(Tail(streamInternal[s])) = Len(streamInternal[s]) - 1
      /\ <<Head(streamInternal[s])>> \in Seq(Nat) /\ Len(<<Head(streamInternal[s])>>) = 1
  BY <1>1, HeadAndTail
<1>3. /\ streamInternal' = [streamInternal EXCEPT ![s] = Tail(streamInternal[s])]
      /\ streamMsg' = [streamMsg EXCEPT ![s] = <<Head(streamInternal[s])>>]
      /\ streamPulling' = [streamPulling EXCEPT ![s] = FALSE]
      /\ UNCHANGED <<kind, phase, offered, accepted, streamExternal, settled>>
  BY DEF S!Pull
<1>4. Len(Tail(streamInternal[s])) <= S!InternalSizes[kind][s] + 1
  BY <1>1, <1>2, SizesAre, LenProperties
<1>5. SInv'
  BY <1>2, <1>3, <1>4 DEF SInv, S!TypeOK
<1>6. streamInternal'[s] = Tail(streamInternal[s]) /\ streamMsg'[s] = <<Head(streamInternal[s])>>
  BY <1>3 DEF SInv
<1>7. settled[S!Other(s)] \o streamExternal[S!Other(s)] \o streamMsg[s] \o streamInternal[s] = accepted[s]
  BY DEF InOrder, OnTheWay
<1>8. settled[S!Other(s)] \o streamExternal[S!Other(s)] \o streamMsg'[s] \o streamInternal'[s] = accepted[s]
  <2>1. settled[S!Other(s)] \o streamExternal[S!Other(s)] \o <<Head(streamInternal[s])>> \o Tail(streamInternal[s])
          = settled[S!Other(s)] \o streamExternal[S!Other(s)] \o <<>> \o streamInternal[s]
    BY <1>1, Pulled
  <2> QED
    BY <1>1, <1>6, <1>7, <2>1, Zenon
<1>9. \A t \in S!Sides : t # s => streamInternal'[t] = streamInternal[t] /\ streamMsg'[t] = streamMsg[t]
  BY <1>3 DEF SInv
<1> QED
  BY <1>3, <1>5, <1>8, <1>9, OneDirection

\* The message finds the take of the handler's loop waiting, so it is not refused,
\* whatever the size of the buffer.
LEMMA PushKeeps ==
  ASSUME S!StreamAssumption, SInv, InOrder, NEW s \in S!Sides, S!Receive(s),
         UNCHANGED settled,
         streamExternal' = IF Len(streamExternal[S!Other(s)]) < S!ExternalSizes[kind][S!Other(s)] + 1
                           THEN [streamExternal EXCEPT ![S!Other(s)] = Append(@, Head(streamMsg[s]))]
                           ELSE streamExternal
  PROVE  SInv' /\ InOrder'
<1> DEFINE o == S!Other(s)
<1>1. /\ streamInternal[s] \in Seq(Nat) /\ streamMsg[s] \in Seq(Nat) /\ streamMsg[s] # <<>> /\ Len(streamMsg[s]) <= 1
      /\ streamExternal[o] = <<>> /\ settled[o] \in Seq(Nat) /\ o \in S!Sides
      /\ S!ExternalSizes[kind][o] \in Nat
  BY SidesAre, SizesAre DEF SInv, S!TypeOK, S!Receive
<1>2. Len(streamExternal[o]) = 0 /\ Len(streamExternal[o]) < S!ExternalSizes[kind][o] + 1
  BY <1>1
<1>3. Head(streamMsg[s]) \in Nat /\ Append(<<>>, Head(streamMsg[s])) \in Seq(Nat)
      /\ Len(Append(<<>>, Head(streamMsg[s]))) = 1 /\ <<>> \in Seq(Nat) /\ Len(<<>>) = 0
  BY <1>1, HeadAndTail
<1>4. /\ streamMsg' = [streamMsg EXCEPT ![s] = <<>>]
      /\ streamExternal' = [streamExternal EXCEPT ![o] = Append(<<>>, Head(streamMsg[s]))]
      /\ UNCHANGED <<kind, phase, offered, accepted, streamInternal, streamPulling, settled>>
  BY <1>1, <1>2 DEF S!Receive, SInv
<1>5. 1 <= S!ExternalSizes[kind][o] + 1
  BY <1>1
<1>6. SInv'
  <2>1. /\ streamMsg' \in [S!Sides -> Seq(Nat)] /\ streamExternal' \in [S!Sides -> Seq(Nat)]
        /\ \A t \in S!Sides : Len(streamMsg'[t]) <= 1 /\ (streamPulling[t] => streamMsg'[t] = <<>>)
    <3>1. streamExternal' \in [S!Sides -> Seq(Nat)]
      BY <1>1, <1>3, <1>4 DEF SInv
    <3>2. streamMsg' \in [S!Sides -> Seq(Nat)]
      BY <1>3, <1>4 DEF SInv
    <3>3. \A t \in S!Sides : Len(streamMsg'[t]) <= 1 /\ (streamPulling[t] => streamMsg'[t] = <<>>)
      BY <1>3, <1>4 DEF SInv, S!TypeOK
    <3> QED
      BY <3>1, <3>2, <3>3
  <2>2. \A t \in S!Sides : Len(streamExternal'[t]) <= S!ExternalSizes[kind][t] + 1
    BY <1>1, <1>3, <1>4, <1>5 DEF SInv, S!TypeOK
  <2> QED
    BY <1>4, <2>1, <2>2 DEF SInv, S!TypeOK
<1>7. streamMsg'[s] = <<>> /\ streamExternal'[o] = Append(<<>>, Head(streamMsg[s]))
  BY <1>1, <1>4 DEF SInv
<1>8. settled[o] \o streamExternal[o] \o streamMsg[s] \o streamInternal[s] = accepted[s]
  BY DEF InOrder, OnTheWay
<1>9. settled[o] \o streamExternal'[o] \o streamMsg'[s] \o streamInternal[s] = accepted[s]
  <2>1. settled[o] \o Append(<<>>, Head(streamMsg[s])) \o <<>> \o streamInternal[s]
          = settled[o] \o <<>> \o streamMsg[s] \o streamInternal[s]
    BY <1>1, Received
  <2> QED
    BY <1>1, <1>7, <1>8, <2>1, Zenon
<1>10. \A t \in S!Sides : t # s => streamMsg'[t] = streamMsg[t] /\ streamExternal'[S!Other(t)] = streamExternal[S!Other(t)]
  BY <1>4, SidesAre DEF SInv
<1> QED
  BY <1>4, <1>6, <1>9, <1>10, OneDirection

\* What the codec or the schema refuses is settled where it stands.
LEMMA IgnoredKeeps ==
  ASSUME S!StreamAssumption, SInv, InOrder, NEW s \in S!Sides, S!Receive(s),
         UNCHANGED streamExternal,
         settled' = [settled EXCEPT ![S!Other(s)] = Append(@, Head(streamMsg[s]))]
  PROVE  SInv' /\ InOrder'
<1> DEFINE o == S!Other(s)
<1>1. /\ streamInternal[s] \in Seq(Nat) /\ streamMsg[s] \in Seq(Nat) /\ streamMsg[s] # <<>> /\ Len(streamMsg[s]) <= 1
      /\ streamExternal[o] = <<>> /\ settled[o] \in Seq(Nat) /\ o \in S!Sides
  BY SidesAre DEF SInv, S!TypeOK, S!Receive
<1>2. /\ Head(streamMsg[s]) \in Nat /\ Append(settled[o], Head(streamMsg[s])) \in Seq(Nat)
      /\ <<>> \in Seq(Nat) /\ Len(<<>>) = 0
  BY <1>1, HeadAndTail, AppendProperties
<1>3. /\ streamMsg' = [streamMsg EXCEPT ![s] = <<>>]
      /\ settled' = [settled EXCEPT ![o] = Append(settled[o], Head(streamMsg[s]))]
      /\ UNCHANGED <<kind, phase, offered, accepted, streamInternal, streamPulling, streamExternal>>
  BY DEF S!Receive
<1>4. SInv'
  <2>1. streamMsg' \in [S!Sides -> Seq(Nat)] /\ settled' \in [S!Sides -> Seq(Nat)]
    BY <1>1, <1>2, <1>3 DEF SInv
  <2>2. \A t \in S!Sides : Len(streamMsg'[t]) <= 1 /\ (streamPulling[t] => streamMsg'[t] = <<>>)
    BY <1>2, <1>3 DEF SInv, S!TypeOK
  <2> QED
    BY <1>3, <2>1, <2>2 DEF SInv, S!TypeOK
<1>5. streamMsg'[s] = <<>> /\ settled'[o] = Append(settled[o], Head(streamMsg[s]))
  BY <1>1, <1>3 DEF SInv
<1>6. settled[o] \o streamExternal[o] \o streamMsg[s] \o streamInternal[s] = accepted[s]
  BY DEF InOrder, OnTheWay
<1>7. settled'[o] \o streamExternal[o] \o streamMsg'[s] \o streamInternal[s] = accepted[s]
  <2>1. Append(settled[o], Head(streamMsg[s])) \o <<>> \o <<>> \o streamInternal[s]
          = settled[o] \o <<>> \o streamMsg[s] \o streamInternal[s]
    BY <1>1, Ignored
  <2> QED
    BY <1>1, <1>5, <1>6, <2>1, Zenon
<1>8. \A t \in S!Sides : t # s => streamMsg'[t] = streamMsg[t] /\ settled'[S!Other(t)] = settled[S!Other(t)]
  BY <1>3, SidesAre DEF SInv
<1> QED
  BY <1>3, <1>4, <1>7, <1>8, OneDirection

LEMMA ReceiveKeeps ==
  ASSUME S!StreamAssumption, SInv, InOrder, NEW s \in S!Sides, S!Receive(s)
  PROVE  SInv' /\ InOrder'
<1>1. CASE UNCHANGED <<settled, ignored>>
  <2>1. \/ streamExternal' = IF Len(streamExternal[S!Other(s)]) < S!ExternalSizes[kind][S!Other(s)] + 1
                             THEN [streamExternal EXCEPT ![S!Other(s)] = Append(@, Head(streamMsg[s]))]
                             ELSE streamExternal
        \/ /\ settled' = [settled EXCEPT ![S!Other(s)] = Append(@, Head(streamMsg[s]))]
           /\ UNCHANGED streamExternal
    BY DEF S!Receive
  <2> QED
    BY <1>1, <2>1, PushKeeps, IgnoredKeeps
<1>2. CASE ~UNCHANGED <<settled, ignored>>
  <2>1. /\ settled' = [settled EXCEPT ![S!Other(s)] = Append(@, Head(streamMsg[s]))]
        /\ UNCHANGED streamExternal
    BY <1>2 DEF S!Receive
  <2> QED
    BY <2>1, IgnoredKeeps
<1> QED
  BY <1>1, <1>2

LEMMA HandleKeeps ==
  ASSUME S!StreamAssumption, SInv, InOrder, NEW o \in S!Sides, S!Handle(o)
  PROVE  SInv' /\ InOrder'
<1> DEFINE s == S!Other(o)
<1>1. /\ streamInternal[s] \in Seq(Nat) /\ streamMsg[s] \in Seq(Nat)
      /\ streamExternal[o] \in Seq(Nat) /\ streamExternal[o] # <<>> /\ settled[o] \in Seq(Nat)
      /\ s \in S!Sides /\ S!Other(s) = o
      /\ Len(streamExternal[o]) <= S!ExternalSizes[kind][o] + 1 /\ S!ExternalSizes[kind][o] \in Nat
  BY SidesAre, SizesAre DEF SInv, S!TypeOK, S!Handle
<1>2. /\ Head(streamExternal[o]) \in Nat /\ Tail(streamExternal[o]) \in Seq(Nat)
      /\ Len(Tail(streamExternal[o])) = Len(streamExternal[o]) - 1
      /\ Append(settled[o], Head(streamExternal[o])) \in Seq(Nat)
  BY <1>1, HeadAndTail, AppendProperties
<1>3. /\ streamExternal' = [streamExternal EXCEPT ![o] = Tail(streamExternal[o])]
      /\ settled' = [settled EXCEPT ![o] = Append(settled[o], Head(streamExternal[o]))]
      /\ UNCHANGED <<kind, phase, offered, accepted, streamInternal, streamPulling, streamMsg>>
  BY DEF S!Handle
<1>4. Len(Tail(streamExternal[o])) <= S!ExternalSizes[kind][o] + 1
  BY <1>1, <1>2, LenProperties
<1>5. SInv'
  BY <1>2, <1>3, <1>4 DEF SInv, S!TypeOK
<1>6. streamExternal'[o] = Tail(streamExternal[o]) /\ settled'[o] = Append(settled[o], Head(streamExternal[o]))
  BY <1>3 DEF SInv
<1>7. settled[o] \o streamExternal[o] \o streamMsg[s] \o streamInternal[s] = accepted[s]
  BY <1>1 DEF InOrder, OnTheWay
<1>8. settled'[o] \o streamExternal'[o] \o streamMsg[s] \o streamInternal[s] = accepted[s]
  <2>1. Append(settled[o], Head(streamExternal[o])) \o Tail(streamExternal[o]) \o streamMsg[s] \o streamInternal[s]
          = settled[o] \o streamExternal[o] \o streamMsg[s] \o streamInternal[s]
    BY <1>1, Called
  <2> QED
    BY <1>6, <1>7, <2>1, Zenon
<1>9. \A t \in S!Sides : t # s =>
        settled'[S!Other(t)] = settled[S!Other(t)] /\ streamExternal'[S!Other(t)] = streamExternal[S!Other(t)]
  BY <1>3, SidesAre DEF SInv
<1> QED
  BY <1>1, <1>3, <1>5, <1>8, <1>9, OneDirection

LEMMA OthersKeep ==
  ASSUME SInv, InOrder,
         \/ \E s \in S!Sides : S!Acknowledged(s)
         \/ \E how \in {"dropped", "failed"} : S!Drop(how)
         \/ UNCHANGED S!streamVars
  PROVE  SInv' /\ InOrder'
<1>1. UNCHANGED <<kind, offered, accepted, streamInternal, streamMsg, streamExternal, settled>>
  BY DEF S!Acknowledged, S!Drop, S!streamVars
<1>2. InOrder'
  BY <1>1 DEF InOrder, OnTheWay
<1>3. CASE \E s \in S!Sides : S!Acknowledged(s)
  BY <1>1, <1>2, <1>3 DEF S!Acknowledged, SInv, S!TypeOK
<1>4. CASE \E how \in {"dropped", "failed"} : S!Drop(how)
  BY <1>1, <1>2, <1>4 DEF S!Drop, SInv, S!TypeOK
<1>5. CASE UNCHANGED S!streamVars
  BY <1>2, <1>5 DEF S!streamVars, SInv, S!TypeOK
<1> QED
  BY <1>3, <1>4, <1>5

LEMMA NothingBeforeKeeps == NothingBefore /\ [S!Next]_S!streamVars => NothingBefore'
<1> SUFFICES ASSUME NothingBefore, [S!Next]_S!streamVars, phase' = "off"
             PROVE  UNCHANGED <<phase, streamMsg>>
  BY DEF NothingBefore
<1>1. CASE \E s \in S!Sides : S!Pull(s) \/ S!Receive(s) \/ S!Acknowledged(s)
  BY <1>1 DEF S!Pull, S!Receive, S!Acknowledged
<1>2. CASE \E s \in S!Sides : S!Send(s) \/ S!Handle(s)
  BY <1>2 DEF S!Send, S!Handle
<1>3. CASE S!ConnectStream \/ S!ConnectListen \/ S!ConnectDuplex
  BY <1>3 DEF S!ConnectStream, S!ConnectListen, S!ConnectDuplex, S!Opens
<1>4. CASE \E how \in {"dropped", "failed"} : S!Drop(how)
  BY <1>4 DEF S!Drop
<1>5. CASE UNCHANGED S!streamVars
  BY <1>5 DEF S!streamVars
<1> QED
  BY <1>1, <1>2, <1>3, <1>4, <1>5, SidesAre
     DEF S!Next, S!Progress, S!HandleStream, S!HandleListen, S!HandleDuplex

LEMMA StreamStep ==
  ASSUME S!StreamAssumption, SInv, InOrder, NothingBefore, [S!Next]_S!streamVars
  PROVE  SInv' /\ InOrder'
<1>1. CASE S!ConnectStream \/ S!ConnectListen \/ S!ConnectDuplex
  <2>1. \A s \in S!Sides : streamMsg[s] = <<>>
    BY <1>1 DEF NothingBefore, S!ConnectStream, S!ConnectListen, S!ConnectDuplex, S!Opens
  <2> QED
    BY <1>1, <2>1, ConnectKeeps
<1>2. ASSUME NEW s \in S!Sides, S!Handle(s) PROVE SInv' /\ InOrder'
  BY <1>2, HandleKeeps
<1>3. ASSUME NEW s \in S!Sides, S!Pull(s) PROVE SInv' /\ InOrder'
  BY <1>3, PullKeeps
<1>4. ASSUME NEW s \in S!Sides, S!Receive(s) PROVE SInv' /\ InOrder'
  BY <1>4, ReceiveKeeps
<1>5. ASSUME NEW s \in S!Sides, S!Send(s) PROVE SInv' /\ InOrder'
  BY <1>5, SendKeeps
<1>6. CASE \/ \E s \in S!Sides : S!Acknowledged(s)
           \/ \E how \in {"dropped", "failed"} : S!Drop(how)
           \/ UNCHANGED S!streamVars
  BY <1>6, OthersKeep
<1> QED
  BY <1>1, <1>2, <1>3, <1>4, <1>5, <1>6, SidesAre
     DEF S!Next, S!Progress, S!HandleStream, S!HandleListen, S!HandleDuplex


LEMMA StreamInvariant == S!Spec => [](SInv /\ InOrder /\ NothingBefore)
<1> USE ServiceConstants
<1>1. S!Init => SInv /\ InOrder /\ NothingBefore
  BY SInit DEF S!Init, NothingBefore
<1>2. /\ SInv /\ InOrder /\ NothingBefore
      /\ [S!Next]_S!streamVars
      => (SInv /\ InOrder /\ NothingBefore)'
  BY StreamStep, NothingBeforeKeeps
<1> QED
  BY <1>1, <1>2, PTL DEF S!Spec
-----------------------------------------------------------------------------
(***************************************************************************)
(* One-shot routes.  What a side's promise was resolved with stays, so a   *)
(* message that has left a side is at the other side for good once its ACK *)
(* has come.                                                               *)
(***************************************************************************)
\* A side is done with the other's message: its promise is resolved or it ignored it.
Took(s) == onceExternal[s] # O!None \/ s \in onceIgnored

\* A message that was pulled is on its way or the other side is done with it.
SentIsSomewhere ==
  \A s \in O!Sides :
    /\ stage[s] # "first" => onceMsg[s] # O!None \/ Took(O!Other(s))
    /\ stage[s] = "second" => Took(O!Other(s))

\* Whatever is under way between the two sides stems from the first call.
FirstCallOnly ==
  /\ \A s \in O!Sides :
       /\ onceInternal[s] \in {O!None, 1}
       /\ onceMsg[s] \in {O!None, 1}
       /\ onceExternal[s] \in {O!None, 1}
  /\ onceInternal[O!Client] = O!None => calls = 0
  /\ \A k \in O!Calls : result[k] \in {O!None, 1}

OInv == O!TypeOK /\ SentIsSomewhere /\ O!NobodyLeavesEarly /\ FirstCallOnly

LEMMA OnceSidesAre ==
  /\ O!Sides = {O!Client, O!Server} /\ O!Client # O!Server
  /\ \A s \in O!Sides : O!Other(s) \in O!Sides /\ O!Other(s) # s
  /\ O!Other(O!Server) = O!Client
  /\ O!None = 0
  BY DEF O!Sides, O!Client, O!Server, O!Other, O!None

LEMMA CallsAre == MaxCalls \in Nat \ {0} /\ 1 \in 0 .. MaxCalls /\ 0 \in 0 .. MaxCalls
  BY ServiceConstants DEF O!OnceAssumption

LEMMA OnceInit == O!Init => OInv
  BY OnceSidesAre, CallsAre
     DEF O!Init, OInv, O!TypeOK, SentIsSomewhere, Took, O!NobodyLeavesEarly, FirstCallOnly

\* A side that ends ends once.
LEMMA EndsKeeps ==
  ASSUME OInv, NEW s \in O!Sides, NEW how \in {"done", "term", "failed"}, O!Ends(s, how),
         UNCHANGED <<onceExternal, onceIgnored>>,
         how = "done" =>
           onceExternal[O!Client] # O!None \/ (s = O!Server /\ O!Client \in onceIgnored)
  PROVE  /\ ended' \in [O!Sides -> {"no", "done", "term", "failed"}]
         /\ O!NobodyLeavesEarly'
  BY OnceSidesAre DEF OInv, O!TypeOK, O!NobodyLeavesEarly, O!Ends
-----------------------------------------------------------------------------
LEMMA OnceStep == OInv /\ [O!Next]_O!onceVars => OInv'
<1> SUFFICES ASSUME OInv, [O!Next]_O!onceVars PROVE OInv'
  OBVIOUS
<1> USE OnceSidesAre, CallsAre DEF OInv, O!TypeOK, O!Calls
<1>1. CASE O!Send
  <2>1. /\ calls + 1 \in 0 .. MaxCalls /\ calls' = calls + 1
        /\ onceInternal' = O!Resolve(onceInternal, O!Client, calls + 1)
        /\ UNCHANGED <<result, onceExternal, stage, onceMsg, onceIgnored, handler, ended>>
    BY <1>1 DEF O!Send
  <2>2. O!TypeOK'
    BY <2>1 DEF O!Resolve
  <2>3. onceInternal[O!Client] = O!None => calls + 1 = 1
    BY DEF FirstCallOnly
  <2>4. \A s \in O!Sides : onceInternal'[s] \in {O!None, 1}
    BY <2>1, <2>3 DEF O!Resolve, FirstCallOnly
  <2>5. onceInternal'[O!Client] # O!None
    BY <2>1 DEF O!Resolve
  <2> QED
    BY <2>1, <2>2, <2>4, <2>5 DEF SentIsSomewhere, Took, O!NobodyLeavesEarly, FirstCallOnly
<1>2. ASSUME NEW k \in O!Calls, O!Return(k) PROVE OInv'
  <2>1. /\ result' = [result EXCEPT ![k] = onceExternal[O!Client]]
        /\ onceExternal[O!Client] # O!None
        /\ O!Ends(O!Client, "done")
        /\ UNCHANGED <<calls, onceInternal, onceExternal, stage, onceMsg, onceIgnored, handler>>
    BY <1>2 DEF O!Return
  <2>2. O!TypeOK' /\ O!NobodyLeavesEarly'
    BY <2>1, EndsKeeps
  <2> QED
    BY <2>1, <2>2 DEF SentIsSomewhere, Took, FirstCallOnly
<1>3. CASE O!HandlerStarts
  BY <1>3 DEF O!HandlerStarts, SentIsSomewhere, Took, O!NobodyLeavesEarly, FirstCallOnly
<1>4. CASE O!HandlerEnds
  <2>1. /\ handler' \in {"done", "failed"} /\ handler # "waiting"
        /\ \/ onceInternal' = O!Resolve(onceInternal, O!Server, onceExternal[O!Server])
           \/ UNCHANGED onceInternal
        /\ UNCHANGED <<calls, result, onceExternal, stage, onceMsg, onceIgnored, ended>>
    BY <1>4 DEF O!HandlerEnds
  <2>2. O!TypeOK'
    BY <2>1 DEF O!Resolve
  <2>3. /\ \A s \in O!Sides : onceInternal'[s] \in {O!None, 1}
        /\ onceInternal'[O!Client] = onceInternal[O!Client]
    BY <2>1 DEF O!Resolve, FirstCallOnly
  <2> QED
    BY <2>1, <2>2, <2>3 DEF SentIsSomewhere, Took, O!NobodyLeavesEarly, FirstCallOnly
<1>5. ASSUME NEW s \in O!Sides, O!PullFirst(s) PROVE OInv'
  <2>1. /\ onceMsg' = [onceMsg EXCEPT ![s] = onceInternal[s]]
        /\ onceInternal[s] # O!None
        /\ stage' = [stage EXCEPT ![s] = "ack"]
        /\ stage[s] = "first"
        /\ UNCHANGED <<calls, result, onceInternal, onceExternal, onceIgnored, handler, ended>>
    BY <1>5 DEF O!PullFirst
  <2>2. O!TypeOK' /\ O!NobodyLeavesEarly' /\ FirstCallOnly'
    BY <2>1 DEF O!NobodyLeavesEarly, FirstCallOnly
  <2>3. SentIsSomewhere'
    BY <2>1 DEF SentIsSomewhere, Took
  <2> QED
    BY <2>2, <2>3
<1>6. ASSUME NEW s \in O!Sides, O!Receive(s) PROVE OInv'
  <2>1. /\ onceMsg' = [onceMsg EXCEPT ![s] = O!None]
        /\ onceMsg[s] # O!None /\ onceMsg[s] \in 0 .. MaxCalls
        /\ \/ onceExternal' = O!Resolve(onceExternal, O!Other(s), onceMsg[s]) /\ UNCHANGED onceIgnored
           \/ onceIgnored' = onceIgnored \union {O!Other(s)} /\ UNCHANGED onceExternal
        /\ UNCHANGED <<calls, result, onceInternal, stage, handler, ended>>
    BY <1>6 DEF O!Receive
  <2>2. /\ onceExternal' \in [O!Sides -> 0 .. MaxCalls] /\ onceIgnored' \subseteq O!Sides
        /\ \A t \in O!Sides : onceExternal[t] # O!None => onceExternal'[t] = onceExternal[t]
        /\ onceIgnored \subseteq onceIgnored'
        /\ onceExternal'[O!Other(s)] # O!None \/ O!Other(s) \in onceIgnored'
        /\ \A t \in O!Sides : onceExternal'[t] \in {onceExternal[t], onceMsg[s]}
    BY <2>1 DEF O!Resolve
  <2>3. O!TypeOK'
    BY <2>1, <2>2
  <2>4. SentIsSomewhere'
    BY <2>1, <2>2 DEF SentIsSomewhere, Took
  <2>5. O!NobodyLeavesEarly'
    BY <2>1, <2>2 DEF O!NobodyLeavesEarly
  <2>6. FirstCallOnly'
    BY <2>1, <2>2 DEF FirstCallOnly
  <2> QED
    BY <2>3, <2>4, <2>5, <2>6
<1>7. ASSUME NEW s \in O!Sides, O!Acknowledged(s) PROVE OInv'
  <2>1. /\ stage' = [stage EXCEPT ![s] = "second"]
        /\ stage[s] = "ack" /\ onceMsg[s] = O!None
        /\ UNCHANGED <<calls, result, onceInternal, onceExternal, onceMsg, onceIgnored, handler, ended>>
    BY <1>7 DEF O!Acknowledged
  <2>2. Took(O!Other(s))
    BY <2>1 DEF SentIsSomewhere
  <2> QED
    BY <2>1, <2>2 DEF SentIsSomewhere, Took, O!NobodyLeavesEarly, FirstCallOnly
<1>8. ASSUME NEW s \in O!Sides, O!PullSecond(s) PROVE OInv'
  <2>1. /\ stage[s] = "second" /\ onceExternal[s] # O!None
        /\ O!Ends(s, "done")
        /\ UNCHANGED <<calls, result, onceInternal, onceExternal, stage, onceMsg, onceIgnored, handler>>
    BY <1>8 DEF O!PullSecond
  <2>2. onceExternal[O!Client] # O!None \/ (s = O!Server /\ O!Client \in onceIgnored)
    BY <2>1 DEF SentIsSomewhere, Took
  <2>3. O!TypeOK' /\ O!NobodyLeavesEarly'
    BY <2>1, <2>2, EndsKeeps
  <2> QED
    BY <2>1, <2>3 DEF SentIsSomewhere, Took, FirstCallOnly
<1>9. CASE O!Term
  <2>1. /\ O!Ends(O!Server, "term")
        /\ UNCHANGED <<calls, result, onceInternal, onceExternal, stage, onceMsg, onceIgnored, handler>>
    BY <1>9 DEF O!Term
  <2>2. O!TypeOK' /\ O!NobodyLeavesEarly'
    BY <2>1, EndsKeeps
  <2> QED
    BY <2>1, <2>2 DEF SentIsSomewhere, Took, FirstCallOnly
<1>10. ASSUME NEW s \in O!Sides, O!Fails(s) PROVE OInv'
  <2>1. /\ O!Ends(s, "failed")
        /\ UNCHANGED <<calls, result, onceInternal, onceExternal, stage, onceMsg, onceIgnored, handler>>
    BY <1>10 DEF O!Fails
  <2>2. O!TypeOK' /\ O!NobodyLeavesEarly'
    BY <2>1, EndsKeeps
  <2> QED
    BY <2>1, <2>2 DEF SentIsSomewhere, Took, FirstCallOnly
<1>11. CASE UNCHANGED O!onceVars
  BY <1>11 DEF O!onceVars, SentIsSomewhere, Took, O!NobodyLeavesEarly, FirstCallOnly
<1> QED
  BY <1>1, <1>2, <1>3, <1>4, <1>5, <1>6, <1>7, <1>8, <1>9, <1>10, <1>11
     DEF O!Next, O!Exchange

LEMMA OnceInvariant == O!Spec => []OInv
<1>1. O!Init => OInv
  BY OnceInit
<1>2. OInv /\ [O!Next]_O!onceVars => OInv'
  BY OnceStep
<1> QED
  BY <1>1, <1>2, PTL DEF O!Spec
-----------------------------------------------------------------------------
(***************************************************************************)
(* The composition: a behaviour of the routes is one of each service.      *)
(***************************************************************************)
LEMMA RoutesParts == RoutesSpec => O!Spec /\ S!Spec
<1>1. RoutesInit => O!Init /\ S!Init
  BY DEF RoutesInit
<1>2. [RoutesNext]_<<queryVars, onceVars, streamVars, about>>
        => [O!Next]_O!onceVars /\ [S!Next]_S!streamVars
  BY DEF RoutesNext, onceVars, streamVars, O!onceVars, S!streamVars
<1> QED
  BY <1>1, <1>2, PTL DEF RoutesSpec, O!Spec, S!Spec

\* For every bound on the calls, every kind of streaming route, buffer size and number
\* of payloads: the variables of both services have their types, a one-shot handler
\* only runs for a request that came (once.ts), and no buffer of a streaming route is
\* filled past its size (many.ts).
THEOREM ServicesTypeCorrect == RoutesSpec => []ServicesTypeOK
<1>1. OInv /\ SInv => ServicesTypeOK
  BY DEF OInv, SInv, ServicesTypeOK
<1> QED
  BY <1>1, RoutesParts, OnceInvariant, StreamInvariant, PTL

\* For any number of calls, and whatever fails: a side of a one-shot route (once.ts)
\* ends the session itself only when the reply has come to the client, and the server
\* also when the client acknowledged the reply and its codec or schema refused it.
THEOREM NobodyLeavesBeforeTheReply == RoutesSpec => []NobodyLeavesEarly
<1>1. OInv => NobodyLeavesEarly
  BY DEF OInv, NobodyLeavesEarly
<1> QED
  BY <1>1, RoutesParts, OnceInvariant, PTL

\* Every call of send of a one-shot route that returns is given the reply to the first
\* call's input (loadInternal of once.ts resolves once).
RepliesAreToTheFirst == \A k \in O!Calls : result[k] # O!None => result[k] = 1

\* It holds for any number of calls, so that only the first gets its own reply.
THEOREM OnlyTheFirstCallIsAnswered == RoutesSpec => []RepliesAreToTheFirst
<1>1. OInv => RepliesAreToTheFirst
  BY DEF OInv, FirstCallOnly, RepliesAreToTheFirst
<1> QED
  BY <1>1, RoutesParts, OnceInvariant, PTL

\* What send of a streaming route accepted is, in order, what the other side handled or
\* its codec or schema refused, and what is on its way: the push that mapService.ts
\* makes after the ACK, without looking, is never refused by a full buffer.
THEOREM AcceptedIsNotLost == RoutesSpec => []AcceptedIsHandled
<1>1. InOrder => AcceptedIsHandled
  BY DEF InOrder, OnTheWay, AcceptedIsHandled, S!AcceptedIsHandled
<1> QED
  BY <1>1, RoutesParts, StreamInvariant, PTL
=============================================================================
