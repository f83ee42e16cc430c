-------------------------- MODULE QueryRouteProofs --------------------------
(***************************************************************************)
(* Proofs about QueryRoute for every buffer size and any number of calls:  *)
(* its types, that replies are paired with their requests until something  *)
(* is lost and in order whatever is lost, that nothing is lost when the    *)
(* calls left unanswered fit the buffers, and that no reply comes          *)
(* unclaimed.                                                              *)
(***************************************************************************)
EXTENDS QueryRoute, SequenceTheorems, TLAPS

\* At most one message of a side is on its way and the handler works on at most
\* one request; while stream awaits pull nothing is on its way.
OneAtATime ==
  /\ \A s \in Sides : Len(msg[s]) <= 1
  /\ \A s \in Sides : pulling[s] => msg[s] = <<>>
  /\ Len(handling) <= 1
  /\ Len(takers) <= Window

QInv == TypeOK /\ OneAtATime

-----------------------------------------------------------------------------
\* A sequence of at most one element that is not empty is its head.
LEMMA Singleton ==
  ASSUME NEW S, NEW a \in Seq(S), Len(a) <= 1, a # <<>>
  PROVE  Head(a) \in S /\ a = <<Head(a)>> /\ Len(a) = 1
<1>1. Head(a) \in S /\ a = <<Head(a)>>
  OBVIOUS
<1>2. Len(a) \in Nat /\ Len(a) # 0
  BY EmptySeq, LenProperties
<1> QED
  BY <1>1, <1>2

\* A sequence is its head and its tail.
LEMMA HeadAndTail ==
  ASSUME NEW S, NEW a \in Seq(S), a # <<>>
  PROVE  /\ Head(a) \in S
         /\ Tail(a) \in Seq(S)
         /\ Len(Tail(a)) = Len(a) - 1
         /\ a = <<Head(a)>> \o Tail(a)
<1>1. Head(a) \in S /\ Tail(a) \in Seq(S) /\ Len(Tail(a)) = Len(a) - 1
  BY HeadTailProperties
<1>2. <<Head(a)>> \in Seq(S) /\ Len(<<Head(a)>>) = 1 /\ <<Head(a)>>[1] = Head(a)
  BY <1>1
<1>3. /\ <<Head(a)>> \o Tail(a) \in Seq(S)
      /\ Len(<<Head(a)>> \o Tail(a)) = Len(a)
  BY <1>1, <1>2, ConcatProperties, LenProperties
<1>4. \A i \in 1 .. Len(a) : a[i] = (<<Head(a)>> \o Tail(a))[i]
  <2> TAKE i \in 1 .. Len(a)
  <2>1. (<<Head(a)>> \o Tail(a))[i] = IF i <= 1 THEN <<Head(a)>>[i] ELSE Tail(a)[i - 1]
    BY <1>1, <1>2, ConcatProperties, LenProperties
  <2>2. CASE i = 1
    BY <1>2, <2>1, <2>2
  <2>3. CASE i # 1
    <3>1. i - 1 \in 1 .. Len(Tail(a)) /\ Len(a) \in Nat
      BY <1>1, <2>3, LenProperties
    <3>2. Tail(a)[i - 1] = a[i]
      BY <3>1, HeadTailProperties
    <3> QED
      BY <2>1, <2>3, <3>1, <3>2
  <2> QED
    BY <2>2, <2>3
<1> QED
  BY <1>1, <1>3, <1>4, SeqEqual

\* Three sequences in a row.
LEMMA Three ==
  ASSUME NEW S, NEW a \in Seq(S), NEW b \in Seq(S), NEW c \in Seq(S)
  PROVE  /\ b \o c \in Seq(S)
         /\ a \o (b \o c) \in Seq(S)
         /\ Len(a \o (b \o c)) = Len(a) + Len(b) + Len(c)
<1>1. b \o c \in Seq(S) /\ Len(b \o c) = Len(b) + Len(c)
  BY ConcatProperties
<1>2. a \o (b \o c) \in Seq(S) /\ Len(a \o (b \o c)) = Len(a) + Len(b \o c)
  BY <1>1, ConcatProperties
<1> QED
  BY <1>1, <1>2, LenProperties

\* What moves from the front of a sequence to the end of the one before it stays
\* where it is in the two together.
LEMMA Shift ==
  ASSUME NEW S, NEW a \in Seq(S), NEW b \in Seq(S), NEW x \in S
  PROVE  /\ Append(a, x) \in Seq(S)
         /\ <<x>> \o b \in Seq(S)
         /\ Append(a, x) \o b = a \o (<<x>> \o b)
<1>1. <<x>> \in Seq(S) /\ Append(a, x) \in Seq(S) /\ Append(a, x) = a \o <<x>>
  BY AppendIsConcat, AppendProperties
<1>2. <<x>> \o b \in Seq(S)
  BY <1>1, ConcatProperties
<1>3. (a \o <<x>>) \o b = a \o (<<x>> \o b)
  BY <1>1, ConcatAssociative
<1> QED
  BY <1>1, <1>2, <1>3

\* The same in front of a third sequence.
LEMMA ShiftBefore ==
  ASSUME NEW S, NEW a \in Seq(S), NEW b \in Seq(S), NEW c \in Seq(S), NEW x \in S
  PROVE  Append(a, x) \o (b \o c) = a \o ((<<x>> \o b) \o c)
<1>1. <<x>> \in Seq(S) /\ b \o c \in Seq(S)
  BY ConcatProperties
<1>2. Append(a, x) \o (b \o c) = a \o (<<x>> \o (b \o c))
  BY <1>1, Shift
<1>3. (<<x>> \o b) \o c = <<x>> \o (b \o c)
  BY <1>1, ConcatAssociative
<1> QED
  BY <1>2, <1>3

\* Appending to the last sequence appends to all of them together.
LEMMA AppendLast ==
  ASSUME NEW S, NEW a \in Seq(S), NEW b \in Seq(S), NEW x \in S
  PROVE  a \o Append(b, x) = Append(a \o b, x)
<1>1. <<x>> \in Seq(S) /\ a \o b \in Seq(S) /\ Append(b, x) = b \o <<x>>
  BY ConcatProperties, AppendIsConcat
<1>2. Append(a \o b, x) = (a \o b) \o <<x>>
  BY <1>1, AppendIsConcat
<1>3. (a \o b) \o <<x>> = a \o (b \o <<x>>)
  BY <1>1, ConcatAssociative
<1> QED
  BY <1>1, <1>2, <1>3

\* What is first in three sequences leaves their concatenation by its head.
LEMMA TakeFirst ==
  ASSUME NEW S, NEW a \in Seq(S), NEW b \in Seq(S), NEW x \in S
  PROVE  /\ Head((<<x>> \o a) \o b) = x
         /\ Tail((<<x>> \o a) \o b) = a \o b
<1>1. <<x>> \in Seq(S) /\ a \o b \in Seq(S)
  BY ConcatProperties
<1>2. (<<x>> \o a) \o b = <<x>> \o (a \o b)
  BY <1>1, ConcatAssociative
<1>3. ASSUME NEW c \in Seq(S)
      PROVE  Head(<<x>> \o c) = x /\ Tail(<<x>> \o c) = c
  <2>1. /\ <<x>> \o c \in Seq(S) /\ <<x>> \o c # <<>>
        /\ Len(<<x>> \o c) = 1 + Len(c)
        /\ \A i \in 1 .. 1 + Len(c) :
             (<<x>> \o c)[i] = IF i <= 1 THEN <<x>>[i] ELSE c[i - 1]
    BY <1>1, ConcatProperties
  <2>2. Len(c) \in Nat
    BY LenProperties
  <2>3. Head(<<x>> \o c) = x
    BY <2>1, <2>2
  <2>4. /\ Tail(<<x>> \o c) \in Seq(S)
        /\ Len(Tail(<<x>> \o c)) = Len(c)
        /\ \A i \in 1 .. Len(c) : Tail(<<x>> \o c)[i] = (<<x>> \o c)[i + 1]
    BY <2>1, <2>2, HeadTailProperties
  <2>5. \A i \in 1 .. Len(c) : Tail(<<x>> \o c)[i] = c[i]
    BY <2>1, <2>2, <2>4
  <2> QED
    BY <2>3, <2>4, <2>5, SeqEqual
<1> QED
  BY <1>1, <1>2, <1>3

\* The parts a pipeline is made of.
LEMMA Parts ==
  ASSUME TypeOK
  PROVE  /\ \A s \in Sides : Outgoing(s) \in Seq(Queries)
         /\ \A s \in Sides : Len(Outgoing(s)) = Len(msg[s]) + Len(internal[s])
         /\ Serving \in Seq(Queries)
         /\ Len(Serving) = Len(handling) + Len(external)
         /\ Serving \o Outgoing(Client) \in Seq(Queries)
         /\ Pipeline \in Seq(Queries)
         /\ Len(Pipeline) = Len(Outgoing(Server)) + Len(Serving) + Len(Outgoing(Client))
<1>1. /\ \A s \in Sides : msg[s] \in Seq(Queries) /\ internal[s] \in Seq(Queries)
      /\ handling \in Seq(Queries) /\ external \in Seq(Queries)
  BY DEF TypeOK
<1>2. /\ \A s \in Sides : Outgoing(s) \in Seq(Queries)
      /\ \A s \in Sides : Len(Outgoing(s)) = Len(msg[s]) + Len(internal[s])
  BY <1>1, ConcatProperties DEF Outgoing
<1>3. Serving \in Seq(Queries) /\ Len(Serving) = Len(handling) + Len(external)
  BY <1>1, ConcatProperties DEF Serving
<1>4. Outgoing(Client) \in Seq(Queries) /\ Outgoing(Server) \in Seq(Queries)
  BY <1>2 DEF Sides
<1>5. /\ Serving \o Outgoing(Client) \in Seq(Queries)
      /\ Pipeline \in Seq(Queries)
      /\ Len(Pipeline) = Len(Outgoing(Server)) + Len(Serving) + Len(Outgoing(Client))
  <2> DEFINE a == Outgoing(Server)
             b == Serving
             c == Outgoing(Client)
  <2>1. a \in Seq(Queries) /\ b \in Seq(Queries) /\ c \in Seq(Queries)
    BY <1>3, <1>4
  <2>2. /\ b \o c \in Seq(Queries)
        /\ a \o (b \o c) \in Seq(Queries)
        /\ Len(a \o (b \o c)) = Len(a) + Len(b) + Len(c)
    <3> HIDE DEF a, b, c
    <3> QED
      BY <2>1, Three
  <2> QED
    BY <2>2 DEF Pipeline
<1> QED
  BY <1>2, <1>3, <1>5, Zenon
-----------------------------------------------------------------------------
\* A load appends to the side's buffer, if there is room.
LEMMA LoadEffect ==
  ASSUME TypeOK, NEW s \in Sides, NEW q \in Queries, LoadInternal(s, q)
  PROVE  /\ internal' \in [Sides -> Seq(Queries)]
         /\ \A o \in Sides : o # s => internal'[o] = internal[o]
         /\ Len(internal'[s]) <= Len(internal[s]) + 1
         /\ Len(internal'[s]) <= (IF s = Client THEN ClientBuffer ELSE ServerBuffer) + 1
         /\ Len(internal[s]) < InternalRoom(s) => internal'[s] = Append(internal[s], q)
<1>1. internal \in [Sides -> Seq(Queries)] /\ internal[s] \in Seq(Queries)
  BY DEF TypeOK
<1>2. /\ Len(internal[s]) <= (IF s = Client THEN ClientBuffer ELSE ServerBuffer) + 1
      /\ InternalRoom(s) <= (IF s = Client THEN ClientBuffer ELSE ServerBuffer) + 1
      /\ InternalRoom(s) \in Nat
      /\ (IF s = Client THEN ClientBuffer ELSE ServerBuffer) \in Nat
  BY QueryAssumption DEF TypeOK, Sides, Client, Server, InternalRoom
<1>3. /\ Append(internal[s], q) \in Seq(Queries)
      /\ Len(Append(internal[s], q)) = Len(internal[s]) + 1
      /\ Len(internal[s]) \in Nat
  BY <1>1
<1>4. CASE Len(internal[s]) < InternalRoom(s)
  <2>1. internal' = [internal EXCEPT ![s] = Append(internal[s], q)]
    BY <1>4 DEF LoadInternal
  <2> QED
    BY <1>1, <1>2, <1>3, <1>4, <2>1
<1>5. CASE ~(Len(internal[s]) < InternalRoom(s))
  <2>1. internal' = internal
    BY <1>5 DEF LoadInternal
  <2> QED
    BY <1>1, <1>2, <1>3, <1>5, <2>1
<1> QED
  BY <1>4, <1>5

\* The types of what the steps read, once for all of them.
LEMMA Lengths ==
  ASSUME QInv
  PROVE  /\ \A s \in Sides : Len(msg[s]) \in Nat /\ Len(internal[s]) \in Nat
         /\ Len(msg[Server]) \in Nat /\ Len(internal[Server]) \in Nat
         /\ Len(msg[Client]) \in Nat /\ Len(internal[Client]) \in Nat
         /\ Len(handling) \in Nat /\ Len(external) \in Nat /\ Len(takers) \in Nat
         /\ Client \in Sides /\ Server \in Sides /\ Client # Server
         /\ ClientBuffer \in Nat /\ ServerBuffer \in Nat /\ Window \in Nat
         /\ MaxQueries \in Nat
         /\ Sides = {Client, Server}
  BY QueryAssumption DEF QInv, TypeOK, Sides, Client, Server

\* The types of the variables.
LEMMA TypesOf ==
  ASSUME QInv
  PROVE  /\ asked \in 0 .. MaxQueries
         /\ takers \in Seq(Queries)
         /\ answer \in [Queries -> 0 .. MaxQueries]
         /\ internal \in [Sides -> Seq(Queries)]
         /\ msg \in [Sides -> Seq(Queries)]
         /\ pulling \in [Sides -> BOOLEAN]
         /\ external \in Seq(Queries)
         /\ handling \in Seq(Queries)
         /\ nulls \subseteq Queries
         /\ <<>> \in Seq(Queries)
  BY DEF QInv, TypeOK

LEMMA QInit == Init => QInv
<1> SUFFICES ASSUME Init PROVE QInv
  OBVIOUS
<1>1. TypeOK
  BY QueryAssumption DEF Init, TypeOK, Queries, Sides, Client, Server
<1>2. OneAtATime
  BY QueryAssumption DEF Init, OneAtATime, Sides, Client, Server
<1> QED
  BY <1>1, <1>2 DEF QInv

LEMMA QueryKeeps == QInv /\ Query => QInv'
<1> SUFFICES ASSUME QInv, Query PROVE QInv'
  OBVIOUS
<1> DEFINE q == asked + 1
<1>1. /\ q \in Queries /\ asked' = q /\ takers' = Append(takers, q)
      /\ Len(takers) < Window
      /\ LoadInternal(Client, q)
      /\ refused' \subseteq Queries
      /\ UNCHANGED <<answer, msg, pulling, external, handling, nulls, session>>
  BY QueryAssumption DEF QInv, TypeOK, Query, Queries
<1>2. /\ internal' \in [Sides -> Seq(Queries)]
      /\ internal'[Server] = internal[Server]
      /\ Len(internal'[Client]) <= Len(internal[Client]) + 1
      /\ Len(internal'[Client]) <= ClientBuffer + 1
  BY <1>1, LoadEffect, Lengths DEF QInv
<1>3. /\ takers' \in Seq(Queries) /\ Len(takers') = Len(takers) + 1
  BY <1>1 DEF QInv, TypeOK
<1>4. TypeOK'
  BY SMTT(40), <1>1, <1>2, <1>3, Lengths DEF QInv, TypeOK, Queries
<1>5. OneAtATime'
  BY <1>1, <1>3, Lengths DEF QInv, OneAtATime
<1> QED
  BY <1>4, <1>5 DEF QInv

LEMMA HandlerStartsKeeps == QInv /\ HandlerStarts => QInv'
<1> SUFFICES ASSUME QInv, HandlerStarts PROVE QInv'
  OBVIOUS
<1>1. external \in Seq(Queries) /\ external # <<>> /\ handling = <<>>
  BY DEF QInv, TypeOK, HandlerStarts
<1>2. /\ Head(external) \in Queries /\ Tail(external) \in Seq(Queries)
      /\ Len(Tail(external)) = Len(external) - 1
  BY <1>1, HeadAndTail
<1>3. /\ handling' = <<Head(external)>> /\ handling' \in Seq(Queries) /\ Len(handling') = 1
      /\ external' = Tail(external)
      /\ UNCHANGED <<asked, takers, answer, refused, internal, msg, pulling, nulls, session>>
  BY <1>2 DEF HandlerStarts
<1>4. TypeOK'
  BY <1>2, <1>3, Lengths, SMTT(40) DEF QInv, TypeOK
<1>5. OneAtATime'
  BY <1>3 DEF QInv, OneAtATime
<1> QED
  BY <1>4, <1>5 DEF QInv

LEMMA HandlerRepliesKeeps == QInv /\ HandlerReplies => QInv'
<1> SUFFICES ASSUME QInv, HandlerReplies PROVE QInv'
  OBVIOUS
<1>1. handling \in Seq(Queries) /\ handling # <<>> /\ Len(handling) <= 1
  BY DEF QInv, TypeOK, OneAtATime, HandlerReplies
<1>2. Head(handling) \in Queries /\ <<>> \in Seq(Queries)
  BY <1>1
<1>3. /\ LoadInternal(Server, Head(handling)) \/ UNCHANGED internal
      /\ handling' = <<>>
      /\ nulls' \subseteq Queries
      /\ UNCHANGED <<asked, takers, answer, refused, msg, pulling, external, session>>
  BY <1>2 DEF HandlerReplies, QInv, TypeOK
<1>4. /\ internal' \in [Sides -> Seq(Queries)]
      /\ internal'[Client] = internal[Client]
      /\ Len(internal'[Server]) <= Len(internal[Server]) + 1
      /\ Len(internal'[Server]) <= ServerBuffer + 1
  <2>1. CASE LoadInternal(Server, Head(handling))
    BY <1>2, <2>1, LoadEffect, Lengths DEF QInv
  <2>2. CASE UNCHANGED internal
    BY <2>2, Lengths DEF QInv, TypeOK
  <2> QED
    BY <1>3, <2>1, <2>2
<1>5. TypeOK'
  BY <1>2, <1>3, <1>4, Lengths, SMTT(40) DEF QInv, TypeOK
<1>6. OneAtATime'
  BY <1>3 DEF QInv, OneAtATime
<1> QED
  BY <1>5, <1>6 DEF QInv

LEMMA PullKeeps == ASSUME QInv, NEW s \in Sides, Pull(s) PROVE QInv'
<1>1. internal[s] \in Seq(Queries) /\ internal[s] # <<>>
  BY TypesOf DEF Pull
<1>2. /\ Head(internal[s]) \in Queries /\ Tail(internal[s]) \in Seq(Queries)
      /\ Len(Tail(internal[s])) = Len(internal[s]) - 1
  BY <1>1, HeadAndTail
<1>3. /\ internal' = [internal EXCEPT ![s] = Tail(internal[s])]
      /\ UNCHANGED <<asked, takers, answer, refused, external, handling, nulls>>
  BY DEF Pull
<1>4. \/ /\ session' \in {"open", "ended", "cancelled"} /\ msg' = msg /\ pulling' = pulling
      \/ /\ session' = session
         /\ msg' = [msg EXCEPT ![s] = <<Head(internal[s])>>]
         /\ pulling' = [pulling EXCEPT ![s] = FALSE]
  BY DEF Pull
<1>5. <<Head(internal[s])>> \in Seq(Queries) /\ Len(<<Head(internal[s])>>) = 1
  BY <1>2
<1>6. msg' \in [Sides -> Seq(Queries)] /\ pulling' \in [Sides -> BOOLEAN]
  BY <1>4, <1>5, TypesOf
<1>7. /\ internal' \in [Sides -> Seq(Queries)]
      /\ Len(internal'[Client]) <= ClientBuffer + 1
      /\ Len(internal'[Server]) <= ServerBuffer + 1
  <2>1. Len(internal[Client]) <= ClientBuffer + 1 /\ Len(internal[Server]) <= ServerBuffer + 1
    BY DEF QInv, TypeOK
  <2>2. /\ internal' \in [Sides -> Seq(Queries)]
        /\ \A o \in Sides : o # s => internal'[o] = internal[o]
        /\ internal'[s] = Tail(internal[s])
    BY <1>2, <1>3, TypesOf
  <2>3. \A o \in Sides : Len(internal'[o]) <= Len(internal[o])
    <3> TAKE o \in Sides
    <3>1. CASE o = s
      BY <1>2, <2>2, <3>1, Lengths
    <3>2. CASE o # s
      BY <2>2, <3>2, Lengths
    <3> QED
      BY <3>1, <3>2
  <2>4. Len(internal'[Client]) \in Nat /\ Len(internal'[Server]) \in Nat
    BY <2>2, Lengths
  <2> QED
    <3>1. Len(internal'[Client]) <= Len(internal[Client]) /\ Len(internal'[Server]) <= Len(internal[Server])
      BY <2>3, Lengths
    <3> DEFINE u == Len(internal[Client])
               v == Len(internal[Server])
               x == Len(internal'[Client])
               y == Len(internal'[Server])
    <3>2. u \in Nat /\ v \in Nat /\ x \in Nat /\ y \in Nat /\ ClientBuffer \in Nat /\ ServerBuffer \in Nat
      BY <2>4, Lengths
    <3>3. x <= ClientBuffer + 1 /\ y <= ServerBuffer + 1
      <4>1. u <= ClientBuffer + 1 /\ v <= ServerBuffer + 1 /\ x <= u /\ y <= v
        BY <2>1, <3>1
      <4> HIDE DEF u, v, x, y
      <4> QED
        BY <3>2, <4>1
    <3> QED
      BY <2>2, <3>3
<1>8. TypeOK'
  <2>1. session' \in {"open", "ended", "cancelled"}
    BY <1>4 DEF QInv, TypeOK
  <2>2. UNCHANGED <<asked, takers, answer, refused, external, handling, nulls>>
    BY <1>3
  <2> QED
    BY <1>6, <1>7, <2>1, <2>2 DEF QInv, TypeOK
<1>9. OneAtATime'
  <2>1. \A o \in Sides : Len(msg[o]) <= 1 /\ (pulling[o] => msg[o] = <<>>)
    BY DEF QInv, OneAtATime
  <2>2. \A o \in Sides : Len(msg'[o]) <= 1 /\ (pulling'[o] => msg'[o] = <<>>)
    <3> TAKE o \in Sides
    <3>1. CASE msg' = msg /\ pulling' = pulling
      BY <2>1, <3>1
    <3>2. CASE /\ msg' = [msg EXCEPT ![s] = <<Head(internal[s])>>]
               /\ pulling' = [pulling EXCEPT ![s] = FALSE]
      <4>1. CASE o = s
        <5>1. msg'[o] = <<Head(internal[s])>> /\ ~pulling'[o]
          BY <3>2, <4>1, TypesOf
        <5> QED
          BY <1>5, <5>1
      <4>2. CASE o # s
        <5>1. msg'[o] = msg[o] /\ pulling'[o] = pulling[o]
          BY <3>2, <4>2, TypesOf
        <5> QED
          BY <2>1, <5>1
      <4> QED
        BY <4>1, <4>2
    <3> QED
      BY <1>4, <3>1, <3>2
  <2> QED
    BY <1>3, <2>2 DEF QInv, OneAtATime
<1> QED
  BY <1>8, <1>9 DEF QInv

LEMMA ReceiveKeeps == ASSUME QInv, NEW s \in Sides, Receive(s) PROVE QInv'
<1>1. /\ msg[s] \in Seq(Queries) /\ msg[s] # <<>> /\ msg' = [msg EXCEPT ![s] = <<>>]
      /\ UNCHANGED <<asked, refused, internal, pulling, handling, nulls, session>>
  BY TypesOf DEF Receive
<1>2. Head(msg[s]) \in Queries
  BY <1>1
<1>3. msg' \in [Sides -> Seq(Queries)] /\ \A o \in Sides : Len(msg'[o]) <= 1
  BY <1>1, TypesOf DEF QInv, OneAtATime
<1>4. /\ external' \in Seq(Queries) /\ Len(external') <= ServerBuffer + 1
      /\ takers' \in Seq(Queries) /\ Len(takers') <= Window
      /\ answer' \in [Queries -> 0 .. MaxQueries]
  <2>0. /\ Len(external) <= ServerBuffer + 1 /\ Len(takers) <= Window
        /\ Queries = 1 .. MaxQueries
    BY DEF QInv, TypeOK, OneAtATime, Queries
  <2>1. CASE UNCHANGED <<takers, answer, external>>
    BY <2>0, <2>1, TypesOf
  <2>2. CASE Reply(Head(msg[s])) /\ UNCHANGED external
    <3>1. Head(takers) \in Queries /\ Tail(takers) \in Seq(Queries) /\ Len(Tail(takers)) = Len(takers) - 1
      BY <2>2, TypesOf, HeadAndTail DEF Reply
    <3>2. takers' = Tail(takers) /\ answer' = [answer EXCEPT ![Head(takers)] = Head(msg[s])]
      BY <2>2 DEF Reply
    <3>3. Len(takers') <= Window
      BY <2>0, <3>1, <3>2, Lengths
    <3>4. answer' \in [Queries -> 0 .. MaxQueries]
      BY <1>2, <2>0, <3>1, <3>2, TypesOf
    <3> QED
      BY <2>0, <2>2, <3>1, <3>2, <3>3, <3>4, TypesOf
  <2>3. CASE /\ external' = IF Len(external) < ExternalRoom THEN Append(external, Head(msg[s])) ELSE external
             /\ UNCHANGED <<takers, answer>>
    <3>1. ExternalRoom \in Nat /\ ExternalRoom <= ServerBuffer + 1
      BY Lengths DEF ExternalRoom
    <3>2. Append(external, Head(msg[s])) \in Seq(Queries)
          /\ Len(Append(external, Head(msg[s]))) = Len(external) + 1
      BY <1>2, TypesOf
    <3>3. CASE Len(external) < ExternalRoom
      <4>1. external' = Append(external, Head(msg[s]))
        BY <2>3, <3>3
      <4>2. Len(external) + 1 <= ServerBuffer + 1
        BY <3>1, <3>3, Lengths
      <4> QED
        BY <2>0, <2>3, <3>2, <4>1, <4>2, TypesOf
    <3>4. CASE ~(Len(external) < ExternalRoom)
      <4>1. external' = external
        BY <2>3, <3>4
      <4> QED
        BY <2>0, <2>3, <4>1, TypesOf
    <3> QED
      BY <3>3, <3>4
  <2> QED
    BY <2>1, <2>2, <2>3 DEF Receive, Push
<1>5. TypeOK'
  BY <1>1, <1>3, <1>4 DEF QInv, TypeOK
<1>6. OneAtATime'
  BY <1>1, <1>3, <1>4, TypesOf DEF QInv, OneAtATime
<1> QED
  BY <1>5, <1>6 DEF QInv

LEMMA AcknowledgedKeeps == ASSUME QInv, NEW s \in Sides, Acknowledged(s) PROVE QInv'
<1>1. /\ msg[s] = <<>> /\ pulling' = [pulling EXCEPT ![s] = TRUE]
      /\ UNCHANGED <<asked, takers, answer, refused, internal, msg, external, handling, nulls, session>>
  BY DEF Acknowledged
<1>2. TypeOK'
  BY <1>1 DEF QInv, TypeOK
<1>3. OneAtATime'
  BY <1>1, TypesOf DEF QInv, OneAtATime
<1> QED
  BY <1>2, <1>3 DEF QInv

LEMMA EndKeeps == QInv /\ (SessionEnds \/ UNCHANGED queryVars) => QInv'
<1> SUFFICES ASSUME QInv, SessionEnds \/ UNCHANGED queryVars PROVE QInv'
  OBVIOUS
<1>1. /\ session' \in {"open", "ended", "cancelled"}
      /\ UNCHANGED <<asked, takers, answer, refused, internal, msg, pulling, external, handling, nulls>>
  BY DEF SessionEnds, queryVars, QInv, TypeOK
<1>2. TypeOK'
  BY <1>1 DEF QInv, TypeOK
<1>3. OneAtATime'
  BY <1>1 DEF QInv, OneAtATime
<1> QED
  BY <1>2, <1>3 DEF QInv

LEMMA QStep == QInv /\ [Next]_queryVars => QInv'
<1> SUFFICES ASSUME QInv, [Next]_queryVars PROVE QInv'
  OBVIOUS
<1> QED
  BY QueryKeeps, HandlerStartsKeeps, HandlerRepliesKeeps, PullKeeps, ReceiveKeeps,
     AcknowledgedKeeps, EndKeeps DEF Next, Progress

\* For all buffer sizes, no buffer of either service is filled past its size and
\* every variable has its type, whatever ends the session or is ignored.
THEOREM QueryTypeCorrect == Spec => []TypeOK
<1>1. Init => QInv
  BY QInit
<1>2. QInv /\ [Next]_queryVars => QInv'
  BY QStep
<1>3. QInv => TypeOK
  BY DEF QInv
<1> QED
  BY <1>1, <1>2, <1>3, PTL DEF Spec

\* The types hold throughout a behaviour, for the proof below.
LEMMA QInvariant == Spec => []QInv
<1>1. Init => QInv
  BY QInit
<1>2. QInv /\ [Next]_queryVars => QInv'
  BY QStep
<1> QED
  BY <1>1, <1>2, PTL DEF Spec
-----------------------------------------------------------------------------
(***************************************************************************)
(* A step that loses nothing changes the pipeline as it changes the calls  *)
(* that wait: a reply that comes goes to the oldest of them.               *)
(***************************************************************************)
LEMMA QueryMatched ==
  ASSUME QInv, Query, Len(internal[Client]) < InternalRoom(Client)
  PROVE  Pipeline' = Append(Pipeline, asked + 1) /\ takers' = Append(takers, asked + 1)
<1> DEFINE q == asked + 1
<1>1. /\ q \in Queries /\ takers' = Append(takers, q) /\ Len(takers) < Window
      /\ LoadInternal(Client, q)
      /\ UNCHANGED <<answer, msg, pulling, external, handling, nulls, session>>
  BY QueryAssumption DEF QInv, TypeOK, Query, Queries
<1>4. /\ internal'[Client] = Append(internal[Client], q)
      /\ internal'[Server] = internal[Server]
  BY <1>1, LoadEffect, Lengths DEF QInv
<1>5. Outgoing(Client)' = Append(Outgoing(Client), q)
  <2> DEFINE u == msg[Client]
             v == internal[Client]
  <2>1. u \in Seq(Queries) /\ v \in Seq(Queries) /\ q \in Queries
    BY <1>1, TypesOf, Lengths
  <2>2. u \o Append(v, q) = Append(u \o v, q)
    <3> HIDE DEF u, v, q
    <3> QED
      BY <2>1, AppendLast
  <2> QED
    BY <1>1, <1>4, <2>2 DEF Outgoing
<1>6. Outgoing(Server)' = Outgoing(Server) /\ Serving' = Serving
  BY <1>1, <1>4 DEF Outgoing, Serving
<1>7. /\ Outgoing(Client) \in Seq(Queries) /\ Outgoing(Server) \in Seq(Queries)
      /\ Serving \in Seq(Queries) /\ Serving \o Outgoing(Client) \in Seq(Queries)
  BY Parts, Lengths DEF QInv
<1>8. Serving \o Append(Outgoing(Client), q) = Append(Serving \o Outgoing(Client), q)
  BY <1>1, <1>7, AppendLast
<1>9. Outgoing(Server) \o Append(Serving \o Outgoing(Client), q)
        = Append(Outgoing(Server) \o (Serving \o Outgoing(Client)), q)
  BY <1>1, <1>7, AppendLast
<1> QED
  BY <1>1, <1>5, <1>6, <1>8, <1>9 DEF Pipeline

LEMMA HandlerStartsMatched ==
  ASSUME QInv, HandlerStarts
  PROVE  Pipeline' = Pipeline /\ takers' = takers
<1>1. /\ handling = <<>> /\ external # <<>> /\ external \in Seq(Queries)
      /\ handling' = <<Head(external)>> /\ external' = Tail(external)
      /\ UNCHANGED <<takers, internal, msg, session>>
  BY TypesOf DEF HandlerStarts
<1>2. Serving' = Serving
  <2>1. external = <<Head(external)>> \o Tail(external)
    BY <1>1, HeadAndTail
  <2>2. <<>> \o external = external
    BY <1>1, ConcatEmptySeq
  <2> QED
    BY <1>1, <2>1, <2>2 DEF Serving
<1>3. Outgoing(Server)' = Outgoing(Server) /\ Outgoing(Client)' = Outgoing(Client)
  BY <1>1 DEF Outgoing
<1> QED
  BY <1>1, <1>2, <1>3 DEF Pipeline

\* The handler's reply is loaded: it neither rejected nor is the buffer full.
Replied ==
  LoadInternal(Server, Head(handling)) /\ Len(internal[Server]) < InternalRoom(Server)

\* Otherwise the request is lost where it is.
LEMMA NotReplied == HandlerReplies /\ ~Replied => internal' = internal
  BY DEF HandlerReplies, Replied, LoadInternal

LEMMA HandlerRepliesMatched ==
  ASSUME QInv, HandlerReplies, Replied
  PROVE  Pipeline' = Pipeline /\ takers' = takers
<1> DEFINE h == Head(handling)
           a == Outgoing(Server)
           c == Outgoing(Client)
<1>1. /\ handling # <<>> /\ LoadInternal(Server, h) /\ handling' = <<>>
      /\ UNCHANGED <<takers, msg, pulling, external, session>>
  BY DEF HandlerReplies, Replied
<1>2. Len(handling) <= 1 /\ handling \in Seq(Queries)
  BY TypesOf DEF QInv, OneAtATime
<1>3. h \in Queries /\ handling = <<h>>
  BY <1>1, <1>2, Singleton
<1>6. /\ internal'[Server] = Append(internal[Server], h)
      /\ internal'[Client] = internal[Client]
  BY <1>1, <1>3, LoadEffect, Lengths DEF QInv, Replied
<1>7. a' = Append(a, h) /\ c' = c
  <2> DEFINE u == msg[Server]
             v == internal[Server]
  <2>1. u \in Seq(Queries) /\ v \in Seq(Queries) /\ h \in Queries
    BY <1>3, TypesOf, Lengths
  <2>2. u \o Append(v, h) = Append(u \o v, h)
    <3> HIDE DEF u, v, h
    <3> QED
      BY <2>1, AppendLast
  <2> QED
    BY <1>1, <1>6, <2>2 DEF Outgoing
<1>8. Serving' = external /\ Serving = <<h>> \o external
  BY <1>1, <1>3, TypesOf, ConcatEmptySeq DEF Serving
<1>9. a \in Seq(Queries) /\ c \in Seq(Queries) /\ external \in Seq(Queries)
  BY Parts, Lengths, TypesOf DEF QInv
<1>10. Append(a, h) \o (external \o c) = a \o ((<<h>> \o external) \o c)
  <2> HIDE DEF a, c, h
  <2> QED
    BY <1>3, <1>9, ShiftBefore
<1> QED
  BY <1>1, <1>7, <1>8, <1>10 DEF Pipeline

LEMMA PullMatched ==
  ASSUME QInv, NEW s \in Sides, Pull(s), session' = "open"
  PROVE  Pipeline' = Pipeline /\ takers' = takers
<1>1. /\ session = "open" /\ pulling[s] /\ internal[s] # <<>> /\ internal[s] \in Seq(Queries)
      /\ internal' = [internal EXCEPT ![s] = Tail(internal[s])]
      /\ msg' = [msg EXCEPT ![s] = <<Head(internal[s])>>]
      /\ UNCHANGED <<takers, external, handling>>
  BY TypesOf DEF Pull
<1>2. msg[s] = <<>>
  BY <1>1 DEF QInv, OneAtATime
<1>3. internal[s] = <<Head(internal[s])>> \o Tail(internal[s])
  BY <1>1, HeadAndTail
<1>4. <<>> \o internal[s] = internal[s]
  BY <1>1, ConcatEmptySeq
<1>5. \A o \in Sides : Outgoing(o)' = Outgoing(o)
  <2> TAKE o \in Sides
  <2>1. CASE o = s
    BY <1>1, <1>2, <1>3, <1>4, <2>1, TypesOf DEF Outgoing
  <2>2. CASE o # s
    BY <1>1, <2>2, TypesOf DEF Outgoing
  <2> QED
    BY <2>1, <2>2
<1>6. Serving' = Serving
  BY <1>1 DEF Serving
<1> QED
  BY <1>1, <1>5, <1>6, Lengths DEF Pipeline

LEMMA ReceiveClientMatched ==
  ASSUME QInv, Receive(Client),
         Push(Client, Head(msg[Client])), Len(external) < ExternalRoom
  PROVE  Pipeline' = Pipeline /\ takers' = takers
<1> DEFINE m == Head(msg[Client])
           i == internal[Client]
<1>1. /\ session = "open" /\ msg[Client] # <<>> /\ Len(msg[Client]) <= 1
      /\ msg[Client] \in Seq(Queries) /\ i \in Seq(Queries)
      /\ msg' = [msg EXCEPT ![Client] = <<>>]
      /\ UNCHANGED <<internal, handling, session>>
  BY TypesOf, Lengths DEF Receive, QInv, OneAtATime
<1>2. m \in Queries /\ msg[Client] = <<m>>
  BY <1>1, Singleton
<1>5. external' = Append(external, m) /\ takers' = takers
  BY Lengths DEF Push
<1>6. /\ Outgoing(Server)' = Outgoing(Server)
      /\ Outgoing(Client)' = i
      /\ Outgoing(Client) = <<m>> \o i
  BY <1>1, <1>2, TypesOf, Lengths, ConcatEmptySeq DEF Outgoing
<1>7. Serving' = Append(Serving, m)
  <2>1. Serving' = handling \o Append(external, m)
    BY <1>1, <1>5 DEF Serving
  <2>2. handling \in Seq(Queries) /\ external \in Seq(Queries)
    BY TypesOf
  <2>3. handling \o Append(external, m) = Append(handling \o external, m)
    <3> HIDE DEF m
    <3> QED
      BY <1>2, <2>2, AppendLast
  <2> QED
    BY <2>1, <2>3 DEF Serving
<1>8. Append(Serving, m) \o i = Serving \o (<<m>> \o i)
  <2>1. Serving \in Seq(Queries)
    BY Parts DEF QInv
  <2> HIDE DEF m, i
  <2> QED
    BY <1>1, <1>2, <2>1, Shift
<1> QED
  BY <1>5, <1>6, <1>7, <1>8 DEF Pipeline

\* What arrives at the client is the head of the pipeline.
LEMMA ReceiveServerTakes ==
  ASSUME QInv, Receive(Server),
         external' = external
  PROVE  /\ Pipeline' = Tail(Pipeline)
         /\ Head(Pipeline) = Head(msg[Server]) /\ Head(Pipeline) \in Queries
         /\ Pipeline = <<Head(Pipeline)>> \o Tail(Pipeline) /\ Pipeline # <<>>
<1> DEFINE m == Head(msg[Server])
           i == internal[Server]
           r == Serving \o Outgoing(Client)
<1>1. /\ session = "open" /\ msg[Server] # <<>> /\ Len(msg[Server]) <= 1
      /\ msg[Server] \in Seq(Queries) /\ i \in Seq(Queries)
      /\ msg' = [msg EXCEPT ![Server] = <<>>]
      /\ UNCHANGED <<internal, handling, session>>
  BY TypesOf, Lengths DEF Receive, QInv, OneAtATime
<1>2. m \in Queries /\ msg[Server] = <<m>>
  BY <1>1, Singleton
<1>5. /\ Outgoing(Client)' = Outgoing(Client)
      /\ Outgoing(Server)' = i
      /\ Outgoing(Server) = <<m>> \o i
  BY <1>1, <1>2, TypesOf, Lengths, ConcatEmptySeq DEF Outgoing
<1>6. Serving' = Serving
  BY <1>1 DEF Serving
<1>7. r \in Seq(Queries)
  BY Parts DEF QInv
<1>8. Head((<<m>> \o i) \o r) = m /\ Tail((<<m>> \o i) \o r) = i \o r
  <2> HIDE DEF m, i, r
  <2> QED
    BY <1>1, <1>2, <1>7, TakeFirst
<1>9. Head(Pipeline) = m /\ Tail(Pipeline) = i \o r
  BY <1>5, <1>8 DEF Pipeline
<1>10. Pipeline' = i \o r
  BY <1>5, <1>6 DEF Pipeline
<1>11. Pipeline = <<m>> \o (i \o r)
  <2>1. (<<m>> \o i) \o r = <<m>> \o (i \o r)
    <3>1. <<m>> \in Seq(Queries)
      BY <1>2
    <3> HIDE DEF m, i, r
    <3> QED
      BY <1>1, <1>7, <3>1, ConcatAssociative
  <2> QED
    BY <1>5, <2>1 DEF Pipeline
<1>12. Pipeline # <<>>
  <2>1. <<m>> \in Seq(Queries) /\ i \o r \in Seq(Queries) /\ Len(<<m>>) = 1
    <3> HIDE DEF r
    <3> QED
      BY <1>1, <1>2, <1>7, ConcatProperties
  <2>2. <<m>> \o (i \o r) # <<>>
    <3> DEFINE z == i \o r
    <3>1. z \in Seq(Queries) /\ Len(z) \in Nat
      BY <2>1, LenProperties
    <3>2. Len(<<m>> \o z) = 1 + Len(z)
      <4> HIDE DEF z, m
      <4> QED
        BY <2>1, <3>1, ConcatProperties
    <3>3. Len(<<>>) = 0
      OBVIOUS
    <3> QED
      BY <3>1, <3>2, <3>3
  <2> QED
    BY <1>11, <2>2
<1> QED
  BY <1>2, <1>9, <1>10, <1>11, <1>12

\* The reply goes to the head of takers, and it is the head of the pipeline.
LEMMA ReceiveServerMatched ==
  ASSUME QInv, Pipeline = takers, Receive(Server), Push(Server, Head(msg[Server]))
  PROVE  /\ (Pipeline = takers)'
         /\ \E q \in Queries : answer' = [answer EXCEPT ![q] = q]
<1>1. Reply(Head(msg[Server])) /\ external' = external
  BY Lengths DEF Push
<1>2. /\ Pipeline' = Tail(Pipeline) /\ Head(Pipeline) = Head(msg[Server])
      /\ Head(Pipeline) \in Queries
  BY <1>1, ReceiveServerTakes
<1> QED
  BY <1>1, <1>2 DEF Reply

-----------------------------------------------------------------------------
(***************************************************************************)
(* What is lost stays lost: no step brings the pipeline nearer to the      *)
(* calls that wait, and one that keeps the difference has found room.      *)
(***************************************************************************)
\* The calls that wait for a reply that is not on its way, and the pipeline's parts.
Waiting == Len(takers)
Lost == Waiting - Len(Pipeline)
Way == [s \in Sides |-> Len(msg[s]) + Len(internal[s])]
Work == Len(handling) + Len(external)

LEMMA LostIs ==
  TypeOK =>
         /\ Lost = Waiting - (Way[Server] + Work + Way[Client])
         /\ Waiting \in Nat /\ Way[Server] \in Nat /\ Way[Client] \in Nat /\ Work \in Nat
         /\ Len(Pipeline) \in Nat
<1> SUFFICES ASSUME TypeOK
             PROVE  /\ Lost = Waiting - (Way[Server] + Work + Way[Client])
                    /\ Waiting \in Nat /\ Way[Server] \in Nat /\ Way[Client] \in Nat
                    /\ Work \in Nat /\ Len(Pipeline) \in Nat
  OBVIOUS
<1>1. /\ Len(msg[Server]) \in Nat /\ Len(internal[Server]) \in Nat
      /\ Len(msg[Client]) \in Nat /\ Len(internal[Client]) \in Nat
      /\ Len(handling) \in Nat /\ Len(external) \in Nat /\ Len(takers) \in Nat
      /\ Client \in Sides /\ Server \in Sides
  BY DEF TypeOK, Sides
<1>2. /\ Way[Server] \in Nat /\ Way[Client] \in Nat /\ Work \in Nat
  <2>1. ASSUME NEW x \in Nat, NEW y \in Nat
        PROVE  x + y \in Nat
    OBVIOUS
  <2> QED
    BY <1>1, <2>1, Zenon DEF Way, Work
<1>3. Len(Pipeline) = Way[Server] + Work + Way[Client]
  BY <1>1, Parts DEF Way, Work
<1> QED
  BY <1>1, <1>2, <1>3 DEF Lost, Waiting

\* The difference before and after a step, of numbers.
LEMMA Balance ==
  ASSUME QInv, QInv'
  PROVE  /\ Lost' = Lost + (Waiting' - Waiting) - (Way'[Server] - Way[Server])
                       - (Way'[Client] - Way[Client]) - (Work' - Work)
         /\ Lost \in Int /\ Lost' \in Int
         /\ Waiting \in Nat /\ Way[Server] \in Nat /\ Way[Client] \in Nat /\ Work \in Nat
         /\ Waiting' \in Nat /\ Way'[Server] \in Nat /\ Way'[Client] \in Nat /\ Work' \in Nat
<1>1. TypeOK /\ TypeOK'
  BY DEF QInv
<1>2. /\ Lost = Waiting - (Way[Server] + Work + Way[Client])
      /\ Waiting \in Nat /\ Way[Server] \in Nat /\ Way[Client] \in Nat /\ Work \in Nat
  BY <1>1, LostIs
<1>3. TypeOK' => /\ (Lost = Waiting - (Way[Server] + Work + Way[Client]))'
                 /\ (Waiting \in Nat)' /\ (Way[Server] \in Nat)' /\ (Way[Client] \in Nat)'
                 /\ (Work \in Nat)'
  BY LostIs, PTL
<1> QED
  BY <1>1, <1>2, <1>3

\* What a side's way becomes when only its own sequences change.
LEMMA WayChanges ==
  ASSUME NEW s \in Sides,
         Len(msg[s]) \in Nat, Len(internal[s]) \in Nat,
         Len(msg'[s]) \in Nat, Len(internal'[s]) \in Nat,
         \A o \in Sides : o # s => msg'[o] = msg[o] /\ internal'[o] = internal[o]
  PROVE  /\ Way'[s] = Way[s] + (Len(msg'[s]) - Len(msg[s])) + (Len(internal'[s]) - Len(internal[s]))
         /\ Way[s] \in Nat
         /\ \A o \in Sides : o # s => Way'[o] = Way[o]
<1>1. \A o \in Sides : o # s => Way'[o] = Way[o]
  BY Zenon DEF Way
<1>2. Way'[s] = Len(msg'[s]) + Len(internal'[s]) /\ Way[s] = Len(msg[s]) + Len(internal[s])
  BY Zenon DEF Way
<1>3. /\ Way'[s] = Way[s] + (Len(msg'[s]) - Len(msg[s])) + (Len(internal'[s]) - Len(internal[s]))
      /\ Way[s] \in Nat
  <2> DEFINE x == Len(msg[s])
             y == Len(internal[s])
             u == Len(msg'[s])
             v == Len(internal'[s])
  <2>1. x \in Nat /\ y \in Nat /\ u \in Nat /\ v \in Nat /\ Way'[s] = u + v /\ Way[s] = x + y
    BY <1>2
  <2>2. Way'[s] = Way[s] + (u - x) + (v - y) /\ Way[s] \in Nat
    <3> HIDE DEF x, y, u, v
    <3> QED
      BY <2>1
  <2> QED
    BY <2>2
<1> QED
  BY <1>1, <1>3

\* A load adds the value or leaves everything as it is.
LEMMA LoadLength ==
  ASSUME QInv, NEW s \in Sides, NEW q \in Queries, LoadInternal(s, q), msg' = msg
  PROVE  /\ \A o \in Sides : o # s => Way'[o] = Way[o]
         /\ IF Len(internal[s]) < InternalRoom(s) THEN Way'[s] = Way[s] + 1 ELSE Way'[s] = Way[s]
<1>1. internal[s] \in Seq(Queries) /\ Len(internal[s]) \in Nat /\ Len(msg[s]) \in Nat
  BY TypesOf, Lengths
<1>2. \A o \in Sides : o # s => internal'[o] = internal[o]
  BY LoadEffect DEF QInv
<1>3. CASE Len(internal[s]) < InternalRoom(s)
  <2>1. internal'[s] = Append(internal[s], q)
    BY <1>3, LoadEffect DEF QInv
  <2>2. Len(internal'[s]) = Len(internal[s]) + 1
    BY <1>1, <2>1
  <2>3. /\ Way'[s] = Way[s] + (Len(msg'[s]) - Len(msg[s])) + (Len(internal'[s]) - Len(internal[s]))
        /\ Way[s] \in Nat
        /\ \A o \in Sides : o # s => Way'[o] = Way[o]
    <3>1. Len(msg'[s]) \in Nat /\ Len(internal'[s]) \in Nat
      BY <1>1, <2>2
    <3>2. \A o \in Sides : o # s => msg'[o] = msg[o] /\ internal'[o] = internal[o]
      BY <1>2
    <3> QED
      BY <1>1, <3>1, <3>2, WayChanges
  <2>4. Way'[s] = Way[s] + 1
    BY <1>1, <2>2, <2>3
  <2> QED
    BY <1>3, <2>3, <2>4, Zenon
<1>4. CASE ~(Len(internal[s]) < InternalRoom(s))
  <2>1. internal' = internal
    BY <1>4 DEF LoadInternal
  <2> QED
    BY <1>4, <2>1 DEF Way
<1> QED
  BY <1>3, <1>4

LEMMA QueryLoses ==
  ASSUME QInv, QInv', Query
  PROVE  Lost' >= Lost /\ (Lost' = Lost => Len(internal[Client]) < InternalRoom(Client))
<1> DEFINE q == asked + 1
<1>1. /\ q \in Queries /\ takers' = Append(takers, q)
      /\ LoadInternal(Client, q)
      /\ UNCHANGED <<msg, external, handling>>
  BY QueryAssumption DEF QInv, TypeOK, Query, Queries
<1>2. Waiting' = Waiting + 1
  BY <1>1, TypesOf DEF Waiting
<1>3. Work' = Work
  BY <1>1, Lengths DEF Work
<1>4. /\ Way'[Server] = Way[Server]
      /\ IF Len(internal[Client]) < InternalRoom(Client)
         THEN Way'[Client] = Way[Client] + 1 ELSE Way'[Client] = Way[Client]
  BY <1>1, LoadLength, Lengths
<1>5. Way[Server] \in Nat /\ Way[Client] \in Nat
  BY LostIs DEF QInv
<1>6. CASE Len(internal[Client]) < InternalRoom(Client)
  <2>1. Lost' = Lost /\ Lost \in Int
    BY <1>2, <1>3, <1>4, <1>5, <1>6, Balance
  <2> QED
    BY <1>6, <2>1
<1>7. CASE ~(Len(internal[Client]) < InternalRoom(Client))
  <2>1. Lost' = Lost + 1 /\ Lost \in Int
    BY <1>2, <1>3, <1>4, <1>5, <1>7, Balance
  <2> QED
    BY <2>1
<1> QED
  BY <1>6, <1>7

LEMMA HandlerStartsLoses ==
  ASSUME QInv, QInv', HandlerStarts PROVE Lost' >= Lost
<1>1. /\ handling = <<>> /\ external # <<>> /\ external \in Seq(Queries)
      /\ handling' = <<Head(external)>> /\ external' = Tail(external)
      /\ UNCHANGED <<takers, internal, msg>>
  BY TypesOf DEF HandlerStarts
<1>2. Len(Tail(external)) = Len(external) - 1
  BY <1>1, HeadAndTail
<1>3. Work' = Work
  BY <1>1, <1>2, Lengths DEF Work
<1>4. /\ Way'[Server] = Way[Server] /\ Way'[Client] = Way[Client]
      /\ Waiting' = Waiting
  BY <1>1, LostIs DEF Waiting, Way, QInv
<1>5. Lost' = Lost /\ Lost \in Int
  BY <1>3, <1>4, Balance
<1> QED
  BY <1>5

LEMMA HandlerRepliesLoses ==
  ASSUME QInv, QInv', HandlerReplies
  PROVE  Lost' >= Lost /\ (Lost' = Lost => Replied)
<1> DEFINE h == Head(handling)
<1>1. /\ handling # <<>> /\ handling' = <<>>
      /\ UNCHANGED <<takers, msg, external>>
  BY DEF HandlerReplies
<1>2. Len(handling) <= 1 /\ handling \in Seq(Queries)
  BY TypesOf DEF QInv, OneAtATime
<1>3. h \in Queries /\ Len(handling) = 1
  BY <1>1, <1>2, Singleton
<1>4. Waiting' = Waiting
  BY <1>1, Lengths DEF Waiting
<1>5. Work' = Work - 1
  BY <1>1, <1>3, Lengths DEF Work
<1>6. Way[Server] \in Nat /\ Way[Client] \in Nat
  BY LostIs DEF QInv
<1>7. CASE Replied
  <2>1. Way'[Client] = Way[Client] /\ Way'[Server] = Way[Server] + 1
    BY <1>1, <1>3, <1>7, LoadLength, Lengths DEF Replied
  <2>2. Lost' = Lost /\ Lost \in Int
    BY <1>4, <1>5, <1>6, <2>1, Balance
  <2> QED
    BY <1>7, <2>2
<1>8. CASE ~Replied
  <2>1. Way'[Client] = Way[Client] /\ Way'[Server] = Way[Server]
    BY <1>1, <1>8, NotReplied, LostIs DEF Way, QInv
  <2>2. Lost' = Lost + 1 /\ Lost \in Int
    BY <1>4, <1>5, <1>6, <2>1, Balance
  <2> QED
    BY <2>2
<1> QED
  BY <1>7, <1>8

\* What becomes of a side's way, if the other's stays.
LEMMA SideBalance ==
  ASSUME QInv, QInv', NEW s \in Sides, \A o \in Sides : o # s => Way'[o] = Way[o]
  PROVE  /\ Lost' = Lost + (Waiting' - Waiting) - (Way'[s] - Way[s]) - (Work' - Work)
         /\ Lost \in Int /\ Waiting \in Nat /\ Way[s] \in Nat /\ Work \in Nat
<1>1. CASE s = Server
  <2>1. Way'[Client] = Way[Client]
    BY <1>1, Lengths
  <2>2. Way'[s] = Way'[Server] /\ Way[s] = Way[Server]
    BY <1>1 DEF Way
  <2> QED
    BY <2>1, <2>2, Balance
<1>2. CASE s = Client
  <2>1. Way'[Server] = Way[Server]
    BY <1>2, Lengths
  <2>2. Way'[s] = Way'[Client] /\ Way[s] = Way[Client]
    BY <1>2 DEF Way
  <2> QED
    BY <2>1, <2>2, Balance
<1> QED
  BY <1>1, <1>2, Lengths

LEMMA PullLoses ==
  ASSUME QInv, QInv', NEW s \in Sides, Pull(s)
  PROVE  Lost' >= Lost /\ (Lost' = Lost => session' = "open")
<1>1. /\ session = "open" /\ pulling[s] /\ internal[s] # <<>> /\ internal[s] \in Seq(Queries)
      /\ internal' = [internal EXCEPT ![s] = Tail(internal[s])]
      /\ UNCHANGED <<takers, external, handling>>
  BY TypesOf DEF Pull
<1>2. Len(Tail(internal[s])) = Len(internal[s]) - 1 /\ Len(internal[s]) \in Nat
  BY <1>1, HeadAndTail, Lengths
<1>3. msg[s] = <<>>
  BY <1>1 DEF QInv, OneAtATime
<1>4. Waiting' = Waiting /\ Work' = Work
  BY <1>1, Lengths DEF Work, Waiting
<1>5. internal'[s] = Tail(internal[s]) /\ \A o \in Sides : o # s => internal'[o] = internal[o]
  BY <1>1, TypesOf
<1>8. Way[s] \in Nat
  BY LostIs, Lengths DEF QInv
<1>6. CASE session' = "ended" /\ UNCHANGED msg
  <2>1. Way'[s] = Way[s] - 1 /\ \A o \in Sides : o # s => Way'[o] = Way[o]
    <3>1. Len(msg[s]) = 0 /\ Len(msg'[s]) = Len(msg[s]) + 0 /\ Len(internal'[s]) = Len(internal[s]) + (-1)
      BY <1>2, <1>3, <1>5, <1>6
    <3>2. /\ Len(msg'[s]) \in Nat /\ Len(internal'[s]) \in Nat
          /\ \A o \in Sides : o # s => msg'[o] = msg[o] /\ internal'[o] = internal[o]
      BY <1>2, <1>5, <1>6, <3>1, Lengths
    <3>3. /\ Way'[s] = Way[s] + (Len(msg'[s]) - Len(msg[s])) + (Len(internal'[s]) - Len(internal[s]))
          /\ \A o \in Sides : o # s => Way'[o] = Way[o]
      BY <1>2, <3>1, <3>2, WayChanges, Lengths
    <3>4. Way'[s] = Way[s] - 1
      BY <1>2, <1>8, <3>1, <3>2, <3>3, Lengths
    <3> QED
      BY <3>3, <3>4, Zenon
  <2>2. Lost' = Lost + 1 /\ Lost \in Int
    BY <1>4, <2>1, SideBalance
  <2> QED
    BY <2>2
<1>7. CASE session' = session /\ msg' = [msg EXCEPT ![s] = <<Head(internal[s])>>]
  <2>1. msg'[s] = <<Head(internal[s])>> /\ \A o \in Sides : o # s => msg'[o] = msg[o]
    BY <1>7, TypesOf
  <2>2. Len(msg'[s]) = 1 /\ Len(msg[s]) = 0
    BY <1>3, <2>1
  <2>3. Way'[s] = Way[s] /\ \A o \in Sides : o # s => Way'[o] = Way[o]
    <3>1. Len(msg'[s]) = Len(msg[s]) + 1 /\ Len(internal'[s]) = Len(internal[s]) + (-1)
      BY <1>2, <1>5, <2>2
    <3>2. /\ Len(msg'[s]) \in Nat /\ Len(internal'[s]) \in Nat
          /\ \A o \in Sides : o # s => msg'[o] = msg[o] /\ internal'[o] = internal[o]
      BY <1>2, <1>5, <2>1, <2>2, <3>1, Lengths
    <3>3. /\ Way'[s] = Way[s] + (Len(msg'[s]) - Len(msg[s])) + (Len(internal'[s]) - Len(internal[s]))
          /\ \A o \in Sides : o # s => Way'[o] = Way[o]
      BY <1>2, <3>1, <3>2, WayChanges, Lengths
    <3>4. Way'[s] = Way[s]
      BY <1>2, <1>8, <3>1, <3>2, <3>3, Lengths
    <3> QED
      BY <3>3, <3>4, Zenon
  <2>4. Lost' = Lost /\ Lost \in Int
    BY <1>4, <2>3, SideBalance
  <2> QED
    BY <1>1, <1>7, <2>4
<1> QED
  BY <1>6, <1>7 DEF Pull

LEMMA ReceiveLoses ==
  ASSUME QInv, QInv', NEW s \in Sides, Receive(s)
  PROVE  /\ Lost' >= Lost
         /\ Lost' = Lost =>
              /\ Push(s, Head(msg[s]))
              /\ s = Client => Len(external) < ExternalRoom
<1>1. /\ msg[s] # <<>> /\ Len(msg[s]) <= 1 /\ msg[s] \in Seq(Queries)
      /\ msg' = [msg EXCEPT ![s] = <<>>]
      /\ UNCHANGED <<internal, handling>>
  BY TypesOf DEF Receive, QInv, OneAtATime
<1>2. Len(msg[s]) = 1 /\ Head(msg[s]) \in Queries
  BY <1>1, Singleton
<1>3. Way'[s] = Way[s] - 1 /\ \A o \in Sides : o # s => Way'[o] = Way[o]
  <2>1. msg'[s] = <<>> /\ \A o \in Sides : o # s => msg'[o] = msg[o]
    BY <1>1, TypesOf
  <2>2. Len(msg'[s]) = Len(msg[s]) + (-1) /\ Len(internal'[s]) = Len(internal[s]) + 0
    BY <1>1, <1>2, <2>1, Lengths
  <2>3. /\ Way'[s] = Way[s] + (Len(msg'[s]) - Len(msg[s])) + (Len(internal'[s]) - Len(internal[s]))
        /\ \A o \in Sides : o # s => Way'[o] = Way[o]
    BY <1>1, <1>2, <2>1, <2>2, Lengths, WayChanges
  <2>4. Way[s] \in Nat
    BY LostIs, Lengths DEF QInv
  <2> QED
    BY <1>2, <2>2, <2>3, <2>4, Lengths
<1>4. CASE UNCHANGED <<takers, answer, external>>
  <2>1. Waiting' = Waiting /\ Work' = Work
    BY <1>1, <1>4, Lengths DEF Work, Waiting
  <2>2. Lost' = Lost + 1 /\ Lost \in Int
    BY <1>3, <2>1, SideBalance
  <2> QED
    BY <2>2
<1>5. CASE s = Server /\ Reply(Head(msg[s])) /\ UNCHANGED external
  <2>1. Waiting' = Waiting - 1
    <3>1. takers # <<>> /\ takers' = Tail(takers)
      BY <1>5 DEF Reply
    <3>2. Len(Tail(takers)) = Len(takers) - 1
      BY <3>1, TypesOf, HeadAndTail
    <3> QED
      BY <3>1, <3>2, Lengths DEF Waiting
  <2>2. Work' = Work
    BY <1>1, <1>5, Lengths DEF Work
  <2>3. Lost' = Lost /\ Lost \in Int
    BY <1>3, <2>1, <2>2, SideBalance
  <2>4. Push(s, Head(msg[s])) /\ s # Client
    BY <1>5, Lengths DEF Push
  <2> QED
    BY <2>3, <2>4
<1>6. CASE /\ s = Client /\ Len(external) < ExternalRoom
           /\ external' = Append(external, Head(msg[s]))
           /\ UNCHANGED <<takers, answer>>
  <2>1. Len(external') = Len(external) + 1
    BY <1>2, <1>6, TypesOf
  <2>2. Waiting' = Waiting /\ Work' = Work + 1
    BY <1>1, <1>6, <2>1, Lengths DEF Work, Waiting
  <2>3. Lost' = Lost /\ Lost \in Int
    BY <1>3, <2>2, SideBalance
  <2>4. Push(s, Head(msg[s]))
    BY <1>6, Lengths DEF Push
  <2> QED
    BY <1>6, <2>3, <2>4
<1> QED
  BY <1>4, <1>5, <1>6, Lengths DEF Receive, Push

LEMMA OthersLose ==
  ASSUME QInv, QInv', UNCHANGED <<takers, internal, msg, external, handling>>
  PROVE  Lost' = Lost /\ Lost \in Int
<1>1. /\ Waiting' = Waiting /\ Work' = Work
      /\ Way'[Server] = Way[Server] /\ Way'[Client] = Way[Client]
  BY LostIs DEF Waiting, Work, Way, QInv
<1>2. Lost' = Lost /\ Lost \in Int
  BY <1>1, Balance
<1> QED
  BY <1>2
-----------------------------------------------------------------------------
(***************************************************************************)
(* The invariant: no more is on its way than calls wait, and until         *)
(* something is lost both are the same, in the same order.                 *)
(***************************************************************************)
Matched == Pipeline = takers /\ Paired

RepliesInv == Lost >= 0 /\ (Lost = 0 => Matched)

\* What every step owes: it brings nothing back, and if it loses nothing either, the
\* match is kept.
LEMMA Preserved ==
  ASSUME QInv, QInv', RepliesInv, Lost' >= Lost,
         Lost' = Lost /\ Matched => Matched'
  PROVE  RepliesInv'
<1>1. Lost \in Int /\ Lost' \in Int
  BY Balance
<1>2. Lost' >= 0
  BY <1>1 DEF RepliesInv
<1>3. ASSUME Lost' = 0
      PROVE  Matched'
  <2>1. Lost = 0
    BY <1>1, <1>3 DEF RepliesInv
  <2> QED
    BY <1>3, <2>1 DEF RepliesInv
<1> QED
  BY <1>2, <1>3 DEF RepliesInv

\* At the start nobody waits and nothing is on its way.
LEMMA StartsMatched == Init => Pipeline = takers /\ Len(takers) = 0
<1> SUFFICES ASSUME Init PROVE Pipeline = takers /\ Len(takers) = 0
  OBVIOUS
<1>1. Client \in Sides /\ Server \in Sides
  BY DEF Sides
<1>2. /\ msg[Server] = <<>> /\ msg[Client] = <<>> /\ internal[Server] = <<>>
      /\ internal[Client] = <<>> /\ handling = <<>> /\ external = <<>> /\ takers = <<>>
  BY <1>1 DEF Init
<1>3. <<>> \o <<>> = <<>>
  OBVIOUS
<1> QED
  BY <1>2, <1>3 DEF Pipeline, Outgoing, Serving

LEMMA RepliesInit == Init => RepliesInv
<1> SUFFICES ASSUME Init PROVE RepliesInv
  OBVIOUS
<1>1. Pipeline = takers /\ Len(takers) = 0
  BY StartsMatched
<1>2. Paired
  BY DEF Init, Paired
<1>3. Lost = 0
  BY <1>1 DEF Lost, Waiting
<1> QED
  BY <1>1, <1>2, <1>3 DEF RepliesInv, Matched

LEMMA RepliesStep ==
  ASSUME QInv, QInv', RepliesInv, [Next]_queryVars
  PROVE  RepliesInv'
<1>1. CASE Query
  <2>1. UNCHANGED answer
    BY <1>1 DEF Query
  <2> QED
    BY <1>1, <2>1, QueryLoses, QueryMatched, Preserved DEF Matched, Paired
<1>2. CASE HandlerStarts
  <2>1. UNCHANGED answer
    BY <1>2 DEF HandlerStarts
  <2> QED
    BY <1>2, <2>1, HandlerStartsLoses, HandlerStartsMatched, Preserved DEF Matched, Paired
<1>3. CASE HandlerReplies
  <2>1. UNCHANGED answer
    BY <1>3 DEF HandlerReplies
  <2> QED
    BY <1>3, <2>1, HandlerRepliesLoses, HandlerRepliesMatched, Preserved DEF Matched, Paired
<1>4. ASSUME NEW s \in Sides, Pull(s)
      PROVE  RepliesInv'
  <2>1. UNCHANGED answer
    BY <1>4 DEF Pull
  <2> QED
    BY <1>4, <2>1, PullLoses, PullMatched, Preserved DEF Matched, Paired
<1>5. ASSUME Receive(Client)
      PROVE  RepliesInv'
  <2>1. /\ Lost' >= Lost
        /\ Lost' = Lost => Push(Client, Head(msg[Client])) /\ Len(external) < ExternalRoom
    BY <1>5, ReceiveLoses, Lengths
  <2>2. Push(Client, Head(msg[Client])) => UNCHANGED answer
    BY Lengths DEF Push
  <2>3. Lost' = Lost /\ Matched => Matched'
    BY <1>5, <2>1, <2>2, ReceiveClientMatched DEF Matched, Paired
  <2> QED
    BY <2>1, <2>3, Preserved
<1>6. ASSUME Receive(Server)
      PROVE  RepliesInv'
  <2>1. Lost' >= Lost /\ (Lost' = Lost => Push(Server, Head(msg[Server])))
    BY <1>6, ReceiveLoses, Lengths
  <2>2. ASSUME Lost' = Lost, Matched
        PROVE  Matched'
    <3>1. (Pipeline = takers)' /\ \E q \in Queries : answer' = [answer EXCEPT ![q] = q]
      BY <1>6, <2>1, <2>2, ReceiveServerMatched DEF Matched
    <3>2. Paired'
      BY <2>2, <3>1 DEF Matched, Paired, QInv, TypeOK
    <3> QED
      BY <3>1, <3>2 DEF Matched
  <2> QED
    BY <2>1, <2>2, Preserved
<1>7. CASE \/ \E s \in Sides : Acknowledged(s)
           \/ SessionEnds
           \/ UNCHANGED queryVars
  <2>1. UNCHANGED <<takers, internal, msg, external, handling, answer>>
    BY <1>7 DEF Acknowledged, SessionEnds, queryVars
  <2>2. Lost' = Lost /\ Lost \in Int
    BY <2>1, OthersLose
  <2>3. Matched => Matched'
    BY <2>1 DEF Matched, Paired, Pipeline, Outgoing, Serving
  <2> QED
    BY <2>2, <2>3, Preserved
<1> QED
  BY <1>1, <1>2, <1>3, <1>4, <1>5, <1>6, <1>7 DEF Next, Progress, Sides

\* What the invariant says of the lengths.
LEMMA LostMeans ==
  ASSUME QInv
  PROVE  /\ NothingLost <=> Lost = 0
         /\ Lost >= 0 <=> NoReplyUnclaimed
<1>1. Len(Pipeline) \in Nat /\ Waiting \in Nat
  BY LostIs DEF QInv
<1> QED
  BY <1>1 DEF Lost, Waiting, NothingLost, NoReplyUnclaimed

LEMMA RepliesInvariant == Spec => [](QInv /\ RepliesInv)
<1>1. Init => QInv /\ RepliesInv
  BY QInit, RepliesInit
<1>2. QInv /\ RepliesInv /\ [Next]_queryVars => (QInv /\ RepliesInv)'
  BY QStep, RepliesStep
<1> QED
  BY <1>1, <1>2, PTL DEF Spec

\* Whatever the buffers' sizes, until a request or a reply is lost each call of query
\* resolves with the reply to its own request.
THEOREM RepliesArePaired == Spec => []RepliesPaired
<1>1. QInv /\ RepliesInv => RepliesPaired
  BY LostMeans DEF RepliesInv, Matched, Paired, RepliesPaired
<1> QED
  BY <1>1, RepliesInvariant, PTL

\* No reply ever reaches a client that has no call waiting, so none is kept in the
\* buffer of replies for a later call.
THEOREM NoReplyIsUnclaimed == Spec => []NoReplyUnclaimed
<1>1. QInv /\ RepliesInv => NoReplyUnclaimed
  BY LostMeans DEF RepliesInv
<1> QED
  BY <1>1, RepliesInvariant, PTL
-----------------------------------------------------------------------------
(***************************************************************************)
(* When the application leaves no more calls unanswered than either buffer *)
(* holds, the codecs agree and no handler rejects, nothing is lost while   *)
(* the session is open.                                                    *)
(***************************************************************************)
\* The regime in which nothing is refused, ignored or rejected.
Fits ==
  /\ Window <= ClientBuffer
  /\ Window <= ServerBuffer
  /\ "invalid" \notin Events /\ "reject" \notin Events

\* As long as the pipeline matches the calls that wait, every part of it is
\* shorter than a buffer.
LEMMA PartsFit ==
  ASSUME Fits, QInv, Pipeline = takers
  PROVE  /\ Len(takers) < Window => Len(internal[Client]) < ClientBuffer
         /\ handling # <<>> => Len(internal[Server]) < ServerBuffer
         /\ msg[Client] # <<>> => Len(external) < ServerBuffer
<1> DEFINE a == Len(Outgoing(Server))
           b == Len(Serving)
           c == Len(Outgoing(Client))
           k == Len(takers)
<1>1. a + b + c = k
  BY Parts DEF QInv
<1>2. /\ a = Len(msg[Server]) + Len(internal[Server])
      /\ b = Len(handling) + Len(external)
      /\ c = Len(msg[Client]) + Len(internal[Client])
  BY Parts, Lengths DEF QInv
<1>3. a \in Nat /\ b \in Nat /\ c \in Nat /\ k \in Nat
  BY Parts, Lengths, LenProperties DEF QInv
<1>4. k <= Window /\ Window <= ClientBuffer /\ Window <= ServerBuffer
  BY DEF QInv, OneAtATime, Fits
<1>5. a <= k /\ b + c <= k /\ a + b <= k /\ c <= k
  <2> HIDE DEF a, b, c, k
  <2> QED
    BY <1>1, <1>3
<1>6. /\ Len(internal[Server]) <= a
      /\ Len(internal[Client]) <= c
      /\ Len(external) <= b /\ Len(handling) <= b
      /\ Len(msg[Client]) <= c
  <2> HIDE DEF a, b, c, k
  <2> DEFINE u == Len(internal[Server])
             v == Len(internal[Client])
             w == Len(external)
             x == Len(handling)
             y == Len(msg[Client])
             z == Len(msg[Server])
  <2>1. u \in Nat /\ v \in Nat /\ w \in Nat /\ x \in Nat /\ y \in Nat /\ z \in Nat
    BY Lengths
  <2>2. a = z + u /\ b = x + w /\ c = y + v
    BY <1>2
  <2>3. u <= a /\ v <= c /\ w <= b /\ x <= b /\ y <= c
    <3> HIDE DEF u, v, w, x, y, z
    <3> QED
      BY <2>1, <2>2
  <2> QED
    BY <2>3
<1>7. ASSUME handling # <<>>
      PROVE  b >= 1
  <2>1. Len(handling) >= 1
    BY <1>7, TypesOf, EmptySeq, Lengths
  <2> QED
    BY <1>3, <1>6, <2>1, Lengths
<1>8. ASSUME msg[Client] # <<>>
      PROVE  c >= 1
  <2>1. Len(msg[Client]) >= 1
    BY <1>8, TypesOf, EmptySeq, Lengths
  <2> QED
    BY <1>3, <1>6, <2>1, Lengths
<1>9. Len(takers) < Window => Len(internal[Client]) < ClientBuffer
  <2>1. Len(internal[Client]) <= k
    <3>1. Len(internal[Client]) <= c /\ c <= k /\ Len(internal[Client]) \in Nat
      BY <1>5, <1>6, Lengths
    <3> HIDE DEF c, k
    <3> QED
      BY <1>3, <3>1
  <2> QED
    BY <1>3, <1>4, <2>1, Lengths
<1>10. handling # <<>> => Len(internal[Server]) < ServerBuffer
  <2>1. b >= 1 => a < k
    <3> HIDE DEF a, b, c, k
    <3> QED
      BY <1>3, <1>5
  <2> QED
    BY <1>3, <1>4, <1>6, <1>7, <2>1, Lengths
<1>11. msg[Client] # <<>> => Len(external) < ServerBuffer
  <2>1. c >= 1 => b < k
    <3> HIDE DEF a, b, c, k
    <3> QED
      BY <1>3, <1>5
  <2> QED
    BY <1>3, <1>4, <1>6, <1>8, <2>1, Lengths
<1> QED
  BY <1>9, <1>10, <1>11

FitsInv == session = "open" => Pipeline = takers

LEMMA FitsStep ==
  ASSUME Fits, QInv, FitsInv, [Next]_queryVars
  PROVE  FitsInv'
<1> SUFFICES ASSUME session' = "open" PROVE (Pipeline = takers)'
  BY DEF FitsInv
<1>1. session = "open" /\ Pipeline = takers
  <2>1. session = "open"
    BY DEF Next, Progress, Query, HandlerStarts, HandlerReplies, Pull, Receive, Acknowledged,
           SessionEnds, queryVars
  <2> QED
    BY <2>1 DEF FitsInv
<1>2. /\ ClientBuffer \in Nat /\ ServerBuffer \in Nat
      /\ ClientBuffer <= InternalRoom(Client) /\ ServerBuffer <= InternalRoom(Server)
      /\ InternalRoom(Client) \in Nat /\ InternalRoom(Server) \in Nat
      /\ ServerBuffer <= ExternalRoom /\ ExternalRoom \in Nat
  BY QueryAssumption, Lengths DEF InternalRoom, ExternalRoom
<1>3. CASE Query
  <2>1. Len(takers) < Window
    BY <1>3 DEF Query
  <2>2. Len(internal[Client]) < InternalRoom(Client)
    BY <1>1, <1>2, <2>1, PartsFit, Lengths
  <2> QED
    BY <1>1, <1>3, <2>2, QueryMatched
<1>4. CASE HandlerStarts
  BY <1>1, <1>4, HandlerStartsMatched
<1>5. CASE HandlerReplies
  <2>1. handling # <<>> /\ LoadInternal(Server, Head(handling))
    BY <1>5 DEF HandlerReplies, Fits
  <2>2. Replied
    BY <1>1, <1>2, <2>1, PartsFit, Lengths DEF Replied
  <2> QED
    BY <1>1, <1>5, <2>2, HandlerRepliesMatched
<1>6. ASSUME NEW s \in Sides, Pull(s)
      PROVE  (Pipeline = takers)'
  BY <1>1, <1>6, PullMatched
<1>7. ASSUME NEW s \in Sides, Receive(s)
      PROVE  (Pipeline = takers)'
  <2>1. msg[s] # <<>> /\ Push(s, Head(msg[s]))
    BY <1>7 DEF Receive, Fits
  <2>2. CASE s = Client
    <3>1. Len(external) < ExternalRoom
      BY <1>1, <1>2, <2>1, <2>2, PartsFit, Lengths
    <3> QED
      BY <1>1, <1>7, <2>1, <2>2, <3>1, ReceiveClientMatched
  <2>3. CASE s = Server
    BY <1>1, <1>7, <2>1, <2>3, ReceiveServerMatched
  <2> QED
    BY <2>2, <2>3 DEF Sides
<1>8. CASE \/ \E s \in Sides : Acknowledged(s)
           \/ SessionEnds
           \/ UNCHANGED queryVars
  <2>1. UNCHANGED <<takers, internal, msg, external, handling>>
    BY <1>8 DEF Acknowledged, SessionEnds, queryVars
  <2> QED
    BY <1>1, <2>1 DEF Pipeline, Outgoing, Serving
<1> QED
  BY <1>3, <1>4, <1>5, <1>6, <1>7, <1>8 DEF Next, Progress

\* If no handler rejects and codecs and schemas accept every message: with buffers at
\* least as large as the number of calls left unanswered, on both sides, no request
\* and no reply is refused while the session is open: every call that is waiting has
\* its request or its reply on the way.
THEOREM FittingCallsLoseNothing ==
  ASSUME Fits
  PROVE  Spec => [](session = "open" => NothingLost)
<1>1. Init => QInv /\ FitsInv
  BY QInit, StartsMatched DEF FitsInv
<1>2. QInv /\ FitsInv /\ [Next]_queryVars => (QInv /\ FitsInv)'
  BY QStep, FitsStep
<1>3. FitsInv => (session = "open" => NothingLost)
  BY DEF FitsInv, NothingLost
<1> QED
  BY <1>1, <1>2, <1>3, PTL DEF Spec
-----------------------------------------------------------------------------
(***************************************************************************)
(* Whatever is lost, the pipeline stays in the order of the calls: a loss  *)
(* takes one request or reply out of it and moves none.  The answers given *)
(* are older than all of it and one for each call that waits no more, so   *)
(* the next one cannot be for an earlier request than the call it goes to. *)
(***************************************************************************)
Increasing(P) == \A i, j \in DOMAIN P : i < j => P[i] < P[j]

\* One element of P is gone.
Thinned(P2, P) ==
  \E u, v \in Seq(Queries), x \in Queries : P = u \o (<<x>> \o v) /\ P2 = u \o v

\* The calls that wait are the last ones, and those before them are answered.
CallsInRow ==
  /\ Len(takers) <= asked
  /\ \A i \in DOMAIN takers : takers[i] = asked - Len(takers) + i
  /\ \A q \in Queries : answer[q] # 0 <=> q <= asked - Len(takers)

\* The pipeline is in the order of the calls and later than every answer.
PipelineInOrder ==
  /\ Increasing(Pipeline)
  /\ \A i \in DOMAIN Pipeline :
       Pipeline[i] <= asked /\ \A q \in Queries : answer[q] < Pipeline[i]

OrderInv == CallsInRow /\ PipelineInOrder /\ RepliesInOrder

LEMMA ThinnedKeeps ==
  ASSUME NEW P, NEW P2, Thinned(P2, P)
  PROVE  /\ Increasing(P) => Increasing(P2)
         /\ \A i \in DOMAIN P2 : \E j \in DOMAIN P : P2[i] = P[j]
<1>1. PICK u \in Seq(Queries), v \in Seq(Queries), x \in Queries :
        P = u \o (<<x>> \o v) /\ P2 = u \o v
  BY DEF Thinned
<1>2. /\ <<x>> \in Seq(Queries) /\ Len(<<x>>) = 1
      /\ Len(u) \in Nat /\ Len(v) \in Nat
  BY LenProperties
<1>3. /\ <<x>> \o v \in Seq(Queries) /\ Len(<<x>> \o v) = 1 + Len(v)
      /\ \A i \in 1 .. 1 + Len(v) : i > 1 => (<<x>> \o v)[i] = v[i - 1]
  BY <1>2, ConcatProperties
<1>4. /\ P \in Seq(Queries) /\ Len(P) = Len(u) + 1 + Len(v)
      /\ \A i \in 1 .. Len(P) : P[i] = IF i <= Len(u) THEN u[i] ELSE (<<x>> \o v)[i - Len(u)]
  BY <1>1, <1>2, <1>3, ConcatProperties
<1>5. /\ P2 \in Seq(Queries) /\ Len(P2) = Len(u) + Len(v)
      /\ \A i \in 1 .. Len(P2) : P2[i] = IF i <= Len(u) THEN u[i] ELSE v[i - Len(u)]
  BY <1>1, <1>2, ConcatProperties
<1> DEFINE f(i) == IF i <= Len(u) THEN i ELSE i + 1
<1>6. DOMAIN P = 1 .. Len(P) /\ DOMAIN P2 = 1 .. Len(P2)
  BY <1>4, <1>5, LenProperties
<1>7. ASSUME NEW i \in DOMAIN P2
      PROVE  f(i) \in DOMAIN P /\ P2[i] = P[f(i)]
  <2>1. CASE i <= Len(u)
    BY <1>2, <1>4, <1>5, <1>6, <1>7, <2>1
  <2>2. CASE ~(i <= Len(u))
    <3>1. /\ i \in Nat /\ i > Len(u) /\ i <= Len(u) + Len(v)
          /\ i + 1 \in 1 .. Len(P) /\ f(i) = i + 1
          /\ (i + 1) - Len(u) \in 1 .. 1 + Len(v) /\ (i + 1) - Len(u) > 1
          /\ ((i + 1) - Len(u)) - 1 = i - Len(u)
      BY <1>2, <1>4, <1>5, <1>6, <1>7, <2>2
    <3>2. P[i + 1] = (<<x>> \o v)[(i + 1) - Len(u)]
      BY <1>2, <1>4, <3>1
    <3>3. (<<x>> \o v)[(i + 1) - Len(u)] = v[i - Len(u)]
      BY <1>3, <3>1
    <3>4. P2[i] = v[i - Len(u)]
      BY <1>5, <1>6, <1>7, <2>2
    <3> QED
      BY <1>6, <3>1, <3>2, <3>3, <3>4
  <2> QED
    BY <2>1, <2>2
<1>8. \A i, j \in DOMAIN P2 : i < j => f(i) < f(j)
  BY <1>2, <1>5, <1>6
<1> QED
  <2> HIDE DEF f
  <2> QED
    BY <1>7, <1>8 DEF Increasing

\* A step that answers nobody and calls nothing keeps the order if it moves nothing
\* within the pipeline.
LEMMA OrderKept ==
  ASSUME OrderInv, UNCHANGED <<asked, takers, answer>>,
         Pipeline' = Pipeline \/ Thinned(Pipeline', Pipeline)
  PROVE  OrderInv'
<1>1. CallsInRow' /\ RepliesInOrder'
  BY DEF OrderInv, CallsInRow, RepliesInOrder
<1>2. /\ Increasing(Pipeline')
      /\ \A i \in DOMAIN Pipeline' : \E j \in DOMAIN Pipeline : Pipeline'[i] = Pipeline[j]
  BY ThinnedKeeps DEF OrderInv, PipelineInOrder
<1>3. PipelineInOrder'
  BY <1>2 DEF OrderInv, PipelineInOrder
<1> QED
  BY <1>1, <1>3 DEF OrderInv

\* A request whose handler rejects, and a reply that the full buffer refuses, leaves the
\* pipeline from within.
LEMMA HandlerRepliesThins ==
  ASSUME QInv, HandlerReplies, ~Replied
  PROVE  Thinned(Pipeline', Pipeline)
<1> DEFINE h == Head(handling)
           a == Outgoing(Server)
           c == Outgoing(Client)
<1>1. /\ handling # <<>> /\ handling' = <<>> /\ internal' = internal
      /\ UNCHANGED <<msg, external>>
  BY NotReplied DEF HandlerReplies
<1>2. h \in Queries /\ handling = <<h>>
  BY <1>1, TypesOf, Singleton DEF QInv, OneAtATime
<1>3. Serving' = external /\ Serving = <<h>> \o external
  BY <1>1, <1>2, TypesOf, ConcatEmptySeq DEF Serving
<1>4. a' = a /\ c' = c
  BY <1>1 DEF Outgoing
<1>5. /\ a \in Seq(Queries) /\ c \in Seq(Queries) /\ external \in Seq(Queries)
      /\ external \o c \in Seq(Queries) /\ <<h>> \in Seq(Queries)
  BY <1>2, Parts, Lengths, TypesOf, ConcatProperties DEF QInv
<1>6. (<<h>> \o external) \o c = <<h>> \o (external \o c)
  <2> HIDE DEF h, c
  <2> QED
    BY <1>5, ConcatAssociative
<1>7. Pipeline = a \o (<<h>> \o (external \o c)) /\ Pipeline' = a \o (external \o c)
  BY <1>3, <1>4, <1>6 DEF Pipeline
<1> QED
  BY <1>2, <1>5, <1>7 DEF Thinned

\* A null reply that ends the session is the first of the pipeline.
LEMMA PullThins ==
  ASSUME QInv, NEW s \in Sides, Pull(s), session' # "open"
  PROVE  Thinned(Pipeline', Pipeline) /\ takers' = takers
<1> DEFINE x == Head(internal[Server])
           t == Tail(internal[Server])
           r == Serving \o Outgoing(Client)
<1>1. /\ s = Server /\ pulling[Server] /\ internal[Server] # <<>>
      /\ internal' = [internal EXCEPT ![Server] = t]
      /\ UNCHANGED <<takers, msg, external, handling>>
  BY DEF Pull
<1>2. msg[Server] = <<>> /\ internal[Server] \in Seq(Queries) /\ r \in Seq(Queries)
  BY <1>1, TypesOf, Lengths, Parts DEF QInv, OneAtATime
<1>3. /\ x \in Queries /\ t \in Seq(Queries) /\ internal[Server] = <<x>> \o t
      /\ <<x>> \in Seq(Queries) /\ t \o r \in Seq(Queries) /\ <<>> \in Seq(Queries)
  BY <1>1, <1>2, HeadAndTail, ConcatProperties
<1>4. Outgoing(Server) = <<x>> \o t
  BY <1>2, <1>3, ConcatEmptySeq DEF Outgoing
<1>5. Outgoing(Server)' = t /\ Outgoing(Client)' = Outgoing(Client) /\ Serving' = Serving
  <2>1. internal'[Server] = t /\ internal'[Client] = internal[Client]
    BY <1>1, TypesOf, Lengths
  <2> QED
    BY <1>1, <1>2, <1>3, <2>1, ConcatEmptySeq DEF Outgoing, Serving
<1>6. (<<x>> \o t) \o r = <<x>> \o (t \o r)
  <2> HIDE DEF x, t, r
  <2> QED
    BY <1>2, <1>3, ConcatAssociative
<1>7. Pipeline = <<x>> \o (t \o r) /\ Pipeline' = t \o r
  BY <1>4, <1>5, <1>6 DEF Pipeline
<1>8. Pipeline = <<>> \o (<<x>> \o (t \o r)) /\ Pipeline' = <<>> \o (t \o r)
  BY <1>3, <1>7, ConcatProperties, ConcatEmptySeq
<1> QED
  BY <1>1, <1>3, <1>8 DEF Thinned

\* A request that is rejected, or for which the server has no room.
LEMMA ReceiveClientThins ==
  ASSUME QInv, Receive(Client), external' = external
  PROVE  Thinned(Pipeline', Pipeline)
<1> DEFINE m == Head(msg[Client])
           i == internal[Client]
           a == Outgoing(Server)
<1>1. /\ msg[Client] # <<>> /\ Len(msg[Client]) <= 1
      /\ msg[Client] \in Seq(Queries) /\ i \in Seq(Queries)
      /\ msg' = [msg EXCEPT ![Client] = <<>>]
      /\ UNCHANGED <<internal, handling>>
  BY TypesOf, Lengths DEF Receive, QInv, OneAtATime
<1>2. m \in Queries /\ msg[Client] = <<m>>
  BY <1>1, Singleton
<1>3. /\ a' = a /\ Serving' = Serving
      /\ Outgoing(Client)' = i
      /\ Outgoing(Client) = <<m>> \o i
  BY <1>1, <1>2, TypesOf, Lengths, ConcatEmptySeq DEF Outgoing, Serving
<1>4. /\ a \in Seq(Queries) /\ Serving \in Seq(Queries) /\ <<m>> \in Seq(Queries)
      /\ <<m>> \o i \in Seq(Queries) /\ a \o Serving \in Seq(Queries)
  BY <1>1, <1>2, Parts, Lengths, ConcatProperties DEF QInv
<1>5. /\ a \o (Serving \o (<<m>> \o i)) = (a \o Serving) \o (<<m>> \o i)
      /\ a \o (Serving \o i) = (a \o Serving) \o i
  <2> DEFINE w == Serving
             z == <<m>> \o i
  <2>1. a \in Seq(Queries) /\ w \in Seq(Queries) /\ z \in Seq(Queries) /\ i \in Seq(Queries)
    BY <1>1, <1>4
  <2>2. a \o (w \o z) = (a \o w) \o z /\ a \o (w \o i) = (a \o w) \o i
    <3> HIDE DEF a, w, z, i
    <3>1. (a \o w) \o z = a \o (w \o z)
      BY <2>1, ConcatAssociative
    <3>2. (a \o w) \o i = a \o (w \o i)
      BY <2>1, ConcatAssociative
    <3> QED
      BY <3>1, <3>2, Zenon
  <2> QED
    BY <2>2
<1>6. Pipeline = (a \o Serving) \o (<<m>> \o i) /\ Pipeline' = (a \o Serving) \o i
  BY <1>3, <1>5 DEF Pipeline
<1> QED
  BY <1>1, <1>2, <1>4, <1>6 DEF Thinned

\* A reply that is rejected.
LEMMA ReceiveServerThins ==
  ASSUME QInv, Receive(Server), external' = external
  PROVE  Thinned(Pipeline', Pipeline)
<1>1. /\ Pipeline' = Tail(Pipeline) /\ Head(Pipeline) \in Queries
      /\ Pipeline = <<Head(Pipeline)>> \o Tail(Pipeline)
  BY ReceiveServerTakes
<1>2. Pipeline \in Seq(Queries) /\ Pipeline # <<>>
  BY Parts, ReceiveServerTakes DEF QInv
<1>3. /\ Tail(Pipeline) \in Seq(Queries) /\ <<>> \in Seq(Queries)
      /\ Tail(Pipeline) = <<>> \o Tail(Pipeline) /\ Pipeline = <<>> \o Pipeline
  BY <1>2, HeadAndTail, ConcatEmptySeq
<1> QED
  BY <1>1, <1>3 DEF Thinned

LEMMA OrderInit == Init => OrderInv
<1> SUFFICES ASSUME Init PROVE OrderInv
  OBVIOUS
<1>1. Pipeline = <<>> /\ takers = <<>>
  BY StartsMatched DEF Init
<1>2. CallsInRow /\ RepliesInOrder
  BY <1>1, QueryAssumption DEF Init, CallsInRow, RepliesInOrder, Queries
<1>3. PipelineInOrder
  BY <1>1 DEF PipelineInOrder, Increasing
<1> QED
  BY <1>2, <1>3 DEF OrderInv

\* The pipeline's type, by its elements.
LEMMA PipelineIs ==
  ASSUME QInv
  PROVE  /\ Pipeline \in Seq(Queries) /\ Len(Pipeline) \in Nat
         /\ DOMAIN Pipeline = 1 .. Len(Pipeline)
         /\ \A i \in DOMAIN Pipeline : Pipeline[i] \in Nat
         /\ Pipeline # <<>> => Len(Pipeline) >= 1
<1>1. Pipeline \in Seq(Queries)
  BY Parts DEF QInv
<1>2. /\ Len(Pipeline) \in Nat /\ DOMAIN Pipeline = 1 .. Len(Pipeline)
      /\ Pipeline # <<>> => Len(Pipeline) # 0
  BY <1>1, EmptySeq, LenProperties
<1>3. \A i \in DOMAIN Pipeline : Pipeline[i] \in Queries
  BY <1>1, <1>2, ElementOfSeq
<1> QED
  BY <1>1, <1>2, <1>3 DEF Queries

\* A call is the newest of those that wait, and its request the last of the pipeline.
LEMMA QueryOrders ==
  ASSUME QInv, OrderInv, Query
  PROVE  OrderInv'
<1> DEFINE q == asked + 1
<1>1. /\ q \in Queries /\ asked' = q /\ takers' = Append(takers, q) /\ answer' = answer
      /\ asked \in Nat /\ takers \in Seq(Queries) /\ Len(takers) \in Nat
      /\ answer \in [Queries -> 0 .. MaxQueries]
  BY QueryAssumption, TypesOf, Lengths DEF Query, Queries
<1>2. /\ Len(takers') = Len(takers) + 1 /\ DOMAIN takers = 1 .. Len(takers)
      /\ DOMAIN takers' = 1 .. Len(takers) + 1
      /\ \A i \in 1 .. Len(takers) : takers'[i] = takers[i]
      /\ takers'[Len(takers) + 1] = q
  BY <1>1, AppendProperties
<1>3. CallsInRow'
  <2>1. asked' - Len(takers') = asked - Len(takers) /\ Len(takers') <= asked'
    BY <1>1, <1>2 DEF OrderInv, CallsInRow
  <2>2. \A i \in DOMAIN takers' : takers'[i] = asked' - Len(takers') + i
    BY <1>1, <1>2, <2>1 DEF OrderInv, CallsInRow
  <2> QED
    BY <1>1, <2>1, <2>2 DEF OrderInv, CallsInRow
<1>4. RepliesInOrder'
  <2>1. \A p \in Queries : answer[p] # 0 => answer[p] \in p .. q
    BY <1>1 DEF OrderInv, RepliesInOrder, Queries
  <2> QED
    BY <1>1, <2>1 DEF OrderInv, RepliesInOrder
<1>5. PipelineInOrder'
  <2>0. /\ Pipeline \in Seq(Queries) /\ Len(Pipeline) \in Nat
        /\ DOMAIN Pipeline = 1 .. Len(Pipeline)
        /\ \A i \in DOMAIN Pipeline : Pipeline[i] \in Nat
    BY PipelineIs
  <2>1. \A p \in Queries : answer[p] < q
    BY <1>1 DEF OrderInv, RepliesInOrder, Queries
  <2>2. CASE Len(internal[Client]) < InternalRoom(Client)
    <3>1. Pipeline' = Append(Pipeline, q)
      BY <2>2, QueryMatched
    <3>2. /\ DOMAIN Pipeline' = 1 .. Len(Pipeline) + 1
          /\ \A i \in 1 .. Len(Pipeline) : Pipeline'[i] = Pipeline[i]
          /\ Pipeline'[Len(Pipeline) + 1] = q
      BY <1>1, <2>0, <3>1, AppendProperties
    <3>3. \A i \in 1 .. Len(Pipeline) : Pipeline[i] < q
      BY <1>1, <2>0 DEF OrderInv, PipelineInOrder
    <3>4. Increasing(Pipeline')
      BY <2>0, <3>2, <3>3 DEF OrderInv, PipelineInOrder, Increasing
    <3>5. \A i \in DOMAIN Pipeline' :
            Pipeline'[i] <= q /\ \A p \in Queries : answer[p] < Pipeline'[i]
      <4> TAKE i \in DOMAIN Pipeline'
      <4>1. CASE i \in 1 .. Len(Pipeline)
        BY <1>1, <2>0, <3>2, <3>3, <4>1 DEF OrderInv, PipelineInOrder
      <4>2. CASE i = Len(Pipeline) + 1
        BY <1>1, <2>1, <3>2, <4>2
      <4> QED
        BY <2>0, <3>2, <4>1, <4>2
    <3> QED
      BY <1>1, <3>4, <3>5 DEF PipelineInOrder
  <2>3. CASE ~(Len(internal[Client]) < InternalRoom(Client))
    <3>1. Pipeline' = Pipeline
      <4>1. UNCHANGED <<msg, internal, external, handling>>
        BY <2>3 DEF Query, LoadInternal
      <4> QED
        BY <4>1 DEF Pipeline, Outgoing, Serving
    <3>2. \A i \in DOMAIN Pipeline : Pipeline[i] <= q
      BY <1>1, <2>0 DEF OrderInv, PipelineInOrder
    <3> QED
      BY <1>1, <3>1, <3>2 DEF OrderInv, PipelineInOrder
  <2> QED
    BY <2>2, <2>3
<1> QED
  BY <1>3, <1>4, <1>5 DEF OrderInv

\* The oldest call that waits is given a reply that is later than those before it, of
\* which there is one for each call before, and so not one to an earlier request.
LEMMA ReplyOrders ==
  ASSUME QInv, QInv', OrderInv, Receive(Server), Push(Server, Head(msg[Server]))
  PROVE  OrderInv'
<1> DEFINE h == Head(takers)
           m == Head(Pipeline)
           n == asked - Len(takers)
<1>1. /\ takers # <<>> /\ takers' = Tail(takers) /\ answer' = [answer EXCEPT ![h] = m]
      /\ asked' = asked /\ Pipeline' = Tail(Pipeline) /\ m \in Queries /\ Pipeline # <<>>
  <2>1. Reply(Head(msg[Server])) /\ external' = external
    BY Lengths DEF Push
  <2>2. asked' = asked
    BY DEF Receive
  <2> QED
    BY <2>1, <2>2, ReceiveServerTakes DEF Reply
<1>2. /\ takers \in Seq(Queries) /\ Len(takers) \in Nat /\ asked \in Nat /\ asked <= MaxQueries
      /\ Len(takers) >= 1 /\ DOMAIN takers = 1 .. Len(takers)
      /\ answer \in [Queries -> 0 .. MaxQueries] /\ MaxQueries \in Nat
  BY <1>1, TypesOf, Lengths, QueryAssumption, EmptySeq, LenProperties
<1>3. /\ Len(takers') = Len(takers) - 1 /\ DOMAIN takers' = 1 .. Len(takers) - 1
      /\ \A i \in 1 .. Len(takers) - 1 : takers'[i] = takers[i + 1]
      /\ h = takers[1] /\ h \in Queries
  BY <1>1, <1>2, HeadTailProperties
<1>4. h = n + 1 /\ n \in Nat
  <2>1. Len(takers) <= asked /\ 1 \in DOMAIN takers
    BY <1>2 DEF OrderInv, CallsInRow
  <2>2. takers[1] = asked - Len(takers) + 1
    BY <2>1 DEF OrderInv, CallsInRow
  <2> QED
    BY <1>2, <1>3, <2>1, <2>2
<1>5. /\ Pipeline \in Seq(Queries) /\ Len(Pipeline) \in Nat /\ Len(Pipeline) >= 1
      /\ DOMAIN Pipeline = 1 .. Len(Pipeline)
      /\ \A i \in DOMAIN Pipeline : Pipeline[i] \in Nat
  BY <1>1, PipelineIs
<1>6. /\ DOMAIN Pipeline' = 1 .. Len(Pipeline) - 1 /\ m = Pipeline[1]
      /\ \A i \in 1 .. Len(Pipeline) - 1 : Pipeline'[i] = Pipeline[i + 1]
  BY <1>1, <1>5, HeadTailProperties
<1>7. /\ m <= asked /\ \A q \in Queries : answer[q] < m
      /\ \A i \in 1 .. Len(Pipeline) - 1 : m < Pipeline'[i]
  BY <1>5, <1>6 DEF OrderInv, PipelineInOrder, Increasing
<1>8. h <= m
  <2>1. CASE n = 0
    BY <1>1, <1>4, <2>1 DEF Queries
  <2>2. CASE n > 0
    <3>1. n \in Queries /\ answer[n] # 0
      BY <1>2, <1>4, <2>2 DEF OrderInv, CallsInRow, Queries
    <3>2. n <= answer[n] /\ answer[n] \in Nat
      BY <1>2, <3>1 DEF OrderInv, RepliesInOrder
    <3> QED
      BY <1>1, <1>4, <1>7, <3>1, <3>2 DEF Queries
  <2> QED
    BY <1>4, <2>1, <2>2
<1>9. CallsInRow'
  <2>1. asked' - Len(takers') = n + 1 /\ Len(takers') <= asked'
    BY <1>1, <1>2, <1>3, <1>4
  <2>2. \A i \in DOMAIN takers' : takers'[i] = asked' - Len(takers') + i
    <3> TAKE i \in DOMAIN takers'
    <3>1. takers'[i] = takers[i + 1] /\ i + 1 \in DOMAIN takers /\ i \in Nat
      BY <1>2, <1>3
    <3>2. takers[i + 1] = n + (i + 1)
      BY <3>1 DEF OrderInv, CallsInRow
    <3> QED
      BY <1>4, <2>1, <3>1, <3>2
  <2>3. \A q \in Queries : answer'[q] # 0 <=> q <= n + 1
    <3> TAKE q \in Queries
    <3>1. CASE q = h
      BY <1>1, <1>2, <1>4, <3>1 DEF Queries
    <3>2. CASE q # h
      <4>1. answer'[q] = answer[q] /\ (answer[q] # 0 <=> q <= n) /\ q \in Nat
        BY <1>1, <1>2, <3>2 DEF OrderInv, CallsInRow, Queries
      <4> QED
        BY <1>4, <3>2, <4>1
    <3> QED
      BY <3>1, <3>2
  <2> QED
    BY <2>1, <2>2, <2>3 DEF CallsInRow
<1>10. answer'[h] = m /\ \A q \in Queries : q # h => answer'[q] = answer[q]
  BY <1>1, <1>2, <1>3
<1>11. \A q \in Queries : answer'[q] # 0 /\ q # h => q < h
  BY <1>2, <1>4, <1>10 DEF OrderInv, CallsInRow, Queries
<1>12. RepliesInOrder'
  <2>1. \A p, q \in Queries : p < q /\ answer'[p] # 0 /\ answer'[q] # 0 => answer'[p] < answer'[q]
    <3> SUFFICES ASSUME NEW p \in Queries, NEW q \in Queries,
                        p < q, answer'[p] # 0, answer'[q] # 0
                 PROVE  answer'[p] < answer'[q]
      OBVIOUS
    <3>1. p # h
      BY <1>3, <1>11 DEF Queries
    <3>2. CASE q = h
      BY <1>7, <1>10, <3>1, <3>2
    <3>3. CASE q # h
      BY <1>10, <3>1, <3>3 DEF OrderInv, RepliesInOrder
    <3> QED
      BY <3>2, <3>3
  <2>2. \A q \in Queries : answer'[q] # 0 => answer'[q] \in q .. asked'
    <3> TAKE q \in Queries
    <3>1. CASE q = h
      BY <1>1, <1>2, <1>7, <1>8, <1>10, <3>1 DEF Queries
    <3>2. CASE q # h
      BY <1>1, <1>10, <3>2 DEF OrderInv, RepliesInOrder
    <3> QED
      BY <3>1, <3>2
  <2> QED
    BY <2>1, <2>2 DEF RepliesInOrder
<1>13. PipelineInOrder'
  <2>1. Increasing(Pipeline')
    <3> SUFFICES ASSUME NEW i \in DOMAIN Pipeline', NEW j \in DOMAIN Pipeline', i < j
                 PROVE  Pipeline'[i] < Pipeline'[j]
      BY DEF Increasing
    <3>1. /\ i + 1 \in DOMAIN Pipeline /\ j + 1 \in DOMAIN Pipeline /\ i + 1 < j + 1
          /\ Pipeline'[i] = Pipeline[i + 1] /\ Pipeline'[j] = Pipeline[j + 1]
      BY <1>5, <1>6
    <3>2. Pipeline[i + 1] < Pipeline[j + 1]
      BY <3>1 DEF OrderInv, PipelineInOrder, Increasing
    <3> QED
      BY <3>1, <3>2
  <2>2. \A i \in DOMAIN Pipeline' : Pipeline'[i] <= asked
    BY <1>5, <1>6 DEF OrderInv, PipelineInOrder
  <2>3. \A i \in DOMAIN Pipeline', q \in Queries : answer'[q] < Pipeline'[i]
    <3> TAKE i \in DOMAIN Pipeline', q \in Queries
    <3>1. Pipeline'[i] = Pipeline[i + 1] /\ i + 1 \in DOMAIN Pipeline /\ m < Pipeline'[i]
      BY <1>5, <1>6, <1>7
    <3>2. CASE q = h
      BY <1>10, <3>1, <3>2
    <3>3. CASE q # h
      BY <1>10, <3>1, <3>3 DEF OrderInv, PipelineInOrder
    <3> QED
      BY <3>2, <3>3
  <2> QED
    BY <1>1, <2>1, <2>2, <2>3 DEF PipelineInOrder
<1> QED
  BY <1>9, <1>12, <1>13 DEF OrderInv

LEMMA OrderStep ==
  ASSUME QInv, QInv', OrderInv, [Next]_queryVars
  PROVE  OrderInv'
<1>1. CASE Query
  BY <1>1, QueryOrders
<1>2. CASE HandlerStarts
  <2>1. UNCHANGED <<asked, takers, answer>>
    BY <1>2 DEF HandlerStarts
  <2> QED
    BY <1>2, <2>1, HandlerStartsMatched, OrderKept
<1>3. CASE HandlerReplies
  <2>1. UNCHANGED <<asked, takers, answer>>
    BY <1>3 DEF HandlerReplies
  <2> QED
    BY <1>3, <2>1, HandlerRepliesMatched, HandlerRepliesThins, OrderKept
<1>4. ASSUME NEW s \in Sides, Pull(s)
      PROVE  OrderInv'
  <2>1. UNCHANGED <<asked, takers, answer>>
    BY <1>4 DEF Pull
  <2> QED
    BY <1>4, <2>1, PullMatched, PullThins, OrderKept
<1>5. ASSUME Receive(Client)
      PROVE  OrderInv'
  <2>1. UNCHANGED <<asked, takers, answer>>
    BY <1>5, Lengths DEF Receive, Push
  <2>2. CASE external' = external
    BY <1>5, <2>1, <2>2, ReceiveClientThins, OrderKept
  <2>3. CASE external' # external
    <3>1. Push(Client, Head(msg[Client])) /\ Len(external) < ExternalRoom
      BY <1>5, <2>3, Lengths DEF Receive, Push
    <3> QED
      BY <1>5, <2>1, <3>1, ReceiveClientMatched, OrderKept
  <2> QED
    BY <2>2, <2>3
<1>6. ASSUME Receive(Server)
      PROVE  OrderInv'
  <2>1. CASE Push(Server, Head(msg[Server]))
    BY <1>6, <2>1, ReplyOrders
  <2>2. CASE UNCHANGED <<takers, answer, external>>
    <3>1. asked' = asked
      BY <1>6 DEF Receive
    <3> QED
      BY <1>6, <2>2, <3>1, ReceiveServerThins, OrderKept
  <2> QED
    BY <1>6, <2>1, <2>2 DEF Receive
<1>7. CASE \/ \E s \in Sides : Acknowledged(s)
           \/ SessionEnds
           \/ UNCHANGED queryVars
  <2>1. UNCHANGED <<asked, takers, answer, internal, msg, external, handling>>
    BY <1>7 DEF Acknowledged, SessionEnds, queryVars
  <2>2. Pipeline' = Pipeline
    BY <2>1 DEF Pipeline, Outgoing, Serving
  <2> QED
    BY <2>1, <2>2, OrderKept
<1> QED
  BY <1>1, <1>2, <1>3, <1>4, <1>5, <1>6, <1>7 DEF Next, Progress, Sides

\* Whatever is refused, rejected or lost with the session, a later call of query is never
\* given an earlier reply than an earlier call, and no call gets a reply to a request
\* made before it.
THEOREM RepliesComeInOrder == Spec => []RepliesInOrder
<1>1. Init => QInv /\ OrderInv
  BY QInit, OrderInit
<1>2. QInv /\ OrderInv /\ [Next]_queryVars => (QInv /\ OrderInv)'
  BY QStep, OrderStep
<1>3. OrderInv => RepliesInOrder
  BY DEF OrderInv
<1> QED
  BY <1>1, <1>2, <1>3, PTL DEF Spec
=============================================================================
