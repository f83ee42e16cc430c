------------------------ MODULE CircularBufferProofs ------------------------
(***************************************************************************)
(* Proofs about CircularBuffer for every Size and every set of values: the *)
(* type invariant, push's run-time assertion, the absence of holes, and    *)
(* the implementation of BoundedQueue.                                     *)
(***************************************************************************)
EXTENDS CircularBuffer, SequenceTheorems, TLAPS

(***************************************************************************)
(* Index arithmetic.  Place(h, i) is the slot of the i-th value of a ring  *)
(* whose head is h, and Held(h, t) how many values it holds, without the   *)
(* remainder operator.                                                     *)
(***************************************************************************)
Place(h, i) == IF h + i - 1 < Ring THEN h + i - 1 ELSE h + i - 1 - Ring

Held(h, t) == IF h <= t THEN t - h ELSE Ring - h + t

Following(h) == IF h = Size THEN 0 ELSE h + 1

\* The remainder of a sum of two ring indices.
LEMMA RemainderSmall ==
  ASSUME NEW r \in Nat, r > 0, NEW a \in Nat, a < 2 * r
  PROVE  a % r = IF a < r THEN a ELSE a - r
  OBVIOUS

\* The i-th value's slot is a slot.
LEMMA PlaceIsRemainder ==
  ASSUME NEW h \in Slots, NEW i \in 1 .. Ring
  PROVE  (h + i - 1) % Ring = Place(h, i) /\ Place(h, i) \in Slots
<1> DEFINE sum == h + i - 1
<1>1. /\ Ring \in Nat /\ Ring > 0
      /\ sum \in Nat
      /\ sum < 2 * Ring
  BY SizeAssumption DEF Ring, Slots
<1>2. sum % Ring = IF sum < Ring THEN sum ELSE sum - Ring
  <2> HIDE DEF sum
  <2> QED
    BY <1>1, RemainderSmall
<1>3. Place(h, i) \in Slots
  BY SizeAssumption DEF Place, Ring, Slots
<1>4. h \in Nat /\ i \in Nat /\ Ring \in Nat
  BY <1>1 DEF Slots
<1> QED
  BY <1>2, <1>3, <1>4 DEF Place

\* Advancing an index.
LEMMA AdvanceIsFollowing ==
  ASSUME NEW h \in Slots
  PROVE  Advance(h) = Following(h) /\ Following(h) \in Slots
<1> DEFINE sum == h + 1
<1>1. /\ Ring \in Nat /\ Ring > 0
      /\ sum \in Nat
      /\ sum < 2 * Ring
  BY SizeAssumption DEF Ring, Slots
<1>2. sum % Ring = IF sum < Ring THEN sum ELSE sum - Ring
  <2> HIDE DEF sum
  <2> QED
    BY <1>1, RemainderSmall
<1>3. Following(h) = IF h + 1 < Ring THEN h + 1 ELSE h + 1 - Ring
  BY SizeAssumption DEF Following, Ring, Slots
<1>4. Following(h) \in Slots
  BY SizeAssumption DEF Following, Slots
<1>5. h \in Nat /\ Ring \in Nat
  BY <1>1 DEF Slots
<1> QED
  BY <1>2, <1>3, <1>4, <1>5 DEF Advance

\* A ring holds at most Size values, and none exactly when head = tail.
LEMMA HeldBound ==
  ASSUME NEW h \in Slots, NEW t \in Slots
  PROVE  Held(h, t) \in 0 .. Size /\ (Held(h, t) = 0 <=> h = t)
  BY SizeAssumption DEF Held, Ring, Slots

\* Storing at the tail adds one value behind the others.
LEMMA StoreMovesTail ==
  ASSUME NEW h \in Slots, NEW t \in Slots, Following(t) # h
  PROVE  /\ Held(h, Following(t)) = Held(h, t) + 1
         /\ Place(h, Held(h, t) + 1) = t
         /\ \A i \in 1 .. Held(h, t) : Place(h, i) # t
         /\ Held(h, t) < Size
  BY SizeAssumption DEF Held, Place, Following, Ring, Slots

\* When the tail cannot move, the ring holds Size values.
LEMMA FullHoldsSize ==
  ASSUME NEW h \in Slots, NEW t \in Slots, Following(t) = h
  PROVE  Held(h, t) = Size
  BY SizeAssumption DEF Held, Following, Ring, Slots

\* Removing at the head leaves the others in their slots.
LEMMA TakeMovesHead ==
  ASSUME NEW h \in Slots, NEW t \in Slots, h # t
  PROVE  /\ Held(Following(h), t) = Held(h, t) - 1
         /\ Place(h, 1) = h
         /\ \A i \in 1 .. Held(h, t) - 1 :
              Place(Following(h), i) = Place(h, i + 1) /\ Place(h, i + 1) # h
  BY SizeAssumption DEF Held, Place, Following, Ring, Slots
-----------------------------------------------------------------------------
(***************************************************************************)
(* The inductive invariant.  A take may hand out a hole unless NoHoleInside *)
(* holds, and then `got` would not be a sequence of values: the type        *)
(* invariant is not inductive without it.                                   *)
(***************************************************************************)
RingOK == \A i \in 1 .. Held(head, tail) : buffer[Place(head, i)] \in Values

IInv == TypeOK /\ WaitersOnlyWhenEmpty /\ RingOK

\* Contents, without the remainder operator.
LEMMA ContentsByPlace ==
  ASSUME head \in Slots, tail \in Slots
  PROVE  /\ Count = Held(head, tail)
         /\ Contents = [i \in 1 .. Held(head, tail) |-> buffer[Place(head, i)]]
<1>1. Count = Held(head, tail)
  BY DEF Count, Held
<1>2. \A i \in 1 .. Held(head, tail) :
        i \in 1 .. Ring /\ (head + i - 1) % Ring = Place(head, i)
  <2> SUFFICES ASSUME NEW i \in 1 .. Held(head, tail)
               PROVE  i \in 1 .. Ring /\ (head + i - 1) % Ring = Place(head, i)
    OBVIOUS
  <2>1. i \in 1 .. Ring
    BY HeldBound, SizeAssumption DEF Ring
  <2> QED
    BY <2>1, PlaceIsRemainder
<1> QED
  BY <1>1, <1>2 DEF Contents

\* The slices that flush concatenates are the contents.
LEMMA FlushReturnsContents ==
  ASSUME head \in Slots, tail \in Slots, head # tail, RingOK
  PROVE  /\ Buffered \in Seq(Values)
         /\ Buffered = [i \in 1 .. Held(head, tail) |-> buffer[Place(head, i)]]
<1> DEFINE c == [i \in 1 .. Held(head, tail) |-> buffer[Place(head, i)]]
<1>0. head \in Nat /\ tail \in Nat /\ Held(head, tail) \in Nat
  BY HeldBound, SizeAssumption DEF Slots
<1>1. c \in Seq(Values)
  BY <1>0, SeqDef DEF RingOK
<1>2. CASE head < tail
  <2>1. Held(head, tail) = tail - head
    BY <1>0, <1>2 DEF Held
  <2>2. \A i \in 1 .. tail - head : Place(head, i) = head + i - 1
    BY <1>0, <1>2, SizeAssumption DEF Place, Ring, Slots
  <2>3. Buffered = Slice(head, tail)
    BY <1>2 DEF Buffered
  <2>4. Slice(head, tail) = c
    BY <2>1, <2>2 DEF Slice
  <2> QED
    BY <1>1, <2>3, <2>4
<1>3. CASE ~(head < tail)
  <2> DEFINE a == Slice(head, Ring)
             b == Slice(0, tail)
             na == Ring - head
  <2>1. /\ na \in Nat /\ Held(head, tail) = na + tail
    BY <1>0, <1>3, SizeAssumption DEF Held, Ring, Slots
  <2>2. \A i \in 1 .. na : Place(head, i) = head + i - 1 /\ i \in 1 .. Held(head, tail)
    BY <1>0, <2>1, SizeAssumption DEF Place, Ring, Slots
  <2>3. \A i \in 1 .. tail :
          Place(head, na + i) = 0 + i - 1 /\ na + i \in 1 .. Held(head, tail)
    BY <1>0, <2>1, SizeAssumption DEF Place, Ring, Slots
  <2>4. a \in Seq(Values) /\ Len(a) = na /\ \A i \in 1 .. na : a[i] = c[i]
    <3>1. a = [i \in 1 .. na |-> buffer[head + i - 1]]
      BY DEF Slice
    <3>2. a \in [1 .. na -> Values]
      BY <3>1, <2>2 DEF RingOK
    <3> QED
      BY <3>1, <3>2, <2>1, <2>2, SeqDef
  <2>5. b \in Seq(Values) /\ Len(b) = tail /\ \A i \in 1 .. tail : b[i] = c[na + i]
    <3>1. b = [i \in 1 .. tail |-> buffer[0 + i - 1]]
      BY <1>0 DEF Slice
    <3>2. b \in [1 .. tail -> Values]
      BY <3>1, <2>3 DEF RingOK
    <3> QED
      BY <3>1, <3>2, <1>0, <2>3, SeqDef
  <2>6. Buffered = a \o b
    BY <1>3 DEF Buffered
  <2>7. Len(c) = na + tail /\ Len(a \o b) = na + tail /\ a \o b \in Seq(Values)
    BY <1>1, <2>1, <2>4, <2>5, ConcatProperties, <1>0
  <2>8. ASSUME NEW i \in 1 .. na + tail
        PROVE  (a \o b)[i] = c[i]
    <3> HIDE DEF a, b, c, na
    <3>1. (a \o b)[i] = IF i <= na THEN a[i] ELSE b[i - na]
      BY <2>4, <2>5, ConcatProperties, <1>0, <2>1
    <3>2. CASE i <= na
      BY <3>1, <3>2, <2>4, <2>1
    <3>3. CASE ~(i <= na)
      <4>1. i - na \in 1 .. tail /\ na + (i - na) = i
        BY <3>3, <1>0, <2>1
      <4> QED
        BY <4>1, <3>1, <3>3, <2>5
    <3> QED
      BY <3>2, <3>3
  <2>9. a \o b = c
    <3> HIDE DEF a, b, c, na
    <3> QED
      BY <1>1, <2>7, <2>8, SeqEqual
  <2> QED
    BY <1>1, <2>6, <2>9
<1> QED
  BY <1>2, <1>3
-----------------------------------------------------------------------------
\* What a full slot assignment at the tail does to the ring: one more value,
\* behind the others.
LEMMA StoreStep ==
  ASSUME IInv, NEW v \in Values, Advance(tail) # head,
         buffer' = [buffer EXCEPT ![tail] = v],
         tail' = Advance(tail), head' = head
  PROVE  /\ tail' \in Slots
         /\ buffer' \in [Slots -> Values \union {Hole}]
         /\ Held(head', tail') = Held(head, tail) + 1
         /\ Held(head, tail) < Size
         /\ \A i \in 1 .. Held(head, tail) :
              buffer'[Place(head', i)] = buffer[Place(head, i)]
         /\ buffer'[Place(head', Held(head, tail) + 1)] = v
<1>1. /\ head \in Slots /\ tail \in Slots
      /\ buffer \in [Slots -> Values \union {Hole}]
  BY DEF IInv, TypeOK
<1>2. tail' = Following(tail) /\ tail' \in Slots
  BY <1>1, AdvanceIsFollowing
<1>3. /\ Held(head, Following(tail)) = Held(head, tail) + 1
      /\ Place(head, Held(head, tail) + 1) = tail
      /\ \A i \in 1 .. Held(head, tail) : Place(head, i) # tail
      /\ Held(head, tail) < Size
  BY <1>1, <1>2, StoreMovesTail
<1>4. \A i \in 1 .. Held(head, tail) : Place(head, i) \in Slots
  <2> SUFFICES ASSUME NEW i \in 1 .. Held(head, tail) PROVE Place(head, i) \in Slots
    OBVIOUS
  <2>1. i \in 1 .. Ring
    BY <1>1, HeldBound, SizeAssumption DEF Ring
  <2> QED
    BY <1>1, <2>1, PlaceIsRemainder
<1> QED
  BY <1>1, <1>2, <1>3, <1>4

\* What handing out the value at the head does to the ring.
LEMMA TakeStep ==
  ASSUME IInv, head # tail, tail' = tail,
         buffer' = [buffer EXCEPT ![head] = Hole],
         head' = Advance(head)
  PROVE  /\ head' \in Slots
         /\ buffer' \in [Slots -> Values \union {Hole}]
         /\ Held(head, tail) > 0
         /\ Held(head', tail') = Held(head, tail) - 1
         /\ buffer[head] = buffer[Place(head, 1)]
         /\ buffer[head] \in Values
         /\ \A i \in 1 .. Held(head, tail) - 1 :
              buffer'[Place(head', i)] = buffer[Place(head, i + 1)]
<1>1. /\ head \in Slots /\ tail \in Slots
      /\ buffer \in [Slots -> Values \union {Hole}]
  BY DEF IInv, TypeOK
<1>2. head' = Following(head) /\ head' \in Slots
  BY <1>1, AdvanceIsFollowing
<1>3. /\ Held(Following(head), tail) = Held(head, tail) - 1
      /\ Place(head, 1) = head
      /\ \A i \in 1 .. Held(head, tail) - 1 :
           Place(Following(head), i) = Place(head, i + 1) /\ Place(head, i + 1) # head
  BY <1>1, TakeMovesHead
<1>4. Held(head, tail) \in Nat /\ Held(head, tail) > 0 /\ Held(head, tail) <= Size
  BY <1>1, HeldBound, SizeAssumption
<1>5. buffer[head] \in Values
  BY <1>3, <1>4 DEF IInv, RingOK
<1>6. \A i \in 1 .. Held(head, tail) - 1 : Place(head, i + 1) \in Slots
  <2> SUFFICES ASSUME NEW i \in 1 .. Held(head, tail) - 1
               PROVE  Place(head, i + 1) \in Slots
    OBVIOUS
  <2>1. i + 1 \in 1 .. Ring
    BY <1>4, SizeAssumption DEF Ring
  <2> QED
    BY <1>1, <2>1, PlaceIsRemainder
<1> QED
  BY <1>1, <1>2, <1>3, <1>4, <1>5, <1>6
-----------------------------------------------------------------------------
\* The invariant holds initially and every step preserves it.
LEMMA InitInvariant == Init => IInv
<1> SUFFICES ASSUME Init PROVE IInv
  OBVIOUS
<1>1. TypeOK
  <2>1. head \in Slots /\ tail \in Slots
    BY SizeAssumption DEF Init, Slots
  <2>2. buffer \in [Slots -> Values \union {Hole}]
    BY DEF Init
  <2>3. onPush \in Seq({"take", "flush"}) /\ put \in Seq(Values) /\ got \in Seq(Values)
    BY EmptySeq DEF Init
  <2>4. dropped \in BOOLEAN /\ reply \in {"none", "accepted", "full"}
    BY DEF Init
  <2> QED
    BY <2>1, <2>2, <2>3, <2>4 DEF TypeOK
<1>2. Held(head, tail) = 0
  BY SizeAssumption DEF Init, Held
<1> QED
  BY <1>1, <1>2 DEF Init, IInv, WaitersOnlyWhenEmpty, RingOK

LEMMA NextInvariant == IInv /\ [Next]_vars => IInv'
<1> SUFFICES ASSUME IInv, [Next]_vars PROVE IInv'
  OBVIOUS
<1> USE DEF IInv, TypeOK, WaitersOnlyWhenEmpty
<1>1. ASSUME NEW v \in Values, Push(v) PROVE IInv'
  <2>1. CASE onPush # <<>> /\ tail = head
    <3>1. /\ onPush' = Tail(onPush) /\ put' = Append(put, v) /\ got' = Append(got, v)
          /\ reply' = "accepted"
          /\ UNCHANGED <<head, tail, buffer, dropped>>
      BY <1>1, <2>1 DEF Push
    <3>2. /\ onPush' \in Seq({"take", "flush"})
          /\ put' \in Seq(Values) /\ got' \in Seq(Values)
      BY <3>1, <2>1, HeadTailProperties, AppendProperties
    <3>3. RingOK'
      BY <3>1 DEF RingOK
    <3> QED
      BY <3>1, <3>2, <3>3, <2>1
  <2>2. CASE onPush = <<>> /\ Advance(tail) # head
    <3>1. /\ buffer' = [buffer EXCEPT ![tail] = v] /\ tail' = Advance(tail)
          /\ put' = Append(put, v) /\ reply' = "accepted"
          /\ UNCHANGED <<head, onPush, dropped, got>>
      BY <1>1, <2>2 DEF Push
    <3>2. /\ tail' \in Slots
          /\ buffer' \in [Slots -> Values \union {Hole}]
          /\ Held(head', tail') = Held(head, tail) + 1
          /\ \A i \in 1 .. Held(head, tail) :
               buffer'[Place(head', i)] = buffer[Place(head, i)]
          /\ buffer'[Place(head', Held(head, tail) + 1)] = v
      BY <3>1, <2>2, StoreStep
    <3>3. RingOK'
      <4>1. SUFFICES ASSUME NEW i \in 1 .. Held(head', tail')
                     PROVE  buffer'[Place(head', i)] \in Values
        BY DEF RingOK
      <4>2. Held(head, tail) \in Nat
        BY HeldBound, SizeAssumption
      <4>3. CASE i = Held(head, tail) + 1
        BY <4>3, <3>2
      <4>4. CASE i # Held(head, tail) + 1
        <5>1. i \in 1 .. Held(head, tail)
          BY <4>2, <4>4, <3>2
        <5> QED
          BY <5>1, <3>2 DEF RingOK
      <4> QED
        BY <4>3, <4>4
    <3>4. put' \in Seq(Values)
      BY <3>1, AppendProperties
    <3> QED
      BY <3>1, <3>2, <3>3, <3>4, <2>2
  <2>3. CASE onPush = <<>> /\ Advance(tail) = head
    <3>1. reply' = "full" /\ UNCHANGED <<head, tail, buffer, onPush, dropped, put, got>>
      BY <1>1, <2>3 DEF Push
    <3> QED
      BY <3>1 DEF RingOK
  <2> QED
    BY <1>1, <2>1, <2>2, <2>3 DEF Push
<1>2. ASSUME Take PROVE IInv'
  <2>1. CASE head = tail
    <3>1. /\ onPush' = Append(onPush, "take")
          /\ UNCHANGED <<head, tail, buffer, dropped, put, got, reply>>
      BY <1>2, <2>1 DEF Take
    <3>2. onPush' \in Seq({"take", "flush"})
      BY <3>1, AppendProperties
    <3> QED
      BY <3>1, <3>2, <2>1 DEF RingOK
  <2>2. CASE head # tail
    <3>1. /\ got' = Append(got, buffer[head])
          /\ buffer' = [buffer EXCEPT ![head] = Hole]
          /\ head' = Advance(head)
          /\ UNCHANGED <<tail, onPush, dropped, put, reply>>
      BY <1>2, <2>2 DEF Take
    <3>2. /\ head' \in Slots
          /\ buffer' \in [Slots -> Values \union {Hole}]
          /\ Held(head', tail') = Held(head, tail) - 1
          /\ buffer[head] \in Values
          /\ \A i \in 1 .. Held(head, tail) - 1 :
               buffer'[Place(head', i)] = buffer[Place(head, i + 1)]
      BY <3>1, <2>2, TakeStep
    <3>3. RingOK'
      BY <3>2, HeldBound, SizeAssumption DEF RingOK
    <3>4. got' \in Seq(Values)
      BY <3>1, <3>2, AppendProperties
    <3> QED
      BY <3>1, <3>2, <3>3, <3>4, <2>2
  <2> QED
    BY <2>1, <2>2
<1>3. ASSUME Flush PROVE IInv'
  <2>1. CASE head = tail
    <3>1. /\ onPush' = onPush \/ onPush' = Append(onPush, "flush")
          /\ UNCHANGED <<head, tail, buffer, dropped, put, got, reply>>
      BY <1>3, <2>1 DEF Flush
    <3>2. onPush' \in Seq({"take", "flush"})
      BY <3>1, AppendProperties
    <3> QED
      BY <3>1, <3>2, <2>1 DEF RingOK
  <2>2. CASE head # tail
    <3>1. /\ got' = got \o Buffered /\ head' = 0 /\ tail' = 0
          /\ UNCHANGED <<buffer, onPush, dropped, put, reply>>
      BY <1>3, <2>2 DEF Flush
    <3>2. got' \in Seq(Values)
      BY <3>1, <2>2, FlushReturnsContents, ConcatProperties
    <3>3. head' \in Slots /\ tail' \in Slots /\ Held(head', tail') = 0
      BY <3>1, SizeAssumption DEF Slots, Held
    <3> QED
      BY <3>1, <3>2, <3>3 DEF RingOK
  <2> QED
    BY <2>1, <2>2
<1>4. ASSUME Drop PROVE IInv'
  BY <1>4 DEF Drop, RingOK
<1>5. ASSUME UNCHANGED vars PROVE IInv'
  BY <1>5 DEF vars, RingOK
<1> QED
  BY <1>1, <1>2, <1>3, <1>4, <1>5 DEF Next

\* The inductive invariant is an invariant of every behaviour.
THEOREM Invariance == Spec => []IInv
  BY InitInvariant, NextInvariant, PTL DEF Spec

\* The ring, its callbacks and its histories always have their types: no take
\* ever hands out an empty slot.
THEOREM TypeCorrect == Spec => []TypeOK
<1>1. IInv => TypeOK
  BY DEF IInv
<1> QED
  BY <1>1, Invariance, PTL

\* push never throws its invariant violation: callers wait only on an empty ring.
THEOREM NoInvariantViolation == Spec => []WaitersOnlyWhenEmpty
<1>1. IInv => WaitersOnlyWhenEmpty
  BY DEF IInv
<1> QED
  BY <1>1, Invariance, PTL

\* No slot in use is a hole, in the terms of CircularBuffer.
THEOREM NoHoles == Spec => []NoHoleInside
<1>1. IInv => NoHoleInside
  <2> SUFFICES ASSUME IInv PROVE NoHoleInside
    OBVIOUS
  <2>1. head \in Slots /\ tail \in Slots
    BY DEF IInv, TypeOK
  <2> QED
    BY <2>1, ContentsByPlace DEF IInv, RingOK, NoHoleInside
<1> QED
  BY <1>1, Invariance, PTL
-----------------------------------------------------------------------------
(***************************************************************************)
(* The ring implements BoundedQueue: each step of the ring is the queue's  *)
(* step of the same name on Contents.                                      *)
(***************************************************************************)
\* Contents as a sequence of values.
LEMMA ContentsSeq ==
  ASSUME IInv
  PROVE  /\ head \in Slots /\ tail \in Slots
         /\ Held(head, tail) \in 0 .. Size
         /\ Contents \in Seq(Values)
         /\ Len(Contents) = Held(head, tail)
         /\ \A i \in 1 .. Held(head, tail) : Contents[i] = buffer[Place(head, i)]
         /\ Contents = <<>> <=> head = tail
<1>1. head \in Slots /\ tail \in Slots
  BY DEF IInv, TypeOK
<1>2. Held(head, tail) \in 0 .. Size /\ (Held(head, tail) = 0 <=> head = tail)
  BY <1>1, HeldBound
<1>3. Contents = [i \in 1 .. Held(head, tail) |-> buffer[Place(head, i)]]
  BY <1>1, ContentsByPlace
<1>4. Contents \in [1 .. Held(head, tail) -> Values]
  BY <1>3 DEF IInv, RingOK
<1>5. Contents \in Seq(Values) /\ Len(Contents) = Held(head, tail)
  BY <1>2, <1>3, <1>4, SizeAssumption, SeqDef
<1>6. Contents = <<>> <=> Len(Contents) = 0
  BY <1>5, EmptySeq
<1> QED
  BY <1>1, <1>2, <1>3, <1>5, <1>6

\* A ring whose indices and slots do not change keeps its contents.
LEMMA ContentsKept ==
  ASSUME UNCHANGED <<head, tail, buffer>>
  PROVE  Contents' = Contents
  BY DEF Contents, Count

\* ContentsSeq after a step.
LEMMA ContentsSeqNext ==
  ASSUME IInv'
  PROVE  /\ Held(head', tail') \in 0 .. Size
         /\ Contents' \in Seq(Values)
         /\ Len(Contents') = Held(head', tail')
         /\ \A i \in 1 .. Held(head', tail') : Contents'[i] = buffer'[Place(head', i)]
         /\ Contents' = <<>> <=> head' = tail'
<1>1. head' \in Slots /\ tail' \in Slots
  BY DEF IInv, TypeOK
<1>2. Held(head', tail') \in 0 .. Size /\ (Held(head', tail') = 0 <=> head' = tail')
  BY <1>1, HeldBound
<1>3. Contents' = [i \in 1 .. Held(head', tail') |-> buffer'[Place(head', i)]]
  <2>1. Count' = Held(head', tail')
    BY DEF Count, Held
  <2>2. \A i \in 1 .. Held(head', tail') : (head' + i - 1) % Ring = Place(head', i)
    <3> SUFFICES ASSUME NEW i \in 1 .. Held(head', tail')
                 PROVE  (head' + i - 1) % Ring = Place(head', i)
      OBVIOUS
    <3>1. i \in 1 .. Ring
      BY <1>2, SizeAssumption DEF Ring
    <3> QED
      BY <1>1, <3>1, PlaceIsRemainder
  <2> QED
    BY <2>1, <2>2 DEF Contents
<1>4. Contents' \in [1 .. Held(head', tail') -> Values]
  BY <1>3 DEF IInv, RingOK
<1>5. Contents' \in Seq(Values) /\ Len(Contents') = Held(head', tail')
  BY <1>2, <1>3, <1>4, SizeAssumption, SeqDef
<1>6. Contents' = <<>> <=> Len(Contents') = 0
  BY <1>5, EmptySeq
<1> QED
  BY <1>1, <1>2, <1>3, <1>5, <1>6

LEMMA InitRefines == Init => Queue!Init
<1> SUFFICES ASSUME Init PROVE Queue!Init
  OBVIOUS
<1>1. Contents = <<>>
  BY InitInvariant, ContentsSeq DEF Init
<1> QED
  BY <1>1 DEF Init, Queue!Init

LEMMA NextRefines == IInv /\ IInv' /\ [Next]_vars => [Queue!Next]_(Queue!vars)
<1> SUFFICES ASSUME IInv, IInv', [Next]_vars PROVE [Queue!Next]_(Queue!vars)
  OBVIOUS
<1>0. /\ head \in Slots /\ tail \in Slots
      /\ Held(head, tail) \in 0 .. Size
      /\ Contents \in Seq(Values)
      /\ Len(Contents) = Held(head, tail)
      /\ \A i \in 1 .. Held(head, tail) : Contents[i] = buffer[Place(head, i)]
      /\ Contents = <<>> <=> head = tail
  BY ContentsSeq
<1>1. ASSUME NEW v \in Values, Push(v) PROVE Queue!Push(v)
  <2>1. CASE onPush # <<>> /\ tail = head
    <3>1. UNCHANGED <<head, tail, buffer>>
      BY <1>1, <2>1 DEF Push
    <3> QED
      BY <1>1, <2>1, <3>1, ContentsKept DEF Push, Queue!Push
  <2>2. CASE onPush = <<>> /\ Advance(tail) # head
    <3>1. /\ ~dropped
          /\ buffer' = [buffer EXCEPT ![tail] = v] /\ tail' = Advance(tail)
          /\ put' = Append(put, v) /\ reply' = "accepted"
          /\ UNCHANGED <<head, onPush, dropped, got>>
      BY <1>1, <2>2 DEF Push
    <3>2. /\ Held(head', tail') = Held(head, tail) + 1
          /\ Held(head, tail) < Size
          /\ \A i \in 1 .. Held(head, tail) :
               buffer'[Place(head', i)] = buffer[Place(head, i)]
          /\ buffer'[Place(head', Held(head, tail) + 1)] = v
      BY <3>1, <2>2, StoreStep
    <3>3. Contents' = Append(Contents, v)
      <4>1. /\ Contents' \in Seq(Values)
            /\ Len(Contents') = Held(head, tail) + 1
            /\ \A i \in 1 .. Held(head, tail) + 1 : Contents'[i] = buffer'[Place(head', i)]
        BY <3>2, ContentsSeqNext
      <4>2. /\ Append(Contents, v) \in Seq(Values)
            /\ Len(Append(Contents, v)) = Held(head, tail) + 1
            /\ \A i \in 1 .. Held(head, tail) : Append(Contents, v)[i] = Contents[i]
            /\ Append(Contents, v)[Held(head, tail) + 1] = v
        BY <1>0, AppendProperties
      <4>3. ASSUME NEW i \in 1 .. Held(head, tail) + 1
            PROVE  Contents'[i] = Append(Contents, v)[i]
        <5>1. CASE i = Held(head, tail) + 1
          BY <5>1, <4>1, <4>2, <3>2
        <5>2. CASE i # Held(head, tail) + 1
          <6>1. i \in 1 .. Held(head, tail)
            BY <5>2, <1>0, SizeAssumption
          <6> QED
            BY <6>1, <4>1, <4>2, <3>2, <1>0
        <5> QED
          BY <5>1, <5>2
      <4> QED
        BY <4>1, <4>2, <4>3, SeqEqual
    <3> QED
      BY <1>0, <2>2, <3>1, <3>2, <3>3 DEF Queue!Push
  <2>3. CASE onPush = <<>> /\ Advance(tail) = head
    <3>1. ~dropped /\ reply' = "full" /\ UNCHANGED <<head, tail, buffer, onPush, dropped, put, got>>
      BY <1>1, <2>3 DEF Push
    <3>2. Len(Contents) = Size
      BY <1>0, <2>3, AdvanceIsFollowing, FullHoldsSize
    <3> QED
      BY <2>3, <3>1, <3>2, ContentsKept DEF Queue!Push
  <2> QED
    BY <1>1, <2>1, <2>2, <2>3 DEF Push
<1>2. ASSUME Take PROVE Queue!Take
  <2>1. CASE head = tail
    <3>1. UNCHANGED <<head, tail, buffer>>
      BY <1>2, <2>1 DEF Take
    <3> QED
      BY <1>0, <1>2, <2>1, <3>1, ContentsKept DEF Take, Queue!Take
  <2>2. CASE head # tail
    <3>1. /\ ~dropped
          /\ got' = Append(got, buffer[head])
          /\ buffer' = [buffer EXCEPT ![head] = Hole]
          /\ head' = Advance(head)
          /\ UNCHANGED <<tail, onPush, dropped, put, reply>>
      BY <1>2, <2>2 DEF Take
    <3>2. /\ Held(head, tail) > 0
          /\ Held(head', tail') = Held(head, tail) - 1
          /\ buffer[head] = buffer[Place(head, 1)]
          /\ \A i \in 1 .. Held(head, tail) - 1 :
               buffer'[Place(head', i)] = buffer[Place(head, i + 1)]
      BY <3>1, <2>2, TakeStep
    <3>3. Head(Contents) = buffer[head]
      <4>1. Contents # <<>> /\ 1 \in 1 .. Held(head, tail)
        BY <1>0, <2>2, <3>2, SizeAssumption
      <4>2. Head(Contents) = Contents[1]
        BY <4>1, <1>0
      <4> QED
        BY <4>1, <4>2, <3>2, <1>0
    <3>4. Contents' = Tail(Contents)
      <4>1. /\ Contents' \in Seq(Values)
            /\ Len(Contents') = Held(head, tail) - 1
            /\ \A i \in 1 .. Held(head, tail) - 1 : Contents'[i] = buffer'[Place(head', i)]
        BY <3>2, ContentsSeqNext
      <4>2. /\ Tail(Contents) \in Seq(Values)
            /\ Len(Tail(Contents)) = Held(head, tail) - 1
            /\ \A i \in 1 .. Held(head, tail) - 1 : Tail(Contents)[i] = Contents[i + 1]
        BY <1>0, <2>2, HeadTailProperties
      <4>3. ASSUME NEW i \in 1 .. Held(head, tail) - 1
            PROVE  Contents'[i] = Tail(Contents)[i]
        <5>1. i + 1 \in 1 .. Held(head, tail)
          BY <1>0, SizeAssumption
        <5> QED
          BY <5>1, <4>1, <4>2, <3>2, <1>0
      <4> QED
        BY <4>1, <4>2, <4>3, SeqEqual
    <3> QED
      BY <1>0, <2>2, <3>1, <3>3, <3>4 DEF Queue!Take
  <2> QED
    BY <2>1, <2>2
<1>3. ASSUME Flush PROVE [Queue!Next]_(Queue!vars)
  <2>1. CASE head = tail /\ onPush = <<>>
    <3>1. UNCHANGED <<head, tail, buffer, onPush, dropped, put, got, reply>>
      BY <1>3, <2>1 DEF Flush
    <3> QED
      BY <3>1, ContentsKept DEF Queue!vars
  <2>2. CASE head = tail /\ onPush # <<>>
    <3>1. UNCHANGED <<head, tail, buffer>>
      BY <1>3, <2>2 DEF Flush
    <3>2. Queue!Flush
      BY <1>0, <1>3, <2>2, <3>1, ContentsKept DEF Flush, Queue!Flush
    <3> QED
      BY <3>2 DEF Queue!Next
  <2>3. CASE head # tail
    <3>1. /\ ~dropped
          /\ got' = got \o Buffered /\ head' = 0 /\ tail' = 0
          /\ UNCHANGED <<buffer, onPush, dropped, put, reply>>
      BY <1>3, <2>3 DEF Flush
    <3>2. Buffered = Contents
      BY <1>0, <2>3, FlushReturnsContents, ContentsByPlace DEF IInv
    <3>3. Contents' = <<>>
      BY <3>1, ContentsSeqNext
    <3>4. Queue!Flush
      BY <1>0, <2>3, <3>1, <3>2, <3>3 DEF Queue!Flush
    <3> QED
      BY <3>4 DEF Queue!Next
  <2> QED
    BY <2>1, <2>2, <2>3
<1>4. ASSUME Drop PROVE Queue!Close
  BY <1>4, ContentsKept DEF Drop, Queue!Close
<1>5. ASSUME UNCHANGED vars PROVE UNCHANGED Queue!vars
  BY <1>5, ContentsKept DEF vars, Queue!vars
<1> QED
  BY <1>1, <1>2, <1>3, <1>4, <1>5 DEF Next, Queue!Next

\* Every behaviour of the ring is one of a bounded FIFO queue of capacity Size.
THEOREM Refinement == Spec => ImplementsQueue
<1>1. Spec => Queue!Spec
  BY InitRefines, NextRefines, Invariance, PTL DEF Spec, Queue!Spec
<1> QED
  BY <1>1 DEF ImplementsQueue
=============================================================================
