--------------------------- MODULE CircularBuffer ---------------------------
(***************************************************************************)
(* lib/CircularBuffer.ts: the ring that holds a socket's incoming bytes    *)
(* and a service's queued payloads.  `buffer` has one slot more than the   *)
(* requested Size so that head = tail means empty only; callers that find  *)
(* the ring empty leave a callback in `onPush`.                            *)
(***************************************************************************)
EXTENDS Naturals, Sequences

CONSTANTS
  Values,      \* what callers push
  Size,        \* the constructor's argument
  Hole,        \* an array slot nothing was assigned to, or was deleted from
  MaxPuts,     \* bound: accepted pushes in a behaviour
  MaxWaiters   \* bound: callers waiting at once

ASSUME SizeAssumption == Size \in Nat
ASSUME BoundAssumption == MaxPuts \in Nat /\ MaxWaiters \in Nat
ASSUME HoleAssumption == Hole \notin Values

VARIABLES
  head, tail, buffer,  \* the ring
  onPush,              \* the kinds of the pending callbacks, oldest first
  dropped,
  put, got, reply      \* histories: accepted, handed out; the last push's result

vars == <<head, tail, buffer, onPush, dropped, put, got, reply>>

Ring == Size + 1
Slots == 0 .. Size

\* Variant: an index that runs past the last slot.
Advance_NoWrap(i) == i + 1

\* The slot after i.
Advance(i) == (i + 1) % Ring

-----------------------------------------------------------------------------
Init ==
  /\ head = 0
  /\ tail = 0
  /\ buffer = [i \in Slots |-> Hole]
  /\ onPush = <<>>
  /\ dropped = FALSE
  /\ put = <<>>
  /\ got = <<>>
  /\ reply = "none"

\* Variant: a push that stores the value although a caller is waiting for it.
Push_IgnoresWaiters(v) ==
  /\ ~dropped
  /\ Len(put) < MaxPuts
  /\ Advance(tail) # head
  /\ buffer' = [buffer EXCEPT ![tail] = v]
  /\ tail' = Advance(tail)
  /\ put' = Append(put, v)
  /\ reply' = "accepted"
  /\ UNCHANGED <<head, onPush, dropped, got>>

\* push: the oldest waiting callback gets the value; otherwise the value is
\* stored, unless the ring is full.
Push(v) ==
  /\ ~dropped
  /\ Len(put) < MaxPuts
  /\ \/ /\ onPush # <<>>
        /\ tail = head
        /\ onPush' = Tail(onPush)
        /\ put' = Append(put, v)
        /\ got' = Append(got, v)
        /\ reply' = "accepted"
        /\ UNCHANGED <<tail, buffer>>
     \/ /\ onPush = <<>>
        /\ Advance(tail) # head
        /\ buffer' = [buffer EXCEPT ![tail] = v]
        /\ tail' = Advance(tail)
        /\ put' = Append(put, v)
        /\ reply' = "accepted"
        /\ UNCHANGED <<onPush, got>>
     \/ /\ onPush = <<>>
        /\ Advance(tail) = head
        /\ reply' = "full"
        /\ UNCHANGED <<tail, buffer, onPush, put, got>>
  /\ UNCHANGED <<head, dropped>>

Take ==
  /\ ~dropped
  /\ \/ /\ head = tail
        /\ Len(onPush) < MaxWaiters
        /\ onPush' = Append(onPush, "take")
        /\ UNCHANGED <<head, buffer, got>>
     \/ /\ head # tail
        /\ got' = Append(got, buffer[head])
        /\ buffer' = [buffer EXCEPT ![head] = Hole]
        /\ head' = Advance(head)
        /\ UNCHANGED onPush
  /\ UNCHANGED <<tail, dropped, put, reply>>

\* buffer.slice(from, to)
Slice(from, to) == [i \in 1 .. (to - from) |-> buffer[from + i - 1]]

\* Variant: a flush that forgets the part of the ring before `tail`.
Buffered_NoWrap == IF head < tail THEN Slice(head, tail) ELSE Slice(head, Ring)

\* The values flush returns when the ring is not empty.
Buffered ==
  IF head < tail THEN Slice(head, tail) ELSE Slice(head, Ring) \o Slice(0, tail)

Flush ==
  /\ ~dropped
  /\ \/ /\ head = tail
        /\ onPush = <<>>
        /\ UNCHANGED <<head, tail, onPush, got>>
     \/ /\ head = tail
        /\ onPush # <<>>
        /\ Len(onPush) < MaxWaiters
        /\ onPush' = Append(onPush, "flush")
        /\ UNCHANGED <<head, tail, got>>
     \/ /\ head # tail
        /\ got' = got \o Buffered
        /\ head' = 0
        /\ tail' = 0
        /\ UNCHANGED onPush
  /\ UNCHANGED <<buffer, dropped, put, reply>>

\* drop rejects the waiting callers; every later operation throws.
Drop ==
  /\ dropped' = TRUE
  /\ UNCHANGED <<head, tail, buffer, onPush, put, got, reply>>

Next == (\E v \in Values : Push(v)) \/ Take \/ Flush \/ Drop

Spec == Init /\ [][Next]_vars
-----------------------------------------------------------------------------
\* The ring and its histories have their types.
TypeOK ==
  /\ head \in Slots
  /\ tail \in Slots
  /\ buffer \in [Slots -> Values \union {Hole}]
  /\ onPush \in Seq({"take", "flush"})
  /\ dropped \in BOOLEAN
  /\ put \in Seq(Values)
  /\ got \in Seq(Values)
  /\ reply \in {"none", "accepted", "full"}

\* The state in which push throws "Invariant violation: Push callbacks cannot
\* be added if the buffer is not empty!" is never reached.
WaitersOnlyWhenEmpty == onPush # <<>> => head = tail

\* Number of values held, and those values from oldest to newest.
Count == IF head <= tail THEN tail - head ELSE Ring - head + tail

Contents == [i \in 1 .. Count |-> buffer[(head + i - 1) % Ring]]

\* No slot between head and tail is a hole: a take never yields undefined.
NoHoleInside == \A i \in 1 .. Count : Contents[i] \in Values

Queue == INSTANCE BoundedQueue
           WITH items <- Contents, waiting <- onPush, closed <- dropped,
                Capacity <- Size

\* The ring implements the bounded FIFO queue: nothing is lost, duplicated or
\* reordered over any wrap of the indices, and a push is refused only when
\* exactly Size values are held.
ImplementsQueue == Queue!Spec
=============================================================================
