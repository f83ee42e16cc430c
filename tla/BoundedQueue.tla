---------------------------- MODULE BoundedQueue ----------------------------
(***************************************************************************)
(* What lib/CircularBuffer.ts promises to its callers: a FIFO queue of at  *)
(* most Capacity values.  A take or a flush of an empty queue waits, and   *)
(* waiting callers are served in the order in which they came.  `put` is   *)
(* the history of the values a push accepted, `got` of the values handed   *)
(* to takers, `reply` what the last push returned.                         *)
(***************************************************************************)
EXTENDS Naturals, Sequences

CONSTANTS Values, Capacity

VARIABLES items, waiting, closed, put, got, reply

vars == <<items, waiting, closed, put, got, reply>>

Init ==
  /\ items = <<>>
  /\ waiting = <<>>
  /\ closed = FALSE
  /\ put = <<>>
  /\ got = <<>>
  /\ reply = "none"

\* A push is refused exactly when nobody waits and Capacity values are held.
Push(v) ==
  /\ ~closed
  /\ \/ /\ waiting # <<>>
        /\ waiting' = Tail(waiting)
        /\ put' = Append(put, v)
        /\ got' = Append(got, v)
        /\ reply' = "accepted"
        /\ UNCHANGED items
     \/ /\ waiting = <<>>
        /\ Len(items) < Capacity
        /\ items' = Append(items, v)
        /\ put' = Append(put, v)
        /\ reply' = "accepted"
        /\ UNCHANGED <<waiting, got>>
     \/ /\ waiting = <<>>
        /\ Len(items) = Capacity
        /\ reply' = "full"
        /\ UNCHANGED <<items, waiting, put, got>>
  /\ UNCHANGED closed

Take ==
  /\ ~closed
  /\ \/ /\ items # <<>>
        /\ items' = Tail(items)
        /\ got' = Append(got, Head(items))
        /\ UNCHANGED waiting
     \/ /\ items = <<>>
        /\ waiting' = Append(waiting, "take")
        /\ UNCHANGED <<items, got>>
  /\ UNCHANGED <<closed, put, reply>>

\* A flush of an empty queue waits only behind callers that already wait.
Flush ==
  /\ ~closed
  /\ \/ /\ items = <<>>
        /\ waiting # <<>>
        /\ waiting' = Append(waiting, "flush")
        /\ UNCHANGED <<items, got>>
     \/ /\ \/ items # <<>>
           \/ waiting = <<>>
        /\ items' = <<>>
        /\ got' = got \o items
        /\ UNCHANGED waiting
  /\ UNCHANGED <<closed, put, reply>>

Close ==
  /\ closed' = TRUE
  /\ UNCHANGED <<items, waiting, put, got, reply>>

Next == (\E v \in Values : Push(v)) \/ Take \/ Flush \/ Close

Spec == Init /\ [][Next]_vars
=============================================================================
