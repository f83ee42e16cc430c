---------------------- MODULE ConnectableCircularBuffer ----------------------
(***************************************************************************)
(* lib/ConnectableCircularBuffer.ts: the ring that holds what a socket     *)
(* sends until the transport is there.  connectPush hands the values held  *)
(* to a callback, and from then on every push goes straight to it.  `got`  *)
(* is the history of the values handed out, to takers or to the callback.  *)
(***************************************************************************)
EXTENDS CircularBuffer

VARIABLE connectedPush  \* a callback is connected

connectableVars == <<vars, connectedPush>>

ConnectableInit ==
  /\ Init
  /\ connectedPush = FALSE

\* Variant: the loop starts after the first slot.
Drained_SkipsFirst == Slice(1, tail)

\* Variant: the loop runs on to the slot at tail.
Drained_PastTail == Slice(0, tail + 1)

\* What connectPush collects: from head to the end of the array when the ring is
\* wrapped; then, when values are left before tail, every slot from the first.
Drained ==
  (IF head > tail THEN Slice(head, Ring) ELSE <<>>)
    \o (IF head # tail THEN Slice(0, tail) ELSE <<>>)

\* connectPush throws when takers wait or a callback is connected, and does not
\* ask whether the buffer was dropped.  It leaves head at the last slot read.
ConnectPush ==
  /\ onPush = <<>>
  /\ ~connectedPush
  /\ connectedPush' = TRUE
  /\ got' = got \o Drained
  /\ buffer' = [i \in Slots |->
                  IF head # tail /\ (i < tail \/ (head > tail /\ i >= head))
                  THEN Hole ELSE buffer[i]]
  /\ head' = IF head = tail THEN head ELSE IF tail = 0 THEN 0 ELSE tail - 1
  /\ UNCHANGED <<tail, onPush, dropped, put, reply>>

\* push, which forgets about drop once a callback is connected.
ConnectablePush(v) ==
  \/ /\ connectedPush
     /\ Len(put) < MaxPuts
     /\ put' = Append(put, v)
     /\ got' = Append(got, v)
     /\ reply' = "accepted"
     /\ UNCHANGED <<head, tail, buffer, onPush, dropped>>
  \/ /\ ~connectedPush
     /\ Push(v)

ConnectableNext ==
  \/ ConnectPush
  \/ /\ UNCHANGED connectedPush
     /\ \/ \E v \in Values : ConnectablePush(v)
        \/ ~connectedPush /\ Take
        \/ Flush
        \/ Drop

ConnectableSpec == ConnectableInit /\ [][ConnectableNext]_connectableVars
-----------------------------------------------------------------------------
\* "should flush circularly when connected" (ConnectableCircularBuffer.test.ts):
\* whatever was taken before and wherever the indices are, the callback is handed
\* exactly the values still held, in the order of the pushes.
FlushesCircularly ==
  [][connectedPush' /\ ~connectedPush => got' = put]_connectableVars
=============================================================================
