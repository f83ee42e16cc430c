----------------------------- MODULE StopAndWait -----------------------------
(***************************************************************************)
(* What protocol/stream.ts and protocol/listen.ts promise together for one *)
(* direction of a session: the payloads the application loads reach the    *)
(* other side in order, each once, and the sender has at most one payload  *)
(* that is not acknowledged.  Payload k is the k-th one loaded.            *)
(***************************************************************************)
EXTENDS Naturals, Sequences

VARIABLES
  loaded,   \* payloads the sender's application has supplied
  sent,     \* payloads handed to the network
  got,      \* what the receiver's application was given, in order
  acked     \* payloads the sender knows to be received

vars == <<loaded, sent, got, acked>>

Init ==
  /\ loaded = 0
  /\ sent = 0
  /\ got = <<>>
  /\ acked = 0

Load ==
  /\ loaded' = loaded + 1
  /\ UNCHANGED <<sent, got, acked>>

Send ==
  /\ sent < loaded
  /\ acked = sent
  /\ sent' = sent + 1
  /\ UNCHANGED <<loaded, got, acked>>

Receive ==
  /\ Len(got) < sent
  /\ got' = Append(got, Len(got) + 1)
  /\ UNCHANGED <<loaded, sent, acked>>

Acknowledge ==
  /\ acked < Len(got)
  /\ acked' = acked + 1
  /\ UNCHANGED <<loaded, sent, got>>

Next == Load \/ Send \/ Receive \/ Acknowledge

Spec == Init /\ [][Next]_vars
=============================================================================
