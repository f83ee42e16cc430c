---------------------------- MODULE ClientSocket ----------------------------
(***************************************************************************)
(* The sending half of clients/BrowserWebsocketSocket.ts and               *)
(* NodeWsWebsocketSocket.ts: frames sent before the websocket is open wait *)
(* in outBuffer, the `open` event connects it, and afterwards the callback *)
(* sends or discards a frame by the websocket's readyState.                *)
(***************************************************************************)
EXTENDS ConnectableCircularBuffer

VARIABLES
  readyState,  \* of the websocket
  wire         \* history: the frames given to the websocket while it was open

clientVars == <<connectableVars, readyState, wire>>

ReadyStates == {"CONNECTING", "OPEN", "CLOSING", "CLOSED"}

\* The constructor binds at once to a websocket that is open.
ClientInit ==
  /\ Init
  /\ readyState \in ReadyStates
  /\ connectedPush = (readyState = "OPEN")
  /\ wire = <<>>

\* VirtualSocket.send: what push returns is ignored.  Connected, the callback
\* sends the frame when the websocket is open and discards it otherwise.
Send(v) ==
  /\ ConnectablePush(v)
  /\ wire' = IF connectedPush /\ readyState = "OPEN" THEN Append(wire, v) ELSE wire
  /\ UNCHANGED <<connectedPush, readyState>>

\* Variant: the event does not connect the buffer.
Open_Unbound ==
  /\ readyState = "CONNECTING"
  /\ readyState' = "OPEN"
  /\ UNCHANGED <<connectableVars, wire>>

\* The `open` event, which binds the buffer: what it held is sent.
Open ==
  /\ readyState = "CONNECTING"
  /\ readyState' = "OPEN"
  /\ ConnectPush
  /\ wire' = wire \o Drained

\* socket.close: a websocket that still connects will not open any more.
Closing == IF readyState = "CLOSED" THEN "CLOSED" ELSE "CLOSING"

\* drop: dropAll drops outBuffer, then the websocket is closed.
DropAll ==
  /\ Drop
  /\ readyState' = Closing
  /\ UNCHANGED <<connectedPush, wire>>

\* The other end starts to close.
PeerCloses ==
  /\ readyState = "OPEN"
  /\ readyState' = "CLOSING"
  /\ UNCHANGED <<connectableVars, wire>>

\* The `close` event, also after a failed attempt to connect: drop again.
Close ==
  /\ readyState # "CLOSED"
  /\ readyState' = "CLOSED"
  /\ Drop
  /\ UNCHANGED <<connectedPush, wire>>

ClientNext ==
  \/ \E v \in Values : Send(v)
  \/ Open \/ DropAll \/ PeerCloses \/ Close

\* An attempt to connect ends, and a websocket that closes is closed at last.
ClientFairness ==
  /\ WF_clientVars(readyState = "CONNECTING" /\ (Open \/ Close))
  /\ WF_clientVars(readyState = "CLOSING" /\ Close)

ClientSpec == ClientInit /\ [][ClientNext]_clientVars
ClientFairSpec == ClientSpec /\ ClientFairness
-----------------------------------------------------------------------------
\* Every variable has its type; in particular the websocket is never given an
\* undefined, although connectPush reads slots from the first on.
ClientTypeOK ==
  /\ TypeOK
  /\ connectedPush \in BOOLEAN
  /\ readyState \in ReadyStates
  /\ wire \in Seq(Values)

\* What waits to be sent.
Pending == IF connectedPush THEN <<>> ELSE Contents

\* The order of send is the order on the wire, across the moment the buffer is
\* connected: nothing overtakes, repeats or goes missing while the websocket
\* connects or is open, and closing cuts the sequence off at its end.
OutgoingInOrder ==
  /\ Len(wire) <= Len(put)
  /\ wire = SubSeq(put, 1, Len(wire))
  /\ readyState \in {"CONNECTING", "OPEN"} => wire \o Pending = put

\* A frame accepted while the websocket connects does not stay behind: the buffer
\* is emptied onto the wire, or the websocket closes.
HeldBackIsSent ==
  Pending # <<>> ~> (wire = put \/ readyState \in {"CLOSING", "CLOSED"})
=============================================================================
