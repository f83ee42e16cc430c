--------------------------- MODULE MCClientSocket ---------------------------
(***************************************************************************)
(* The two halves of a socket of clients/: the outgoing buffer of a        *)
(* websocket client, and the multiplexed buffers of what arrives.  Each    *)
(* lives by itself until the socket is dropped, so a behaviour is about    *)
(* one of them and the other keeps its initial state.                      *)
(***************************************************************************)
EXTENDS ClientSocket

CONSTANTS Receivers, MaxFrames, MaxCalls, In, Shared, Websocket

VARIABLES
  about,     \* the half this behaviour is about
  inBuffer,  \* `buffer` of VirtualSocket
  arrived, registered, state, takes, killed, recvs, calls, owed, missed, outDropped

V == INSTANCE VirtualSocket WITH buffer <- inBuffer

ASSUME SocketConstants == V!SocketAssumption

socketVars ==
  <<inBuffer, arrived, registered, state, takes, killed, recvs, calls, owed, missed,
    outDropped>>

SocketInit ==
  /\ about \in {"sending", "receiving"}
  /\ ClientInit
  /\ about = "receiving" => readyState = "OPEN"
  /\ V!Init

SocketNext ==
  /\ \/ about = "sending" /\ ClientNext /\ UNCHANGED socketVars
     \/ about = "receiving" /\ V!Next /\ UNCHANGED clientVars
  /\ UNCHANGED about

\* No step of the client's fairness is possible for a websocket that stays open.
SocketSpec ==
  SocketInit /\ [][SocketNext]_<<clientVars, socketVars, about>> /\ ClientFairness
-----------------------------------------------------------------------------
\* Every variable of VirtualSocket has its type and no buffer outgrows its size; a
\* buffer that holds frames has no take waiting (CircularBuffer.ts throws an
\* invariant violation otherwise), and each waiting recv has its one take.
WaitersMeanEmpty == V!TypeOK /\ V!WaitersMeanEmpty

\* A frame that a receiver's socket took in is handed to the receiver or stays in the
\* buffer for its next recv, but for one frame at most for each recv that it cancelled
\* (push of CircularBuffer.ts, recv of VirtualSocket.ts).
MissedByCancelOnly == V!MissedByCancelOnly
=============================================================================
