--------------------------- MODULE VirtualSocket ---------------------------
(***************************************************************************)
(* The socket of clients/VirtualSocket.ts and its multiplexed sockets:     *)
(* every frame that arrives is copied into the buffer of each, recv takes  *)
(* from one buffer until its filter accepts, drop ends one socket, and the *)
(* clients over a websocket end them all.                                  *)
(***************************************************************************)
EXTENDS Naturals, Sequences

CONSTANTS
  Receivers,  \* those who call recv, numbered from 1, each in its own time
  MaxFrames,  \* bound: frames that arrive
  MaxCalls,   \* bound: calls of recv by one receiver
  In,         \* bufferSize.in
  Shared,     \* the receivers use the root socket, not a multiplexed one each
  Websocket   \* drop of the root is overridden: dropAll, and the connection closes

SocketAssumption ==
  /\ Receivers \subseteq Nat \ {0} /\ MaxFrames \in Nat /\ In \in Nat
  /\ MaxCalls \in Nat
  /\ Shared \in BOOLEAN /\ Websocket \in BOOLEAN

Root == 0
Sockets == Receivers \cup {Root}

SocketOf(r) == IF Shared THEN Root ELSE r

VARIABLES
  arrived,     \* frames that have arrived
  registered,  \* sockets whose buffer is in inBufferShared
  state,       \* a socket: none, live, dropped
  buffer,      \* the frames in a socket's buffer
  takes,       \* takes that wait at a socket's buffer, in order
  killed,      \* sockets whose own promise of `closed` is resolved
  recvs,       \* a receiver's last recv: idle, waiting, got, over (cancelled), failed
  calls,       \* the number of that recv
  owed,        \* frames a receiver's socket took in and no recv has handed to it yet
  missed,      \* those of them that another take was given, with that take
  outDropped   \* the buffer of what is sent is dropped

socketVars ==
  <<arrived, registered, state, buffer, takes, killed, recvs, calls, owed, missed,
    outDropped>>

Init ==
  /\ arrived = 0
  /\ registered = {Root}
  /\ state = [s \in Sockets |-> IF s = Root THEN "live" ELSE "none"]
  /\ buffer = [s \in Sockets |-> <<>>]
  /\ takes = [s \in Sockets |-> <<>>]
  /\ killed = {}
  /\ recvs = [r \in Receivers |-> "idle"]
  /\ calls = [r \in Receivers |-> 0]
  /\ owed = {}
  /\ missed = {}
  /\ outDropped = FALSE
-----------------------------------------------------------------------------
\* A take waits on behalf of one call of recv, which may be over by now.
Waits(t) == recvs[t.by] = "waiting" /\ calls[t.by] = t.call

\* multiplex: a buffer of its own, which sees the frames that come from now on.
Multiplex(s) ==
  /\ state[s] = "none"
  /\ ~Shared
  /\ state' = [state EXCEPT ![s] = "live"]
  /\ registered' = registered \cup {s}
  /\ UNCHANGED <<arrived, buffer, takes, killed, recvs, calls, owed, missed, outDropped>>

\* push where no take waits: a full buffer refuses the frame.
Stored(s, f) ==
  LET room == Len(buffer[s]) < In
  IN [buffer |-> IF room THEN Append(buffer[s], f) ELSE buffer[s],
      takes |-> takes[s], given |-> {}, owed |-> IF room THEN {f} ELSE {}, missed |-> {}]

\* Variant: the buffer is used though a take waits.
Pushed_ToBuffer(s, f) == Stored(s, f)

\* Variant: the take that is given the frame stays the first one of those that wait.
Pushed_Peeks(s, f) ==
  IF takes[s] = <<>> THEN Stored(s, f)
  ELSE LET t == Head(takes[s])
           accepted == Waits(t) /\ f.for = t.by
       IN [buffer |-> buffer[s],
           takes |-> IF accepted THEN Tail(takes[s]) ELSE takes[s],
           given |-> IF accepted THEN {t.by} ELSE {},
           owed |-> IF accepted THEN {} ELSE {f},
           missed |-> IF accepted THEN {} ELSE {[frame |-> f, take |-> t]}]

\* push: the first take that waits is given the frame, even when its recv is over;
\* a recv whose filter does not accept it takes again.  The fields owed and missed
\* are for the socket of the receiver that the frame is meant for.
Pushed(s, f) ==
  IF takes[s] = <<>> THEN Stored(s, f)
  ELSE LET t == Head(takes[s])
           accepted == Waits(t) /\ f.for = t.by
       IN [buffer |-> buffer[s],
           takes |-> IF Waits(t) /\ ~accepted THEN Append(Tail(takes[s]), t)
                     ELSE Tail(takes[s]),
           given |-> IF accepted THEN {t.by} ELSE {},
           owed |-> IF accepted THEN {} ELSE {f},
           missed |-> IF accepted THEN {} ELSE {[frame |-> f, take |-> t]}]

\* bufferIn, for every registered buffer.  A frame is meant for one receiver: the
\* filter of another does not accept it.
BufferIn(for) ==
  LET f == [id |-> arrived + 1, for |-> for]
      out == [s \in registered |-> Pushed(s, f)]
      own == SocketOf(for)
  IN /\ arrived < MaxFrames
     /\ arrived' = arrived + 1
     /\ buffer' = [s \in Sockets |-> IF s \in registered THEN out[s].buffer ELSE buffer[s]]
     /\ takes' = [s \in Sockets |-> IF s \in registered THEN out[s].takes ELSE takes[s]]
     /\ recvs' = [r \in Receivers |->
                    IF \E s \in registered : r \in out[s].given THEN "got" ELSE recvs[r]]
     /\ owed' = IF own \in registered THEN owed \cup out[own].owed ELSE owed
     /\ missed' = IF own \in registered THEN missed \cup out[own].missed ELSE missed
     /\ UNCHANGED <<registered, state, killed, calls, outDropped>>

\* The number of frames recv takes from the buffer: up to the first of its own.
TakenBy(r, q) ==
  IF \E k \in DOMAIN q : q[k].for = r
  THEN CHOOSE k \in DOMAIN q : q[k].for = r /\ \A j \in 1 .. k - 1 : q[j].for # r
  ELSE Len(q)

\* recv: it takes what is buffered, then waits; a dropped buffer throws.
Recv(r) ==
  LET s == SocketOf(r)
      q == buffer[s]
      k == TakenBy(r, q)
      found == k > 0 /\ q[k].for = r
      take == [by |-> r, call |-> calls[r] + 1]
  IN /\ recvs[r] \in {"idle", "got", "over"}
     /\ calls[r] < MaxCalls
     /\ state[s] # "none"
     /\ calls' = [calls EXCEPT ![r] = @ + 1]
     /\ IF state[s] = "dropped"
        THEN /\ recvs' = [recvs EXCEPT ![r] = "failed"]
             /\ UNCHANGED <<buffer, takes, owed>>
        ELSE /\ recvs' = [recvs EXCEPT ![r] = IF found THEN "got" ELSE "waiting"]
             /\ buffer' = [buffer EXCEPT ![s] = SubSeq(q, k + 1, Len(q))]
             /\ takes' = IF found THEN takes ELSE [takes EXCEPT ![s] = Append(@, take)]
             /\ owed' = IF found THEN owed \ {q[k]} ELSE owed
     /\ UNCHANGED <<arrived, registered, state, killed, missed, outDropped>>

\* The task of a recv is cancelled: recv throws, and its take stays in the buffer.
CancelRecv(r) ==
  /\ recvs[r] = "waiting"
  /\ recvs' = [recvs EXCEPT ![r] = "over"]
  /\ UNCHANGED <<arrived, registered, state, buffer, takes, killed, calls, owed, missed,
                 outDropped>>
-----------------------------------------------------------------------------
\* The buffers of S are dropped: their takes reject, and their recvs fail.
DropBuffers(S) ==
  /\ state' = [s \in Sockets |-> IF s \in S THEN "dropped" ELSE state[s]]
  /\ registered' = registered \ S
  /\ buffer' = [s \in Sockets |-> IF s \in S THEN <<>> ELSE buffer[s]]
  /\ takes' = [s \in Sockets |-> IF s \in S THEN <<>> ELSE takes[s]]
  /\ recvs' = [r \in Receivers |->
                 IF recvs[r] = "waiting" /\ SocketOf(r) \in S THEN "failed" ELSE recvs[r]]

\* drop of one socket; the last one takes the buffer of what is sent with it.
Drop(s) ==
  /\ state[s] # "none"
  /\ DropBuffers({s})
  /\ killed' = killed \cup {s}
  /\ outDropped' = (outDropped \/ registered' = {})
  /\ UNCHANGED <<arrived, calls, owed, missed>>

\* dropAll, which the websocket clients call for drop and when the connection closes.
DropAll ==
  /\ DropBuffers(registered)
  /\ killed' = killed \cup {Root}
  /\ outDropped' = TRUE
  /\ UNCHANGED <<arrived, calls, owed, missed>>

\* What drop() of a socket does.
Drops(s) == IF Websocket /\ s = Root THEN DropAll ELSE Drop(s)

Next ==
  \/ \E s \in Receivers : Multiplex(s)
  \/ \E r \in Receivers : BufferIn(r) \/ Recv(r) \/ CancelRecv(r)
  \/ \E s \in Sockets : Drops(s)
  \/ DropAll

Spec == Init /\ [][Next]_socketVars
-----------------------------------------------------------------------------
Frames == [id : 1 .. MaxFrames, for : Receivers]
Takes == [by : Receivers, call : 1 .. MaxCalls]

\* Every variable has its type, inBufferShared holds the sockets that are live, and
\* no buffer outgrows bufferSize.in (VirtualSocket.ts).
TypeOK ==
  /\ arrived \in 0 .. MaxFrames
  /\ registered = {s \in Sockets : state[s] = "live"}
  /\ state \in [Sockets -> {"none", "live", "dropped"}]
  /\ \A s \in Sockets : buffer[s] \in Seq(Frames) /\ Len(buffer[s]) <= In
  /\ \A s \in Sockets : takes[s] \in Seq(Takes)
  /\ killed \subseteq Sockets
  /\ recvs \in [Receivers -> {"idle", "waiting", "got", "over", "failed"}]
  /\ calls \in [Receivers -> 0 .. MaxCalls]
  /\ owed \subseteq Frames
  /\ missed \subseteq [frame : Frames, take : Takes]
  /\ outDropped \in BOOLEAN

\* The promise `closed` of a socket.
Closed(s) == s \in killed \/ Root \in killed

\* A buffer that holds frames has no take waiting (CircularBuffer throws an
\* invariant violation otherwise), and each waiting recv has its one take.
WaitersMeanEmpty ==
  /\ \A s \in Sockets : takes[s] # <<>> => buffer[s] = <<>>
  /\ \A r \in Receivers : recvs[r] = "waiting" =>
       \E k \in DOMAIN takes[SocketOf(r)] :
         takes[SocketOf(r)][k] = [by |-> r, call |-> calls[r]]

\* A frame that the receiver's socket took in is handed to the receiver, or is in the
\* buffer for its next recv, or was missed: given to the take that a cancelled recv of
\* the same receiver left behind, where each cancelled recv costs it one frame at most
\* (CircularBuffer.ts: push shifts the take; Socket.ts: recv is never shared).
MissedByCancelOnly ==
  /\ \A f \in owed :
       \/ state[SocketOf(f.for)] = "dropped"
       \/ \E k \in DOMAIN buffer[SocketOf(f.for)] : buffer[SocketOf(f.for)][k] = f
       \/ \E m \in missed : m.frame = f
  /\ \A m \in missed : m.take.by = m.frame.for /\ ~Waits(m.take)
  /\ \A m, n \in missed : m.take = n.take => m.frame = n.frame

\* "Calling drop stops this socket from being buffered, but leaves the other
\* multiplexed sockets unaffected. It must not stop sending on the socket unless the
\* final socket is dropped" (Socket.ts): the others stay live with their frames and
\* their takes, and what is to be sent is dropped with the last of them only.
DropEndsOneSocket ==
  [][\A s \in Sockets :
       state[s] = "live" /\ Drops(s) =>
         /\ \A x \in Sockets \ {s} :
              state[x] = "live" => state'[x] = "live" /\ buffer'[x] = buffer[x]
                                    /\ takes'[x] = takes[x]
         /\ outDropped' => outDropped \/ registered' = {}]_socketVars

\* The same of the promise closed, for which the users of a socket cancel their
\* tasks (Initiate, Endpoint).
DropLeavesTheOthersOpen ==
  [][\A s \in Sockets :
       state[s] = "live" /\ Drops(s) =>
         \A x \in Sockets \ {s} :
           (state[x] = "live" /\ ~Closed(x)) => {x, Root} \cap killed' = {}]_socketVars
=============================================================================
