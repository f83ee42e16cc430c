# undersea: models, checks and proofs

undersea is a TypeScript library for typed routes (request/response, streams,
duplex channels) over one websocket. This directory holds TLA+ models of it, the
TLC runs that check them on small instances and theorems that TLAPS proves for
every value of the constants. `PROJECT.json` maps each definition to the lines
of code it stands for.

Contents: [inventory](#inventory) · [what is modelled](#what-is-modelled) ·
[runs](#runs) · [fairness](#fairness) · [proofs](#proofs) ·
[findings](#findings) · [not modelled](#not-modelled) · [plan](#plan)

## Inventory

The program is single threaded: its concurrency is the event loop's. A socket
event, a timer or application code runs to its end, and the continuations
(`await`) it made ready run before the next event. What is hard in this code is
therefore the order of continuations, deadlines that race answers, and values
read before an `await` and used after it.

| component | state | operations | interacts with |
|---|---|---|---|
| `lib/CircularBuffer.ts` | `head`, `tail`, `buffer`, `onPush`, `dropped` | `push`, `take`, `flush`, `drop` | receive buffer of every socket; queue of every service |
| `lib/ConnectableCircularBuffer.ts` | the same, and the connected callback | `connectPush`, `push`, `take` | what a socket sends before the websocket is open |
| `lib/Atomic.ts` | counter, limit | `next`, `clone` | steps of a session, nonces of `Initiate` |
| `lib/Task.ts` | promise, its `resolve`, note of the cancellation, timer | `cancel`, `cleanup`, `deadline`, `subtask`, `wrap`, `race`, `poll`, `job` | every loop of the protocol polls one |
| `clients/VirtualSocket.ts` and the websocket clients | map of receive buffers, send buffer | `bufferIn`, `recv`, `send`, `multiplex`, `drop`, `dropAll` | below: the websocket; above: the protocol |
| `protocol/Protocol.ts`, `Signal.ts` | none | `match`, `brand` | every frame: route key, nonce, step, type |
| `protocol/connect.ts` | the session's Atomic | handshake, stream, teardown | client side of a session |
| `protocol/channel.ts` | one Atomic a session, `channelSocket` | accept poll, session, teardown | server side of a session |
| `protocol/stream.ts`, `listen.ts`, `recv.ts`, `send.ts` | position in their loop | send and await the ACK; acknowledge and push | both sides, each direction |
| `framework/recipies/once.ts`, `many.ts`, `mapService.ts` | queues or promises in and out | `internal`, `external`, `takeExternal`, `loadInternal`, `validate` | between a route and a session |
| `framework/Initiate.ts`, `Endpoint.ts` | nonce Atomic, the endpoint's task | `start` | routes to `connect` and `channel` |
| `framework/Route.ts` | whether it is bound; task and service of a connected route | five pairs of `as...` methods, and `send`, `recv`, `query`, `drop` of what `connect` returns | applications to services |
| `framework/Router.ts`, `ConnectRouter.ts` | types of the routes by key; registered ends | `route`, `define`, `withRoutes`, `start` | `start` checks that the ends its peer will use are registered, and connects them |
| `lib/exponentialBackoff.ts` | none | delays | used by no other file |

What makes each one correct:

- **Ring buffer.** A bounded FIFO queue over any number of wraps: nothing is
  lost, duplicated or reordered, a push is refused only when the ring is full,
  and the state in which `push` throws its invariant violation is not reachable.
- **Session.** In each direction a listener's application is given the payloads
  that were loaded, in order, each once; the sender takes an ACK only for what
  the listener pushed; at most one message is unacknowledged. Cancelling is final
  although awaits are pending. A session that ends, however it ends, lets go of
  its receive buffers, and the other side learns of it.
- **Sockets.** Every registered buffer sees every frame once, in arrival order,
  except those pushed while it was full; a dropped socket sees none.
- **Task.** Its promise settles once; whoever reads `isCancelled` and whoever waits for
  the promise agree; subtasks follow; a race that is over leaves no timer armed.
- **Endpoint.** Sessions that share a socket and a key take their own frames only; an open
  session does not keep the next one out; nothing is open when the endpoint has stopped.
- **Services and routes.** What `send` accepted is sent or reported; replies pair
  with their requests; `drop` releases the session.
- **Routers.** What `start` lets pass serves every route, which the code does not achieve for ends of the wrong
  side; a frame reaches its own route or none.

The hazards (`PROJECT.json`, `hazards`) list where each of these could go wrong;
a hazard without a property says why it has none.

## What is modelled

The system in layers, with the module of each:

```
applications
   |         Router                keys, which ends are bound, served and connected
   |         QueryRoute            asSendChannel / asRecvChannel  over many
   |         OnceRoute             asSend / asRecv                over once
   |         StreamRoute           stream, listen, duplex         over many
services     (in the three above; mapService between them and the session)
   |         Channel               the sessions of a route: nonces, endpoint, deadlines
sessions     Session               one session, continuation by continuation
   |         StopAndWait           what a session promises of each direction
   |         Task                  cancellation, timers, poll
sockets      VirtualSocket         receiving: buffers of multiplexed sockets
   |         ClientSocket          sending: before, while and after the websocket opens
buffers      CircularBuffer, ConnectableCircularBuffer, BoundedQueue
```

Each layer uses the promise of the one below, not its steps: `QueryRoute`, `OnceRoute`
and `StreamRoute` take a session's direction as `StopAndWait` has it (one message, pushed,
acknowledged, then the next), which `Session` is proved to implement; they take a service's
buffer as the bounded queue that `CircularBuffer` is proved to implement. `Channel` takes
from `Session` what its ends do and adds which frame finds which session.

Refinements: `CircularBuffer` implements `BoundedQueue`; `Session` implements `StopAndWait`
twice, once a direction. An `MC` module makes an instance for TLC of one module, or of several
that share no state (see [runs](#runs)); a `...Proofs` module has theorems.

### CircularBuffer, BoundedQueue

`CircularBuffer` is the code's ring, slot by slot: `buffer` has `Size + 1` slots,
`head` and `tail` index it, `onPush` holds the callbacks of waiting callers.
`Push(v)`, `Take`, `Flush` and `Drop` are the four methods, with one disjunct for
each early return. An array slot that was never assigned, or that `take` deleted,
is the value `Hole`, so handing out `undefined` would be visible. `put`, `got` and
`reply` are histories, for the properties. `flush` leaves the slots as they are
and resets the indices, as in the code: old values stay in the array.

`BoundedQueue` is the promise: a sequence of at most `Capacity` items and the
queue of waiting callers. The mapping is `items <- Contents` (the slots from head
to tail), `waiting <- onPush`.

### ConnectableCircularBuffer, ClientSocket

`ConnectableCircularBuffer` extends the ring as the class does: `connectedPush` is
whether a callback is connected, `ConnectPush` hands it what the ring holds
(`Drained`, the two loops of `connectPush` with the slots they read), and
`ConnectablePush(v)` is the overriding `push`. `take` throws once a callback is
connected; `flush` and `drop` are inherited, and a connected `push` does not look
at `dropped`. `got` counts what the callback was given.

`ClientSocket` puts the websocket under it. `readyState` is the websocket's, `Send`
is `VirtualSocket.send` with the callback of `bindSend`, and the events `open` and
`close` and the method `drop` are `Open`, `Close` and `DropAll`. A frame sent while
the websocket is closing is discarded, as the callback does; `wire` has what was
handed to an open websocket. The flag `sendBound` is `connectedPush`. The empty frame
that the browser client sends every ten seconds is left out: `match` ignores frames
of fewer than five bytes. Nobody takes from `outBuffer`.

### Session, StopAndWait

`Session` composes `connect` on the client and one turn of `channel` on the
server, with the `stream` and `listen` loops of both, over their receive buffers
and a websocket. The parameters `s` of the actions are the sides.

| variable | code |
|---|---|
| `up`, `net` | the websocket connection, and the frames on the way |
| `reg`, `buf` | the receive buffers in the VirtualSocket's map, and their contents |
| `phase` | how far `connect` / the turn of `channel` has come |
| `task` | the session's Task: `live`, `clean` (cleanup), `cancelled` |
| `stream`, `listen` | where the two loops wait |
| `loaded`, `ended` | the application: what `pull` can give |
| `sent`, `acked`, `recvd` | messages sent, acknowledged, pushed to the application |

| actions | code |
|---|---|
| `Connect`, `Handshake`, `HandshakeReason`, `HandshakeTimeout`, `Open` | `connect.ts:20-51`, `channel.ts:28-101` |
| `Pull`, `AwaitAck`, `AckReason` | the loop of `stream.ts` |
| `Listen`, `ListenReason` | the loop of `listen.ts` |
| `ClientTerm` | end of `connect.ts` |
| `AwaitTerm`, `TermReason`, `ServerDrop` | end of a session in `channel.ts` |
| `Deliver`, `SocketClosed`, `Disconnect` | `bufferIn`, `dropAll`, the network |
| `Load`, `End`, `Cancel`, `Drop` | the application |

An action is one continuation. `Quiet(s)` says that a side has no continuation
left, and a socket event or a timer of a side starts only then: this is the run
to completion of the event loop, and it is what excludes, for instance, a
deadline that fires between the arrival of an ACK and its handling. Within one
socket event up to `Batch` frames are buffered before any continuation runs, which
is how a frame can meet a full buffer or a buffer that is not yet registered.
The websocket clients read `Blob` frames asynchronously; sides in `Reordering`
may get a frame before earlier ones.

A receive buffer refuses what exceeds `InCap`, plus one frame when a `recv`
waits on it. That is the ring of `CircularBuffer` at the level of its abstract
queue: a push to a waiting caller takes no place.

A step is `k % Limit(s)` for the `k`-th message. `connect.ts` and `channel.ts`
pass different limits to their Atomics, hence two constants.

The client's `ack` buffer is the socket of the session itself, which receives
the handshake's ACK and then the ACKs of its messages; the server has
`sig` (channelSocket), `term`, `msg` and `ack`. What a dropped buffer held is gone
for every reader, so `Unregister` empties it, but for the frame that `push` gave to a `recv`
that waits (`Handed`): `drop` of the buffer rejects pending takes only, so that `recv` goes on with it.
The `listen` of a client may thus answer one message after TERM (`StreamReturned`, the await before
TERM, is for `stream` alone). In the code this needs the frame to arrive in the few continuations between the
two; the model does not count them.

`StopAndWait` is the promise for one direction, instantiated for both.

### QueryRoute

A channel route from the caller to the handler and back. `asked` numbers the calls of
`query`; a request and its reply are the number of the call, so `answer[q]` says whose
reply call `q` was given.

| variable | code |
|---|---|
| `takers` | promises of `takeExternal` that wait, in the CircularBuffer's order |
| `internal`, `external` | the two buffers of `many`, at each side |
| `pulling`, `msg` | `stream` awaits `pull`, or its message is under way |
| `handling`, `nulls` | the request the handler's promise works on, those it answers with `null` |
| `session` | open, ended, or ended with the endpoint's task |

`Query`, `HandlerStarts`, `HandlerReplies` are `Route.ts:341-349` and `427-439`; a handler that rejects
loads no reply, and its turn of the loop ends as any other (`"reject"`). `Pull`,
`Receive` and `Acknowledged` are `internal` and `external` of `mapService.ts` as `stream`
and `listen` call them. `Window` bounds the calls an application leaves unanswered:
the documentation asks for one, and the buffers are there for more.

### OnceRoute

Two promises a side (`internal`, `external`), each resolved once, and `stream`'s two
pulls: the second is `null` once the reply has come. `Send` and `Return` are the two halves
of `send` around its `await`. A session may fail at either side at any time (`Fails`). A message that
the codec cannot decode or the schema rejects is acknowledged and resolves nothing (`ignored`): `stream`
of its sender goes on to the second pull.

### StreamRoute

One module for the three kinds: they differ in the sizes of their buffers, who may
send when, and what `connect` or `recv` does first (`ConnectStream`, `ConnectListen`,
`ConnectDuplex`). `accepted` and `settled` are histories: the payloads for which `send` gave
true, and those the other side is done with. These were handled, or were acknowledged and then rejected by the codec or
the schema of `mapService.ts` (`ignored`).

### Router

`routeTypes` is the router's list of routes: the key is the index. An end is one of the
two Routes a call of `define` returns, with its router's identity, its key and its side.
`Complete` is the three checks of `start`, `Connect` the check of identity when a sending
end is connected. `serving` and `sending` are what frames are routed between; `WireKey` is
the two bytes of a key. An application may register any receiving end with any ConnectRouter, also one of the other
side: neither `withRoutes` nor `start` nor `connect` looks at sides.

### Channel

The sessions of one route over one socket, with the frames that tell them apart. `Start` is
`Initiate.start` and the INIT of `connect`; `ReceiveInit` is a turn of `channel`'s poll, which
opens a session with the nonce of the INIT; `Takes` is `match`: the filters of all `recv` of
both sides. A frame is given to every session whose filter accepts it, as each has its own
copy. `from` is the session a frame really comes from; no guard reads it except to name the
server's end of the session.

Time is counted in ticks, for the two deadlines of an endpoint: that of the turn that waits
for INIT (`idle`) and that of every session's listener (`quiet`), both of length `Silence`.
`Tick` stops at a deadline until it has been handled. In the runs about other questions
`Silence` is 0, which stands for an infinite deadline.

`NonceFree` is an assumption on the application: it does not start a session while the next
nonce is still in use by an open session or a frame under way. With a limit of 65535 this
means fewer than 65535 sessions of a route at once and none as old as that many starts.
`SharedStarter` says that the sessions have one `Initiate`, as those of all routes but
listen and duplex do.

### Task

A task has a promise (`settled`), a note that `isCancelled()` returns (`cancelled`), and the
timers that were armed. They are separate in the code: `cleanup` settles without a note,
`cancel` overwrites the note of a settled task, `cleanup` clears the last timer only.
`Deadline`, `Subtask`, `Wrap`, `Poll` are calls of an application in any order, `FollowParent`
the `finally` of `subtask`, `RaceEnds` that of `race`, and `PollTests`, `PullGoesOn`, `PullIsLast`,
`PullFails` a turn of a poll. Any number of polls may run on one task, as `listen` and `stream` of a session
do (`MaxPolls` bounds them). A deadline is given to a task that is not settled, as everywhere
in this code.

### VirtualSocket

Any number of receivers with a multiplexed socket each (or, with `Shared`, all at the root
socket, as `connect` of several sessions over the example's client). A frame is meant for one
receiver. A receiver may call `recv` again when its last one has a frame or was cancelled; `calls`
numbers its calls. `takes` has the takes that wait at a buffer, each with the call it was made for: that of a
cancelled call stays behind (`Waits` is false of it) and swallows a frame. `owed` has the frames that a
receiver's socket took in and no `recv` has handed to it, `missed` those of them that another take was given, with that
take; both are histories. `Pushed` is `CircularBuffer.push` with the filter loop of `recv` run on, `Stored` its
part where nobody waits.

### Abstractions

- A payload is its index `d`, carried beside the step for the properties; no guard
  of the code's actions reads it.
- A deadline may pass at any time it is armed and nothing is left to run. Durations
  are left out: the defaults have no relation among them that the code relies on.
- `recv` filters one frame at a time, as the code's loop does; filtered frames are
  discarded.
- In `Session`, frames of other sessions (other keys and nonces) are left out: they would
  only fill the buffers, which `InCap = 1` and `Batch = 2` do already. In `Channel` buffers
  have room, and steps do not wrap; `Session` has both.
- The routes' sessions lose no frame and keep their order. Losing the connection ends them.
- Codecs and schemas: a message is rejected, or not (`"invalid"`; in `StreamRoute` at any time).
- The client connects over an open websocket, where `send` goes straight to the
  network; what precedes it is `ClientSocket`.

## Runs

| run | instance | shows |
|---|---|---|
| `circular_buffer` | a ring of `Size` 2 with 2 values, 6 pushes, 2 waiters; a task with a subtask, a timer and two polls | the ring is a FIFO queue (`ImplementsQueue`), `push` cannot throw (`WaitersOnlyWhenEmpty`); `CancelledIsSettled`, `NoTimerAfterRace`, `SubtasksFollow`, `PollsEnd` |
| `client_socket` | 2 frame values, `Size` 2, 5 accepted sends, a websocket in any state; 2 receivers with a socket each, 3 calls of `recv` each, 4 frames, buffers of 2 | `ClientTypeOK`, `OutgoingInOrder`, `HeldBackIsSent`; `WaitersMeanEmpty`, `MissedByCancelOnly` |
| `session_rough` | all events, reordering on the client, 2 messages a side, limits 2, buffers of one | `ImplementsStopAndWait`, `OneOfEachInFlight`, `CancelIsFinal` |
| `session_calm` | no failure, one frame an event, 2 messages a side | `NoStrandedMessage`, `Delivered`, `ServerNotices` |
| `session_teardown` | all events, 1 message a side, multiplexed socket | `ServerReleases`, `OnlyAckAfterTerm` |
| `channel` | 3 sessions and 2 nonces without deadlines; 2 sessions with deadlines, abandoned handshakes, handlers that cancel, a socket that closes | `NoCrossTalk`, `TermEndsItsOwn`, `StoppedMeansOver`, `EveryStartIsAnswered` |
| `routes` | 5 queries at once over buffers of 2 and 1, rejected messages, handlers that reject or reply with null, sessions that end; 2 one-shot calls that may fail or be rejected; streams of all kinds, buffers of 1, 3 payloads a side, any of them rejected | `RepliesPaired`, `RepliesInOrder`, `NoReplyUnclaimed`, `EveryQuerySettles`; `NobodyLeavesEarly`, `SingleUse`; `AcceptedIsHandled`, `AcceptedGetsHandled` |
| `router` | a router with 3 routes and 2 keys, the first route defined twice; 2 routers with a route each; ends of any side and router registered | `UnservedIsSwapped`, `FramesReachTheirRoute` |
| `connect_after_take` | an outgoing buffer with a caller that takes from it | violated: `FlushesCircularly` |
| `session_client_leak` | only `drop` | violated: `ClientReleases` |
| `session_early_message` | two frames an event | violated: `NoStrandedMessage` |
| `session_limit_mismatch` | limits 3 and 2 | violated: `NoStrandedMessage` |

Most passing runs also check the modules' `TypeOK`, which bounds their buffers.

Three runs join parts of a layer that share no variable: the ring and a tree of tasks
(`MCCircularBuffer`), the two directions of a socket (`MCClientSocket`), the three services
(`MCRoutes`); two join two settings of one module (`MCChannel`, `MCRouter`). The
variable `about`, chosen at the start, says which part or setting a behaviour is about; the
other parts keep their initial state. So the run's states are the sum and not the product of
its parts', and each property means what it means in the part's own module. A behaviour
that mixed the parts would show nothing more, as no action of one reads the other.

These configurations are kept beside the runs. Each violates the one property it checks,
which a document, comment or test of the repository claims
(`tlc -config QueryRouteRefused.cfg QueryRoute.tla`; see [findings](#findings)):

| configuration | module | instance | violated |
|---|---|---|---|
| `QueryRouteRefused.cfg` | `QueryRoute` | a client's buffer of 1 | `Paired` |
| `QueryRouteFull.cfg` | `QueryRoute` | 4 requests at a server's buffer of 1 | `FullBufferDropsConnection` |
| `QueryRouteClosed.cfg` | `QueryRoute` | a session that ends | `EveryQueryReturns` |
| `OnceRouteTwice.cfg` | `OnceRoute` | 2 calls | `OwnReply` |
| `OnceRouteHangs.cfg` | `OnceRoute` | a call and a failure | `EverySendSettles` |
| `StreamRouteDropped.cfg` | `StreamRoute` | a stream route | `TrueOnlyWhenSendable` |
| `RouterMixed.cfg` | `Router` | an end of the other side registered | `AllRoutesServed` |
| `ChannelListen.cfg` | `Channel` | 2 sessions with a starter each | `NoCrossTalk` |
| `ChannelAccept.cfg` | `Channel` | 1 session, deadlines of 2 ticks | `ActiveSessionSurvives` |
| `TaskMisuse.cfg` | `Task` | a task without timers | `CleanedUpIsNotCancelled` |
| `VirtualSocketShared.cfg` | `VirtualSocket` | 2 receivers at one socket | `MissedByCancelOnly` |
| `VirtualSocketDrop.cfg` | `VirtualSocket` | drop of the root | `DropLeavesTheOthersOpen` |
| `VirtualSocketWebsocket.cfg` | `VirtualSocket` | drop of a websocket's root | `DropEndsOneSocket` |

Bounds, and why they are enough:

- **Ring.** `Size` 2 gives three slots; six accepted pushes wrap both indices and
  reach every pair of positions. `MaxWaiters` 2 is the least at which the order of
  waiters matters. The theorems need neither bound.
- **Outgoing buffer.** `Size` 2 fills up before the websocket opens, and five
  accepted sends leave three for afterwards. Nobody waits on this buffer, so
  `MaxWaiters` is 0; the run in which somebody takes has 1.
- **Messages.** `MaxLoad` 2 with limit 2 wraps the step of every side: the
  second message has step 0, the step of the handshake, the only value
  at which a session could confuse its own frames. At most one message and one ACK
  are in flight (`OneOfEachInFlight`), so a third message meets no situation the
  second did not.
- **Buffers.** With `InCap` 1 a buffer that nobody reads has its place taken by the first frame,
  and refuses the next. `Batch` 2 is one more than it. The theorems hold for 0 as well: what a
  session waits for needs no place.
- **Routes.** Five queries, any number of them at once, are more than all buffers of the way
  together (2 and 1, the message under way and the pull that waits), so each buffer fills, refuses,
  empties and fills again. Streams have buffers of 1 and three payloads: one is sent, one
  waits, one is refused. One-shot routes need two calls to disagree.
- **Routers.** Three routes and two keys give the one route too many; two definitions of a
  route are the least with which a key can be registered twice. Two routers with one route
  each have the same keys, which is the case the identity is for. One sending end is connected
  (`OneSender`): the property speaks of each by itself, and no step reads which others there are.
- **Channel.** Three sessions and two nonces: a nonce comes again while another session is
  open. Two messages in all, of any ends, are what one session can take from another or what two
  can have in flight. The setting with deadlines has two sessions (`MaxTimed`); two ticks let a
  session be silent for less than the other's deadline. The theorems need none of the bounds.
- **Tasks.** One subtask is the least with a parent; a subtask of a subtask follows it in the same
  way. One timer a task: no task of the code has two. Two polls, as many as a session has on a task.
- **Sockets.** Two receivers, one of whom can lose what is meant for the other; four frames at
  buffers of two fill, are refused and are taken. Three calls of `recv` (`MaxCalls`) leave two takes behind and
  one that waits: a receiver can miss two frames and get the third.
- **Limits.** The code uses 4294967295 and 65535; 3 and 2 keep what matters, that
  the server's wraps first.

`session_rough` needs no fairness. `session_calm` and `session_teardown` are split
because liveness is costly, and because `Delivered` only holds without failures and
`ServerReleases` must hold with all of them. `Batch` is 1 in `session_calm`: with 2
the early message of the findings is lost.

`CHECK_DEADLOCK` is off everywhere: in every module an application may stop calling, and a
ring at its bound of pushes, a session that has ended or a router that has started has
nothing left to do. What must go on instead is said by the liveness properties.

## Fairness

`FairSpec` assumes, as weak fairness and no more:

- `Continue(s)`: a promise that is settled has its continuation run. This is the
  event loop's own guarantee.
- `Deliver(s)`, `SocketClosed(s)`: the websocket delivers what it accepted while
  the connection is up, and reports that it closed.
- `HandshakeTimeout(s)`: an armed timer fires. It is enabled only where `"sig"` is
  among the events.
- `Connect`: the client's application starts the session; without it nothing
  happens.

`ClientFairSpec` assumes that an attempt to connect ends, by `open` or by `close`,
and that a closing websocket gets its `close` event: the websocket promises both.

The modules of the routes (`Fairness` of `QueryRoute`, `OnceRoute` and `StreamRoute`) assume that
continuations run, that the session carries what it pulled while it is open, and that a handler's
promise settles. `EveryQuerySettles`, `SingleUse` and `AcceptedGetsHandled` allow for a session that ends
or fails. `Fairness` of `Channel` assumes only that frames are delivered: neither that sessions end nor
that deadlines pass. That of `Task` assumes that callbacks of settled promises run and that a pull
returns: `PollsEnd` is about a poll whose pulls do.

In a run that joins parts, the fairness of all of them is assumed at once. This excludes no behaviour:
a part that a behaviour is not about stays in its initial state, where none of its fair actions
is enabled (the websocket is open from the start in the half of `client_socket` that is about receiving).

Nothing is assumed of `Load`, `End`, `Cancel`, `Drop` and `Disconnect`, nor of the
ACK and silence deadlines, which are alternatives of continuations that other
frames can disable.

## Proofs

TLAPS proves, for all constants that satisfy the named assumptions:

**`CircularBufferProofs`** (any `Size`, `Values`, `MaxPuts`, `MaxWaiters`;
`SizeAssumption`, `BoundAssumption`, `HoleAssumption`)

- `TypeCorrect`, `NoInvariantViolation`: the two invariants of the run.
- `NoHoles`: every slot from head to tail holds a pushed value.
- `Refinement`: `Spec => ImplementsQueue`, the ring implements the queue.

The inductive invariant is `TypeOK /\ WaitersOnlyWhenEmpty /\ RingOK`. `TypeOK` is
not inductive alone: a `Take` appends `buffer[head]` to `got`, and nothing in the
type says that this slot is not a `Hole`. `RingOK` says that the slots in use hold
values. It is stated by membership of a slot in the interval from head to tail
(`Held`), and `Contents` by `Place`, the i-th slot after head, with a case distinction
in the place of `%`, which the arithmetic of the SMT solver handles poorly. The
lemmas on `Advance` and `Place` are proved once; the refinement then has a lemma
for each method that computes `Contents'` from `Contents` (`Append`, `Tail`, empty).

**`ClientSocketProofs`** (any `Size`, `Values` and bounds)

- `ClientTypeCorrect`: among the types, that the websocket is never handed an
  `undefined`.
- `SendsInOrder`: `ClientSpec => []OutgoingInOrder`.

Neither is inductive: that draining from slot 0 gives what was sent depends on where
`head` is. `CInv` adds it: until it is connected the buffer starts at slot 0 and holds
in each slot `i - 1` the `i`-th frame accepted (`HeldBack`); afterwards the wire holds a
prefix of what was accepted, all of it while the websocket is open (`Bound`).

Of what is received, in the same module (any receivers, frames, buffer size, shared sockets or not):

- `NoTakeWaitsForAFrameThatIsThere`: `SocketSpec => []WaitersMeanEmpty`, so `push` does not throw
  its invariant violation for any socket. With the types it is inductive (`VInv`). That `Pushed` finds the first take that
  wants the frame needs a least number; the library's theorem on induction cannot be used,
  but its theorem on well-founded orders gives it for a set of naturals (`LeastNumber`).
- `CancelledRecvCostsOneFrame`: `MissedByCancelOnly` if each receiver has its own socket, or there is only
  one (`OwnSockets`). The invariant adds that the takes at a socket are those of its receiver, that no call has two of them
  (`TakesOfCalls`), and that a take that was given a frame is in the buffer no longer (`GivenIsGone`), so that it cannot be
  given another. `VirtualSocketShared.cfg` shows what shared sockets do.

**`TaskProofs`** (any number of tasks, timers and turns)

- `CancelledTasksAreSettled`: `CancelledIsSettled`, inductive with the types.
- `RaceClearsTheLastTimer`: what outlives a wrap is at most the timers of deadlines before the last one. The
  invariant (`TInv`) numbers the timers and follows the last one, which is the one that `handles.timeout` has.
- `RaceLeavesNoTimer`, its consequence: `NoTimerAfterRace` if a task has at most one deadline, as in this code.

**`SessionProofs`** (any limits, capacity, batch, events and bound on loads)

- `TypeCorrect`: with the types, that no receive buffer grows past its size and the
  one frame a waiting `recv` takes; `FirstOf` and `Room` are what it rests on. The
  step of a message needs `LimitAssumption` (a limit of 0 has no `%`).
- `CancellationFinal`: `Spec => CancelIsFinal`, one step an action; only `Pull` and
  `Listen` send or push, and both ask the task after their await.
- `Refinement`: `Spec => ImplementsStopAndWait`. In both directions payloads are
  pushed in order and each once, and `stream` takes an ACK only for a message that
  was pushed, although steps wrap, frames overtake one another, buffers refuse
  frames and anything may be cancelled.
- `FlowControl`: `Spec => []OneOfEachInFlight`.

`Refinement` and `FlowControl` rest on `Invariance`. The counts alone (`acked <= pushed <= sent <= loaded`)
are not inductive: a listener compares only steps, which wrap, so that it pushes the
right payload depends on which frames can still be under way. `IInv` says which:

- `MsgFlow`: over the network and the listener's buffer there is at most one
  message; it is the last one sent, not pushed and not acknowledged.
- `AckFlow`: over the network and stream's buffer there is at most one ACK; it
  answers the last message, which was pushed and is not acknowledged.
- `HelloFlow`, `Greeting`: the handshake's ACK, whose step 0 is also a message's step
  after a wrap, is there only while `connect` waits for it or has failed.
- `Counts`: the order of the counters, and `acked = sent` whenever `stream` is about
  to pull.

So a message and its ACK are never both under way, and whichever step the listener
or `stream` waits for, the only frame of the right kind is the right one. The
induction does not use the limits: the step comparison of the code is what the
argument shows to be redundant within one session. The proof first shows
what the operations on sequences do to the frames of one kind (`Fewer`: none added,
none copied, for `Tail`, `Append`, a delivered prefix, an overtaking frame, a
refused one), then that a handler that sends nothing of a kind is `Calm`, and then
treats the five steps that move a count or send a frame.

- `NoMessageAfterTerm`: `Spec => []OnlyAckAfterTerm`. When a client sends TERM its `stream` has returned,
  and the listener's buffer is gone but for the one frame its `recv` may have been given (`Left`), which it answers at
  most once.
- `NoMessageIsStranded`: `Spec => []NoStrandedMessage`, with every failure among the events, for
  `Timely` (one frame a socket event, the client's in order) and limits that agree or that exceed
  the length of the session. `MCSessionEarly.cfg` and `MCSessionWrap.cfg` show that neither can be
  dropped; with the limits of the code the second holds for 65534 messages a direction.

`NoStrandedMessage` says that something is *not* lost, so `Invariance`, which bounds what is under
way, does not give it; the proof needs the other half. `ControlInv` says where the two sides are: who has
not opened its session runs no loop and keeps no message (`Dormant`); from `Open` on, as long as the
connection is up and the task live, both loops run and their buffers are registered (`Working`); the client
speaks first and the server's first frame is the hello (`FirstContact`, `ServerSecond`). `HelloComing`: while the
client waits for the hello, it is the first frame under way, or lies in the buffer and is taken next, so no
message comes to a client that has no listener yet. Then a frame that is delivered while a `recv`
waits for it finds an empty buffer, since the side is quiet, and is kept whatever the buffer's size
(`ReceivedAlone`), and a loop that takes a frame discards only those that do not match.
`Invariance` is used twice: the message is sent when all before it are pushed, and what the listener
acknowledges is that message. Each step belongs to one side (`Moves`) and leaves the other's
state alone (`OthersUntouched`), so that there is one lemma for each of the five steps that
touch a message or its ACK (`MessageSent`, `MessageReceived`, `AckSent`, `AckReceived`, `OthersDiscarded`).

**`QueryRouteProofs`** (any buffers, window, number of calls and events)

- `QueryTypeCorrect`: with the types, that no buffer is filled past its size. `OneAtATime` is
  needed beside it: a pull that waits has one place more, so while it waits nothing may be
  under way.
- `RepliesArePaired`, without an assumption: as long as nothing was lost, every call that was
  answered has the reply to its own request. What is asked and not answered, read from the reply
  under way back to the last request, is the `Pipeline`; `Lost` is how many more calls wait than it
  holds. `Lost` never decreases (each lemma `...Loses`): nothing in the code gives a call its place back, which
  is why a refused request, or a rejected message, cannot be made good. While it is 0
  `Pipeline = takers` (`RepliesInv`), and the reply that arrives is the head of both.
- `NoReplyIsUnclaimed`: `Lost` is never negative, so a reply always finds a call that waits, its
  own or, after a loss, an earlier one.
- `FittingCallsLoseNothing`, for `Fits`: if the window fits both buffers and neither a message nor a handler
  rejects, nothing is lost while the session is open. No load is refused (`FitsInv`), since what waits in a buffer is
  part of the pipeline. `QueryRouteRefused.cfg` shows that `Fits` cannot be dropped.
- `RepliesComeInOrder`, without an assumption. A loss takes one element out of the pipeline and
  moves none (`Thinned`), so the pipeline stays increasing. That a reply is not for an earlier request
  than the call it goes to needs more (`OrderInv`): the calls that wait are the last ones, each call before
  them is answered, and every answer given is less than all of the pipeline. `n` answers that
  increase from at least 1 leave at least `n + 1` for the next, which goes to call `n + 1`.

**`ServiceProofs`** (`OnceRoute` and `StreamRoute` as `MCRoutes` instantiates them; any calls, events,
kinds, buffer size and number of payloads)

- `ServicesTypeCorrect`: among the types, that a one-shot handler only runs for a request, and that no
  buffer of the two services of a stream is filled past its size.
- `NobodyLeavesBeforeTheReply`: `NobodyLeavesEarly` of one-shot routes. A client leaves when it has given
  the reply to its callers, a server after its second pull: the invariant (`OInv`) follows the
  request from the caller's promise to the handler and back, or to where it was ignored (`SentIsSomewhere`).
- `OnlyTheFirstCallIsAnswered`: with `FirstCallOnly`, that whatever is on the way is of call 1. It
  makes the finding of `OnceRouteTwice.cfg` exact: every other call that returns has a reply that is not its own.
- `AcceptedIsNotLost`: the payloads that were handled or rejected, then those in the server's buffer, under way and in
  the sender's buffer are the accepted ones (`InOrder`). Each place a payload moves to is empty when
  it comes: no message is under way while `stream` awaits `pull`, and the take of the handler's loop
  waits when a message arrives. So the push whose result `mapService.ts` ignores is never
  refused, whatever the sizes; one-place buffers would do, and even none.

**`RouterProofs`** (any number of routers, routes, definitions and any key limit)

- `RouterTypeCorrect`: an end has a key within the limit and of a route of its router.
- `ChecksOfStart`, without an assumption. That the three checks of `start` leave nothing but an exchange
  of sides is a counting argument: as many ends as routes to serve, with different keys, all of the same router;
  those of the connector's own side have keys to serve, so as many keys are missing as ends are of the other side, at most.
  If none is, every route is served.
- `FramesAreRouted`, without an assumption: an end serves its own key only, and an end that receives a frame is
  a receiving end of the route whose sending end it is from, hence of the other side. The keys of what `start` let pass
  are different, so there is one taker at most.

**`ChannelProofs`** (any number of sessions and messages, any limit, deadline and events)

- `ChannelTypeCorrect`; `StoppedEndpointIsOver`, inductive as it stands with the types.
- `SessionsAreApart`, `TermsFindTheirSession`, for `NonceFree`. `NoCrossTalk` alone is not inductive: it must
  be known which sessions can be alive with the nonce of a frame under way. The invariant adds that
  a session not started has no frames and no live end (`FreshIsNew`), that a frame has the nonce of
  the session it is from (`FramesAreBranded`), and that of two sessions with the same
  nonce only one has a live end or a frame (`OneOwner`). A frame that is taken then has only
  one session it can be from, and a TERM frees its sender's end and no other.
  `ChannelListen.cfg` shows what happens without.

Every safety invariant and every action property that a passing run checks is stated by a theorem.
Only model-checked is all liveness (`Delivered`, `ServerNotices`, `ServerReleases`, `HeldBackIsSent`,
`EveryQuerySettles`, `SingleUse`, `AcceptedGetsHandled`, `EveryStartIsAnswered`, `SubtasksFollow`, `PollsEnd`):
liveness under fairness is out of the prover's reach. Some theorems have
assumptions, each with a configuration that shows a violation without it: `NoMessageIsStranded`,
`CancelledRecvCostsOneFrame` as said above, `FittingCallsLoseNothing` for `Fits`
(`QueryRouteRefused.cfg`), and those of `ChannelProofs` for `NonceFree`.
`RaceLeavesNoTimer` is for tasks of at most one deadline, the only ones of this code; without the
assumption there is `RaceClearsTheLastTimer`.

## Findings

The runs that expect a violation show where the code and what the repository says of it disagree:

1. `session_client_leak`. `drop` of a client route is `task.cleanup`. `connect`
   drops its sockets only after `stream` has returned, and `stream` waits for
   the application's `pull`, which may never come; and when the handshake fails,
   it does not drop them at all. `Route.ts:365` says that `drop` "Closes and disposes
   of the connection."
2. `session_early_message`. `connect` registers the listener's buffer in the
   continuation after the handshake's ACK. When the server has a message ready,
   the ACK and the message can reach the client in one socket event, and the message
   finds no listener. The server waits for its ACK until the deadline.
3. `session_limit_mismatch`. `connect` counts steps modulo 4294967295, `channel`
   modulo 65535. After 65534 messages in a direction the two disagree on the
   next step, and no message is acknowledged any more.
4. `connect_after_take`. `connectPush` reads a ring that is not wrapped from slot 0
   and not from `head`, so after a `take` the callback is handed `undefined` for the
   slots taken. The test "should flush circularly when connected" takes first, but
   only from a ring that is wrapped when it connects. The websocket clients take
   nothing before they connect, and `SendsInOrder` is proved for them.

Further disagreements, by the configuration that shows each:

5. `QueryRouteRefused.cfg`. `query` takes its place in the queue of replies before it loads the request. When
   the load is refused it throws, and the place stays: the next reply resolves a promise nobody
   has, and every later call gets the reply to an earlier request.
6. `QueryRouteFull.cfg`. The README says that the receiving side drops the connection when its buffer
   is full; `mapService.ts:40` ignores the refusal, after the message was acknowledged.
7. `QueryRouteClosed.cfg`, `OnceRouteHangs.cfg`. `send` of a route is documented to throw when the connection is closed;
   it waits for ever.
8. `OnceRouteTwice.cfg`. A second `send` on a connected one-shot route gives the first one's reply.
9. `StreamRouteDropped.cfg`. `send` of a stream gives `true` after `drop`.
10. `RouterMixed.cfg`. `start` ("ensure that you have bound all the server routes") counts ends and compares keys, and not
    sides: an end of the other side passes in the place of one that is left unserved.
11. `ChannelListen.cfg`. `recv` of a listen (and of a duplex) route makes a new `Initiate`, so two of them have
    nonce 0 and take each other's messages.
12. `ChannelAccept.cfg`. The turn that waits for the next INIT has the silence deadline, and its end cancels the
    endpoint: 30 seconds after the last INIT all sessions of the route end, in use or not.
13. `TaskMisuse.cfg`. `cancel` after `cleanup` makes `isCancelled()` say so, and only the promise does not. The
    protocol reads both.
14. `VirtualSocketShared.cfg`. `connect` receives on the socket it is given, and the README's client gives all
    sessions the same one: the take of one session's cancelled `recv` swallows a frame of another.
15. `VirtualSocketDrop.cfg`, `VirtualSocketWebsocket.cfg`. `drop` of the root socket resolves `closed` of the others, and that of a
    websocket's drops them all; `Socket.ts` promises that they are unaffected.

## Not modelled

- `exponentialBackoff.ts`, `wait.ts`: no other file of the library uses them.
- `example.ts`, `example/`: applications, with their user interface.
- `Codec.ts`, the byte layout of `Protocol.ts`: conversions whose result the models
  only need as the fields of a frame.
- The types of `Route.ts` and `Router.ts`, most of their text, have no run time.
- `withApp` and `withConnection`: they store what the application gives. A `withConnection` that
  rejects leaves a route without a session, which its callers see as `QueryRouteClosed.cfg` does.
- A handler of a streaming route that throws: it rejects a promise nobody awaits, and what the process does about it is
  not the library's. Handlers of the other routes may reject.
- `job` of a task: it rejects its caller's promise when the task settles, which ends the poll that
  awaits it (`PullIsLast`); no loop of the protocol uses it.

## Plan

What would add most, in this order:

1. `Session` with `Channel`'s frames below it, on instances small enough to check: two sessions with
   their steps, buffers and deadlines at once. `Channel` now has what tells sessions apart, `Session` what
   each does.
2. A `send` that throws (a socket dropped before its websocket opened) and an INIT that a full
   outgoing buffer refused, in `Session`: `ClientSocket` over `VirtualSocket` below it.
3. A client that learns that the server's session has ended: nothing in the code tells it.
4. Theorems that join layers: `QueryRoute` over `Session`'s directions in the place of the
   promise it takes from `StopAndWait`.
