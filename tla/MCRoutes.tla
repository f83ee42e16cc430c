------------------------------ MODULE MCRoutes ------------------------------
(***************************************************************************)
(* The three services a route can have over its session: channel routes    *)
(* (QueryRoute), one-shot routes (OnceRoute) and streaming routes          *)
(* (StreamRoute).  Each connected route has a service of its own, so a     *)
(* behaviour is about one of them and the others keep their initial state. *)
(***************************************************************************)
EXTENDS QueryRoute

CONSTANTS
  MaxCalls, OnceEvents,     \* MaxCalls and Events of OnceRoute
  Kinds, Buffer, MaxLoad

VARIABLES
  about,  \* the service this behaviour is about
  calls, result, onceInternal, onceExternal, stage, onceMsg, onceIgnored, handler, ended,
  kind, phase, offered, accepted, streamInternal, streamPulling, streamMsg,
  streamExternal, settled, ignored

O == INSTANCE OnceRoute WITH
  Events <- OnceEvents, internal <- onceInternal, external <- onceExternal, msg <- onceMsg,
  ignored <- onceIgnored

S == INSTANCE StreamRoute WITH
  internal <- streamInternal, pulling <- streamPulling, msg <- streamMsg,
  external <- streamExternal

ASSUME ServiceConstants == O!OnceAssumption /\ S!StreamAssumption

onceVars ==
  <<calls, result, onceInternal, onceExternal, stage, onceMsg, onceIgnored, handler, ended>>

streamVars ==
  <<kind, phase, offered, accepted, streamInternal, streamPulling, streamMsg,
    streamExternal, settled, ignored>>

RoutesInit ==
  /\ about \in {"query", "once", "stream"}
  /\ Init /\ O!Init /\ S!Init
  /\ about # "stream" => kind = "stream"

RoutesNext ==
  /\ \/ about = "query" /\ Next /\ UNCHANGED <<onceVars, streamVars>>
     \/ about = "once" /\ O!Next /\ UNCHANGED <<queryVars, streamVars>>
     \/ about = "stream" /\ S!Next /\ UNCHANGED <<queryVars, onceVars>>
  /\ UNCHANGED about

\* No fair step of a service is possible before an application's call or connect.
RoutesSpec ==
  /\ RoutesInit /\ [][RoutesNext]_<<queryVars, onceVars, streamVars, about>>
  /\ Fairness /\ O!Fairness /\ S!Fairness
-----------------------------------------------------------------------------
\* Every variable of OnceRoute and of StreamRoute has its type, a one-shot handler
\* only runs for a request that came (once.ts), and no buffer of a streaming route is
\* filled past its size (many.ts).
ServicesTypeOK == O!TypeOK /\ S!TypeOK

\* The second pull of once.ts waits for takeExternal, so that a side of a one-shot
\* route ends the session by itself only when the reply has come to the client; the
\* server also when the client has acknowledged the reply and then ignored it.
NobodyLeavesEarly == O!NobodyLeavesEarly

\* "These connections are single use and will return one result before closing"
\* (README.md): the first call of send gets its reply and both sides let go, whatever
\* other calls do, unless a side's session or the handler fails or a message is ignored.
SingleUse == O!SingleUse

\* "The order of replies is guaranteed" (asRecvListen, asRecvDuplex): what send
\* accepted on one side of a streaming route is, in order, what the other side handled
\* or its codec or schema refused, and what is still on its way.
AcceptedIsHandled == S!AcceptedIsHandled

\* In a streaming route's session that stays open, an accepted payload is handled, or
\* refused by the codec or the schema (the loops over takeExternal in Route.ts).
AcceptedGetsHandled == S!AcceptedGetsHandled
=============================================================================
