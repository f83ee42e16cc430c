------------------------------- MODULE Router -------------------------------
(***************************************************************************)
(* Router and ConnectRouter: a Router gives each route a key and the ends  *)
(* of a route are bound once; a ConnectRouter collects the receiving ends  *)
(* of one side, and start checks that they are the ones its peer will use. *)
(***************************************************************************)
EXTENDS Naturals, Sequences, FiniteSets

CONSTANTS
  Routers,    \* Router objects, each with its identity
  Copies,     \* bound: calls of define for one route, each makes two new Routes
  KeyLimit,   \* the largest key that define accepts, and a frame can carry
  MaxRoutes   \* bound: routes of one router

ASSUME RouterAssumption == KeyLimit \in Nat /\ MaxRoutes \in Nat

Client == "client"
Server == "server"
Sides == {Client, Server}
Other(s) == IF s = Client THEN Server ELSE Client

VARIABLES
  routeTypes,  \* what each side is in each of a router's routes
  bound,       \* the Routes on which an `as...` method was called
  routes,      \* the ends given to a ConnectRouter
  started,     \* the ConnectRouters that start has returned from
  serving,     \* the ends whose endpoint start has connected
  expected,    \* the keys a ConnectRouter had to serve when it was started
  sending      \* sending ends, and the ConnectRouter they were connected with

routerVars == <<routeTypes, bound, routes, started, serving, expected, sending>>

\* One ConnectRouter of each side and router.
Connectors == [identity : Routers, side : Sides]

\* One of the two Routes that a call of define returns.
Ends == [identity : Routers, key : 0 .. KeyLimit, side : Sides, copy : Copies]

\* A side that sends is its route's "client", the other its "server".
Types == [Sides -> Sides]
Role(e) == routeTypes[e.identity][e.key + 1][e.side]

Keys(r) == {n - 1 : n \in 1 .. Len(routeTypes[r])}
KeysOf(E) == {e.key : e \in E}

\* setUint16: what a frame says of its key.
WireKey(k) == IF k <= KeyLimit THEN k ELSE k % (KeyLimit + 1)

Init ==
  /\ routeTypes = [r \in Routers |-> <<>>]
  /\ bound = {}
  /\ routes = [c \in Connectors |-> {}]
  /\ started = {}
  /\ serving = [c \in Connectors |-> {}]
  /\ expected = [c \in Connectors |-> {}]
  /\ sending = {}
-----------------------------------------------------------------------------
\* `method` is the side that sends.
TypesFor(method) == [s \in Sides |-> IF s = method THEN Client ELSE Server]

Route(r, method) ==
  /\ Len(routeTypes[r]) < MaxRoutes
  /\ routeTypes' = [routeTypes EXCEPT ![r] = Append(@, TypesFor(method))]
  /\ UNCHANGED <<bound, routes, started, serving, expected, sending>>

\* Variant: the limit is compared with the number of the route, not with its key.
Defines_OffByOne(r) == {k \in Keys(r) : k <= KeyLimit + 1}

\* The routes for which define does not throw.
Defines(r) == {k \in Keys(r) : k <= KeyLimit}

\* define, and the method that binds the end; once throws the second time.
Bind(e) ==
  /\ e.key \in Defines(e.identity)
  /\ e \notin bound
  /\ bound' = bound \union {e}
  /\ UNCHANGED <<routeTypes, routes, started, serving, expected, sending>>

\* A receiving end, which need not be of the connector's router nor of its side.
WithRoutes(c, e) ==
  /\ e \in bound
  /\ Role(e) = Server
  /\ routes' = [routes EXCEPT ![c] = @ \union {e}]
  /\ UNCHANGED <<routeTypes, bound, started, serving, expected, sending>>

\* serverRouteCount: read when start is called.
ToServe(c) == {k \in Keys(c.identity) : routeTypes[c.identity][k + 1][c.side] = Server}

\* Variant: routes are counted, but the same one may be registered twice.
Complete_Repeats(c) ==
  /\ Cardinality(routes[c]) = Cardinality(ToServe(c))
  /\ \A e \in routes[c] : e.identity = c.identity

\* The checks of start: number, unique keys, identity.
Complete(c) ==
  /\ Cardinality(routes[c]) = Cardinality(ToServe(c))
  /\ Cardinality(KeysOf(routes[c])) = Cardinality(routes[c])
  /\ \A e \in routes[c] : e.identity = c.identity

\* start, once as its comment demands; when a check fails it throws and has changed
\* nothing.
Start(c) ==
  /\ c \notin started
  /\ Complete(c)
  /\ started' = started \union {c}
  /\ serving' = [serving EXCEPT ![c] = routes[c]]
  /\ expected' = [expected EXCEPT ![c] = ToServe(c)]
  /\ UNCHANGED <<routeTypes, bound, routes, sending>>

\* Variant: the identity of the context is not compared.
Connect_Anywhere(c, e) ==
  /\ c \in started
  /\ e \in bound
  /\ Role(e) = Client
  /\ sending' = sending \union {<<c, e>>}
  /\ UNCHANGED <<routeTypes, bound, routes, started, serving, expected>>

\* connect of a sending end with what start returned, which has its router's identity.
Connect(c, e) ==
  /\ c \in started
  /\ e \in bound
  /\ Role(e) = Client
  /\ e.identity = c.identity
  /\ sending' = sending \union {<<c, e>>}
  /\ UNCHANGED <<routeTypes, bound, routes, started, serving, expected>>

\* Bound: the keys an end can have.
BoundedEnds == [identity : Routers, key : 0 .. MaxRoutes - 1, side : Sides, copy : Copies]

Next ==
  \/ \E r \in Routers, s \in Sides : Route(r, s)
  \/ \E e \in BoundedEnds : Bind(e)
  \/ \E c \in Connectors, e \in bound : WithRoutes(c, e) \/ Connect(c, e)
  \/ \E c \in Connectors : Start(c)

Spec == Init /\ [][Next]_routerVars
-----------------------------------------------------------------------------
\* Every bound end has a key that a frame can carry and belongs to a route of its
\* router; only bound ends are registered, served or connected.
TypeOK ==
  /\ routeTypes \in [Routers -> Seq(Types)]
  /\ bound \subseteq Ends
  /\ \A e \in bound : e.key \in Keys(e.identity)
  /\ routes \in [Connectors -> SUBSET bound]
  /\ started \subseteq Connectors
  /\ serving \in [Connectors -> SUBSET bound]
  /\ expected \in [Connectors -> SUBSET Nat]
  /\ sending \subseteq Connectors \X bound

\* "A runtime check is performed here to ensure that you have bound all the server
\* routes" (start): a router that started serves every route its side has to serve.
AllRoutesServed ==
  \A c \in started : expected[c] \subseteq KeysOf(serving[c])

\* What the checks of start come to, none of which looks at sides: a router that
\* started serves the keys its side has to, but for as many as it was given ends of
\* the other side.
UnservedIsSwapped ==
  \A c \in started :
    Cardinality(expected[c] \ KeysOf(serving[c])) <=
      Cardinality({e \in serving[c] : e.side # c.side})

\* A frame of a sending end is taken by one endpoint of the peer at most, and by none
\* but the other end of its own route: keys tell the routes of a router apart.
FramesReachTheirRoute ==
  \A pair \in sending :
    LET c == pair[1]
        e == pair[2]
        peer == [identity |-> c.identity, side |-> Other(c.side)]
        takers == {x \in serving[peer] : WireKey(x.key) = WireKey(e.key)}
    IN /\ \A x \in takers : x.key = e.key /\ x.side # e.side /\ x.identity = e.identity
       /\ Cardinality(takers) <= 1
=============================================================================
