---------------------------- MODULE RouterProofs ----------------------------
(***************************************************************************)
(* Proofs about Router for any number of routers and routes: its types,    *)
(* what the checks of start come to though none of them looks at sides,    *)
(* and that a frame is taken by the other end of its route or by none.     *)
(***************************************************************************)
EXTENDS Router, FiniteSetTheorems, TLAPS

\* An end's part in its route is read from an entry that exists.
LEMMA RoleDefined ==
  ASSUME TypeOK, NEW e \in bound
  PROVE  /\ e \in Ends /\ e.identity \in Routers /\ e.key \in Nat
         /\ e.key <= KeyLimit /\ e.side \in Sides
         /\ routeTypes[e.identity] \in Seq(Types)
         /\ e.key + 1 \in 1 .. Len(routeTypes[e.identity])
         /\ Role(e) \in Sides
<1>1. /\ e \in Ends /\ e.identity \in Routers /\ e.key \in 0 .. KeyLimit /\ e.side \in Sides
      /\ e.key \in Keys(e.identity)
      /\ routeTypes[e.identity] \in Seq(Types)
  BY DEF TypeOK, Ends
<1>2. e.key \in Nat /\ e.key <= KeyLimit
  BY <1>1, RouterAssumption
<1>3. e.key + 1 \in 1 .. Len(routeTypes[e.identity])
  BY <1>1, <1>2 DEF Keys
<1>4. routeTypes[e.identity][e.key + 1] \in Types
  BY <1>1, <1>3
<1> QED
  BY <1>1, <1>2, <1>3, <1>4 DEF Role, Types

\* The types are kept by every step.
LEMMA TypeStep == TypeOK /\ [Next]_routerVars => TypeOK'
<1> SUFFICES ASSUME TypeOK, [Next]_routerVars PROVE TypeOK'
  OBVIOUS
<1>1. ASSUME NEW r \in Routers, NEW s \in Sides, Route(r, s)
      PROVE  TypeOK'
  <2>1. TypesFor(s) \in Types
    BY DEF TypesFor, Types, Sides
  <2>2. /\ routeTypes' = [routeTypes EXCEPT ![r] = Append(routeTypes[r], TypesFor(s))]
        /\ UNCHANGED <<bound, routes, started, serving, expected, sending>>
    BY <1>1 DEF Route
  <2>3. routeTypes \in [Routers -> Seq(Types)] /\ routeTypes[r] \in Seq(Types)
    BY DEF TypeOK
  <2>4. /\ Append(routeTypes[r], TypesFor(s)) \in Seq(Types)
        /\ Len(Append(routeTypes[r], TypesFor(s))) = Len(routeTypes[r]) + 1
    BY <2>1, <2>3
  <2>5. routeTypes' \in [Routers -> Seq(Types)]
    BY <2>2, <2>3, <2>4
  <2>6. \A o \in Routers : Len(routeTypes'[o]) >= Len(routeTypes[o])
                            /\ Len(routeTypes[o]) \in Nat /\ Len(routeTypes'[o]) \in Nat
    BY <2>2, <2>3, <2>4, <2>5
  <2>7. \A o \in Routers : Keys(o) \subseteq Keys(o)'
    BY <2>6 DEF Keys
  <2>8. \A e \in bound : e.identity \in Routers /\ e.key \in Keys(e.identity)
    BY DEF TypeOK, Ends
  <2>9. \A e \in bound : e.key \in Keys(e.identity)'
    BY <2>7, <2>8
  <2> QED
    BY <2>2, <2>5, <2>9 DEF TypeOK
<1>2. ASSUME NEW e \in BoundedEnds, Bind(e)
      PROVE  TypeOK'
  <2>1. /\ e.key \in Keys(e.identity) /\ e.key <= KeyLimit /\ bound' = bound \union {e}
        /\ UNCHANGED <<routeTypes, routes, started, serving, expected, sending>>
    BY <1>2 DEF Bind, Defines
  <2>2. e \in Ends
    BY <2>1, RouterAssumption DEF BoundedEnds, Ends
  <2>3. Keys(e.identity)' = Keys(e.identity) /\ \A f \in bound : Keys(f.identity)' = Keys(f.identity)
    BY <2>1 DEF Keys
  <2> QED
    BY <2>1, <2>2, <2>3 DEF TypeOK
<1>3. ASSUME NEW c \in Connectors, NEW e \in bound, WithRoutes(c, e)
      PROVE  TypeOK'
  <2>1. \A f \in bound : Keys(f.identity)' = Keys(f.identity)
    BY <1>3 DEF WithRoutes, Keys
  <2> QED
    BY <1>3, <2>1 DEF TypeOK, WithRoutes
<1>4. ASSUME NEW c \in Connectors, NEW e \in bound, Connect(c, e)
      PROVE  TypeOK'
  <2>1. \A f \in bound : Keys(f.identity)' = Keys(f.identity)
    BY <1>4 DEF Connect, Keys
  <2> QED
    BY <1>4, <2>1 DEF TypeOK, Connect
<1>5. ASSUME NEW c \in Connectors, Start(c)
      PROVE  TypeOK'
  <2>1. \A f \in bound : Keys(f.identity)' = Keys(f.identity)
    BY <1>5 DEF Start, Keys
  <2>2. c.identity \in Routers
    BY DEF Connectors
  <2>3. Len(routeTypes[c.identity]) \in Nat
    BY <2>2 DEF TypeOK
  <2>4. ToServe(c) \subseteq Nat
    BY <2>3 DEF ToServe, Keys
  <2> QED
    BY <1>5, <2>1, <2>4 DEF TypeOK, Start
<1>6. CASE UNCHANGED routerVars
  <2>1. \A f \in bound : Keys(f.identity)' = Keys(f.identity)
    BY <1>6 DEF routerVars, Keys
  <2> QED
    BY <1>6, <2>1 DEF TypeOK, routerVars
<1> QED
  BY <1>1, <1>2, <1>3, <1>4, <1>5, <1>6 DEF Next

\* Whatever is registered, an end that is bound has a key that a frame can carry.
THEOREM RouterTypeCorrect == Spec => []TypeOK
<1>1. Init => TypeOK
  BY DEF Init, TypeOK
<1>2. TypeOK /\ [Next]_routerVars => TypeOK'
  BY TypeStep
<1> QED
  BY <1>1, <1>2, PTL DEF Spec
-----------------------------------------------------------------------------
\* What is registered with a ConnectRouter: finitely many receiving ends.
Registered ==
  \A c \in Connectors :
    IsFiniteSet(routes[c]) /\ \A e \in routes[c] : Role(e) = Server

\* What a started ConnectRouter serves: as many receiving ends of its router as it had
\* to, no two of one key, and those of its own side have the keys it had to serve.
Served ==
  \A c \in Connectors :
    /\ IsFiniteSet(serving[c]) /\ IsFiniteSet(expected[c])
    /\ Cardinality(serving[c]) = Cardinality(expected[c])
    /\ \A e \in serving[c] : e.identity = c.identity /\ Role(e) = Server
    /\ \A e, f \in serving[c] : e.key = f.key => e = f
    /\ \A e \in serving[c] : e.side = c.side => e.key \in expected[c]

\* Who sends does so with a ConnectRouter of its own router.
Sends ==
  \A pair \in sending : pair[2].identity = pair[1].identity /\ Role(pair[2]) = Client

RInv == TypeOK /\ Registered /\ Served /\ Sends

\* As many keys as ends: each end has a key of its own.
LEMMA KeysApart ==
  ASSUME NEW R, IsFiniteSet(R), Cardinality(KeysOf(R)) = Cardinality(R)
  PROVE  \A e, f \in R : e.key = f.key => e = f
<1> DEFINE g == [e \in R |-> e.key]
<1>1. g \in Surjection(R, KeysOf(R))
  BY DEF Surjection, KeysOf
<1>2. g \in Injection(R, KeysOf(R))
  <2> HIDE DEF g
  <2> QED
    BY <1>1, FS_Surjection
<1>3. ASSUME NEW e \in R, NEW f \in R, e.key = f.key
      PROVE  e = f
  <2>1. g[e] = g[f]
    BY <1>3
  <2> QED
    BY <1>2, <2>1 DEF Injection, IsInjective
<1> QED
  BY <1>3

\* Ends E of as many keys of their own as there are in X, of which O have keys of X:
\* X misses no more keys than E has ends besides O.
LEMMA Counting ==
  ASSUME NEW E, NEW X, NEW O, IsFiniteSet(E), IsFiniteSet(X), O \subseteq E,
         Cardinality(E) = Cardinality(X),
         \A e, f \in E : e.key = f.key => e = f,
         \A e \in O : e.key \in X
  PROVE  Cardinality(X \ KeysOf(E)) <= Cardinality(E \ O)
<1> DEFINE B == X \intersect KeysOf(E)
           g == [e \in O |-> e.key]
<1>1. IsFiniteSet(B) /\ IsFiniteSet(O)
  <2>1. IsFiniteSet(B)
    BY FS_Intersection
  <2>2. IsFiniteSet(O)
    BY FS_Subset
  <2> QED
    BY <2>1, <2>2
<1>2. g \in Injection(O, B)
  BY DEF Injection, IsInjective, KeysOf
<1>3. Cardinality(O) <= Cardinality(B)
  <2> HIDE DEF g, B
  <2> QED
    BY <1>1, <1>2, FS_Injection
<1>4. Cardinality(X \ KeysOf(E)) = Cardinality(X) - Cardinality(B)
  BY FS_Difference
<1>5. Cardinality(E \ O) = Cardinality(E) - Cardinality(O)
  <2>1. E \intersect O = O
    OBVIOUS
  <2> QED
    BY <2>1, FS_Difference
<1>6. /\ Cardinality(X) \in Nat /\ Cardinality(B) \in Nat
      /\ Cardinality(E) \in Nat /\ Cardinality(O) \in Nat
  BY <1>1, FS_CardinalityType
<1> HIDE DEF B
<1> QED
  BY <1>3, <1>4, <1>5, <1>6

\* There are finitely many keys to serve.
LEMMA FiniteToServe ==
  ASSUME TypeOK, NEW c \in Connectors
  PROVE  IsFiniteSet(ToServe(c))
<1>1. c.identity \in Routers
  BY DEF Connectors
<1>2. Len(routeTypes[c.identity]) \in Nat
  BY <1>1 DEF TypeOK
<1> DEFINE n == Len(routeTypes[c.identity])
<1>3. ToServe(c) \subseteq 0 .. n
  BY <1>2 DEF ToServe, Keys
<1>4. IsFiniteSet(0 .. n)
  <2> HIDE DEF n
  <2> QED
    BY <1>2, FS_Interval DEF n
<1> QED
  BY <1>3, <1>4, FS_Subset

\* A route that is added changes no other.
LEMMA RolesStay ==
  ASSUME TypeOK, [Next]_routerVars, NEW e \in bound
  PROVE  Role(e)' = Role(e)
<1>1. ASSUME NEW r \in Routers, NEW s \in Sides, Route(r, s)
      PROVE  Role(e)' = Role(e)
  <2>1. routeTypes' = [routeTypes EXCEPT ![r] = Append(routeTypes[r], TypesFor(s))]
    BY <1>1 DEF Route
  <2>2. /\ e.identity \in Routers
        /\ routeTypes[e.identity] \in Seq(Types)
        /\ e.key + 1 \in 1 .. Len(routeTypes[e.identity])
    BY RoleDefined
  <2>3. CASE e.identity = r
    <3>1. routeTypes'[e.identity] = Append(routeTypes[e.identity], TypesFor(s))
      BY <2>1, <2>2, <2>3 DEF TypeOK
    <3>2. Append(routeTypes[e.identity], TypesFor(s))[e.key + 1]
            = routeTypes[e.identity][e.key + 1]
      BY <2>2
    <3> QED
      BY <3>1, <3>2 DEF Role
  <2>4. CASE e.identity # r
    BY <2>1, <2>2, <2>4 DEF Role, TypeOK
  <2> QED
    BY <2>3, <2>4
<1>2. CASE routeTypes' = routeTypes
  BY <1>2 DEF Role
<1> QED
  BY <1>1, <1>2 DEF Next, Bind, WithRoutes, Start, Connect, routerVars

LEMMA RegisteredStep ==
  ASSUME TypeOK, Registered, [Next]_routerVars
  PROVE  Registered'
<1>0. /\ routes \in [Connectors -> SUBSET bound]
      /\ \A e \in bound : Role(e)' = Role(e)
  BY RolesStay DEF TypeOK
<1>1. ASSUME NEW c \in Connectors, NEW e \in bound, WithRoutes(c, e)
      PROVE  Registered'
  <2>1. routes' = [routes EXCEPT ![c] = routes[c] \union {e}] /\ Role(e) = Server
    BY <1>1 DEF WithRoutes
  <2>2. IsFiniteSet(routes[c] \union {e})
    BY FS_AddElement DEF Registered
  <2> QED
    BY <1>0, <2>1, <2>2 DEF Registered
<1>2. CASE routes' = routes
  BY <1>0, <1>2 DEF Registered
<1> QED
  BY <1>1, <1>2 DEF Next, Route, Bind, Start, Connect, routerVars

LEMMA ServedStep ==
  ASSUME TypeOK, Registered, Served, [Next]_routerVars
  PROVE  Served'
<1>0. /\ serving \in [Connectors -> SUBSET bound] /\ routes \in [Connectors -> SUBSET bound]
      /\ \A e \in bound : Role(e)' = Role(e)
  BY RolesStay DEF TypeOK
<1>1. ASSUME NEW c \in Connectors, Start(c)
      PROVE  Served'
  <2>1. /\ serving' = [serving EXCEPT ![c] = routes[c]]
        /\ expected' = [expected EXCEPT ![c] = ToServe(c)]
        /\ Complete(c)
    BY <1>1 DEF Start
  <2>2. \A e \in routes[c] : e.identity = c.identity /\ Role(e) = Server
    BY <2>1 DEF Complete, Registered
  <2>3. ASSUME NEW e \in routes[c], e.side = c.side
        PROVE  e.key \in ToServe(c)
    <3>1. e.key \in Keys(c.identity)
      BY <1>0, <2>2 DEF TypeOK
    <3>2. routeTypes[c.identity][e.key + 1][c.side] = Server
      BY <2>2, <2>3 DEF Role
    <3> QED
      BY <3>1, <3>2 DEF ToServe
  <2>4. /\ IsFiniteSet(routes[c]) /\ IsFiniteSet(ToServe(c))
        /\ Cardinality(routes[c]) = Cardinality(ToServe(c))
        /\ \A e, f \in routes[c] : e.key = f.key => e = f
    BY <2>1, KeysApart, FiniteToServe DEF Complete, Registered
  <2>5. /\ serving'[c] = routes[c] /\ expected'[c] = ToServe(c)
        /\ \A d \in Connectors : d # c => serving'[d] = serving[d] /\ expected'[d] = expected[d]
    BY <2>1 DEF TypeOK
  <2>6. \A e \in routes[c] : Role(e)' = Server
    BY <1>0, <2>2
  <2>7. \A d \in Connectors : \A e \in serving[d] : Role(e)' = Role(e)
    BY <1>0
  <2> QED
    BY <2>2, <2>3, <2>4, <2>5, <2>6, <2>7 DEF Served
<1>2. CASE serving' = serving /\ expected' = expected
  BY <1>0, <1>2 DEF Served
<1> QED
  BY <1>1, <1>2 DEF Next, Route, Bind, WithRoutes, Connect, routerVars

LEMMA SendsStep ==
  ASSUME TypeOK, Sends, [Next]_routerVars
  PROVE  Sends'
<1>0. \A pair \in sending : pair[2] \in bound /\ Role(pair[2])' = Role(pair[2])
  BY RolesStay DEF TypeOK
<1>1. ASSUME NEW c \in Connectors, NEW e \in bound, Connect(c, e)
      PROVE  Sends'
  <2>1. Role(e)' = Client /\ e.identity = c.identity /\ sending' = sending \union {<<c, e>>}
    BY <1>1, RolesStay DEF Connect
  <2> QED
    BY <1>0, <2>1 DEF Sends
<1>2. CASE sending' = sending
  BY <1>0, <1>2 DEF Sends
<1> QED
  BY <1>1, <1>2 DEF Next, Route, Bind, WithRoutes, Start, routerVars

LEMMA RInvariant == Spec => []RInv
<1>1. Init => RInv
  <2> SUFFICES ASSUME Init PROVE RInv
    OBVIOUS
  <2>1. TypeOK
    BY DEF Init, TypeOK
  <2>2. Registered
    BY FS_EmptySet DEF Init, Registered
  <2>3. Served
    BY FS_EmptySet DEF Init, Served
  <2>4. Sends
    BY DEF Init, Sends
  <2> QED
    BY <2>1, <2>2, <2>3, <2>4 DEF RInv
<1>2. RInv /\ [Next]_routerVars => RInv'
  BY TypeStep, RegisteredStep, ServedStep, SendsStep DEF RInv
<1> QED
  BY <1>1, <1>2, PTL DEF Spec

\* Whatever ends are registered, the checks of start leave a route of its side
\* unserved only for an end of the other side; with ends of its own side alone they
\* suffice.
THEOREM ChecksOfStart == Spec => []UnservedIsSwapped
<1>1. RInv => UnservedIsSwapped
  <2> SUFFICES ASSUME RInv, NEW c \in started
               PROVE  Cardinality(expected[c] \ KeysOf(serving[c])) <=
                        Cardinality({e \in serving[c] : e.side # c.side})
    BY DEF UnservedIsSwapped
  <2> DEFINE own == {e \in serving[c] : e.side = c.side}
  <2>1. c \in Connectors
    BY DEF RInv, TypeOK
  <2>2. /\ IsFiniteSet(serving[c]) /\ IsFiniteSet(expected[c])
        /\ Cardinality(serving[c]) = Cardinality(expected[c])
        /\ \A e, f \in serving[c] : e.key = f.key => e = f
        /\ \A e \in own : e.key \in expected[c]
    BY <2>1 DEF RInv, Served
  <2>3. Cardinality(expected[c] \ KeysOf(serving[c])) <= Cardinality(serving[c] \ own)
    <3>1. own \subseteq serving[c]
      OBVIOUS
    <3> HIDE DEF own
    <3> QED
      BY <2>2, <3>1, Counting
  <2>4. serving[c] \ own = {e \in serving[c] : e.side # c.side}
    OBVIOUS
  <2> QED
    BY <2>3, <2>4
<1> QED
  BY <1>1, RInvariant, PTL

\* A frame is taken by the receiving end of its own route or by none, whatever ends
\* are registered.
THEOREM FramesAreRouted == Spec => []FramesReachTheirRoute
<1>1. RInv => FramesReachTheirRoute
  <2> SUFFICES ASSUME RInv, NEW pair \in sending
               PROVE  LET c == pair[1]
                          e == pair[2]
                          peer == [identity |-> c.identity, side |-> Other(c.side)]
                          takers == {x \in serving[peer] : WireKey(x.key) = WireKey(e.key)}
                      IN /\ \A x \in takers :
                              x.key = e.key /\ x.side # e.side /\ x.identity = e.identity
                         /\ Cardinality(takers) <= 1
    BY DEF FramesReachTheirRoute
  <2> DEFINE c == pair[1]
             e == pair[2]
             peer == [identity |-> c.identity, side |-> Other(c.side)]
             takers == {x \in serving[peer] : WireKey(x.key) = WireKey(e.key)}
  <2>1. /\ c \in Connectors /\ e \in bound /\ peer \in Connectors
        /\ e.identity = c.identity /\ Role(e) = Client
    BY DEF RInv, TypeOK, Sends, Connectors, Other, Sides, Client, Server
  <2>2. \A x \in bound : x.key <= KeyLimit /\ WireKey(x.key) = x.key
    BY RoleDefined DEF RInv, WireKey
  <2>3. serving[peer] \subseteq bound
    BY <2>1 DEF RInv, TypeOK
  <2>4. takers = {x \in serving[peer] : x.key = e.key}
    BY <2>1, <2>2, <2>3
  <2>5. /\ IsFiniteSet(serving[peer])
        /\ \A x \in serving[peer] : x.identity = c.identity /\ Role(x) = Server
        /\ \A x, y \in serving[peer] : x.key = y.key => x = y
    BY <2>1 DEF RInv, Served
  <2>6. ASSUME NEW x \in takers
        PROVE  x.key = e.key /\ x.side # e.side /\ x.identity = e.identity
    <3>1. x.key = e.key /\ x.identity = e.identity /\ Role(x) # Role(e)
      BY <2>1, <2>4, <2>5 DEF Client, Server
    <3> QED
      BY <3>1 DEF Role
  <2>7. Cardinality(takers) <= 1
    <3>1. CASE takers = {}
      BY <3>1, FS_EmptySet
    <3>2. CASE takers # {}
      <4>1. PICK x \in takers : TRUE
        BY <3>2
      <4>2. takers = {x}
        BY <2>4, <2>5, <4>1
      <4>3. Cardinality({x}) = 1
        BY FS_Singleton
      <4> HIDE DEF takers
      <4> QED
        BY <4>2, <4>3
    <3> QED
      BY <3>1, <3>2
  <2> QED
    BY <2>6, <2>7
<1> QED
  BY <1>1, RInvariant, PTL
=============================================================================
