------------------------------ MODULE MCRouter ------------------------------
(***************************************************************************)
(* Two settings of Router: one router with more routes than it has keys    *)
(* for, the first one defined twice; and two routers of one route, whose   *)
(* ends may be given to each other's ConnectRouters.                       *)
(***************************************************************************)
EXTENDS Router

CONSTANTS One, First  \* the router and the copy that both settings use

VARIABLE about  \* the setting of this behaviour

\* What is touched in the setting of one router.
OneRouter ==
  /\ \A c \in Connectors :
       c.identity # One =>
         routeTypes'[c.identity] = <<>> /\ routes'[c] = {} /\ c \notin started'
  /\ \A e \in bound' : e.copy = First \/ e.key = 0

\* What there is in the setting of two.
SingleRoutes ==
  /\ \A r \in Routers : Len(routeTypes'[r]) <= 1
  /\ \A e \in bound' : e.copy = First

\* Bound: one end is connected to send, which is enough as no step reads who sends.
OneSender == Cardinality(sending') <= 1

MCInit == Init /\ about \in {"one", "two"}

MCNext ==
  /\ Next
  /\ OneSender
  /\ IF about = "one" THEN OneRouter ELSE SingleRoutes
  /\ UNCHANGED about

MCSpec == MCInit /\ [][MCNext]_<<routerVars, about>>
=============================================================================
