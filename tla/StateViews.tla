----------------------------- MODULE StateViews ------------------------------
(***************************************************************************)
(* What the server shows of the world and offers to do (package api): the  *)
(* state a stream carries, the answer of /game/state and that of           *)
(* /orders/available. Of the ring bearer's private state it needs the copy *)
(* of the route, which the engine keeps beside the one of the unit, and of *)
(* the log, which every state carries in full, whether a line of it names  *)
(* a route of the ring bearer. Threat levels never change.                 *)
(***************************************************************************)
EXTENDS TurnEngine

VARIABLES
    ringRoute,  \* RingBearer.Route and RingBearer.RouteIdx
    routeLogged \* TurnLogs names a route of the ring bearer

viewVars == <<vars, ringRoute, routeLogged>>

ViewInit == Init /\ ringRoute = [route |-> <<>>, routeIdx |-> 0] /\ routeLogged = FALSE

\* Order i gives the ring bearer a route.
RoutesBearer(i) == CanRoute(orders[i].body) /\ orders[i].body.unit = RingBearer

\* Only applyAssignRoute writes a line; applyRedirect does the same without one.
RouteBearer(i) ==
    /\ RoutesBearer(i) /\ AssignRoute(i)
    /\ ringRoute' = [route |-> orders[i].body.route, routeIdx |-> 0]
    /\ routeLogged' = (routeLogged \/ orders[i].body.type = "ASSIGN_ROUTE")

\* Mutant of AdvanceBearer: the copy keeps its place.
AdvanceUnitOnly == AutoAdvance /\ UNCHANGED <<ringRoute, routeLogged>>

AdvanceBearer ==
    /\ AutoAdvance
    /\ ringRoute' = [ringRoute EXCEPT !.routeIdx =
                       IF Advances(RingBearer) THEN units'[RingBearer].routeIdx ELSE @]
    /\ UNCHANGED routeLogged

\* Every other step of the server.
ElsewhereInTurn ==
    /\ Next
    /\ ~(pc = "orders" /\ pc' = "attacks")
    /\ \A i \in live \ live' : ~RoutesBearer(i)
    /\ UNCHANGED <<ringRoute, routeLogged>>

ViewNext == (\E i \in live : RouteBearer(i)) \/ AdvanceBearer \/ ElsewhereInTurn

ViewSpec == ViewInit /\ [][ViewNext]_viewVars

\* As for FairSpec: the ticker fires for ever.
FairViewSpec == ViewSpec /\ WF_vars(Tick)

-----------------------------------------------------------------------------

\* The units of buildStateForSide and of handleGameState.
ShownUnits(side) ==
    [u \in Units |->
       [region   |-> IF u # RingBearer THEN units[u].region
                     ELSE IF side = "FREE_PEOPLES" THEN ring.trueRegion ELSE Nowhere,
        strength |-> units[u].strength,
        status   |-> units[u].status]]

ShownRegions ==
    [r \in Regions |-> [controlledBy |-> regions[r].controlledBy, fortified |-> regions[r].fortified]]

ShownPaths == [p \in Paths |-> [status |-> paths[p].status, surveillance |-> paths[p].surveillance]]

\* The light side's state has no detections in it.
BuildStateForSide(side) ==
    [turn |-> turn, units |-> ShownUnits(side), regions |-> ShownRegions, paths |-> ShownPaths,
     turnLogs     |-> routeLogged,
     lastDetected |-> IF side = "SHADOW" THEN darkView ELSE [turn |-> 0, region |-> Nowhere]]

GameState(side) ==
    [turn |-> turn, winner |-> winner, units |-> ShownUnits(side), regions |-> ShownRegions,
     paths |-> ShownPaths]

\* The ring bearer is at Mount Doom, or its route's next path touches it.
DestroyInReach ==
    \/ ring.trueRegion = MountDoom
    \/ /\ ringRoute.routeIdx < Len(ringRoute.route)
       /\ LET next == ringRoute.route[ringRoute.routeIdx + 1]
          IN  next \in Paths /\ MountDoom \in Endpoints(next)

AvailableOrders(u) ==
    IF ~Active(u) THEN {}
    ELSE {"ASSIGN_ROUTE", "REDIRECT_UNIT", "BLOCK_PATH", "ATTACK_REGION", "REINFORCE_REGION"}
         \cup {t \in {"MAIA_ABILITY", "FORTIFY_REGION", "SEARCH_PATH", "DESTROY_RING"} :
                 CASE t = "MAIA_ABILITY"   -> /\ UnitConfig[u].maia /\ units[u].cooldown = 0
                                              /\ UnitConfig[u].start # Mordor
                   [] t = "FORTIFY_REGION" -> UnitConfig[u].canFortify
                   [] t = "SEARCH_PATH"    -> UnitConfig[u].side = "SHADOW"
                   [] t = "DESTROY_RING"   -> u = RingBearer /\ DestroyInReach}

-----------------------------------------------------------------------------

\* Whenever the coming turn leaves the ring bearer at Mount Doom, if it gets no
\* other order, DESTROY_RING is among the orders offered for it. The offer is made
\* from the copy of the route and the engine moves by the unit's own, so both must
\* have come through every order and every move alike (availableOrders,
\* applyAssignRoute, applyRedirect, autoAdvance).
DestroyIsOffered ==
    pc = "idle" /\ Active(RingBearer)
    /\ (\/ ring.trueRegion = MountDoom /\ ~Advances(RingBearer)
        \/ Advances(RingBearer) /\ Across(NextPath(RingBearer), ring.trueRegion) = MountDoom)
    => "DESTROY_RING" \in AvailableOrders(RingBearer)

=============================================================================
