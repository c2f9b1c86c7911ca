------------------------------- MODULE Secrecy -------------------------------
(***************************************************************************)
(* What the dark side can learn of the ring bearer. Every play is compared *)
(* with one in which the ring bearer stays at home: the orders that give   *)
(* it a route give it none, and all else is the same.                      *)
(***************************************************************************)
EXTENDS StateViews

\* units.conf does not let the ring bearer start at Mount Doom, where staying at
\* home would destroy the Ring.
ASSUME HomeAssumption == UnitConfig[RingBearer].start # MountDoom

\* An order, and the snapshot x of u, in the other play.
StayHome(o) == IF o.unit = RingBearer THEN [o EXCEPT !.route = <<>>] ELSE o
Unrouted(u, x) == IF u = RingBearer THEN [x EXCEPT !.route = <<>>, !.routeIdx = 0] ELSE x

HomeOrders == [i \in DOMAIN orders |-> [body |-> StayHome(orders[i].body), turn |-> orders[i].turn]]
HomeUnits  == [u \in Units |-> Unrouted(u, units[u])]
HomeRing   == [trueRegion |-> UnitConfig[RingBearer].start, exposed |-> FALSE]
NoRoute    == [route |-> <<>>, routeIdx |-> 0]

AtHome == INSTANCE StateViews WITH
    Menu        <- {StayHome(b) : b \in Menu},
    orders      <- HomeOrders,
    units       <- HomeUnits,
    ring        <- HomeRing,
    ringRoute   <- NoRoute,
    routeLogged <- FALSE

\* The dark side has been told nothing yet: no sighting, no detection, no route in
\* the log, no destruction of the Ring.
NothingTold == /\ darkView.region = Nowhere /\ ~ring.exposed /\ ~routeLogged
               /\ winner # "FREE_PEOPLES"

\* As long as the dark side has been told nothing, it is shown what it would be
\* shown had the ring bearer stayed at home, and every step of the server is one
\* it would take then: no control of a region, no battle, no block and no timer
\* gives the ring bearer away. Steps are left out in which a Nazgul would find it
\* at home. Two things do tell of its way. A route given by ASSIGN_ROUTE is written to
\* the log for both sides to read (one given by REDIRECT_UNIT is not), so the premise
\* names the log. And whoever asks for the orders of a unit gets the same answer: for
\* the ring bearer DESTROY_RING is among them when it is at Mount Doom or about to go
\* there. Nothing else in an answer depends on where it is
\* (buildStateForSide's "Dark Side NEVER receives true region", handleGameState,
\* handleOrdersAvailable, and the whole of ProcessTurn).
UnseenMovesTellNothing ==
    /\ [](NothingTold => /\ AtHome!BuildStateForSide("SHADOW") = BuildStateForSide("SHADOW")
                         /\ AtHome!GameState("SHADOW") = GameState("SHADOW")
                         /\ \A u \in Units : AtHome!AvailableOrders(u)
                              = IF u = RingBearer THEN AvailableOrders(u) \ {"DESTROY_RING"}
                                ELSE AvailableOrders(u))
    /\ [][NothingTold /\ NothingTold' /\ (pc = "detection" => ~AtHome!Detected)
            => AtHome!Next \/ UNCHANGED AtHome!vars]_viewVars

=============================================================================
