----------------------------- MODULE RingProofs -----------------------------
(***************************************************************************)
(* What is proved of the ring bearer's secrecy and of the outcome of the   *)
(* game, and that destruction is final, from the type invariant of         *)
(* TurnEngineProofs.                                                       *)
(***************************************************************************)
EXTENDS TurnEngineProofs, Secrecy

\* Neither property is inductive: that a sighting is never from a hidden turn
\* rests on exposure never being set in one, and that the outcome still shows
\* in the position rests on no turn being run after it.
RingInv ==
    /\ ring.exposed => turn > HiddenUntilTurn
    /\ ring.exposed => pc \notin {"idle", "routes", "orders"}
    /\ ring.exposed /\ pc \in {"control", "win"} =>
         darkView = [turn |-> turn, region |-> ring.trueRegion]
    /\ darkView.region # Nowhere => darkView.turn > HiddenUntilTurn

OutcomeInv == /\ winner # "NONE" => pc = "idle"
              /\ OutcomeIsEarned

-----------------------------------------------------------------------------

\* The steps that neither move, expose nor report the ring bearer, nor turn the clock.
LEMMA QuietStep ==
    ASSUME [Next]_vars, ~AutoAdvance, ~RunDetection, ~FinishTurn, ~GameStart
    PROVE  /\ UNCHANGED <<ring, darkView, turn, winner>>
           /\ pc \notin {"idle", "routes", "orders"} => pc' \notin {"idle", "routes", "orders"}
           /\ pc' \in {"control", "win"} => pc \in {"control", "win"}
<1>1. CASE UNCHANGED vars
  BY <1>1 DEF vars
<1>2. CASE \E i \in live : ApplyOrder(i)
  <2>1. PICK i \in live : ApplyOrder(i)
    BY <1>2
  <2>2. Consume(i) /\ UNCHANGED ring
    BY <2>1 DEF ApplyOrder, AssignRoute, BlockPath, SearchPath, Reinforce, Fortify,
       CorruptPath, OpenPath, RejectOrder, world
  <2> QED
    BY <2>2 DEF Consume, game
<1>3. CASE \E t \in Places, s \in Sides : ResolveGroup(t, s)
  <2>1. PICK t \in Places, s \in Sides : ResolveGroup(t, s)
    BY <1>3
  <2>2. EndGroup(t, s)
    BY <2>1 DEF ResolveGroup, AttackFails, Uncontested, AttackWon, AttackHeld
  <2> QED
    BY <2>2 DEF EndGroup, game
<1>4. CASE SubmitOrder \/ DiscardOrders
  BY <1>4 DEF SubmitOrder, DiscardOrders, world, game
<1>5. CASE BeginTurn \/ RevertStalePaths
  BY <1>5 DEF BeginTurn, RevertStalePaths, world, game
<1>6. CASE DecrementTempOpen \/ DecrementFortification \/ DecrementRespawnAndCooldown
           \/ UpdateRegionControl
  BY <1>6 DEF DecrementTempOpen, DecrementFortification, DecrementRespawnAndCooldown,
     UpdateRegionControl, game
<1> QED
  BY <1>1, <1>2, <1>3, <1>4, <1>5, <1>6 DEF Next, Tick

LEMMA InitRingInv == Init => RingInv /\ OutcomeInv
BY DEF Init, RingInv, OutcomeInv, OutcomeIsEarned

LEMMA NextRingInv == IInv /\ RingInv /\ [Next]_vars => RingInv'
<1> SUFFICES ASSUME IInv, RingInv, [Next]_vars PROVE RingInv'
  OBVIOUS
<1>1. CASE AutoAdvance
  <2>1. /\ pc = "orders" /\ pc' = "attacks" /\ darkView' = darkView /\ turn' = turn
        /\ ring'.exposed = (ring.exposed \/ Spotted)
    BY <1>1 DEF AutoAdvance, game
  <2>2. Spotted => turn > HiddenUntilTurn
    BY DEF Spotted
  <2> QED
    BY <2>1, <2>2 DEF RingInv
<1>2. CASE RunDetection
  <2>1. /\ pc = "detection" /\ pc' = "control" /\ turn' = turn /\ turn \in Nat
        /\ ring \in [trueRegion : Regions, exposed : BOOLEAN]
    BY <1>2 DEF RunDetection, IInv, RingOK, GameOK
  <2>2. CASE Detected \/ ring.exposed
    <3>1. /\ ring' = [ring EXCEPT !.exposed = TRUE]
          /\ darkView' = [turn |-> turn, region |-> ring.trueRegion]
      BY <1>2, <2>2 DEF RunDetection
    <3>2. turn > HiddenUntilTurn
      BY <2>2 DEF Detected, RingInv
    <3> QED
      BY <2>1, <3>1, <3>2 DEF RingInv
  <2>3. CASE ~(Detected \/ ring.exposed)
    BY <1>2, <2>1, <2>3 DEF RunDetection, RingInv
  <2> QED
    BY <2>2, <2>3
<1>3. CASE FinishTurn
  <2>1. ~ring'.exposed
    BY <1>3 DEF FinishTurn, IInv, RingOK
  <2> QED
    BY <1>3, <2>1 DEF FinishTurn, RingInv
<1>4. CASE GameStart
  <2>1. ~ring.exposed
    BY <1>4 DEF GameStart, RingInv
  <2> QED
    BY <1>4, <2>1 DEF GameStart, RingInv, world
<1>5. CASE ~AutoAdvance /\ ~RunDetection /\ ~FinishTurn /\ ~GameStart
  BY <1>5, QuietStep DEF RingInv
<1> QED
  BY <1>1, <1>2, <1>3, <1>4, <1>5

\* Once there is an outcome no step touches the position it shows.
LEMMA AfterTheEnd ==
    ASSUME [Next]_vars, winner # "NONE", pc = "idle"
    PROVE  UNCHANGED <<units, ring, darkView, winner, pc>>
<1>1. CASE SubmitOrder \/ GameStart \/ DiscardOrders
  BY <1>1 DEF SubmitOrder, GameStart, DiscardOrders, world, game
<1>2. ~Tick
  <2>1. ~\E i \in live : ApplyOrder(i)
    BY DEF ApplyOrder, AssignRoute, BlockPath, SearchPath, Reinforce, Fortify,
       CorruptPath, OpenPath, RejectOrder, Due
  <2>2. ~\E t \in Places, s \in Sides : ResolveGroup(t, s)
    BY DEF ResolveGroup, AttackFails, Uncontested, AttackWon, AttackHeld, GroupDue
  <2> QED
    BY <2>1, <2>2 DEF Tick, BeginTurn, RevertStalePaths, AutoAdvance, DecrementTempOpen,
       DecrementFortification, DecrementRespawnAndCooldown, RunDetection,
       UpdateRegionControl, FinishTurn
<1> QED
  BY <1>1, <1>2 DEF Next, vars

LEMMA NextOutcomeInv == IInv /\ RingInv /\ OutcomeInv /\ [Next]_vars => OutcomeInv'
<1> SUFFICES ASSUME IInv, RingInv, OutcomeInv, [Next]_vars PROVE OutcomeInv'
  OBVIOUS
<1>1. CASE winner # "NONE"
  <2>1. UNCHANGED <<units, ring, darkView, winner, pc>>
    BY <1>1, AfterTheEnd DEF OutcomeInv
  <2> QED
    BY <2>1 DEF OutcomeInv, OutcomeIsEarned, Active, DarkSideUnitAt
<1>2. CASE winner = "NONE" /\ ~FinishTurn
  <2>1. winner' = "NONE"
    <3>1. CASE AutoAdvance \/ RunDetection \/ GameStart
      BY <1>2, <3>1 DEF AutoAdvance, RunDetection, GameStart, game
    <3>2. CASE ~(AutoAdvance \/ RunDetection \/ GameStart)
      BY <1>2, <3>2, QuietStep
    <3> QED
      BY <3>1, <3>2
  <2> QED
    BY <2>1 DEF OutcomeInv, OutcomeIsEarned
<1>3. CASE winner = "NONE" /\ FinishTurn
  <2>1. /\ pc = "win" /\ pc' = "idle" /\ UNCHANGED <<units, darkView>>
        /\ ring'.trueRegion = ring.trueRegion
    BY <1>3 DEF FinishTurn, IInv, RingOK
  <2>2. CASE RingDestroyed
    <3>1. winner' = "FREE_PEOPLES" /\ ring.trueRegion = MountDoom /\ ~DarkSideUnitAt(MountDoom)
      BY <1>3, <2>2 DEF FinishTurn, RingDestroyed
    <3> QED
      BY <2>1, <3>1 DEF OutcomeInv, OutcomeIsEarned, DarkSideUnitAt, Active
  <2>3. CASE ~RingDestroyed /\ RingBearerCaught
    <3>1. /\ winner' = "SHADOW" /\ ring.exposed
          /\ \E u \in Units : /\ UnitConfig[u].class = "Nazgul" /\ Active(u)
                              /\ units[u].region = ring.trueRegion
      BY <1>3, <2>3 DEF FinishTurn, RingBearerCaught
    <3>2. darkView.region = ring.trueRegion /\ darkView.turn > HiddenUntilTurn
      BY <2>1, <3>1 DEF RingInv
    <3> QED
      BY <2>1, <3>1, <3>2 DEF OutcomeInv, OutcomeIsEarned, Active
  <2>4. CASE ~RingDestroyed /\ ~RingBearerCaught
    BY <1>3, <2>1, <2>4 DEF FinishTurn, OutcomeInv, OutcomeIsEarned
  <2> QED
    BY <2>2, <2>3, <2>4
<1> QED
  BY <1>1, <1>2, <1>3

\* Exposure, sightings and the outcome, in every reachable state.
THEOREM RingInvariance == Spec => [](RingInv /\ OutcomeInv)
<1>1. Init => IInv /\ RingInv /\ OutcomeInv
  BY InitIInv, InitRingInv
<1>2. IInv /\ RingInv /\ OutcomeInv /\ [Next]_vars => (IInv /\ RingInv /\ OutcomeInv)'
  BY NextIInv, NextRingInv, NextOutcomeInv
<1> QED
  BY <1>1, <1>2, PTL DEF Spec

\* Exposure reaches the dark side's view within the turn and does not outlive it.
THEOREM ExposureCorrect == Spec => []ExposureIsReported
<1>1. RingInv => ExposureIsReported
  BY DEF RingInv, ExposureIsReported
<1> QED
  BY <1>1, RingInvariance, PTL

\* The dark side's view never holds a sighting from a hidden turn.
THEOREM HiddenCorrect == Spec => []HiddenTurnsStayHidden
<1>1. RingInv => HiddenTurnsStayHidden
  BY DEF RingInv, HiddenTurnsStayHidden
<1> QED
  BY <1>1, RingInvariance, PTL

\* The final position proves the outcome, for every map and every set of units.
THEOREM OutcomeCorrect == Spec => []OutcomeIsEarned
<1>1. OutcomeInv => OutcomeIsEarned
  BY DEF OutcomeInv
<1> QED
  BY <1>1, RingInvariance, PTL

-----------------------------------------------------------------------------
(* Destruction is final.                                                   *)

StayDestroyed == \A u \in Units : units[u].status = "DESTROYED" => units'[u].status = "DESTROYED"

LEMMA OrderStayDestroyed == ASSUME IInv, NEW i \in live, ApplyOrder(i) PROVE StayDestroyed
<1> USE DEF IInv, UnitsOK, UnitSnapshots
<1>1. CASE BlockPath(i) \/ SearchPath(i) \/ Fortify(i) \/ RejectOrder(i)
  BY <1>1 DEF BlockPath, SearchPath, Fortify, RejectOrder, world, StayDestroyed
<1>2. CASE AssignRoute(i)
  BY <1>2 DEF AssignRoute, StayDestroyed
<1>3. CASE Reinforce(i)
  BY <1>3 DEF Reinforce, StayDestroyed
<1>4. CASE CorruptPath(i) \/ OpenPath(i)
  <2>1. PICK v, k : units' = [units EXCEPT ![v].cooldown = k]
    BY <1>4 DEF CorruptPath, OpenPath
  <2> QED
    BY <2>1 DEF StayDestroyed
<1> QED
  BY <1>1, <1>2, <1>3, <1>4 DEF ApplyOrder

LEMMA GroupStayDestroyed ==
    ASSUME IInv, NEW t \in Places, NEW s \in Sides, ResolveGroup(t, s)
    PROVE  StayDestroyed
<1> SUFFICES ASSUME NEW u \in Units, units[u].status = "DESTROYED"
             PROVE  units'[u].status = "DESTROYED"
  BY DEF StayDestroyed
<1>1. u \notin Attackers(t, s) /\ u \notin Defenders(t, s) /\ units[u] \in UnitSnapshots
  BY FightersOK DEF IInv, UnitsOK
<1>2. CASE AttackFails(t, s) \/ Uncontested(t, s) \/ AttackHeld(t, s)
  BY <1>1, <1>2 DEF AttackFails, Uncontested, AttackHeld
<1>3. CASE AttackWon(t, s)
  <2>1. PICK hit \in SUBSET Defenders(t, s) :
          units'[u] = IF Disables(u, t, s) THEN [units[u] EXCEPT !.status = "DESTROYED"] ELSE units[u]
    BY <1>1, <1>3 DEF AttackWon, HitGroups, kSubset
  <2> QED
    BY <1>1, <2>1 DEF UnitSnapshots
<1> QED
  BY <1>2, <1>3 DEF ResolveGroup

LEMMA NextStayDestroyed == IInv /\ [Next]_vars => StayDestroyed
<1> SUFFICES ASSUME IInv, [Next]_vars PROVE StayDestroyed
  OBVIOUS
<1>1. CASE UNCHANGED units
  BY <1>1 DEF StayDestroyed
<1>2. CASE AutoAdvance
  BY <1>2 DEF AutoAdvance, Advances, Active, StayDestroyed
<1>3. CASE DecrementRespawnAndCooldown
  BY <1>3 DEF DecrementRespawnAndCooldown, Returns, StayDestroyed, IInv, UnitsOK, UnitSnapshots
<1>4. CASE \E i \in live : ApplyOrder(i)
  BY <1>4, OrderStayDestroyed
<1>5. CASE \E t \in Places, s \in Sides : ResolveGroup(t, s)
  BY <1>5, GroupStayDestroyed
<1>6. CASE \/ UNCHANGED vars \/ SubmitOrder \/ GameStart \/ DiscardOrders \/ BeginTurn
           \/ RevertStalePaths \/ DecrementTempOpen \/ DecrementFortification
           \/ RunDetection \/ UpdateRegionControl \/ FinishTurn
  <2>1. UNCHANGED units
    BY <1>6 DEF vars, SubmitOrder, GameStart, DiscardOrders, BeginTurn, RevertStalePaths,
       DecrementTempOpen, DecrementFortification, RunDetection, UpdateRegionControl,
       FinishTurn, world
  <2> QED
    BY <1>1, <2>1
<1> QED
  BY <1>2, <1>3, <1>4, <1>5, <1>6 DEF Next, Tick

\* No step brings a destroyed unit back, in any game.
THEOREM DestructionCorrect == Spec => DestroyedIsFinal
<1>1. IInv /\ [Next]_vars =>
        [\A u \in Units : units[u].status = "DESTROYED" => units'[u].status = "DESTROYED"]_vars
  BY NextStayDestroyed DEF StayDestroyed
<1> QED
  BY <1>1, Invariance, PTL DEF Spec, DestroyedIsFinal

-----------------------------------------------------------------------------
(* The offer to destroy the Ring.                                          *)

\* The copy of the ring bearer's route is the route of its unit.
CopyInv == ringRoute = [route |-> units[RingBearer].route, routeIdx |-> units[RingBearer].routeIdx]

\* Every step of the server with its views is one of the server.
LEMMA ViewStep == [ViewNext]_viewVars => [Next]_vars
<1>1. ASSUME NEW i \in live, RouteBearer(i) PROVE Next
  BY <1>1 DEF RouteBearer, ApplyOrder, Tick, Next
<1>2. AdvanceBearer => Next
  BY DEF AdvanceBearer, Tick, Next
<1>3. ElsewhereInTurn => Next
  BY DEF ElsewhereInTurn
<1> QED
  BY <1>1, <1>2, <1>3 DEF ViewNext, viewVars

\* Beside what is shown, the views add nothing to a turn: whatever is proved of
\* Spec holds of every play with views.
THEOREM ViewsKeepTurns == ViewSpec => Spec
BY ViewStep, PTL DEF ViewSpec, ViewInit, Spec

\* Outside routes and moves no step touches a route.
LEMMA RouteSteps ==
    ASSUME IInv, Next, NEW u \in Units, ~AutoAdvance,
           \A i \in live : AssignRoute(i) => orders[i].body.unit # u
    PROVE  units'[u].route = units[u].route /\ units'[u].routeIdx = units[u].routeIdx
<1>0. units \in [Units -> UnitSnapshots] /\ units[u] \in UnitSnapshots
  BY DEF IInv, UnitsOK
<1>1. CASE units' = units
  BY <1>1
<1>2. ASSUME NEW i \in live, ApplyOrder(i)
      PROVE  units'[u].route = units[u].route /\ units'[u].routeIdx = units[u].routeIdx
  <2>1. CASE BlockPath(i) \/ SearchPath(i) \/ Fortify(i) \/ RejectOrder(i)
    BY <2>1 DEF BlockPath, SearchPath, Fortify, RejectOrder, world
  <2>2. CASE AssignRoute(i)
    BY <1>0, <2>2 DEF AssignRoute
  <2>3. CASE Reinforce(i)
    BY <1>0, <2>3 DEF Reinforce, UnitSnapshots
  <2>4. CASE CorruptPath(i) \/ OpenPath(i)
    <3>1. PICK v, k : units' = [units EXCEPT ![v].cooldown = k]
      BY <2>4 DEF CorruptPath, OpenPath
    <3> QED
      BY <1>0, <3>1 DEF UnitSnapshots
  <2> QED
    BY <1>2, <2>1, <2>2, <2>3, <2>4 DEF ApplyOrder
<1>3. ASSUME NEW t \in Places, NEW s \in Sides, ResolveGroup(t, s)
      PROVE  units'[u].route = units[u].route /\ units'[u].routeIdx = units[u].routeIdx
  <2> DEFINE led(S) == Led(u, S, Strength)
  <2> HIDE DEF led
  <2>0. ASSUME NEW n PROVE Struck(u, units[u], n).route = units[u].route
                           /\ Struck(u, units[u], n).routeIdx = units[u].routeIdx
    BY <1>0 DEF Struck, Fallen, UnitSnapshots
  <2>1. CASE AttackFails(t, s)
    BY <2>1 DEF AttackFails
  <2>2. CASE Uncontested(t, s)
    BY <1>0, <2>2 DEF Uncontested, UnitSnapshots
  <2>3. CASE AttackHeld(t, s)
    <3>1. units'[u] = IF u \in Attackers(t, s) THEN Struck(u, units[u], led(Attackers(t, s)))
                      ELSE IF u \in Defenders(t, s)
                      THEN [units[u] EXCEPT !.strength = led(Defenders(t, s))]
                      ELSE units[u]
      BY <2>3 DEF AttackHeld, led
    <3> QED
      BY <1>0, <2>0, <3>1 DEF UnitSnapshots
  <2>4. CASE AttackWon(t, s)
    <3> DEFINE Fought(hit) ==
                 IF u \in Attackers(t, s)
                 THEN [units[u] EXCEPT !.region = t, !.strength = led(Attackers(t, s))]
                 ELSE IF u \in hit THEN Struck(u, units[u], led(Defenders(t, s)))
                 ELSE IF u \in Defenders(t, s)
                 THEN [units[u] EXCEPT !.strength = led(Defenders(t, s))]
                 ELSE units[u]
    <3>1. PICK hit :
            units'[u] = IF Disables(u, t, s) THEN [Fought(hit) EXCEPT !.status = "DESTROYED"]
                        ELSE Fought(hit)
      BY <2>4 DEF AttackWon, led
    <3>2. units'[u].route = Fought(hit).route /\ units'[u].routeIdx = Fought(hit).routeIdx
      BY <1>0, <3>1 DEF Struck, Fallen, UnitSnapshots
    <3>3. Fought(hit).route = units[u].route /\ Fought(hit).routeIdx = units[u].routeIdx
      BY <1>0, <2>0 DEF UnitSnapshots
    <3> QED
      BY <3>2, <3>3
  <2> QED
    BY <1>3, <2>1, <2>2, <2>3, <2>4 DEF ResolveGroup
<1>4. CASE DecrementRespawnAndCooldown
  BY <1>0, <1>4 DEF DecrementRespawnAndCooldown, UnitSnapshots
<1>5. CASE SubmitOrder \/ GameStart \/ DiscardOrders \/ BeginTurn \/ RevertStalePaths
           \/ DecrementTempOpen \/ DecrementFortification \/ RunDetection
           \/ UpdateRegionControl \/ FinishTurn
  <2>1. units' = units
    BY <1>5 DEF SubmitOrder, GameStart, DiscardOrders, BeginTurn, RevertStalePaths,
       DecrementTempOpen, DecrementFortification, RunDetection, UpdateRegionControl, FinishTurn,
       world
  <2> QED
    BY <1>1, <2>1
<1> QED
  BY <1>2, <1>3, <1>4, <1>5 DEF Next, Tick

LEMMA NextCopyInv == IInv /\ CopyInv /\ [ViewNext]_viewVars => CopyInv'
<1> SUFFICES ASSUME IInv, CopyInv, [ViewNext]_viewVars PROVE CopyInv'
  OBVIOUS
<1>0. RingBearer \in Units /\ units \in [Units -> UnitSnapshots]
      /\ units[RingBearer] \in UnitSnapshots
  BY RingBearerIsUnit DEF IInv, UnitsOK
<1>1. CASE UNCHANGED viewVars
  BY <1>1 DEF viewVars, vars, CopyInv
<1>2. ASSUME NEW i \in live, RouteBearer(i) PROVE CopyInv'
  <2>1. units' = [units EXCEPT ![RingBearer].route = orders[i].body.route,
                               ![RingBearer].routeIdx = 0]
    BY <1>2 DEF RouteBearer, RoutesBearer, AssignRoute
  <2>2. units'[RingBearer].route = orders[i].body.route /\ units'[RingBearer].routeIdx = 0
    BY <1>0, <2>1 DEF UnitSnapshots
  <2> QED
    BY <1>2, <2>2 DEF RouteBearer, CopyInv
<1>3. CASE AdvanceBearer
  <2>1. /\ units'[RingBearer].route = units[RingBearer].route
        /\ ~Advances(RingBearer) => units'[RingBearer].routeIdx = units[RingBearer].routeIdx
    BY <1>0, <1>3 DEF AdvanceBearer, AutoAdvance, UnitSnapshots
  <2>2. CASE Advances(RingBearer)
    <3>1. ringRoute' = [ringRoute EXCEPT !.routeIdx = units'[RingBearer].routeIdx]
      BY <1>3, <2>2 DEF AdvanceBearer
    <3> QED
      BY <2>1, <3>1 DEF CopyInv
  <2>3. CASE ~Advances(RingBearer)
    <3>1. ringRoute' = [ringRoute EXCEPT !.routeIdx = ringRoute.routeIdx]
      BY <1>3, <2>3 DEF AdvanceBearer
    <3> QED
      BY <2>1, <2>3, <3>1 DEF CopyInv
  <2> QED
    BY <2>2, <2>3
<1>4. CASE ElsewhereInTurn
  <2>1. Next /\ ~AutoAdvance
    BY <1>4 DEF ElsewhereInTurn, AutoAdvance
  <2>2. ASSUME NEW i \in live, AssignRoute(i) PROVE orders[i].body.unit # RingBearer
    <3>1. i \in live \ live' /\ CanRoute(orders[i].body)
      BY <2>2 DEF AssignRoute, Consume
    <3> QED
      BY <1>4, <3>1 DEF ElsewhereInTurn, RoutesBearer
  <2>3. /\ units'[RingBearer].route = units[RingBearer].route
        /\ units'[RingBearer].routeIdx = units[RingBearer].routeIdx
    BY <1>0, <2>1, <2>2, RouteSteps
  <2> QED
    BY <1>4, <2>3 DEF ElsewhereInTurn, CopyInv
<1> QED
  BY <1>1, <1>2, <1>3, <1>4 DEF ViewNext

\* Whoever can destroy the Ring in the coming turn is offered it, on every map
\* and for every route.
THEOREM OfferCorrect == ViewSpec => []DestroyIsOffered
<1>1. ViewInit => IInv /\ CopyInv
  <2>1. Init => units[RingBearer].route = <<>> /\ units[RingBearer].routeIdx = 0
    BY RingBearerIsUnit DEF Init
  <2> QED
    BY <2>1, InitIInv DEF ViewInit, CopyInv
<1>2. IInv /\ CopyInv /\ [ViewNext]_viewVars => (IInv /\ CopyInv)'
  BY ViewStep, NextIInv, NextCopyInv
<1>3. CopyInv => DestroyIsOffered
  <2> SUFFICES ASSUME CopyInv, Active(RingBearer),
                      \/ ring.trueRegion = MountDoom
                      \/ Advances(RingBearer) /\ Across(NextPath(RingBearer), ring.trueRegion) = MountDoom
               PROVE  "DESTROY_RING" \in AvailableOrders(RingBearer)
    BY DEF DestroyIsOffered
  <2>1. DestroyInReach
    <3>1. CASE ring.trueRegion = MountDoom
      BY <3>1 DEF DestroyInReach
    <3>2. CASE Advances(RingBearer) /\ Across(NextPath(RingBearer), ring.trueRegion) = MountDoom
      BY <3>2 DEF DestroyInReach, Advances, NextPath, CopyInv, Across, Endpoints
    <3> QED
      BY <3>1, <3>2
  <2> QED
    BY <2>1 DEF AvailableOrders
<1> QED
  BY <1>1, <1>2, <1>3, PTL DEF ViewSpec

-----------------------------------------------------------------------------
(* What the dark side learns. Every step of a play is matched by the same     *)
(* step of the play in which the ring bearer stays at home: nothing a step    *)
(* reads depends on the ring bearer's route, its true region or its exposure, *)
(* the move of the ring bearer, detection and the end of the game apart.      *)

\* Erasing the ring bearer's route changes nothing else in a snapshot.
LEMMA UnroutedFields ==
    ASSUME NEW u, NEW x \in UnitSnapshots
    PROVE  /\ Unrouted(u, x) \in UnitSnapshots
           /\ Unrouted(u, x).region = x.region /\ Unrouted(u, x).strength = x.strength
           /\ Unrouted(u, x).status = x.status /\ Unrouted(u, x).respawnTurns = x.respawnTurns
           /\ Unrouted(u, x).cooldown = x.cooldown
           /\ Unrouted(u, x).route = IF u = RingBearer THEN <<>> ELSE x.route
           /\ Unrouted(u, x).routeIdx = IF u = RingBearer THEN 0 ELSE x.routeIdx
<1>1. <<>> \in Seq(Paths \cup {NoPath})
  OBVIOUS
<1> QED
  BY <1>1 DEF Unrouted, UnitSnapshots

\* An order of the other play differs in the route only, if at all.
LEMMA StayHomeFields ==
    ASSUME NEW o \in OrderBodies
    PROVE  /\ StayHome(o) \in OrderBodies
           /\ StayHome(o).type = o.type /\ StayHome(o).unit = o.unit
           /\ StayHome(o).path = o.path /\ StayHome(o).region = o.region
           /\ StayHome(o).route = IF o.unit = RingBearer THEN <<>> ELSE o.route
<1>1. <<>> \in Seq(Paths \cup {NoPath})
  OBVIOUS
<1>2. /\ o.type \in OrderTypes /\ o.unit \in Units \cup {NoUnit}
      /\ o.path \in Paths \cup {NoPath} /\ o.region \in Regions \cup {Nowhere}
      /\ o = [type |-> o.type, unit |-> o.unit, path |-> o.path, region |-> o.region,
              route |-> o.route]
  BY DEF OrderBodies
<1>3. StayHome(o) = IF o.unit = RingBearer
                    THEN [type |-> o.type, unit |-> o.unit, path |-> o.path,
                          region |-> o.region, route |-> <<>>]
                    ELSE o
  BY <1>2 DEF StayHome
<1>4. [type |-> o.type, unit |-> o.unit, path |-> o.path, region |-> o.region,
       route |-> <<>>] \in OrderBodies
  BY <1>1, <1>2 DEF OrderBodies
<1> QED
  BY <1>3, <1>4

\* Of every unit the two plays show the same, except for the route.
LEMMA HomeSnapshots ==
    ASSUME IInv, NEW u \in Units
    PROVE  /\ units[u] \in UnitSnapshots /\ HomeUnits[u] = Unrouted(u, units[u])
           /\ HomeUnits[u] \in UnitSnapshots
           /\ HomeUnits[u].region = units[u].region /\ HomeUnits[u].strength = units[u].strength
           /\ HomeUnits[u].status = units[u].status
           /\ HomeUnits[u].respawnTurns = units[u].respawnTurns
           /\ HomeUnits[u].cooldown = units[u].cooldown
<1>1. units[u] \in UnitSnapshots
  BY DEF IInv, UnitsOK
<1> QED
  BY <1>1, UnroutedFields DEF HomeUnits

\* The two plays have the same orders, except for the ring bearer's routes.
LEMMA HomeOrder ==
    ASSUME IInv, NEW i \in DOMAIN orders
    PROVE  /\ orders[i].body \in OrderBodies /\ orders[i].turn \in Nat
           /\ HomeOrders[i].body = StayHome(orders[i].body)
           /\ HomeOrders[i].turn = orders[i].turn
<1>1. orders[i] \in Orders
  BY DEF IInv, QueueOK
<1> QED
  BY <1>1 DEF HomeOrders, Orders

\* What is read of the configuration and the map is the same in both plays.
LEMMA SameWords ==
    /\ AtHome!RingBearer = RingBearer /\ AtHome!IsengardMaia = IsengardMaia
    /\ AtHome!StepOf = StepOf /\ AtHome!Sides = Sides /\ AtHome!Places = Places
    /\ \A p : AtHome!Endpoints(p) = Endpoints(p)
    /\ \A a, b : AtHome!PathsBetween(a, b) = PathsBetween(a, b)
    /\ \A a, b : AtHome!Across(a, b) = Across(a, b)
    /\ \A a, b : AtHome!Within(a, b) = Within(a, b)
    /\ \A u, n : AtHome!AfterHit(u, n) = AfterHit(u, n)
    /\ \A r : AtHome!TerrainBonus(r) = TerrainBonus(r)
    /\ \A u, t, s : AtHome!Disables(u, t, s) = Disables(u, t, s)
<1>1. AtHome!RingBearer = RingBearer
  BY DEF AtHome!RingBearer, RingBearer
<1>2. AtHome!IsengardMaia = IsengardMaia
  BY DEF AtHome!IsengardMaia, IsengardMaia
<1>3. AtHome!StepOf = StepOf 
  BY DEF AtHome!StepOf, StepOf
<1>4. AtHome!Sides = Sides /\ AtHome!Places = Places
  BY DEF AtHome!Sides, Sides, AtHome!Places, Places
<1>5. \A p : AtHome!Endpoints(p) = Endpoints(p)
  BY DEF AtHome!Endpoints, Endpoints
<1>6. \A a, b : AtHome!PathsBetween(a, b) = PathsBetween(a, b)
  BY <1>5 DEF AtHome!PathsBetween, PathsBetween
<1>7. \A a, b : AtHome!Across(a, b) = Across(a, b)
  BY DEF AtHome!Across, Across
<1>8. \A a, b : AtHome!Within(a, b) = Within(a, b)
  BY <1>5 DEF AtHome!Within, Within, AtHome!Endpoints, Endpoints
<1>9. \A u, n : AtHome!AfterHit(u, n) = AfterHit(u, n)
  BY DEF AtHome!AfterHit, AfterHit
<1>10. \A r : AtHome!TerrainBonus(r) = TerrainBonus(r)
  BY DEF AtHome!TerrainBonus, TerrainBonus
<1>11. \A u, t, s : AtHome!Disables(u, t, s) = Disables(u, t, s)
  BY <1>2 DEF AtHome!Disables, Disables
<1> QED
  BY <1>1, <1>2, <1>3, <1>4, <1>5, <1>6, <1>7, <1>8, <1>9, <1>10, <1>11

\* The combat formula is the same in both plays, down to the library's operators.
LEMMA SameCardinality ==
    ASSUME NEW S
    PROVE  AtHome!Cardinality(S) = Cardinality(S)
BY DEF AtHome!Cardinality, Cardinality

LEMMA SameBonus ==
    ASSUME NEW g
    PROVE  AtHome!LeaderBonus(g) = LeaderBonus(g)
BY SameCardinality DEF AtHome!LeaderBonus, LeaderBonus

LEMMA SameLed ==
    ASSUME NEW u, NEW g, NEW str
    PROVE  AtHome!Led(u, g, str) = Led(u, g, str)
BY SameBonus DEF AtHome!Led, Led

LEMMA SamePower ==
    ASSUME NEW g, NEW str
    PROVE  AtHome!Power(g, str) = Power(g, str)
BY DEF AtHome!Power, Power, AtHome!MapThenSumSet, MapThenSumSet, AtHome!MapThenFoldSet, MapThenFoldSet,
  AtHome!Led, Led, AtHome!LeaderBonus, LeaderBonus, AtHome!Cardinality, Cardinality

LEMMA SameHitGroups ==
    ASSUME NEW g, NEW n
    PROVE  AtHome!HitGroups(g, n) = HitGroups(g, n)
BY SameCardinality DEF AtHome!HitGroups, HitGroups, AtHome!kSubset, kSubset, AtHome!Min, Min

\* What orders and attacks read of the units does not depend on a route.
LEMMA SameUnits ==
    ASSUME IInv
    PROVE  /\ AtHome!Strength = Strength
           /\ \A u \in Units : AtHome!Active(u) <=> Active(u)
           /\ \A u \in Units : \A p : AtHome!AtEndpoint(u, p) <=> AtEndpoint(u, p)
           /\ \A p, u : AtHome!Guarded(p, u) <=> Guarded(p, u)
           /\ \A a, b : AtHome!Reachable(a, b) <=> Reachable(a, b)
<1>1. AtHome!Strength = Strength
  BY HomeSnapshots DEF AtHome!Strength, Strength
<1>2. \A u \in Units : AtHome!Active(u) <=> Active(u)
  BY HomeSnapshots DEF AtHome!Active, Active
<1>3. \A u \in Units : \A p : AtHome!AtEndpoint(u, p) <=> AtEndpoint(u, p)
  BY HomeSnapshots, SameWords DEF AtHome!AtEndpoint, AtEndpoint
<1>4. \A p, u : AtHome!Guarded(p, u) <=> Guarded(p, u)
  BY <1>2, <1>3 DEF AtHome!Guarded, Guarded
<1>5. \A a, b : AtHome!Reachable(a, b) <=> Reachable(a, b)
  BY SameWords DEF AtHome!Reachable, Reachable
<1> QED
  BY <1>1, <1>2, <1>3, <1>4, <1>5

\* The same order is due in both plays (the loops of steps 2 to 6).
LEMMA SameQueue ==
    ASSUME IInv
    PROVE  /\ DOMAIN HomeOrders = DOMAIN orders /\ live \subseteq DOMAIN orders
           /\ HomeOrders \in Seq(Orders) /\ Len(HomeOrders) = Len(orders)
           /\ \A i \in live : AtHome!Step(i) = Step(i)
           /\ \A s : AtHome!DoneThrough(s) <=> DoneThrough(s)
           /\ \A i \in live : AtHome!Due(i) <=> Due(i)
<1>1. orders \in Seq(Orders) /\ live \subseteq DOMAIN orders
  BY DEF IInv, QueueOK
<1>2. DOMAIN HomeOrders = DOMAIN orders
  BY DEF HomeOrders
<1>3. HomeOrders \in Seq(Orders) /\ Len(HomeOrders) = Len(orders)
  <2>1. \A i \in DOMAIN orders : HomeOrders[i] \in Orders
    <3> SUFFICES ASSUME NEW i \in DOMAIN orders PROVE HomeOrders[i] \in Orders
      OBVIOUS
    <3>1. orders[i].body \in OrderBodies /\ orders[i].turn \in Nat
      BY HomeOrder
    <3>2. StayHome(orders[i].body) \in OrderBodies
      BY <3>1, StayHomeFields
    <3> QED
      BY <3>1, <3>2 DEF HomeOrders, Orders
  <2>2. DOMAIN orders = 1..Len(orders) /\ Len(orders) \in Nat
    BY <1>1
  <2>3. HomeOrders \in [1..Len(orders) -> Orders]
    BY <2>1, <2>2 DEF HomeOrders
  <2> QED
    BY <2>2, <2>3
<1>4. \A i \in live : AtHome!Step(i) = Step(i)
  BY <1>1, HomeOrder, StayHomeFields, SameWords DEF AtHome!Step, Step
<1>5. \A s : AtHome!DoneThrough(s) <=> DoneThrough(s)
  BY <1>4 DEF AtHome!DoneThrough, DoneThrough
<1>6. \A i \in live : AtHome!Due(i) <=> Due(i)
  BY <1>4 DEF AtHome!Due, Due
<1> QED
  BY <1>1, <1>2, <1>3, <1>4, <1>5, <1>6

\* An order's preconditions hold in both plays or in neither (steps 2 to 6).
LEMMA SameRights ==
    ASSUME IInv, NEW o \in OrderBodies
    PROVE  /\ AtHome!CanRoute(StayHome(o)) <=> CanRoute(o)
           /\ AtHome!CanBlock(StayHome(o)) <=> CanBlock(o)
           /\ AtHome!CanSearch(StayHome(o)) <=> CanSearch(o)
           /\ AtHome!CanReinforce(StayHome(o)) <=> CanReinforce(o)
           /\ AtHome!CanDeploy(StayHome(o)) <=> CanDeploy(o)
           /\ AtHome!CanFortify(StayHome(o)) <=> CanFortify(o)
           /\ AtHome!CanCorrupt(StayHome(o)) <=> CanCorrupt(o)
           /\ AtHome!CanOpen(StayHome(o)) <=> CanOpen(o)
<1>1. AtHome!CanRoute(StayHome(o)) <=> CanRoute(o)
  BY StayHomeFields DEF AtHome!CanRoute, CanRoute
<1>2. AtHome!CanBlock(StayHome(o)) <=> CanBlock(o)
  BY StayHomeFields, SameUnits DEF AtHome!CanBlock, CanBlock
<1>3. AtHome!CanSearch(StayHome(o)) <=> CanSearch(o)
  BY StayHomeFields, SameUnits DEF AtHome!CanSearch, CanSearch
<1>4. AtHome!CanReinforce(StayHome(o)) <=> CanReinforce(o)
  BY StayHomeFields, SameUnits, HomeSnapshots DEF AtHome!CanReinforce, CanReinforce
<1>5. AtHome!CanDeploy(StayHome(o)) <=> CanDeploy(o)
  BY StayHomeFields, SameUnits DEF AtHome!CanDeploy, CanDeploy
<1>6. AtHome!CanFortify(StayHome(o)) <=> CanFortify(o)
  BY StayHomeFields, HomeSnapshots DEF AtHome!CanFortify, CanFortify
<1>7. AtHome!CanCast(StayHome(o)) <=> CanCast(o)
  BY StayHomeFields, SameUnits, HomeSnapshots DEF AtHome!CanCast, CanCast
<1>8. AtHome!CanCorrupt(StayHome(o)) <=> CanCorrupt(o)
  BY <1>7, StayHomeFields DEF AtHome!CanCorrupt, CanCorrupt
<1>9. AtHome!CanOpen(StayHome(o)) <=> CanOpen(o)
  BY <1>7, StayHomeFields DEF AtHome!CanOpen, CanOpen
<1> QED
  BY <1>1, <1>2, <1>3, <1>4, <1>5, <1>6, <1>8, <1>9

\* Both plays have the same attack groups, with the same powers (applyAttack).
LEMMA SameGroups ==
    ASSUME IInv, NEW t, NEW s
    PROVE  /\ AtHome!GroupOrders(t, s) = GroupOrders(t, s)
           /\ AtHome!GroupDue(t, s) <=> GroupDue(t, s)
           /\ AtHome!Attackers(t, s) = Attackers(t, s)
           /\ AtHome!Defenders(t, s) = Defenders(t, s)
           /\ AtHome!AttackPower(t, s) = AttackPower(t, s)
           /\ AtHome!DefencePower(t, s) = DefencePower(t, s)
           /\ AtHome!AttackerWins(t, s) <=> AttackerWins(t, s)
<1>0. \A i \in live : /\ HomeOrders[i].body.unit = orders[i].body.unit
                      /\ HomeOrders[i].body.region = orders[i].body.region
  BY SameQueue, HomeOrder, StayHomeFields
<1>1. \A x, y : AtHome!GroupOrders(x, y) = GroupOrders(x, y)
  BY <1>0, SameQueue DEF AtHome!GroupOrders, GroupOrders
<1>2. AtHome!GroupDue(t, s) <=> GroupDue(t, s)
  BY <1>1, SameWords DEF AtHome!GroupDue, GroupDue
<1>3. \A u \in Units : AtHome!CanAttack(u, t) <=> CanAttack(u, t)
  BY SameUnits, HomeSnapshots DEF AtHome!CanAttack, CanAttack
<1>4. {HomeOrders[i].body.unit : i \in GroupOrders(t, s)}
        = {orders[i].body.unit : i \in GroupOrders(t, s)}
      /\ {orders[i].body.unit : i \in GroupOrders(t, s)} \subseteq Units
  BY <1>0 DEF GroupOrders
<1>5. AtHome!Attackers(t, s) = Attackers(t, s)
  BY <1>1, <1>3, <1>4 DEF AtHome!Attackers, Attackers
<1>6. AtHome!Defenders(t, s) = Defenders(t, s)
  BY SameUnits, HomeSnapshots DEF AtHome!Defenders, Defenders
<1>7. AtHome!AttackPower(t, s) = AttackPower(t, s)
  BY <1>5, SameUnits, SamePower DEF AtHome!AttackPower, AttackPower
<1>8. \A a, d, x, r, f : AtHome!DefenderPower(a, d, x, r, f) = DefenderPower(a, d, x, r, f)
  BY SameWords, SamePower DEF AtHome!DefenderPower, DefenderPower
<1>9. AtHome!DefencePower(t, s) = DefencePower(t, s)
  BY <1>5, <1>6, <1>8, SameUnits DEF AtHome!DefencePower, DefencePower
<1>10. AtHome!AttackerWins(t, s) <=> AttackerWins(t, s)
  BY <1>7, <1>9 DEF AtHome!AttackerWins, AttackerWins
<1> QED
  BY <1>1, <1>2, <1>5, <1>6, <1>7, <1>9, <1>10

\* A unit falls in both plays alike.
LEMMA SameFall ==
    ASSUME NEW u, NEW x \in UnitSnapshots, NEW s, NEW k
    PROVE  AtHome!Fallen(Unrouted(u, x), s, k) = Unrouted(u, Fallen(x, s, k))
BY DEF AtHome!Fallen, Fallen, Unrouted, UnitSnapshots

\* One point of damage does the same in both plays (applyDamage).
LEMMA SameWound ==
    ASSUME NEW u, NEW x \in UnitSnapshots, NEW n
    PROVE  AtHome!Struck(u, Unrouted(u, x), n) = Unrouted(u, Struck(u, x, n))
<1>1. CASE AfterHit(u, n) > 0
  <2>1. AtHome!Struck(u, Unrouted(u, x), n) = [Unrouted(u, x) EXCEPT !.strength = AfterHit(u, n)]
    BY <1>1, SameWords DEF AtHome!Struck
  <2>2. Struck(u, x, n) = [x EXCEPT !.strength = AfterHit(u, n)]
    BY <1>1 DEF Struck
  <2>3. [Unrouted(u, x) EXCEPT !.strength = AfterHit(u, n)]
          = Unrouted(u, [x EXCEPT !.strength = AfterHit(u, n)])
    BY DEF Unrouted, UnitSnapshots
  <2> QED
    BY <2>1, <2>2, <2>3
<1>2. CASE ~(AfterHit(u, n) > 0)
  <2>1. CASE UnitConfig[u].respawns
    BY <1>2, <2>1, SameWords, SameFall DEF AtHome!Struck, Struck
  <2>2. CASE ~UnitConfig[u].respawns
    <3>1. AtHome!Struck(u, Unrouted(u, x), n)
            = AtHome!Fallen(Unrouted(u, x), "DESTROYED", Unrouted(u, x).respawnTurns)
      BY <1>2, <2>2, SameWords DEF AtHome!Struck
    <3>2. Struck(u, x, n) = Fallen(x, "DESTROYED", x.respawnTurns)
      BY <1>2, <2>2 DEF Struck
    <3> QED
      BY <3>1, <3>2, SameFall, UnroutedFields
  <2> QED
    BY <2>1, <2>2
<1> QED
  BY <1>1, <1>2

\* An order accepted in one play is accepted in the other (handleOrder).
LEMMA SubmitAtHome == ASSUME IInv, SubmitOrder PROVE AtHome!SubmitOrder
<1>1. PICK b \in Menu, t \in {n \in 0..turn : turn - n <= MaxLate} :
         /\ \A i \in DOMAIN orders : ~(orders[i].body.unit = b.unit /\ orders[i].turn = t)
         /\ orders' = Append(orders, [body |-> b, turn |-> t])
  BY DEF SubmitOrder
<1>2. b \in OrderBodies /\ orders \in Seq(Orders) /\ t \in Nat
  BY <1>1, MenuAssumption DEF IInv, QueueOK, GameOK
<1>3. \A i \in DOMAIN HomeOrders :
         ~(HomeOrders[i].body.unit = StayHome(b).unit /\ HomeOrders[i].turn = t)
  BY <1>1, <1>2, SameQueue, HomeOrder, StayHomeFields
<1>4. HomeOrders' = Append(HomeOrders, [body |-> StayHome(b), turn |-> t])
  <2> DEFINE o == [body |-> b, turn |-> t]
             h == [body |-> StayHome(b), turn |-> t]
  <2>1. o \in Orders /\ h \in Orders
    BY <1>2, StayHomeFields DEF Orders
  <2>2. /\ DOMAIN orders' = 1..(Len(orders) + 1) /\ Len(orders) \in Nat
        /\ \A i \in 1..Len(orders) : orders'[i] = orders[i]
        /\ orders'[Len(orders) + 1] = o
    BY <1>1, <1>2, <2>1
  <2>3. /\ Append(HomeOrders, h) \in Seq(Orders)
        /\ DOMAIN Append(HomeOrders, h) = 1..(Len(orders) + 1)
        /\ \A i \in 1..Len(orders) : Append(HomeOrders, h)[i] = HomeOrders[i]
        /\ Append(HomeOrders, h)[Len(orders) + 1] = h
    BY <2>1, SameQueue
  <2>4. HomeOrders' = [i \in 1..(Len(orders) + 1) |->
                         [body |-> StayHome(orders'[i].body), turn |-> orders'[i].turn]]
    BY <2>2 DEF HomeOrders
  <2>5. \A i \in 1..(Len(orders) + 1) :
           [body |-> StayHome(orders'[i].body), turn |-> orders'[i].turn] = Append(HomeOrders, h)[i]
    <3> SUFFICES ASSUME NEW i \in 1..(Len(orders) + 1)
                 PROVE  [body |-> StayHome(orders'[i].body), turn |-> orders'[i].turn]
                          = Append(HomeOrders, h)[i]
      OBVIOUS
    <3>1. CASE i = Len(orders) + 1
      BY <2>2, <2>3, <3>1
    <3>2. CASE i \in 1..Len(orders)
      <4>1. HomeOrders[i] = [body |-> StayHome(orders[i].body), turn |-> orders[i].turn]
        BY <1>2, <3>2 DEF HomeOrders
      <4> QED
        BY <2>2, <2>3, <3>2, <4>1
    <3>3. i = Len(orders) + 1 \/ i \in 1..Len(orders)
      <4>1. Len(orders) \in Nat
        BY <2>2
      <4> QED
        BY <4>1
    <3> QED
      BY <3>1, <3>2, <3>3
  <2>6. Append(HomeOrders, h) = [i \in 1..(Len(orders) + 1) |-> Append(HomeOrders, h)[i]]
    BY <2>3
  <2> QED
    BY <2>4, <2>5, <2>6
<1>5. Len(HomeOrders) < MaxOrders /\ pc = "idle"
  BY SameQueue DEF SubmitOrder
<1>6. UNCHANGED <<AtHome!world, AtHome!game, live, pc, battle>>
  BY DEF SubmitOrder, world, game, AtHome!world, AtHome!game, HomeUnits, HomeRing
<1> QED
  BY <1>1, <1>3, <1>4, <1>5, <1>6 DEF AtHome!SubmitOrder

\* What a step leaves alone it leaves alone in both plays.
LEMMA WorldAtHome ==
    /\ UNCHANGED game => UNCHANGED AtHome!game
    /\ UNCHANGED units => UNCHANGED HomeUnits
    /\ UNCHANGED orders => UNCHANGED HomeOrders
    /\ UNCHANGED HomeRing
BY DEF game, AtHome!game, HomeUnits, HomeOrders, HomeRing

\* The start of the game and of a turn, and the end of the collected orders.
LEMMA BetweenTurnsAtHome ==
    ASSUME IInv
    PROVE  /\ GameStart => AtHome!GameStart
           /\ BeginTurn => AtHome!BeginTurn
           /\ DiscardOrders => AtHome!DiscardOrders
<1>1. GameStart => AtHome!GameStart
  BY WorldAtHome DEF GameStart, AtHome!GameStart, world, AtHome!world
<1>2. BeginTurn => AtHome!BeginTurn
  <2>1. AtHome!Fresh = Fresh
    BY HomeOrder, SameQueue DEF AtHome!Fresh, Fresh
  <2>2. \A i \in Fresh : HomeOrders[i].body.unit = orders[i].body.unit
    BY HomeOrder, StayHomeFields DEF Fresh
  <2>3. AtHome!Accepted = Accepted
    BY <2>1, <2>2 DEF AtHome!Accepted, Accepted
  <2> QED
    BY <2>3, WorldAtHome DEF BeginTurn, AtHome!BeginTurn, world, AtHome!world
<1>3. DiscardOrders => AtHome!DiscardOrders
  <2> SUFFICES ASSUME DiscardOrders PROVE AtHome!DiscardOrders
    OBVIOUS
  <2>1. orders \in Seq(Orders) /\ orders # <<>> /\ orders' = <<>>
    BY DEF DiscardOrders, IInv, QueueOK
  <2>2. HomeOrders # <<>>
    <3>1. Len(orders) # 0
      BY <2>1
    <3> QED
      BY <3>1, SameQueue
  <2>3. HomeOrders' = <<>>
    BY <2>1 DEF HomeOrders
  <2> QED
    BY <2>2, <2>3, WorldAtHome DEF DiscardOrders, AtHome!DiscardOrders, world, AtHome!world
<1> QED
  BY <1>1, <1>2, <1>3

\* Each order of steps 2 to 6 is applied or rejected in both plays alike.
LEMMA OrderAtHome ==
    ASSUME IInv, NEW i \in live, ApplyOrder(i)
    PROVE  AtHome!ApplyOrder(i)
<1> DEFINE o == orders[i].body
<1>0. /\ i \in DOMAIN orders /\ o \in OrderBodies /\ HomeOrders[i].body = StayHome(o)
      /\ StayHome(o).type = o.type /\ StayHome(o).unit = o.unit
      /\ StayHome(o).path = o.path /\ StayHome(o).region = o.region
      /\ StayHome(o).route = IF o.unit = RingBearer THEN <<>> ELSE o.route
  BY SameQueue, HomeOrder, StayHomeFields
<1>1. (AtHome!Due(i) <=> Due(i)) /\ AtHome!Step(i) = Step(i)
  BY SameQueue
<1>2. Consume(i) => AtHome!Consume(i)
  BY WorldAtHome DEF Consume, AtHome!Consume
<1>3. ASSUME AssignRoute(i) PROVE AtHome!AssignRoute(i)
  <2>1. /\ Due(i) /\ CanRoute(o) /\ Consume(i) /\ UNCHANGED <<paths, regions, ring>>
        /\ units' = [units EXCEPT ![o.unit].route = o.route, ![o.unit].routeIdx = 0]
    BY <1>3 DEF AssignRoute
  <2>2. HomeUnits' = [HomeUnits EXCEPT ![o.unit].route = StayHome(o).route, ![o.unit].routeIdx = 0]
    BY <1>0, <2>1 DEF HomeUnits, Unrouted, IInv, UnitsOK, UnitSnapshots
  <2> QED
    BY <1>0, <1>1, <1>2, <2>1, <2>2, SameRights, WorldAtHome DEF AtHome!AssignRoute
<1>4. ASSUME BlockPath(i) PROVE AtHome!BlockPath(i)
  BY <1>0, <1>1, <1>2, <1>4, SameRights, WorldAtHome DEF BlockPath, AtHome!BlockPath
<1>5. ASSUME SearchPath(i) PROVE AtHome!SearchPath(i)
  BY <1>0, <1>1, <1>2, <1>5, SameRights, WorldAtHome DEF SearchPath, AtHome!SearchPath
<1>6. ASSUME Reinforce(i) PROVE AtHome!Reinforce(i)
  <2>1. /\ Due(i) /\ (CanReinforce(o) \/ CanDeploy(o)) /\ Consume(i)
        /\ UNCHANGED <<paths, regions, ring>>
        /\ units' = [units EXCEPT ![o.unit].region = o.region]
    BY <1>6 DEF Reinforce
  <2>2. HomeUnits' = [HomeUnits EXCEPT ![o.unit].region = o.region]
    BY <2>1 DEF HomeUnits, Unrouted, IInv, UnitsOK, UnitSnapshots
  <2> QED
    BY <1>0, <1>1, <1>2, <2>1, <2>2, SameRights, WorldAtHome DEF AtHome!Reinforce
<1>7. ASSUME Fortify(i) PROVE AtHome!Fortify(i)
  <2>1. o.unit \in Units
    BY <1>7 DEF Fortify, CanFortify
  <2>2. HomeUnits[o.unit].region = units[o.unit].region
    BY <2>1, HomeSnapshots
  <2> QED
    BY <1>0, <1>1, <1>2, <1>7, <2>2, SameRights, WorldAtHome DEF Fortify, AtHome!Fortify
<1>8. ASSUME CorruptPath(i) PROVE AtHome!CorruptPath(i)
  <2>1. units' = [units EXCEPT ![o.unit].cooldown = UnitConfig[o.unit].cooldown]
    BY <1>8 DEF CorruptPath
  <2>2. HomeUnits' = [HomeUnits EXCEPT ![o.unit].cooldown = UnitConfig[o.unit].cooldown]
    BY <2>1 DEF HomeUnits, Unrouted, IInv, UnitsOK, UnitSnapshots
  <2> QED
    BY <1>0, <1>1, <1>2, <1>8, <2>2, SameRights, WorldAtHome DEF CorruptPath, AtHome!CorruptPath
<1>9. ASSUME OpenPath(i) PROVE AtHome!OpenPath(i)
  <2>1. units' = [units EXCEPT ![o.unit].cooldown = UnitConfig[o.unit].cooldown]
    BY <1>9 DEF OpenPath
  <2>2. HomeUnits' = [HomeUnits EXCEPT ![o.unit].cooldown = UnitConfig[o.unit].cooldown]
    BY <2>1 DEF HomeUnits, Unrouted, IInv, UnitsOK, UnitSnapshots
  <2> QED
    BY <1>0, <1>1, <1>2, <1>9, <2>2, SameRights, WorldAtHome DEF OpenPath, AtHome!OpenPath
<1>10. ASSUME RejectOrder(i) PROVE AtHome!RejectOrder(i)
  BY <1>0, <1>1, <1>2, <1>10, SameRights, WorldAtHome
     DEF RejectOrder, AtHome!RejectOrder, world, AtHome!world
<1> QED
  BY <1>3, <1>4, <1>5, <1>6, <1>7, <1>8, <1>9, <1>10 DEF ApplyOrder, AtHome!ApplyOrder

\* The steps that no order steers.
LEMMA ClockworkAtHome ==
    ASSUME IInv
    PROVE  /\ RevertStalePaths => AtHome!RevertStalePaths
           /\ DecrementTempOpen => AtHome!DecrementTempOpen
           /\ DecrementFortification => AtHome!DecrementFortification
           /\ DecrementRespawnAndCooldown => AtHome!DecrementRespawnAndCooldown
           /\ UpdateRegionControl => AtHome!UpdateRegionControl
<1>1. RevertStalePaths => AtHome!RevertStalePaths
  <2> SUFFICES ASSUME RevertStalePaths PROVE AtHome!RevertStalePaths
    OBVIOUS
  <2>1. \A p \in Paths : paths[p].blockedBy \in Units \cup {NoUnit}
    BY DEF IInv, PathsOK, PathStates
  <2>2. \A p \in Paths : paths[p].blockedBy # NoUnit =>
           (AtHome!AtEndpoint(paths[p].blockedBy, p) <=> AtEndpoint(paths[p].blockedBy, p))
    BY <2>1, SameUnits
  <2>3. paths' = [p \in Paths |->
                   IF /\ paths[p].status = "BLOCKED" /\ paths[p].blockedBy # NoUnit
                      /\ ~AtHome!AtEndpoint(paths[p].blockedBy, p)
                   THEN [paths[p] EXCEPT !.status = "OPEN", !.blockedBy = NoUnit]
                   ELSE paths[p]]
    BY <2>2 DEF RevertStalePaths
  <2> QED
    BY <2>3, SameQueue, WorldAtHome DEF RevertStalePaths, AtHome!RevertStalePaths
<1>2. DecrementTempOpen => AtHome!DecrementTempOpen
  BY SameQueue, WorldAtHome DEF DecrementTempOpen, AtHome!DecrementTempOpen
<1>3. DecrementFortification => AtHome!DecrementFortification
  BY WorldAtHome DEF DecrementFortification, AtHome!DecrementFortification
<1>4. DecrementRespawnAndCooldown => AtHome!DecrementRespawnAndCooldown
  <2> DEFINE Waited(u, x) == IF x.status = "RESPAWNING" /\ x.respawnTurns <= 1
                             THEN [x EXCEPT !.respawnTurns = 0, !.status = "ACTIVE",
                                      !.region = UnitConfig[u].start,
                                      !.strength = UnitConfig[u].strength]
                             ELSE IF x.status = "RESPAWNING"
                             THEN [x EXCEPT !.respawnTurns = @ - 1]
                             ELSE x
             Later(u, x) == [Waited(u, x) EXCEPT !.cooldown = IF @ > 0 THEN @ - 1 ELSE @]
  <2> SUFFICES ASSUME DecrementRespawnAndCooldown PROVE AtHome!DecrementRespawnAndCooldown
    OBVIOUS
  <2>1. units' = [u \in Units |-> Later(u, units[u])]
    BY DEF DecrementRespawnAndCooldown, Returns
  <2>2. \A u \in Units : Later(u, Unrouted(u, units[u])) = Unrouted(u, Later(u, units[u]))
    <3> SUFFICES ASSUME NEW u \in Units
                 PROVE  Later(u, Unrouted(u, units[u])) = Unrouted(u, Later(u, units[u]))
      OBVIOUS
    <3> DEFINE x == units[u]
    <3>1. x \in UnitSnapshots
      BY DEF IInv, UnitsOK
    <3> DEFINE c == IF x.cooldown > 0 THEN x.cooldown - 1 ELSE x.cooldown
               y == Unrouted(u, x)
    <3>2. y \in UnitSnapshots /\ y.status = x.status /\ y.respawnTurns = x.respawnTurns
          /\ y.cooldown = x.cooldown
      BY <3>1, UnroutedFields
    <3>3. CASE x.status = "RESPAWNING" /\ x.respawnTurns <= 1
      <4> DEFINE Home(z) == [z EXCEPT !.respawnTurns = 0, !.status = "ACTIVE",
                               !.region = UnitConfig[u].start,
                               !.strength = UnitConfig[u].strength, !.cooldown = c]
      <4>1. Later(u, x) = Home(x)
        BY <3>1, <3>3 DEF UnitSnapshots
      <4>2. Later(u, y) = Home(y)
        BY <3>2, <3>3 DEF UnitSnapshots
      <4>3. Home(y) = Unrouted(u, Home(x))
        BY <3>1 DEF Unrouted, UnitSnapshots
      <4> QED
        BY <4>1, <4>2, <4>3
    <3>4. CASE x.status = "RESPAWNING" /\ ~(x.respawnTurns <= 1)
      <4> DEFINE Wait(z) == [z EXCEPT !.respawnTurns = x.respawnTurns - 1, !.cooldown = c]
      <4>1. Later(u, x) = Wait(x)
        BY <3>1, <3>4 DEF UnitSnapshots
      <4>2. Later(u, y) = Wait(y)
        BY <3>2, <3>4 DEF UnitSnapshots
      <4>3. Wait(y) = Unrouted(u, Wait(x))
        BY <3>1 DEF Unrouted, UnitSnapshots
      <4> QED
        BY <4>1, <4>2, <4>3
    <3>5. CASE x.status # "RESPAWNING"
      <4> DEFINE Cool(z) == [z EXCEPT !.cooldown = c]
      <4>1. Later(u, x) = Cool(x)
        BY <3>5
      <4>2. Later(u, y) = Cool(y)
        BY <3>2, <3>5
      <4>3. Cool(y) = Unrouted(u, Cool(x))
        BY <3>1 DEF Unrouted, UnitSnapshots
      <4> QED
        BY <4>1, <4>2, <4>3
    <3> QED
      BY <3>3, <3>4, <3>5
  <2>3. HomeUnits' = [u \in Units |-> Later(u, HomeUnits[u])]
    <3> HIDE DEF Later
    <3>1. HomeUnits' = [u \in Units |-> Unrouted(u, Later(u, units[u]))]
      BY <2>1 DEF HomeUnits
    <3>2. \A u \in Units : Later(u, HomeUnits[u]) = Unrouted(u, Later(u, units[u]))
      BY <2>2 DEF HomeUnits
    <3> QED
      BY <3>1, <3>2
  <2> QED
    BY <2>3, WorldAtHome DEF DecrementRespawnAndCooldown, AtHome!DecrementRespawnAndCooldown,
       AtHome!Returns
<1>5. UpdateRegionControl => AtHome!UpdateRegionControl
  <2>1. \A s, r : AtHome!Present(s, r) <=> Present(s, r)
    BY SameUnits, SameWords, HomeSnapshots DEF AtHome!Present, Present
  <2> QED
    BY <2>1, WorldAtHome DEF UpdateRegionControl, AtHome!UpdateRegionControl
<1> QED
  BY <1>1, <1>2, <1>3, <1>4, <1>5

\* At home the ring bearer does not advance; everybody else does alike (autoAdvance).
LEMMA AdvanceAtHome ==
    ASSUME IInv, AutoAdvance
    PROVE  AtHome!AutoAdvance
<1>1. ~AtHome!Advances(RingBearer) /\ ~AtHome!Advances(AtHome!RingBearer)
  <2>1. HomeUnits[RingBearer].route = <<>> /\ HomeUnits[RingBearer].routeIdx = 0
    BY RingBearerIsUnit, HomeSnapshots, UnroutedFields
  <2> QED
    BY <2>1, SameWords DEF AtHome!Advances
<1>2. \A u \in Units \ {RingBearer} :
         /\ HomeUnits[u] = units[u]
         /\ AtHome!NextPath(u) = NextPath(u)
         /\ AtHome!Advances(u) <=> Advances(u)
  <2>1. \A u \in Units \ {RingBearer} : HomeUnits[u] = units[u]
    BY DEF HomeUnits, Unrouted
  <2>2. \A u \in Units \ {RingBearer} : AtHome!NextPath(u) = NextPath(u)
    BY <2>1 DEF AtHome!NextPath, NextPath
  <2>3. \A u \in Units \ {RingBearer} : AtHome!Here(u) = Here(u)
    BY <2>1, SameWords DEF AtHome!Here, Here
  <2>4. \A u \in Units \ {RingBearer} : AtHome!Advances(u) <=> Advances(u)
    BY <2>1, <2>2, <2>3, SameUnits, SameWords DEF AtHome!Advances, Advances
  <2> QED
    BY <2>1, <2>2, <2>4
<1>3. HomeUnits' = [u \in Units |->
                      IF ~AtHome!Advances(u) THEN HomeUnits[u]
                      ELSE [HomeUnits[u] EXCEPT
                              !.region = IF u = AtHome!RingBearer THEN @
                                         ELSE AtHome!Across(AtHome!NextPath(u), @),
                              !.routeIdx = @ + 1]]
  <2> DEFINE x(u) == IF ~AtHome!Advances(u) THEN HomeUnits[u]
                     ELSE [HomeUnits[u] EXCEPT
                              !.region = IF u = AtHome!RingBearer THEN @
                                         ELSE AtHome!Across(AtHome!NextPath(u), @),
                              !.routeIdx = @ + 1]
  <2>1. HomeUnits' = [u \in Units |-> Unrouted(u, units'[u])]
    BY DEF HomeUnits
  <2>2. Unrouted(RingBearer, units'[RingBearer]) = x(RingBearer)
    <3>1. units[RingBearer] \in UnitSnapshots
      BY RingBearerIsUnit, HomeSnapshots
    <3>2. units'[RingBearer] = units[RingBearer]
          \/ units'[RingBearer] = [units[RingBearer] EXCEPT !.routeIdx = @ + 1]
      BY <3>1, RingBearerIsUnit DEF AutoAdvance, UnitSnapshots
    <3>3. Unrouted(RingBearer, units'[RingBearer]) = Unrouted(RingBearer, units[RingBearer])
      BY <3>1, <3>2 DEF Unrouted, UnitSnapshots
    <3> QED
      BY <1>1, <3>3, RingBearerIsUnit, HomeSnapshots
  <2>3. \A u \in Units \ {RingBearer} : Unrouted(u, units'[u]) = x(u)
    BY <1>2, SameWords DEF AutoAdvance, Unrouted
  <2>4. \A u \in Units : Unrouted(u, units'[u]) = x(u)
    BY <2>2, <2>3
  <2> HIDE DEF x
  <2>5. HomeUnits' = [u \in Units |-> x(u)]
    BY <2>1, <2>4
  <2> QED
    BY <2>5 DEF x
<1>4. HomeRing' = [trueRegion |-> IF AtHome!Advances(AtHome!RingBearer)
                                  THEN AtHome!Across(AtHome!NextPath(AtHome!RingBearer),
                                                     HomeRing.trueRegion)
                                  ELSE HomeRing.trueRegion,
                   exposed |-> HomeRing.exposed \/ AtHome!Spotted]
  BY <1>1 DEF HomeRing, AtHome!Spotted
<1> QED
  BY <1>3, <1>4, SameQueue, WorldAtHome DEF AutoAdvance, AtHome!AutoAdvance

\* Every battle ends in both plays alike (applyGroupAttack).
LEMMA GroupAtHome ==
    ASSUME IInv, NEW t \in Places, NEW s \in Sides, ResolveGroup(t, s)
    PROVE  AtHome!ResolveGroup(t, s)
<1> DEFINE A == Attackers(t, s)
           D == Defenders(t, s)
           ledA(u) == Led(u, A, Strength)
           ledD(u) == Led(u, D, Strength)
<1>0. \A u \in Units : units[u] \in UnitSnapshots /\ HomeUnits[u] = Unrouted(u, units[u])
  BY HomeSnapshots
<1>1. EndGroup(t, s) => AtHome!EndGroup(t, s)
  BY SameGroups, WorldAtHome DEF EndGroup, AtHome!EndGroup
<1>2. /\ AtHome!GroupDue(t, s) <=> GroupDue(t, s)
      /\ AtHome!Attackers(t, s) = A /\ AtHome!Defenders(t, s) = D
      /\ AtHome!AttackPower(t, s) = AttackPower(t, s)
      /\ AtHome!DefencePower(t, s) = DefencePower(t, s)
      /\ AtHome!AttackerWins(t, s) <=> AttackerWins(t, s)
      /\ AtHome!Strength = Strength
  BY SameGroups, SameUnits
<1>3. \A u : AtHome!Led(u, A, Strength) = ledA(u) /\ AtHome!Led(u, D, Strength) = ledD(u)
  BY SameLed
<1> HIDE DEF A, D, ledA, ledD
<1>4. ASSUME NEW u \in Units, NEW k
      PROVE  /\ [HomeUnits[u] EXCEPT !.region = t] = Unrouted(u, [units[u] EXCEPT !.region = t])
             /\ [HomeUnits[u] EXCEPT !.strength = k] = Unrouted(u, [units[u] EXCEPT !.strength = k])
             /\ [HomeUnits[u] EXCEPT !.region = t, !.strength = k]
                  = Unrouted(u, [units[u] EXCEPT !.region = t, !.strength = k])
             /\ AtHome!Struck(u, HomeUnits[u], k) = Unrouted(u, Struck(u, units[u], k))
  <2>1. [HomeUnits[u] EXCEPT !.region = t] = Unrouted(u, [units[u] EXCEPT !.region = t])
    BY <1>0 DEF Unrouted, UnitSnapshots
  <2>2. [HomeUnits[u] EXCEPT !.strength = k] = Unrouted(u, [units[u] EXCEPT !.strength = k])
    BY <1>0 DEF Unrouted, UnitSnapshots
  <2>3. [HomeUnits[u] EXCEPT !.region = t, !.strength = k]
          = Unrouted(u, [units[u] EXCEPT !.region = t, !.strength = k])
    BY <1>0 DEF Unrouted, UnitSnapshots
  <2>4. AtHome!Struck(u, HomeUnits[u], k) = Unrouted(u, Struck(u, units[u], k))
    BY <1>0, SameWound
  <2> QED
    BY <2>1, <2>2, <2>3, <2>4
<1>5. CASE AttackFails(t, s)
  BY <1>1, <1>2, <1>5, WorldAtHome DEF AttackFails, AtHome!AttackFails, AtHome!ResolveGroup, A, D
<1>6. CASE Uncontested(t, s)
  <2>1. units' = [u \in Units |-> IF u \in A THEN [units[u] EXCEPT !.region = t] ELSE units[u]]
    BY <1>6 DEF Uncontested, A
  <2>2. HomeUnits' = [u \in Units |->
                        IF u \in A THEN [HomeUnits[u] EXCEPT !.region = t] ELSE HomeUnits[u]]
    BY <1>0, <1>4, <2>1 DEF HomeUnits
  <2> QED
    BY <1>1, <1>2, <1>6, <2>2 DEF Uncontested, AtHome!Uncontested, AtHome!ResolveGroup, A, D
<1>7. CASE AttackHeld(t, s)
  <2>1. units' = [u \in Units |-> IF u \in A THEN Struck(u, units[u], ledA(u))
                                  ELSE IF u \in D THEN [units[u] EXCEPT !.strength = ledD(u)]
                                  ELSE units[u]]
    BY <1>7 DEF AttackHeld, A, D, ledA, ledD
  <2>2. HomeUnits' = [u \in Units |->
                        IF u \in A THEN AtHome!Struck(u, HomeUnits[u], ledA(u))
                        ELSE IF u \in D THEN [HomeUnits[u] EXCEPT !.strength = ledD(u)]
                        ELSE HomeUnits[u]]
    BY <1>0, <1>4, <2>1 DEF HomeUnits
  <2>3. HomeUnits' = [u \in Units |->
                        IF u \in AtHome!Attackers(t, s)
                        THEN AtHome!Struck(u, HomeUnits[u],
                                           AtHome!Led(u, AtHome!Attackers(t, s), AtHome!Strength))
                        ELSE IF u \in AtHome!Defenders(t, s)
                        THEN [HomeUnits[u] EXCEPT !.strength =
                                AtHome!Led(u, AtHome!Defenders(t, s), AtHome!Strength)]
                        ELSE HomeUnits[u]]
    BY <1>2, <1>3, <2>2
  <2> QED
    BY <1>1, <1>2, <1>7, <2>3 DEF AttackHeld, AtHome!AttackHeld, AtHome!ResolveGroup, A, D
<1>8. CASE AttackWon(t, s)
  <2> DEFINE Fought(u, hit) ==
               IF u \in A THEN [units[u] EXCEPT !.region = t, !.strength = ledA(u)]
               ELSE IF u \in hit THEN Struck(u, units[u], ledD(u))
               ELSE IF u \in D THEN [units[u] EXCEPT !.strength = ledD(u)]
               ELSE units[u]
             FoughtAtHome(u, hit) ==
               IF u \in A THEN [HomeUnits[u] EXCEPT !.region = t, !.strength = ledA(u)]
               ELSE IF u \in hit THEN AtHome!Struck(u, HomeUnits[u], ledD(u))
               ELSE IF u \in D THEN [HomeUnits[u] EXCEPT !.strength = ledD(u)]
               ELSE HomeUnits[u]
  <2>1. PICK hit \in HitGroups(D, AttackPower(t, s) - DefencePower(t, s)) :
          units' = [u \in Units |->
                      IF Disables(u, t, s) THEN [Fought(u, hit) EXCEPT !.status = "DESTROYED"]
                      ELSE Fought(u, hit)]
    BY <1>8 DEF AttackWon, A, D, ledA, ledD
  <2>2. hit \in AtHome!HitGroups(AtHome!Defenders(t, s),
                                 AtHome!AttackPower(t, s) - AtHome!DefencePower(t, s))
    BY <1>2, <2>1, SameHitGroups
  <2>3. \A u \in Units : FoughtAtHome(u, hit) = Unrouted(u, Fought(u, hit))
    <3> SUFFICES ASSUME NEW u \in Units PROVE FoughtAtHome(u, hit) = Unrouted(u, Fought(u, hit))
      OBVIOUS
    <3>1. CASE u \in A
      BY <1>0, <1>4, <3>1
    <3>2. CASE u \notin A /\ u \in hit
      BY <1>0, <1>4, <3>2
    <3>3. CASE u \notin A /\ u \notin hit /\ u \in D
      BY <1>0, <1>4, <3>3
    <3>4. CASE u \notin A /\ u \notin hit /\ u \notin D
      BY <1>0, <3>4
    <3> QED
      BY <3>1, <3>2, <3>3, <3>4
  <2>4. \A u \in Units : [Unrouted(u, Fought(u, hit)) EXCEPT !.status = "DESTROYED"]
                           = Unrouted(u, [Fought(u, hit) EXCEPT !.status = "DESTROYED"])
    <3> SUFFICES ASSUME NEW u \in Units, NEW f, f = Fought(u, hit)
                 PROVE  [Unrouted(u, f) EXCEPT !.status = "DESTROYED"]
                          = Unrouted(u, [f EXCEPT !.status = "DESTROYED"])
      OBVIOUS
    <3> QED
      BY DEF Unrouted
  <2> HIDE DEF Fought, FoughtAtHome
  <2>5. HomeUnits' = [u \in Units |->
                        IF AtHome!Disables(u, t, s)
                        THEN [FoughtAtHome(u, hit) EXCEPT !.status = "DESTROYED"]
                        ELSE FoughtAtHome(u, hit)]
    <3>1. HomeUnits' = [u \in Units |-> Unrouted(u, units'[u])]
      BY DEF HomeUnits
    <3>2. \A u \in Units : Unrouted(u, units'[u]) =
             IF AtHome!Disables(u, t, s)
             THEN [FoughtAtHome(u, hit) EXCEPT !.status = "DESTROYED"]
             ELSE FoughtAtHome(u, hit)
      BY <2>1, <2>3, <2>4, SameWords
    <3> QED
      BY <3>1, <3>2
  <2>6. HomeUnits' = [u \in Units |->
           LET fought == IF u \in AtHome!Attackers(t, s)
                         THEN [HomeUnits[u] EXCEPT !.region = t,
                                 !.strength = AtHome!Led(u, AtHome!Attackers(t, s), AtHome!Strength)]
                         ELSE IF u \in hit
                         THEN AtHome!Struck(u, HomeUnits[u],
                                            AtHome!Led(u, AtHome!Defenders(t, s), AtHome!Strength))
                         ELSE IF u \in AtHome!Defenders(t, s)
                         THEN [HomeUnits[u] EXCEPT
                                 !.strength = AtHome!Led(u, AtHome!Defenders(t, s), AtHome!Strength)]
                         ELSE HomeUnits[u]
           IN  IF AtHome!Disables(u, t, s) THEN [fought EXCEPT !.status = "DESTROYED"] ELSE fought]
    BY <1>2, <1>3, <2>5 DEF FoughtAtHome
  <2>7. AtHome!AttackWon(t, s)
    BY <1>1, <1>2, <1>8, <2>2, <2>6 DEF AttackWon, AtHome!AttackWon, A, D
  <2> QED
    BY <2>7 DEF AtHome!ResolveGroup
<1> QED
  BY <1>5, <1>6, <1>7, <1>8 DEF ResolveGroup

\* A turn that ends without a sighting had none to report (runDetection).
LEMMA DetectionAtHome ==
    ASSUME IInv, RunDetection, NothingTold, NothingTold', ~AtHome!Detected
    PROVE  AtHome!RunDetection
<1>1. ~(Detected \/ ring.exposed)
  BY NamesAssumption DEF RunDetection, NothingTold, IInv, RingOK
<1>2. ~(AtHome!Detected \/ HomeRing.exposed)
  BY DEF HomeRing
<1> QED
  BY <1>1, <1>2, WorldAtHome DEF RunDetection, AtHome!RunDetection

\* Without exposure and without the end of the Ring only the turn limit decides.
LEMMA FinishAtHome ==
    ASSUME IInv, FinishTurn, NothingTold, NothingTold'
    PROVE  AtHome!FinishTurn
<1>1. ~RingDestroyed /\ ~RingBearerCaught
  BY DEF FinishTurn, NothingTold, RingBearerCaught
<1>2. ~AtHome!RingDestroyed
  BY HomeAssumption DEF HomeRing, AtHome!RingDestroyed
<1>5. ~AtHome!RingBearerCaught
  BY DEF HomeRing, AtHome!RingBearerCaught
<1>3. HomeRing' = [HomeRing EXCEPT !.exposed = FALSE]
  <2>1. HomeRing \in [trueRegion : Regions, exposed : BOOLEAN] /\ HomeRing.exposed = FALSE
    BY RingBearerIsUnit DEF HomeRing, UnitConfigs
  <2>2. HomeRing = [HomeRing EXCEPT !.exposed = FALSE]
    BY <2>1
  <2> QED
    BY <2>2, WorldAtHome
<1>4. HomeOrders' = <<>>
  <2>1. orders' = <<>>
    BY DEF FinishTurn
  <2> QED
    BY <2>1 DEF HomeOrders
<1> QED
  BY <1>1, <1>2, <1>3, <1>4, <1>5, WorldAtHome DEF FinishTurn, AtHome!FinishTurn

\* Every step of the server is one of the play at home.
LEMMA NextAtHome ==
    ASSUME IInv, Next, NothingTold, NothingTold', pc = "detection" => ~AtHome!Detected
    PROVE  AtHome!Next
<1>1. CASE SubmitOrder
  BY <1>1, SubmitAtHome DEF AtHome!Next
<1>2. CASE GameStart \/ DiscardOrders
  BY <1>2, BetweenTurnsAtHome DEF AtHome!Next
<1>3. CASE BeginTurn
  BY <1>3, BetweenTurnsAtHome DEF AtHome!Next, AtHome!Tick
<1>4. CASE \E i \in live : ApplyOrder(i)
  BY <1>4, OrderAtHome DEF AtHome!Next, AtHome!Tick
<1>5. CASE AutoAdvance
  BY <1>5, AdvanceAtHome DEF AtHome!Next, AtHome!Tick
<1>6. CASE \E t \in Places, s \in Sides : ResolveGroup(t, s)
  BY <1>6, GroupAtHome, SameWords DEF AtHome!Next, AtHome!Tick
<1>7. CASE RevertStalePaths \/ DecrementTempOpen \/ DecrementFortification
           \/ DecrementRespawnAndCooldown \/ UpdateRegionControl
  BY <1>7, ClockworkAtHome DEF AtHome!Next, AtHome!Tick
<1>8. CASE RunDetection
  <2>1. pc = "detection"
    BY <1>8 DEF RunDetection
  <2> QED
    BY <1>8, <2>1, DetectionAtHome DEF AtHome!Next, AtHome!Tick
<1>9. CASE FinishTurn
  BY <1>9, FinishAtHome DEF AtHome!Next, AtHome!Tick
<1> QED
  BY <1>1, <1>2, <1>3, <1>4, <1>5, <1>6, <1>7, <1>8, <1>9 DEF Next, Tick

\* What the dark side is shown is the same in both plays (buildStateForSide).
LEMMA ViewsAtHome ==
    ASSUME IInv, routeLogged \in BOOLEAN, NothingTold
    PROVE  /\ AtHome!BuildStateForSide("SHADOW") = BuildStateForSide("SHADOW")
           /\ AtHome!GameState("SHADOW") = GameState("SHADOW")
<1>1. AtHome!ShownUnits("SHADOW") = ShownUnits("SHADOW")
  BY HomeSnapshots, SameWords DEF AtHome!ShownUnits, ShownUnits
<1>2. AtHome!ShownRegions = ShownRegions /\ AtHome!ShownPaths = ShownPaths
  BY DEF AtHome!ShownRegions, ShownRegions, AtHome!ShownPaths, ShownPaths
<1>3. routeLogged = FALSE
  BY DEF NothingTold
<1>4. AtHome!BuildStateForSide("SHADOW") = BuildStateForSide("SHADOW")
  BY <1>1, <1>2, <1>3 DEF AtHome!BuildStateForSide, BuildStateForSide
<1>5. AtHome!GameState("SHADOW") = GameState("SHADOW")
  BY <1>1, <1>2 DEF AtHome!GameState, GameState
<1> QED
  BY <1>4, <1>5

\* The answers differ in DESTROY_RING alone, which is not offered at home
\* (availableOrders).
LEMMA OffersAtHome ==
    ASSUME IInv, NEW u \in Units
    PROVE  AtHome!AvailableOrders(u) = IF u = RingBearer THEN AvailableOrders(u) \ {"DESTROY_RING"}
                                       ELSE AvailableOrders(u)
<1>1. AtHome!Active(u) <=> Active(u)
  BY SameUnits
<1>2. HomeUnits[u].cooldown = units[u].cooldown
  BY HomeSnapshots
<1>3. ~AtHome!DestroyInReach
  BY HomeAssumption DEF AtHome!DestroyInReach, HomeRing, NoRoute
<1>4. AtHome!RingBearer = RingBearer
  BY SameWords
<1>5. CASE ~Active(u)
  BY <1>1, <1>5 DEF AtHome!AvailableOrders, AvailableOrders
<1>6. CASE Active(u)
  <2> DEFINE A == AtHome!AvailableOrders(u)
             B == AvailableOrders(u)
  <2>1. \A t : t \in A <=>
          \/ t \in {"ASSIGN_ROUTE", "REDIRECT_UNIT", "BLOCK_PATH", "ATTACK_REGION", "REINFORCE_REGION"}
          \/ t = "MAIA_ABILITY" /\ UnitConfig[u].maia /\ units[u].cooldown = 0
                                /\ UnitConfig[u].start # Mordor
          \/ t = "FORTIFY_REGION" /\ UnitConfig[u].canFortify
          \/ t = "SEARCH_PATH" /\ UnitConfig[u].side = "SHADOW"
    BY <1>1, <1>2, <1>3, <1>6 DEF AtHome!AvailableOrders
  <2>2. \A t : t \in B <=>
          \/ t \in {"ASSIGN_ROUTE", "REDIRECT_UNIT", "BLOCK_PATH", "ATTACK_REGION", "REINFORCE_REGION"}
          \/ t = "MAIA_ABILITY" /\ UnitConfig[u].maia /\ units[u].cooldown = 0
                                /\ UnitConfig[u].start # Mordor
          \/ t = "FORTIFY_REGION" /\ UnitConfig[u].canFortify
          \/ t = "SEARCH_PATH" /\ UnitConfig[u].side = "SHADOW"
          \/ t = "DESTROY_RING" /\ u = RingBearer /\ DestroyInReach
    BY <1>6 DEF AvailableOrders
  <2> HIDE DEF A, B
  <2>3. CASE u = RingBearer
    <3>1. A = B \ {"DESTROY_RING"}
      BY <2>1, <2>2
    <3> QED
      BY <2>3, <3>1 DEF A, B
  <2>4. CASE u # RingBearer
    <3>1. A = B
      BY <2>1, <2>2, <2>4
    <3> QED
      BY <2>4, <3>1 DEF A, B
  <2> QED
    BY <2>3, <2>4
<1> QED
  BY <1>5, <1>6

\* As long as it has been told nothing, the dark side sees what it would see had
\* the ring bearer stayed at home, on every map and for every menu of orders, but for
\* the offer of DESTROY_RING to whoever asks for the orders of the ring bearer.
THEOREM SecrecyCorrect == ViewSpec => UnseenMovesTellNothing
<1>1. ViewSpec => [](IInv /\ routeLogged \in BOOLEAN)
  <2>1. ViewInit => IInv /\ routeLogged \in BOOLEAN
    BY InitIInv DEF ViewInit
  <2>2. IInv /\ routeLogged \in BOOLEAN /\ [ViewNext]_viewVars
          => (IInv /\ routeLogged \in BOOLEAN)'
    <3>1. routeLogged \in BOOLEAN /\ [ViewNext]_viewVars => routeLogged' \in BOOLEAN
      BY DEF ViewNext, viewVars, RouteBearer, AdvanceBearer, ElsewhereInTurn
    <3> QED
      BY <3>1, ViewStep, NextIInv
  <2> QED
    BY <2>1, <2>2, PTL DEF ViewSpec
<1>2. IInv /\ routeLogged \in BOOLEAN =>
        (NothingTold => /\ AtHome!BuildStateForSide("SHADOW") = BuildStateForSide("SHADOW")
                        /\ AtHome!GameState("SHADOW") = GameState("SHADOW")
                        /\ \A u \in Units : AtHome!AvailableOrders(u)
                             = IF u = RingBearer THEN AvailableOrders(u) \ {"DESTROY_RING"}
                               ELSE AvailableOrders(u))
  BY ViewsAtHome, OffersAtHome
<1>3. IInv /\ [ViewNext]_viewVars =>
        [NothingTold /\ NothingTold' /\ (pc = "detection" => ~AtHome!Detected)
           => AtHome!Next \/ UNCHANGED AtHome!vars]_viewVars
  <2> SUFFICES ASSUME IInv, ViewNext, NothingTold, NothingTold',
                      pc = "detection" => ~AtHome!Detected
               PROVE  AtHome!Next
    OBVIOUS
  <2>1. Next
    BY DEF ViewNext, RouteBearer, AdvanceBearer, ElsewhereInTurn, Next, Tick, ApplyOrder
  <2> QED
    BY <2>1, NextAtHome
<1> QED
  BY <1>1, <1>2, <1>3, PTL DEF ViewSpec, UnseenMovesTellNothing

=============================================================================
