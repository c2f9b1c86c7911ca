----------------------------- MODULE RoadProofs ------------------------------
(***************************************************************************)
(* What is proved of orders, paths and movement in TurnEngine: one order   *)
(* of a unit a turn, blocks that are held, surveillance that stays, moves  *)
(* that go around blocks, and where strength comes from.                   *)
(***************************************************************************)
EXTENDS TurnEngineProofs

-----------------------------------------------------------------------------
(* The orders of a turn.                                                   *)

\* While a turn runs, what it has still to apply was accepted when it began.
AcceptedInv == pc # "idle" => live \subseteq Accepted

\* No step of a turn but the first and the last touches the orders or the clock.
LEMMA TurnKeepsOrders ==
    ASSUME [Next]_vars, pc # "idle"
    PROVE  \/ FinishTurn
           \/ UNCHANGED <<orders, turn>> /\ live' \subseteq live /\ pc' # "idle"
<1>1. ~(SubmitOrder \/ GameStart \/ BeginTurn \/ DiscardOrders)
  BY DEF SubmitOrder, GameStart, BeginTurn, DiscardOrders
<1>2. CASE UNCHANGED vars
  BY <1>2 DEF vars
<1>3. CASE \E i \in live : ApplyOrder(i)
  BY <1>3 DEF ApplyOrder, AssignRoute, BlockPath, SearchPath, Reinforce, Fortify,
     CorruptPath, OpenPath, RejectOrder, Consume, game
<1>4. CASE \E t \in Places, s \in Sides : ResolveGroup(t, s)
  <2>1. PICK t \in Places, s \in Sides : EndGroup(t, s)
    BY <1>4 DEF ResolveGroup, AttackFails, Uncontested, AttackWon, AttackHeld
  <2> QED
    BY <2>1 DEF EndGroup, game
<1>5. CASE RevertStalePaths \/ AutoAdvance \/ DecrementTempOpen \/ DecrementFortification
           \/ DecrementRespawnAndCooldown \/ RunDetection \/ UpdateRegionControl
  BY <1>5 DEF RevertStalePaths, AutoAdvance, DecrementTempOpen, DecrementFortification,
     DecrementRespawnAndCooldown, RunDetection, UpdateRegionControl, game
<1> QED
  BY <1>1, <1>2, <1>3, <1>4, <1>5 DEF Next, Tick

\* Between turns only a tick leads into one.
LEMMA IdleSteps ==
    ASSUME [Next]_vars, pc = "idle"
    PROVE  BeginTurn \/ UNCHANGED <<units, paths, regions, ring, pc>>
<1>1. ~\E i \in live : ApplyOrder(i)
  BY DEF ApplyOrder, AssignRoute, BlockPath, SearchPath, Reinforce, Fortify,
     CorruptPath, OpenPath, RejectOrder, Due
<1>2. ~\E t \in Places, s \in Sides : ResolveGroup(t, s)
  BY DEF ResolveGroup, AttackFails, Uncontested, AttackWon, AttackHeld, GroupDue
<1> QED
  BY <1>1, <1>2 DEF Next, Tick, vars, world, SubmitOrder, GameStart, DiscardOrders,
     RevertStalePaths, AutoAdvance, DecrementTempOpen, DecrementFortification,
     DecrementRespawnAndCooldown, RunDetection, UpdateRegionControl, FinishTurn

LEMMA NextAcceptedInv == AcceptedInv /\ [Next]_vars => AcceptedInv'
<1> SUFFICES ASSUME AcceptedInv, [Next]_vars PROVE AcceptedInv'
  OBVIOUS
<1>1. CASE pc # "idle"
  BY <1>1, TurnKeepsOrders DEF AcceptedInv, Accepted, Fresh, FinishTurn
<1>2. CASE pc = "idle"
  BY <1>2, IdleSteps DEF AcceptedInv, BeginTurn, Accepted, Fresh, game
<1> QED
  BY <1>1, <1>2

\* Of two accepted orders of one unit, neither came first, so they are one.
LEMMA AcceptedOnce ==
    ASSUME IInv, NEW i \in Accepted, NEW j \in Accepted,
           orders[i].body.unit = orders[j].body.unit, orders[i].body.unit # NoUnit
    PROVE  i = j
<1>1. i \in Nat /\ j \in Nat
  BY DEF Accepted, Fresh, IInv, QueueOK
<1>2. ~(j < i) /\ ~(i < j)
  BY DEF Accepted
<1> QED
  BY <1>1, <1>2

\* A unit acts once a turn, and on no order of another turn, for every menu
\* and every number of late orders.
THEOREM OrdersCorrect == Spec => []OneOrderPerUnit
<1>1. Init => AcceptedInv
  BY DEF Init, AcceptedInv
<1>2. IInv /\ AcceptedInv => OneOrderPerUnit
  BY AcceptedOnce DEF AcceptedInv, OneOrderPerUnit, Accepted, Fresh
<1> QED
  BY <1>1, <1>2, NextAcceptedInv, Invariance, PTL DEF Spec

-----------------------------------------------------------------------------
(* Paths: who changes them, and how.                                       *)

\* The orders applied to a path are the only steps of a turn, apart from
\* reverting and reopening, that change the paths.
LEMMA PathSteps ==
    ASSUME [Next]_vars, paths' # paths
    PROVE  \/ \E i \in live : BlockPath(i) \/ SearchPath(i) \/ CorruptPath(i) \/ OpenPath(i)
           \/ RevertStalePaths \/ DecrementTempOpen
<1>1. ~\E i \in live : AssignRoute(i) \/ Reinforce(i) \/ Fortify(i) \/ RejectOrder(i)
  BY DEF AssignRoute, Reinforce, Fortify, RejectOrder, world
<1>2. ~\E t \in Places, s \in Sides : ResolveGroup(t, s)
  <2>1. \A t, s : EndGroup(t, s) => UNCHANGED paths
    BY DEF EndGroup
  <2> QED
    BY <2>1 DEF ResolveGroup, AttackFails, Uncontested, AttackWon, AttackHeld
<1>3. ~(UNCHANGED vars \/ SubmitOrder \/ GameStart \/ DiscardOrders \/ BeginTurn \/ AutoAdvance
        \/ DecrementFortification \/ DecrementRespawnAndCooldown \/ RunDetection
        \/ UpdateRegionControl \/ FinishTurn)
  BY DEF vars, SubmitOrder, GameStart, DiscardOrders, BeginTurn, AutoAdvance,
     DecrementFortification, DecrementRespawnAndCooldown, RunDetection,
     UpdateRegionControl, FinishTurn, world
<1> QED
  BY <1>1, <1>2, <1>3 DEF Next, Tick, ApplyOrder

\* What each of these steps makes of one path.
LEMMA PathChanges ==
    ASSUME IInv, [Next]_vars, NEW p \in Paths
    PROVE  /\ paths'[p].surveillance >= paths[p].surveillance
           /\ paths[p] \in PathStates /\ paths'[p] \in PathStates
           /\ \/ paths'[p].status = paths[p].status /\ paths'[p].blockedBy = paths[p].blockedBy
              \/ \E i \in live : BlockPath(i) /\ orders[i].body.path = p
              \/ paths'[p].status # "BLOCKED"
              \/ DecrementTempOpen /\ paths'[p].blockedBy # NoUnit
<1>1. paths \in [Paths -> PathStates] /\ paths[p] \in PathStates
  BY DEF IInv, PathsOK
<1>2. paths'[p] \in PathStates
  BY NextIInv DEF IInv, PathsOK
<1>3. CASE UNCHANGED paths
  BY <1>1, <1>3 DEF PathStates
<1>4. ASSUME NEW i \in live, BlockPath(i) PROVE
        /\ paths'[p].surveillance >= paths[p].surveillance
        /\ \/ paths'[p].status = paths[p].status /\ paths'[p].blockedBy = paths[p].blockedBy
           \/ orders[i].body.path = p
  BY <1>1, <1>4 DEF BlockPath, PathStates
<1>5. ASSUME NEW i \in live, SearchPath(i) PROVE
        /\ paths'[p].surveillance >= paths[p].surveillance
        /\ paths'[p].status = paths[p].status /\ paths'[p].blockedBy = paths[p].blockedBy
  <2>1. CASE orders[i].body.path # p
    BY <1>1, <1>5, <2>1 DEF SearchPath, PathStates
  <2>2. CASE orders[i].body.path = p
    BY <1>1, <1>5, <2>2 DEF SearchPath, PathStates
  <2> QED
    BY <2>1, <2>2
<1>6. ASSUME NEW i \in live, CorruptPath(i) \/ OpenPath(i) PROVE
        /\ paths'[p].surveillance >= paths[p].surveillance
        /\ \/ paths'[p].status = paths[p].status /\ paths'[p].blockedBy = paths[p].blockedBy
           \/ paths'[p].status # "BLOCKED"
  <2>1. CASE CorruptPath(i)
    BY <1>1, <2>1 DEF CorruptPath, PathStates
  <2>2. CASE OpenPath(i)
    BY <1>1, <2>2 DEF OpenPath, PathStates
  <2> QED
    BY <1>6, <2>1, <2>2
<1>7. ASSUME RevertStalePaths PROVE
        /\ paths'[p].surveillance >= paths[p].surveillance
        /\ \/ paths'[p].status = paths[p].status /\ paths'[p].blockedBy = paths[p].blockedBy
           \/ paths'[p].status # "BLOCKED"
  <2>1. paths'[p] = paths[p] \/ paths'[p] = [paths[p] EXCEPT !.status = "OPEN", !.blockedBy = NoUnit]
    BY <1>7 DEF RevertStalePaths
  <2>2. CASE paths'[p] = paths[p]
    BY <1>1, <2>2 DEF PathStates
  <2>3. CASE paths'[p] = [paths[p] EXCEPT !.status = "OPEN", !.blockedBy = NoUnit]
    BY <1>1, <2>3 DEF PathStates
  <2> QED
    BY <2>1, <2>2, <2>3
<1>8. ASSUME DecrementTempOpen PROVE
        /\ paths'[p].surveillance >= paths[p].surveillance
        /\ \/ paths'[p].status = paths[p].status /\ paths'[p].blockedBy = paths[p].blockedBy
           \/ paths'[p].status # "BLOCKED"
           \/ paths'[p].blockedBy # NoUnit
  <2> DEFINE ended == IF paths[p].tempOpenTurns > 1 THEN paths[p].status
                      ELSE IF paths[p].blockedBy # NoUnit THEN "BLOCKED" ELSE "OPEN"
  <2>1. \/ paths'[p] = paths[p]
        \/ /\ paths[p].status = "TEMPORARILY_OPEN"
           /\ paths'[p] = [paths[p] EXCEPT !.tempOpenTurns = @ - 1, !.status = ended]
    BY <1>8 DEF DecrementTempOpen
  <2>2. paths[p].status = "TEMPORARILY_OPEN" /\ ended = "BLOCKED" => paths[p].blockedBy # NoUnit
    OBVIOUS
  <2> HIDE DEF ended
  <2>3. CASE paths'[p] = paths[p]
    BY <1>1, <2>3 DEF PathStates
  <2>4. CASE paths'[p] = [paths[p] EXCEPT !.tempOpenTurns = @ - 1, !.status = ended]
    <3>1. /\ paths'[p].surveillance = paths[p].surveillance
          /\ paths'[p].status = ended /\ paths'[p].blockedBy = paths[p].blockedBy
      BY <1>1, <2>4 DEF PathStates
    <3> QED
      BY <1>1, <2>1, <2>2, <3>1 DEF PathStates
  <2> QED
    BY <2>1, <2>3, <2>4
<1> QED
  BY <1>1, <1>2, <1>3, <1>4, <1>5, <1>6, <1>7, <1>8, PathSteps

\* Surveillance is never lost, whatever is done to the path.
THEOREM SurveillanceCorrect == Spec => SurveillanceNeverDrops
<1>1. IInv /\ [Next]_vars => [\A p \in Paths : paths'[p].surveillance >= paths[p].surveillance]_vars
  BY PathChanges
<1> QED
  BY <1>1, Invariance, PTL DEF Spec, SurveillanceNeverDrops

-----------------------------------------------------------------------------
(* Blocks are held.                                                        *)

\* A blocked path always has a blocker on record, and from the reverting of
\* stale paths until the first order of step 4 the blocker stands at the path.
Step3Runs == pc = "orders" /\ {i \in Accepted : Step(i) > 3} \subseteq live

BlocksInv ==
    \A p \in Paths : paths[p].status = "BLOCKED" =>
      /\ paths[p].blockedBy \in Units
      /\ Step3Runs => AtEndpoint(paths[p].blockedBy, p)

LEMMA StepType == ASSUME IInv, NEW i \in live PROVE Step(i) \in Nat
BY BodyType DEF OrderBodies, OrderTypes, Step, StepOf

\* An order that moves a unit is one of a later step, so step 3 is over.
LEMMA Step3KeepsUnits ==
    ASSUME IInv, AcceptedInv, [Next]_vars, Step3Runs'
    PROVE  \/ RevertStalePaths
           \/ Step3Runs /\ \A u \in Units : units'[u].region = units[u].region
<1>1. CASE UNCHANGED vars
  <2>1. Step3Runs' = Step3Runs
    BY <1>1 DEF vars, Step3Runs, Accepted, Fresh, Step
  <2> QED
    BY <1>1, <2>1 DEF vars
<1>2. ASSUME NEW i \in live, ApplyOrder(i)
      PROVE  Step3Runs /\ \A u \in Units : units'[u].region = units[u].region
  <2>1. /\ live' = live \ {i} /\ UNCHANGED <<orders, turn, pc>>
    BY <1>2 DEF ApplyOrder, AssignRoute, BlockPath, SearchPath, Reinforce, Fortify,
       CorruptPath, OpenPath, RejectOrder, Consume, game
  <2>2. pc = "orders" /\ i \in Accepted
    BY <2>1 DEF Step3Runs, AcceptedInv
  <2>3. Accepted' = Accepted /\ \A j : Step(j)' = Step(j)
    BY <2>1 DEF Accepted, Fresh, Step
  <2>4. ~(Step(i) > 3) /\ Step3Runs
    BY <2>1, <2>2, <2>3 DEF Step3Runs
  <2>5. orders[i].body.type \notin {"REINFORCE_REGION", "DEPLOY_NAZGUL", "MAIA_ABILITY"}
    BY <2>4 DEF Step, StepOf
  <2>6. ~AssignRoute(i)
    BY <2>2 DEF AssignRoute, CanRoute, Due, Step, StepOf
  <2>7. ~Reinforce(i) /\ ~CorruptPath(i) /\ ~OpenPath(i)
    BY <2>5 DEF Reinforce, CanReinforce, CanDeploy, CorruptPath, CanCorrupt, OpenPath, CanOpen,
       CanCast
  <2> QED
    BY <1>2, <2>4, <2>6, <2>7 DEF ApplyOrder, BlockPath, SearchPath, Fortify, RejectOrder, world
<1>3. ~\E t \in Places, s \in Sides : ResolveGroup(t, s)
  <2>1. \A t, s : ResolveGroup(t, s) => GroupDue(t, s) /\ EndGroup(t, s)
    BY DEF ResolveGroup, AttackFails, Uncontested, AttackWon, AttackHeld
  <2> QED
    BY <2>1 DEF GroupDue, EndGroup, Step3Runs
<1>4. CASE SubmitOrder \/ GameStart \/ DiscardOrders
  BY <1>4 DEF SubmitOrder, GameStart, DiscardOrders, Step3Runs
<1>5. ~(BeginTurn \/ AutoAdvance \/ DecrementTempOpen \/ DecrementFortification
        \/ DecrementRespawnAndCooldown \/ RunDetection \/ UpdateRegionControl \/ FinishTurn)
  BY DEF BeginTurn, AutoAdvance, DecrementTempOpen, DecrementFortification,
     DecrementRespawnAndCooldown, RunDetection, UpdateRegionControl, FinishTurn, Step3Runs
<1> QED
  BY <1>1, <1>2, <1>3, <1>4, <1>5 DEF Next, Tick

LEMMA NextBlocksInv == IInv /\ AcceptedInv /\ BlocksInv /\ [Next]_vars => BlocksInv'
<1> SUFFICES ASSUME IInv, AcceptedInv, BlocksInv, [Next]_vars,
                    NEW p \in Paths, paths'[p].status = "BLOCKED"
             PROVE  /\ paths'[p].blockedBy \in Units
                    /\ Step3Runs' => units'[paths'[p].blockedBy].region \in Endpoints(p)
  BY DEF BlocksInv, AtEndpoint
<1> DEFINE b == paths'[p].blockedBy
<1>1. b \in Units
  <2>1. CASE \E i \in live : BlockPath(i) /\ orders[i].body.path = p
    BY <2>1 DEF BlockPath, CanBlock, IInv, PathsOK, PathStates
  <2>2. CASE paths'[p].status = paths[p].status /\ paths'[p].blockedBy = paths[p].blockedBy
    BY <2>2 DEF BlocksInv
  <2>3. CASE paths'[p].blockedBy # NoUnit
    BY <2>3, PathChanges DEF PathStates
  <2> QED
    BY <2>1, <2>2, <2>3, PathChanges
<1>2. CASE ~Step3Runs'
  BY <1>1, <1>2
<1>3. CASE Step3Runs' /\ RevertStalePaths
  <2>1. paths[p].status = "BLOCKED" /\ paths'[p] = paths[p] /\ AtEndpoint(b, p)
    BY <1>1, <1>3, NamesAssumption DEF RevertStalePaths, BlocksInv, IInv, PathsOK, PathStates
  <2> QED
    BY <1>1, <1>3, <2>1 DEF RevertStalePaths, AtEndpoint
<1>4. CASE /\ Step3Runs' /\ Step3Runs
           /\ \A u \in Units : units'[u].region = units[u].region
  <2>1. AtEndpoint(b, p)
    <3>1. CASE paths'[p].status = paths[p].status /\ paths'[p].blockedBy = paths[p].blockedBy
      BY <1>4, <3>1 DEF BlocksInv
    <3>2. CASE \E i \in live : BlockPath(i) /\ orders[i].body.path = p
      BY <3>2 DEF BlockPath, CanBlock, IInv, PathsOK, PathStates
    <3>3. ~DecrementTempOpen
      BY <1>4 DEF DecrementTempOpen, Step3Runs
    <3> QED
      BY <3>1, <3>2, <3>3, PathChanges
  <2> QED
    BY <1>1, <1>4, <2>1 DEF AtEndpoint
<1> QED
  BY <1>2, <1>3, <1>4, Step3KeepsUnits

\* After step 3 every block is held by a unit at the path, on every map.
THEOREM BlocksCorrect == Spec => []BlocksStandAfterStep3
<1>1. Init => AcceptedInv /\ BlocksInv
  BY DEF Init, AcceptedInv, BlocksInv
<1>2. BlocksInv => BlocksStandAfterStep3
  BY DEF BlocksInv, Step3Runs, BlocksStandAfterStep3
<1> QED
  BY <1>1, <1>2, NextAcceptedInv, NextBlocksInv, Invariance, PTL DEF Spec

-----------------------------------------------------------------------------
(* Movement.                                                               *)

\* Unit u ends the step where it was, off the map, or across an open path; or it
\* was off the map before, or an order deploys it.
MovesFreely(u) ==
    LET here == units[u].region
        then == units'[u].region
    IN  here = then \/ ~({here, then} \subseteq Regions) \/ Deployed(u) \/ Reachable(here, then)

\* Walking an open path from one of its ends leads to a region in reach.
LEMMA WalkIsReach ==
    ASSUME NEW p \in Paths, NEW r \in Endpoints(p), paths[p].status # "BLOCKED"
    PROVE  Reachable(r, Across(p, r))
<1>1. Endpoints(p) = {r, Across(p, r)}
  BY DEF Endpoints, Across
<1> QED
  BY <1>1 DEF Reachable, PathsBetween

LEMMA OrderMovesFreely ==
    ASSUME IInv, NEW i \in live, ApplyOrder(i), NEW u \in Units
    PROVE  MovesFreely(u) /\ ring' = ring
<1>0. units \in [Units -> UnitSnapshots] /\ units[u] \in UnitSnapshots
  BY DEF IInv, UnitsOK
<1>1. CASE BlockPath(i) \/ SearchPath(i) \/ Fortify(i) \/ RejectOrder(i)
  BY <1>1 DEF BlockPath, SearchPath, Fortify, RejectOrder, world, MovesFreely
<1>2. CASE AssignRoute(i)
  BY <1>0, <1>2 DEF AssignRoute, UnitSnapshots, MovesFreely
<1>3. CASE Reinforce(i)
  <2> DEFINE o == orders[i].body
  <2>1. Due(i) /\ (CanReinforce(o) \/ CanDeploy(o)) /\ ring' = ring
        /\ units' = [units EXCEPT ![o.unit].region = o.region]
    BY <1>3 DEF Reinforce
  <2>2. CASE o.unit # u
    BY <1>0, <2>1, <2>2 DEF MovesFreely
  <2>3. CASE o.unit = u /\ CanDeploy(o)
    BY <2>1, <2>3 DEF MovesFreely, Deployed
  <2>4. CASE o.unit = u /\ CanReinforce(o)
    <3>1. units'[u].region = o.region
      BY <1>0, <2>1, <2>4 DEF UnitSnapshots
    <3>2. units[u].region = o.region \/ Reachable(units[u].region, o.region)
      BY <2>4 DEF CanReinforce
    <3> QED
      BY <2>1, <3>1, <3>2 DEF MovesFreely
  <2> QED
    BY <2>1, <2>2, <2>3, <2>4
<1>4. CASE CorruptPath(i) \/ OpenPath(i)
  <2>1. PICK v, k : units' = [units EXCEPT ![v].cooldown = k] /\ ring' = ring
    BY <1>4 DEF CorruptPath, OpenPath
  <2>2. units'[u].region = units[u].region
    BY <1>0, <2>1 DEF UnitSnapshots
  <2> QED
    BY <2>1, <2>2 DEF MovesFreely
<1> QED
  BY <1>1, <1>2, <1>3, <1>4 DEF ApplyOrder, AssignRoute

LEMMA GroupMovesFreely ==
    ASSUME IInv, NEW t \in Places, NEW s \in Sides, ResolveGroup(t, s), NEW u \in Units
    PROVE  MovesFreely(u) /\ ring' = ring
<1>0. units \in [Units -> UnitSnapshots] /\ units[u] \in UnitSnapshots
  BY DEF IInv, UnitsOK
<1>1. ring' = ring
  BY DEF ResolveGroup, AttackFails, Uncontested, AttackWon, AttackHeld, EndGroup
<1>2. u \in Attackers(t, s) => units[u].region = t \/ Reachable(units[u].region, t)
  BY DEF Attackers, CanAttack
<1>3. \A n : Struck(u, units[u], n).region \in {units[u].region, Nowhere}
  BY <1>0 DEF Struck, Fallen, UnitSnapshots
<1>4. \/ units'[u].region \in {units[u].region, Nowhere}
      \/ u \in Attackers(t, s) /\ units'[u].region = t
  <2>1. CASE AttackFails(t, s)
    BY <2>1 DEF AttackFails
  <2>2. CASE Uncontested(t, s)
    BY <1>0, <2>2 DEF Uncontested, UnitSnapshots
  <2>3. CASE AttackHeld(t, s)
    BY <1>0, <1>3, <2>3 DEF AttackHeld, UnitSnapshots
  <2>4. CASE AttackWon(t, s)
    <3> DEFINE Fought(hit) ==
                 IF u \in Attackers(t, s)
                 THEN [units[u] EXCEPT !.region = t, !.strength = Led(u, Attackers(t, s), Strength)]
                 ELSE IF u \in hit
                 THEN Struck(u, units[u], Led(u, Defenders(t, s), Strength))
                 ELSE IF u \in Defenders(t, s)
                 THEN [units[u] EXCEPT !.strength = Led(u, Defenders(t, s), Strength)]
                 ELSE units[u]
    <3>1. PICK hit : units'[u] = IF Disables(u, t, s) THEN [Fought(hit) EXCEPT !.status = "DESTROYED"]
                                 ELSE Fought(hit)
      BY <2>4 DEF AttackWon
    <3>2. units'[u].region = Fought(hit).region
      BY <1>0, <3>1 DEF Struck, Fallen, UnitSnapshots
    <3>3. \/ Fought(hit).region \in {units[u].region, Nowhere}
          \/ u \in Attackers(t, s) /\ Fought(hit).region = t
      BY <1>0, <1>3 DEF UnitSnapshots
    <3> QED
      BY <3>2, <3>3
  <2> QED
    BY <2>1, <2>2, <2>3, <2>4 DEF ResolveGroup
<1> QED
  BY <1>1, <1>2, <1>4, NamesAssumption DEF MovesFreely

LEMMA AdvanceMovesFreely ==
    ASSUME IInv, AutoAdvance
    PROVE  /\ \A u \in Units : MovesFreely(u)
           /\ ring'.trueRegion # ring.trueRegion => Reachable(ring.trueRegion, ring'.trueRegion)
<1>1. ASSUME NEW u \in Units, Advances(u)
      PROVE  Reachable(Here(u), Across(NextPath(u), Here(u)))
  BY <1>1, WalkIsReach DEF Advances
<1>2. ASSUME NEW u \in Units PROVE MovesFreely(u)
  <2>1. units[u] \in UnitSnapshots
    BY DEF IInv, UnitsOK
  <2>2. units'[u].region = units[u].region
        \/ /\ u # RingBearer /\ Advances(u)
           /\ units'[u].region = Across(NextPath(u), units[u].region)
    <3>1. CASE ~Advances(u)
      BY <3>1 DEF AutoAdvance
    <3>2. CASE Advances(u)
      <4>1. units'[u] = [units[u] EXCEPT
                           !.region = IF u = RingBearer THEN @ ELSE Across(NextPath(u), @),
                           !.routeIdx = @ + 1]
        BY <3>2 DEF AutoAdvance
      <4> QED
        BY <2>1, <3>2, <4>1 DEF UnitSnapshots
    <3> QED
      BY <3>1, <3>2
  <2> QED
    BY <1>1, <2>2 DEF MovesFreely, Here
<1>3. ring'.trueRegion # ring.trueRegion => Reachable(ring.trueRegion, ring'.trueRegion)
  BY <1>1, RingBearerIsUnit DEF AutoAdvance, Here
<1> QED
  BY <1>2, <1>3

\* Whoever comes back from a wait was off the map.
LEMMA ReturnMovesFreely ==
    ASSUME IInv, DecrementRespawnAndCooldown, NEW u \in Units
    PROVE  MovesFreely(u)
<1>1. units[u] \in UnitSnapshots /\ SnapshotOK(u, units[u])
  BY DEF IInv, UnitsOK
<1>2. CASE units[u].status = "RESPAWNING"
  BY <1>1, <1>2, NamesAssumption DEF SnapshotOK, MovesFreely
<1>3. CASE units[u].status # "RESPAWNING"
  <2>1. units'[u].region = units[u].region
    BY <1>1, <1>3 DEF DecrementRespawnAndCooldown, Returns, UnitSnapshots
  <2> QED
    BY <2>1 DEF MovesFreely
<1> QED
  BY <1>2, <1>3

LEMMA NextMovesFreely ==
    ASSUME IInv, [Next]_vars
    PROVE  /\ \A u \in Units : MovesFreely(u)
           /\ ring'.trueRegion # ring.trueRegion => Reachable(ring.trueRegion, ring'.trueRegion)
<1>1. CASE UNCHANGED <<units, ring>>
  BY <1>1 DEF MovesFreely
<1>2. CASE \E i \in live : ApplyOrder(i)
  BY <1>2, OrderMovesFreely, RingBearerIsUnit
<1>3. CASE \E t \in Places, s \in Sides : ResolveGroup(t, s)
  BY <1>3, GroupMovesFreely, RingBearerIsUnit
<1>4. CASE DecrementRespawnAndCooldown
  BY <1>4, ReturnMovesFreely DEF DecrementRespawnAndCooldown
<1>5. CASE RunDetection \/ FinishTurn
  <2>1. units' = units /\ ring'.trueRegion = ring.trueRegion
    BY <1>5 DEF RunDetection, FinishTurn, IInv, RingOK
  <2> QED
    BY <2>1 DEF MovesFreely
<1>6. CASE \/ UNCHANGED vars \/ SubmitOrder \/ GameStart \/ DiscardOrders \/ BeginTurn
           \/ RevertStalePaths \/ DecrementTempOpen \/ DecrementFortification \/ UpdateRegionControl
  <2>1. UNCHANGED <<units, ring>>
    BY <1>6 DEF vars, SubmitOrder, GameStart, DiscardOrders, BeginTurn, RevertStalePaths,
       DecrementTempOpen, DecrementFortification, UpdateRegionControl, world
  <2> QED
    BY <1>1, <2>1
<1> QED
  BY <1>2, <1>3, <1>4, <1>5, <1>6, AdvanceMovesFreely DEF Next, Tick

\* Nobody crosses a blocked path, on any map and by any sequence of orders.
THEOREM MovementCorrect == Spec => NoStepCrossesABlock
<1>1. IInv /\ [Next]_vars =>
        [/\ \A u \in Units :
              units[u].region # units'[u].region
              /\ {units[u].region, units'[u].region} \subseteq Regions
              => Deployed(u) \/ Reachable(units[u].region, units'[u].region)
         /\ ring.trueRegion # ring'.trueRegion => Reachable(ring.trueRegion, ring'.trueRegion)]_vars
  BY NextMovesFreely DEF MovesFreely
<1> QED
  BY <1>1, Invariance, PTL DEF Spec, NoStepCrossesABlock

-----------------------------------------------------------------------------
(* Strength.                                                               *)

Comrades(u) == {v \in Units : Active(v) /\ UnitConfig[v].side = UnitConfig[u].side}

\* If u is stronger after the step, it came back or was led into a battle.
GainsByRight(u) ==
    units'[u].strength > units[u].strength =>
      \/ Returns(u) /\ units'[u].strength = UnitConfig[u].strength
      \/ /\ ~UnitConfig[u].leadership
         /\ units'[u].strength <= units[u].strength + LeaderBonus(Comrades(u))

\* More leaders give no smaller bonus.
LEMMA LeaderBonusGrows ==
    ASSUME NEW T \in SUBSET Units, NEW S \in SUBSET T
    PROVE  LeaderBonus(S) <= LeaderBonus(T)
<1> DEFINE Points(G) == {x \in G \X (1..MaxLeadershipBonus) :
                           /\ UnitConfig[x[1]].leadership
                           /\ x[2] <= UnitConfig[x[1]].leadershipBonus}
<1>1. IsFiniteSet(Points(T))
  <2>1. IsFiniteSet(T) /\ IsFiniteSet(1..MaxLeadershipBonus)
    BY UnitsAssumption, FS_Subset, FS_Interval
  <2>2. IsFiniteSet(T \X (1..MaxLeadershipBonus))
    BY <2>1, FS_Product
  <2> QED
    BY <2>2, FS_Subset
<1>2. Points(S) \subseteq Points(T)
  OBVIOUS
<1>3. LeaderBonus(S) = Cardinality(Points(S)) /\ LeaderBonus(T) = Cardinality(Points(T))
  BY DEF LeaderBonus
<1> QED
  BY <1>1, <1>2, <1>3, FS_Subset

\* What a battle makes of the strength of one of its fighters.
LEMMA LedByRight ==
    ASSUME IInv, NEW t, NEW s \in Sides, NEW S \in {Attackers(t, s), Defenders(t, s)}, NEW u \in S
    PROVE  /\ u \in Units /\ units[u].strength \in Nat /\ units[u].strength >= 1
           /\ Led(u, S, Strength) \in Nat /\ Led(u, S, Strength) >= units[u].strength
           /\ UnitConfig[u].leadership => Led(u, S, Strength) = units[u].strength
           /\ Led(u, S, Strength) <= units[u].strength + LeaderBonus(Comrades(u))
<1>1. S \in SUBSET Units /\ u \in Units /\ units[u].strength \in Nat /\ units[u].strength >= 1
  BY FightersOK
<1>2. Strength[u] = units[u].strength
  BY <1>1 DEF Strength
<1>3. S \subseteq Comrades(u)
  <2>1. \A v \in Units : UnitConfig[v].side \in Sides
    BY UnitsAssumption DEF UnitConfigs
  <2>2. \A v \in Attackers(t, s) : v \in Units /\ Active(v) /\ UnitConfig[v].side = s
    BY DEF Attackers, GroupOrders, CanAttack
  <2>3. \A v \in Defenders(t, s) : v \in Units /\ Active(v) /\ UnitConfig[v].side # s
    BY DEF Defenders
  <2> QED
    BY <2>1, <2>2, <2>3 DEF Comrades, Sides
<1>4. LeaderBonus(S) \in Nat /\ LeaderBonus(S) <= LeaderBonus(Comrades(u))
      /\ LeaderBonus(Comrades(u)) \in Nat
  BY <1>1, <1>3, LeaderBonusType, LeaderBonusGrows DEF Comrades
<1> QED
  BY <1>1, <1>2, <1>4 DEF Led

\* Damage never adds strength.
LEMMA StruckWeakens ==
    ASSUME NEW u \in Units, NEW x \in UnitSnapshots, NEW n \in Nat, n >= 1
    PROVE  Struck(u, x, n).strength \in Nat /\ Struck(u, x, n).strength <= n
<1>1. AfterHit(u, n) \in Nat /\ AfterHit(u, n) <= n
  BY DEF AfterHit
<1> HIDE DEF AfterHit
<1> QED
  BY <1>1 DEF Struck, Fallen, UnitSnapshots

LEMMA GroupGains ==
    ASSUME IInv, NEW t \in Places, NEW s \in Sides, ResolveGroup(t, s), NEW u \in Units
    PROVE  GainsByRight(u)
<1>0. units \in [Units -> UnitSnapshots] /\ units[u] \in UnitSnapshots
      /\ units[u].strength \in Nat
  BY DEF IInv, UnitsOK, UnitSnapshots
<1> DEFINE led(S) == Led(u, S, Strength)
<1>1. \/ units'[u].strength = units[u].strength
      \/ \E S \in {Attackers(t, s), Defenders(t, s)} :
           u \in S /\ units'[u].strength \in {led(S), Struck(u, units[u], led(S)).strength}
  <2>1. CASE AttackFails(t, s)
    BY <2>1 DEF AttackFails
  <2>2. CASE Uncontested(t, s)
    BY <1>0, <2>2 DEF Uncontested, UnitSnapshots
  <2>3. CASE AttackHeld(t, s)
    <3> HIDE DEF led
    <3>1. units'[u] = IF u \in Attackers(t, s) THEN Struck(u, units[u], led(Attackers(t, s)))
                      ELSE IF u \in Defenders(t, s)
                      THEN [units[u] EXCEPT !.strength = led(Defenders(t, s))]
                      ELSE units[u]
      BY <2>3 DEF AttackHeld, led
    <3> QED
      BY <1>0, <3>1 DEF UnitSnapshots
  <2>4. CASE AttackWon(t, s)
    <3> DEFINE Fought(hit) ==
                 IF u \in Attackers(t, s)
                 THEN [units[u] EXCEPT !.region = t, !.strength = led(Attackers(t, s))]
                 ELSE IF u \in hit THEN Struck(u, units[u], led(Defenders(t, s)))
                 ELSE IF u \in Defenders(t, s)
                 THEN [units[u] EXCEPT !.strength = led(Defenders(t, s))]
                 ELSE units[u]
    <3>1. PICK hit \in SUBSET Defenders(t, s) :
            units'[u] = IF Disables(u, t, s) THEN [Fought(hit) EXCEPT !.status = "DESTROYED"]
                        ELSE Fought(hit)
      BY <2>4 DEF AttackWon, HitGroups, kSubset
    <3> HIDE DEF led
    <3>2. units'[u].strength = Fought(hit).strength
      BY <1>0, <3>1 DEF Struck, Fallen, UnitSnapshots
    <3>3. \/ Fought(hit).strength = units[u].strength
          \/ \E S \in {Attackers(t, s), Defenders(t, s)} :
               u \in S /\ Fought(hit).strength \in {led(S), Struck(u, units[u], led(S)).strength}
      BY <1>0 DEF UnitSnapshots
    <3> QED
      BY <3>2, <3>3
  <2> QED
    BY <2>1, <2>2, <2>3, <2>4 DEF ResolveGroup
<1>2. ASSUME NEW S \in {Attackers(t, s), Defenders(t, s)}, u \in S,
             units'[u].strength \in {led(S), Struck(u, units[u], led(S)).strength}
      PROVE  GainsByRight(u)
  <2>1. /\ units[u].strength \in Nat /\ units[u].strength >= 1
        /\ led(S) \in Nat /\ led(S) >= units[u].strength
        /\ UnitConfig[u].leadership => led(S) = units[u].strength
        /\ led(S) <= units[u].strength + LeaderBonus(Comrades(u))
        /\ LeaderBonus(Comrades(u)) \in Nat
    BY <1>2, LedByRight, LeaderBonusType DEF Comrades
  <2> HIDE DEF led
  <2>2. units'[u].strength \in Nat /\ units'[u].strength <= led(S)
    BY <1>0, <1>2, <2>1, StruckWeakens
  <2>3. UnitConfig[u].leadership \in BOOLEAN
    BY UnitsAssumption DEF UnitConfigs
  <2> QED
    BY <2>1, <2>2, <2>3 DEF GainsByRight
<1> QED
  BY <1>0, <1>1, <1>2 DEF GainsByRight

LEMMA OtherGains ==
    ASSUME IInv, NEW u \in Units,
           (\E i \in live : ApplyOrder(i)) \/ AutoAdvance
    PROVE  units'[u].strength = units[u].strength
<1>1. units \in [Units -> UnitSnapshots] /\ units[u] \in UnitSnapshots
  BY DEF IInv, UnitsOK
<1>2. CASE AutoAdvance
  BY <1>1, <1>2 DEF AutoAdvance, UnitSnapshots
<1>3. ASSUME NEW i \in live, ApplyOrder(i) PROVE units'[u].strength = units[u].strength
  <2>1. CASE BlockPath(i) \/ SearchPath(i) \/ Fortify(i) \/ RejectOrder(i)
    BY <2>1 DEF BlockPath, SearchPath, Fortify, RejectOrder, world
  <2>2. CASE AssignRoute(i)
    BY <1>1, <2>2 DEF AssignRoute, UnitSnapshots
  <2>3. CASE Reinforce(i)
    BY <1>1, <2>3 DEF Reinforce, UnitSnapshots
  <2>4. CASE CorruptPath(i) \/ OpenPath(i)
    <3>1. PICK v, k : units' = [units EXCEPT ![v].cooldown = k]
      BY <2>4 DEF CorruptPath, OpenPath
    <3> QED
      BY <1>1, <3>1 DEF UnitSnapshots
  <2> QED
    BY <1>3, <2>1, <2>2, <2>3, <2>4 DEF ApplyOrder
<1> QED
  BY <1>2, <1>3

LEMMA RespawnGains ==
    ASSUME IInv, DecrementRespawnAndCooldown, NEW u \in Units
    PROVE  GainsByRight(u)
<1>1. units[u] \in UnitSnapshots
  BY DEF IInv, UnitsOK
<1>2. CASE Returns(u)
  <2>1. units'[u].strength = UnitConfig[u].strength
    BY <1>1, <1>2 DEF DecrementRespawnAndCooldown, UnitSnapshots
  <2> QED
    BY <1>2, <2>1 DEF GainsByRight
<1>3. CASE ~Returns(u)
  <2>1. units'[u].strength = units[u].strength
    BY <1>1, <1>3 DEF DecrementRespawnAndCooldown, UnitSnapshots
  <2> QED
    BY <1>1, <2>1 DEF GainsByRight, UnitSnapshots
<1> QED
  BY <1>2, <1>3

LEMMA NextGains == ASSUME IInv, [Next]_vars, NEW u \in Units PROVE GainsByRight(u)
<1>1. units[u].strength \in Nat
  BY DEF IInv, UnitsOK, UnitSnapshots
<1>2. CASE units'[u].strength = units[u].strength
  BY <1>1, <1>2 DEF GainsByRight
<1>3. CASE units'[u].strength # units[u].strength
  <2>1. units' # units
    BY <1>3
  <2>2. ~(\/ UNCHANGED vars \/ SubmitOrder \/ GameStart \/ DiscardOrders \/ BeginTurn
          \/ RevertStalePaths \/ DecrementTempOpen \/ DecrementFortification \/ RunDetection
          \/ UpdateRegionControl \/ FinishTurn)
    BY <2>1 DEF vars, SubmitOrder, GameStart, DiscardOrders, BeginTurn, RevertStalePaths,
       DecrementTempOpen, DecrementFortification, RunDetection, UpdateRegionControl, FinishTurn,
       world
  <2> QED
    BY <1>3, <2>2, GroupGains, OtherGains, RespawnGains DEF Next, Tick
<1> QED
  BY <1>2, <1>3

\* No unit gains strength but by its return or by leaders of its own side.
THEOREM StrengthCorrect == Spec => StrengthFromLeaders
<1>1. IInv /\ [Next]_vars =>
        [\A u \in Units : units'[u].strength > units[u].strength =>
           \/ Returns(u) /\ units'[u].strength = UnitConfig[u].strength
           \/ /\ ~UnitConfig[u].leadership
              /\ units'[u].strength <= units[u].strength
                   + LeaderBonus({v \in Units : Active(v) /\ UnitConfig[v].side = UnitConfig[u].side})]_vars
  BY NextGains DEF GainsByRight, Comrades
<1> QED
  BY <1>1, Invariance, PTL DEF Spec, StrengthFromLeaders

=============================================================================
