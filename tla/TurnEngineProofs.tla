-------------------------- MODULE TurnEngineProofs --------------------------
(***************************************************************************)
(* What is proved of TurnEngine, for every map, every set of units and     *)
(* every menu of orders that satisfy the named assumptions.                *)
(***************************************************************************)
EXTENDS TurnEngine, FiniteSetTheorems, TLAPS

-----------------------------------------------------------------------------
(* Facts about the configuration and the combat formula.                   *)

\* CHOOSE picks the unit of class RingBearer that units.conf declares.
LEMMA RingBearerIsUnit == RingBearer \in Units /\ UnitConfig[RingBearer] \in UnitConfigs
BY RolesAssumption, UnitsAssumption DEF RingBearer

\* The bonus of the leaders in a group is a natural number (applyLeadership).
LEMMA LeaderBonusType ==
    ASSUME NEW S \in SUBSET Units
    PROVE  LeaderBonus(S) \in Nat
<1>1. IsFiniteSet(S)
  BY UnitsAssumption, FS_Subset
<1>2. IsFiniteSet(1..MaxLeadershipBonus)
  BY UnitsAssumption, FS_Interval
<1>3. IsFiniteSet(S \X (1..MaxLeadershipBonus))
  BY <1>1, <1>2, FS_Product
<1>4. IsFiniteSet({x \in S \X (1..MaxLeadershipBonus) :
                     /\ UnitConfig[x[1]].leadership
                     /\ x[2] <= UnitConfig[x[1]].leadershipBonus})
  BY <1>3, FS_Subset
<1> QED
  BY <1>4, FS_CardinalityType DEF LeaderBonus

\* Leadership never weakens a unit (applyLeadership).
LEMMA LedType ==
    ASSUME NEW S \in SUBSET Units, NEW u \in S, NEW str, str[u] \in Nat
    PROVE  Led(u, S, str) \in Nat /\ Led(u, S, str) >= str[u]
BY LeaderBonusType DEF Led

\* The other end of a path is a region (graph edges join regions).
LEMMA AcrossType ==
    ASSUME NEW p \in Paths, NEW r
    PROVE  Across(p, r) \in Regions
BY MapAssumption DEF Across

\* Taking a unit off the map leaves a snapshot (applyGroupAttack's write-back).
LEMMA FallenType ==
    ASSUME NEW x \in UnitSnapshots, NEW s \in UnitStatus, NEW k \in Nat
    PROVE  /\ Fallen(x, s, k) \in UnitSnapshots
           /\ Fallen(x, s, k).status = s /\ Fallen(x, s, k).region = Nowhere
           /\ Fallen(x, s, k).strength = 0 /\ Fallen(x, s, k).respawnTurns = k
<1>1. Nowhere \in Places
  BY DEF Places
<1> QED
  BY <1>1 DEF UnitSnapshots, Fallen

\* One point of damage: what the engine stores is a snapshot that satisfies
\* the lifecycle rule (applyDamage and the write-back in applyGroupAttack).
LEMMA StruckOK ==
    ASSUME NEW u \in Units, NEW x \in UnitSnapshots, SnapshotOK(u, x),
           x.status = "ACTIVE", NEW n \in Nat, n >= 1
    PROVE  Struck(u, x, n) \in UnitSnapshots /\ SnapshotOK(u, Struck(u, x, n))
<1> DEFINE wait == UnitConfig[u].respawnTurns
<1>1. wait \in Nat /\ (UnitConfig[u].respawns => wait \in 1..wait)
  BY UnitsAssumption DEF UnitConfigs
<1> HIDE DEF wait
<1>2. AfterHit(u, n) \in Nat /\ (UnitConfig[u].indestructible => AfterHit(u, n) > 0)
  BY DEF AfterHit
<1>3. "RESPAWNING" \in UnitStatus /\ "DESTROYED" \in UnitStatus /\ x.respawnTurns \in Nat
  BY DEF UnitStatus, UnitSnapshots
<1>4. CASE AfterHit(u, n) > 0
  BY <1>2, <1>4 DEF Struck, SnapshotOK, UnitSnapshots
<1>5. CASE AfterHit(u, n) = 0 /\ UnitConfig[u].respawns
  <2>1. Struck(u, x, n) = Fallen(x, "RESPAWNING", wait)
    BY <1>5 DEF Struck, wait
  <2>2. /\ Struck(u, x, n) \in UnitSnapshots
        /\ Struck(u, x, n).status = "RESPAWNING" /\ Struck(u, x, n).region = Nowhere
        /\ Struck(u, x, n).strength = 0
        /\ Struck(u, x, n).respawnTurns = wait
    BY <1>1, <1>3, <2>1, FallenType
  <2> QED
    BY <1>1, <1>2, <1>5, <2>2 DEF SnapshotOK, wait
<1>6. CASE AfterHit(u, n) = 0 /\ ~UnitConfig[u].respawns
  <2> DEFINE left == x.respawnTurns
  <2>0. left \in Nat
    BY <1>3
  <2>1. Struck(u, x, n) = Fallen(x, "DESTROYED", left)
    BY <1>6 DEF Struck
  <2> HIDE DEF left
  <2>2. /\ Struck(u, x, n) \in UnitSnapshots
        /\ Struck(u, x, n).status = "DESTROYED" /\ Struck(u, x, n).region = Nowhere
        /\ Struck(u, x, n).strength = 0
    BY <1>3, <2>0, <2>1, FallenType
  <2> QED
    BY <1>2, <1>6, <2>2 DEF SnapshotOK
<1> QED
  BY <1>2, <1>4, <1>5, <1>6

-----------------------------------------------------------------------------
(* The inductive invariant. TypeOK is not inductive by itself: the timers   *)
(* stay in Nat only because a running timer is never 0, which in turn holds *)
(* because each timer is started before the step that decrements it. The    *)
(* parts below bound every timer by the step of the turn that is due.       *)

UnitsOK(us, q) ==
    /\ us \in [Units -> UnitSnapshots]
    /\ \A u \in Units :
         /\ SnapshotOK(u, us[u])
         /\ us[u].status = "RESPAWNING" /\ q \notin {"attacks", "fortification", "respawn"} =>
              us[u].respawnTurns < UnitConfig[u].respawnTurns

PathsOK(ps, q) ==
    /\ ps \in [Paths -> PathStates]
    /\ \A p \in Paths : ps[p].status = "TEMPORARILY_OPEN" =>
         ps[p].tempOpenTurns \in 1..(IF q \in {"orders", "attacks"} THEN 3 ELSE 2)

RegionsOK(rs, q) ==
    /\ rs \in [Regions -> RegionStates]
    /\ \A r \in Regions : rs[r].fortified =>
         rs[r].fortifyTurns \in 1..(IF q \in {"orders", "attacks", "fortification"} THEN 2 ELSE 1)

RingOK == ring \in [trueRegion : Regions, exposed : BOOLEAN]

GameOK ==
    /\ darkView \in [turn : Nat, region : Places]
    /\ turn \in Nat
    /\ winner \in {"NONE", "FREE_PEOPLES", "SHADOW", "DRAW"}
    /\ starts \in Nat

QueueOK ==
    /\ orders \in Seq(Orders)
    /\ live \in SUBSET (1..Len(orders))
    /\ pc \in Steps
    /\ pc = "idle" => live = {}
    /\ battle \in Places

IInv == /\ UnitsOK(units, pc) /\ PathsOK(paths, pc) /\ RegionsOK(regions, pc)
        /\ RingOK /\ GameOK /\ QueueOK

LEMMA IInvImplies == IInv => TypeOK /\ LifecycleOK /\ TimersInWindow
<1> SUFFICES ASSUME IInv PROVE TypeOK /\ LifecycleOK /\ TimersInWindow
  OBVIOUS
<1>1. TypeOK
  BY DEF IInv, UnitsOK, PathsOK, RegionsOK, RingOK, GameOK, QueueOK, TypeOK
<1>2. LifecycleOK
  BY DEF IInv, UnitsOK, LifecycleOK
<1>3. ASSUME pc = "idle" PROVE
      /\ \A p \in Paths : paths[p].status = "TEMPORARILY_OPEN" => paths[p].tempOpenTurns \in 1..2
      /\ \A r \in Regions : regions[r].fortified => regions[r].fortifyTurns = 1
  BY <1>3 DEF IInv, PathsOK, RegionsOK
<1>4. ASSUME pc = "idle", NEW u \in Units, units[u].status = "RESPAWNING"
      PROVE  units[u].respawnTurns \in 1..(UnitConfig[u].respawnTurns - 1)
  BY <1>4, UnitsAssumption DEF IInv, UnitsOK, SnapshotOK, UnitConfigs
<1> QED
  BY <1>1, <1>2, <1>3, <1>4 DEF TimersInWindow

LEMMA InitIInv == Init => IInv
<1> SUFFICES ASSUME Init PROVE IInv
  OBVIOUS
<1>1. UnitsOK(units, pc)
  <2>1. ASSUME NEW u \in Units
        PROVE  /\ units[u] \in UnitSnapshots /\ units[u].status = "ACTIVE"
               /\ units[u].strength >= 1
               /\ u # RingBearer => units[u].region \in Regions
    BY UnitsAssumption DEF Init, UnitSnapshots, UnitConfigs, UnitStatus, Places
  <2>2. units \in [Units -> UnitSnapshots]
    BY <2>1 DEF Init
  <2> QED
    BY <2>1, <2>2 DEF UnitsOK, SnapshotOK
<1>2. PathsOK(paths, pc)
  BY DEF Init, PathsOK, PathStates, PathStatus
<1>3. RegionsOK(regions, pc)
  BY MapAssumption DEF Init, RegionsOK, RegionStates
<1>4. RingOK /\ GameOK
  BY RingBearerIsUnit DEF Init, RingOK, GameOK, Places, UnitConfigs
<1>5. QueueOK
  BY DEF Init, QueueOK, Steps, Places
<1> QED
  BY <1>1, <1>2, <1>3, <1>4, <1>5 DEF IInv

-----------------------------------------------------------------------------
(* One lemma per action, or per group of actions that change the same part. *)

LEMMA BodyType ==
    ASSUME IInv, NEW i \in live
    PROVE  orders[i].body \in OrderBodies
<1>1. i \in 1..Len(orders) /\ orders \in Seq(Orders)
  BY DEF IInv, QueueOK
<1>2. orders[i] \in Orders
  BY <1>1
<1> QED
  BY <1>2 DEF Orders

LEMMA SubmitIInv == IInv /\ SubmitOrder => IInv'
<1> SUFFICES ASSUME IInv, SubmitOrder PROVE IInv'
  OBVIOUS
<1>1. PICK b \in Menu, t \in 0..turn : orders' = Append(orders, [body |-> b, turn |-> t])
  BY DEF SubmitOrder
<1>2. [body |-> b, turn |-> t] \in Orders
  BY MenuAssumption DEF Orders, IInv, GameOK
<1>3. orders' \in Seq(Orders) /\ Len(orders') = Len(orders) + 1
  BY <1>1, <1>2 DEF IInv, QueueOK
<1>4. QueueOK'
  BY <1>3 DEF SubmitOrder, IInv, QueueOK
<1> QED
  BY <1>4 DEF SubmitOrder, IInv, RingOK, GameOK, world, game

LEMMA BetweenTurnsIInv == IInv /\ (GameStart \/ BeginTurn \/ DiscardOrders) => IInv'
<1> SUFFICES ASSUME IInv, GameStart \/ BeginTurn \/ DiscardOrders PROVE IInv'
  OBVIOUS
<1>1. CASE GameStart
  BY <1>1 DEF GameStart, IInv, RingOK, GameOK, QueueOK, world
<1>2. CASE BeginTurn
  <2>1. live' \in SUBSET (1..Len(orders'))
    BY <1>2 DEF BeginTurn, Accepted, Fresh, IInv, QueueOK
  <2>2. QueueOK'
    BY <1>2, <2>1 DEF BeginTurn, IInv, QueueOK, Steps
  <2>3. UnitsOK(units', pc') /\ PathsOK(paths', pc') /\ RegionsOK(regions', pc')
    BY <1>2 DEF BeginTurn, IInv, UnitsOK, PathsOK, RegionsOK, world
  <2> QED
    BY <1>2, <2>2, <2>3 DEF BeginTurn, IInv, RingOK, GameOK, world, game
<1>3. CASE DiscardOrders
  <2>1. live = {}
    BY <1>3 DEF DiscardOrders, IInv, QueueOK
  <2>2. QueueOK'
    BY <1>3, <2>1 DEF DiscardOrders, IInv, QueueOK
  <2> QED
    BY <1>3, <2>2 DEF DiscardOrders, IInv, RingOK, GameOK, world, game
<1> QED
  BY <1>1, <1>2, <1>3

\* What an applied order leaves of the queue.
LEMMA ConsumeOK ==
    ASSUME IInv, NEW i \in live, Consume(i)
    PROVE  QueueOK' /\ GameOK' /\ pc' = pc
BY DEF IInv, QueueOK, GameOK, Consume, game

\* The rest of the invariant when an order changes only units and paths, or regions.
LEMMA OrderOK ==
    ASSUME IInv, NEW i \in live, Consume(i), UNCHANGED ring,
           UnitsOK(units', pc), PathsOK(paths', pc), RegionsOK(regions', pc)
    PROVE  IInv'
BY ConsumeOK DEF IInv, RingOK

LEMMA AssignRouteIInv == ASSUME IInv, NEW i \in live, AssignRoute(i) PROVE IInv'
<1> DEFINE o == orders[i].body
<1>1. o.route \in Seq(Paths \cup {NoPath}) /\ o.unit \in Units
  BY BodyType DEF OrderBodies, AssignRoute, CanRoute
<1>2. \A u \in Units : /\ units[u] \in UnitSnapshots
                       /\ [units[u] EXCEPT !.route = o.route, !.routeIdx = 0] \in UnitSnapshots
  BY <1>1 DEF IInv, UnitsOK, UnitSnapshots
<1>3. units' = [u \in Units |-> IF u = o.unit THEN [units[u] EXCEPT !.route = o.route, !.routeIdx = 0]
                                ELSE units[u]]
  BY DEF AssignRoute, IInv, UnitsOK
<1>4. \A u \in Units : /\ units'[u] \in UnitSnapshots
                       /\ units'[u].status = units[u].status /\ units'[u].region = units[u].region
                       /\ units'[u].strength = units[u].strength
                       /\ units'[u].respawnTurns = units[u].respawnTurns
  BY <1>2, <1>3 DEF UnitSnapshots
<1>5. \A u \in Units : SnapshotOK(u, units[u]) => SnapshotOK(u, units'[u])
  BY <1>4 DEF SnapshotOK
<1>6. UnitsOK(units', pc)
  BY <1>3, <1>4, <1>5 DEF IInv, UnitsOK
<1> QED
  BY <1>6, OrderOK DEF AssignRoute, IInv

LEMMA BlockPathIInv == ASSUME IInv, NEW i \in live, BlockPath(i) PROVE IInv'
<1> DEFINE o == orders[i].body
<1>1. o.unit \in Units /\ "BLOCKED" \in PathStatus
  BY DEF BlockPath, CanBlock, PathStatus
<1>2. PathsOK(paths', pc)
  BY <1>1 DEF BlockPath, IInv, PathsOK, PathStates
<1> QED
  BY <1>2, OrderOK DEF BlockPath, IInv

LEMMA SearchPathIInv == ASSUME IInv, NEW i \in live, SearchPath(i) PROVE IInv'
<1> DEFINE o    == orders[i].body
           seen == IF paths[o.path].surveillance < 3 THEN paths[o.path].surveillance + 1
                   ELSE paths[o.path].surveillance
<1>1. o.path \in Paths /\ paths \in [Paths -> PathStates]
  BY DEF SearchPath, CanSearch, IInv, PathsOK
<1>2. seen \in 0..3
  BY <1>1 DEF PathStates
<1>3. paths' = [paths EXCEPT ![o.path] = [paths[o.path] EXCEPT !.surveillance = seen]]
  BY <1>1 DEF SearchPath
<1> HIDE DEF seen
<1>4. \A p \in Paths : /\ paths'[p] \in PathStates
                       /\ paths'[p].status = paths[p].status
                       /\ paths'[p].tempOpenTurns = paths[p].tempOpenTurns
  BY <1>1, <1>2, <1>3 DEF PathStates
<1>5. PathsOK(paths', pc)
  BY <1>1, <1>3, <1>4 DEF IInv, PathsOK
<1> QED
  BY <1>5, OrderOK DEF SearchPath, IInv

LEMMA ReinforceIInv == ASSUME IInv, NEW i \in live, Reinforce(i) PROVE IInv'
<1> DEFINE o == orders[i].body
           v == o.unit
<1>1. v \in Units /\ Active(v)
  BY DEF Reinforce, CanReinforce, CanDeploy
<1>2. o.region \in Places /\ (v # RingBearer => o.region \in Regions)
  <2>1. CASE CanDeploy(o)
    BY <2>1 DEF CanDeploy, Places
  <2>2. CASE CanReinforce(o) /\ units[v].region = o.region
    BY <1>1, <2>2 DEF IInv, UnitsOK, UnitSnapshots, SnapshotOK, Active
  <2>3. CASE CanReinforce(o) /\ Reachable(units[v].region, o.region)
    BY <2>3, MapAssumption DEF Reachable, PathsBetween, Endpoints, Places
  <2> QED
    BY <2>1, <2>2, <2>3 DEF Reinforce, CanReinforce
<1>3. units' = [u \in Units |-> IF u = v THEN [units[u] EXCEPT !.region = o.region] ELSE units[u]]
  BY DEF Reinforce, IInv, UnitsOK
<1> HIDE DEF v
<1>4. [units[v] EXCEPT !.region = o.region] \in UnitSnapshots
  BY <1>1, <1>2 DEF IInv, UnitsOK, UnitSnapshots
<1>5. ASSUME NEW u \in Units
      PROVE  /\ units'[u] \in UnitSnapshots /\ SnapshotOK(u, units'[u])
             /\ units'[u].status = units[u].status
             /\ units'[u].respawnTurns = units[u].respawnTurns
  <2>1. units[u] \in UnitSnapshots /\ SnapshotOK(u, units[u])
    BY DEF IInv, UnitsOK
  <2>2. CASE u # v
    BY <1>3, <2>1, <2>2
  <2>3. CASE u = v
    <3>1. /\ units'[u].status = "ACTIVE" /\ units[u].status = "ACTIVE"
          /\ units'[u].strength = units[u].strength
          /\ units'[u].region = o.region
          /\ units'[u].respawnTurns = units[u].respawnTurns
      BY <1>1, <1>3, <2>1, <2>3 DEF Active, UnitSnapshots
    <3> QED
      BY <1>2, <1>3, <1>4, <2>1, <2>3, <3>1 DEF SnapshotOK
  <2> QED
    BY <2>2, <2>3
<1>6. UnitsOK(units', pc)
  BY <1>3, <1>5 DEF IInv, UnitsOK
<1> QED
  BY <1>6, OrderOK DEF Reinforce, IInv

LEMMA FortifyIInv == ASSUME IInv, NEW i \in live, Fortify(i) PROVE IInv'
<1> DEFINE o == orders[i].body
           here == units[o.unit].region
<1>1. o.type = "FORTIFY_REGION" /\ here \in Regions /\ Due(i)
  BY DEF Fortify, CanFortify
<1>2. pc = "orders"
  BY <1>1 DEF Due, Step, StepOf
<1>3. regions' = [r \in Regions |-> IF r = here THEN [regions[r] EXCEPT !.fortified = TRUE,
                                                                      !.fortifyTurns = 2]
                                    ELSE regions[r]]
  BY DEF Fortify, IInv, RegionsOK
<1> HIDE DEF here
<1>4. ASSUME NEW r \in Regions
      PROVE  /\ regions'[r] \in RegionStates
             /\ regions'[r].fortified => regions'[r].fortifyTurns \in 1..2
  <2>1. regions[r] \in RegionStates /\ (regions[r].fortified => regions[r].fortifyTurns \in 1..2)
    BY <1>2 DEF IInv, RegionsOK
  <2>2. CASE r # here
    BY <1>3, <2>1, <2>2 DEF IInv, RegionsOK
  <2>3. CASE r = here
    <3>1. regions'[r] = [regions[r] EXCEPT !.fortified = TRUE, !.fortifyTurns = 2]
      BY <1>3, <2>3
    <3>2. regions'[r].fortified /\ regions'[r].fortifyTurns = 2
      BY <2>1, <3>1 DEF RegionStates
    <3>3. [regions[r] EXCEPT !.fortified = TRUE, !.fortifyTurns = 2] \in RegionStates
      BY <2>1 DEF RegionStates
    <3> QED
      BY <3>1, <3>2, <3>3
  <2> QED
    BY <2>2, <2>3
<1>5. RegionsOK(regions', pc)
  BY <1>1, <1>2, <1>3, <1>4 DEF IInv, RegionsOK
<1> QED
  BY <1>5, OrderOK DEF Fortify, IInv

\* A unit that uses its ability only starts its cooldown.
LEMMA CooldownOK ==
    ASSUME IInv, NEW v \in Units, units' = [units EXCEPT ![v].cooldown = UnitConfig[v].cooldown]
    PROVE  UnitsOK(units', pc)
<1>1. \A u \in Units : units'[u] \in UnitSnapshots
                       /\ units'[u].status = units[u].status /\ units'[u].region = units[u].region
                       /\ units'[u].strength = units[u].strength
                       /\ units'[u].respawnTurns = units[u].respawnTurns
  BY UnitsAssumption DEF IInv, UnitsOK, UnitSnapshots, UnitConfigs
<1> QED
  BY <1>1 DEF IInv, UnitsOK, SnapshotOK

LEMMA AbilityIInv == ASSUME IInv, NEW i \in live, CorruptPath(i) \/ OpenPath(i) PROVE IInv'
<1> DEFINE o == orders[i].body
<1>1. o.unit \in Units /\ o.path \in Paths /\ o.type = "MAIA_ABILITY" /\ Due(i)
  BY DEF CorruptPath, OpenPath, CanCorrupt, CanOpen, CanCast
<1>2. pc = "orders"
  BY <1>1 DEF Due, Step, StepOf
<1>3. "CORRUPTED" \in PathStatus /\ "TEMPORARILY_OPEN" \in PathStatus
  BY DEF PathStatus
<1>0. paths \in [Paths -> PathStates]
  BY DEF IInv, PathsOK
<1>a. ASSUME CorruptPath(i) PROVE PathsOK(paths', pc)
  <2> DEFINE new == [paths[o.path] EXCEPT !.surveillance = 3, !.status = "CORRUPTED"]
  <2>0. paths[o.path] \in PathStates /\ 3 \in 0..3
    BY <1>1, <1>0
  <2>1. new \in PathStates /\ new.status = "CORRUPTED"
    BY <1>3, <2>0 DEF PathStates
  <2>2. paths' = [q \in Paths |-> IF q = o.path THEN new ELSE paths[q]]
    BY <1>a, <1>1, <1>0 DEF CorruptPath
  <2> HIDE DEF new
  <2> QED
    BY <1>1, <1>0, <2>1, <2>2 DEF IInv, PathsOK
<1>b. ASSUME OpenPath(i) PROVE PathsOK(paths', pc)
  <2> DEFINE new == [paths[o.path] EXCEPT !.status = "TEMPORARILY_OPEN", !.tempOpenTurns = 3]
  <2>0. paths[o.path] \in PathStates
    BY <1>1, <1>0
  <2>1. new \in PathStates /\ new.tempOpenTurns = 3
    BY <1>3, <2>0 DEF PathStates
  <2>2. paths' = [q \in Paths |-> IF q = o.path THEN new ELSE paths[q]]
    BY <1>b, <1>1, <1>0 DEF OpenPath
  <2> HIDE DEF new
  <2>3. 3 \in 1..(IF pc \in {"orders", "attacks"} THEN 3 ELSE 2)
    BY <1>2
  <2> QED
    BY <1>1, <1>0, <2>1, <2>2, <2>3 DEF IInv, PathsOK
<1>4. PathsOK(paths', pc)
  BY <1>a, <1>b
<1>5. UnitsOK(units', pc)
  BY <1>1, CooldownOK DEF CorruptPath, OpenPath
<1> QED
  BY <1>4, <1>5, OrderOK DEF CorruptPath, OpenPath, IInv

LEMMA RejectIInv == ASSUME IInv, NEW i \in live, RejectOrder(i) PROVE IInv'
BY OrderOK DEF RejectOrder, IInv, world

\* A part stays true while the turn moves on, unless it leaves a timer's window.
LEMMA UnitsLater ==
    ASSUME NEW us, NEW q, NEW r, UnitsOK(us, q),
           \/ q \notin {"attacks", "fortification", "respawn"}
           \/ r \in {"attacks", "fortification", "respawn"}
    PROVE  UnitsOK(us, r)
BY DEF UnitsOK

LEMMA PathsLater ==
    ASSUME NEW ps, NEW q, NEW r, PathsOK(ps, q),
           q \notin {"orders", "attacks"} \/ r \in {"orders", "attacks"}
    PROVE  PathsOK(ps, r)
BY DEF PathsOK

LEMMA RegionsLater ==
    ASSUME NEW rs, NEW q, NEW r, RegionsOK(rs, q),
           \/ q \notin {"orders", "attacks", "fortification"}
           \/ r \in {"orders", "attacks", "fortification"}
    PROVE  RegionsOK(rs, r)
BY DEF RegionsOK

LEMMA RevertIInv == IInv /\ RevertStalePaths => IInv'
<1> SUFFICES ASSUME IInv, RevertStalePaths PROVE IInv'
  OBVIOUS
<1>1. pc = "routes" /\ pc' = "orders"
  BY DEF RevertStalePaths
<1>2. ASSUME NEW p \in Paths
      PROVE  /\ paths'[p] \in PathStates
             /\ paths'[p].status = "TEMPORARILY_OPEN" => paths'[p].tempOpenTurns \in 1..3
  <2>1. /\ paths[p] \in PathStates
        /\ paths[p].status = "TEMPORARILY_OPEN" => paths[p].tempOpenTurns \in 1..2
    BY <1>1 DEF IInv, PathsOK
  <2>2. "OPEN" \in PathStatus
    BY DEF PathStatus
  <2> DEFINE lifted == [paths[p] EXCEPT !.status = "OPEN", !.blockedBy = NoUnit]
  <2>3. lifted \in PathStates /\ lifted.status = "OPEN"
    BY <2>1, <2>2 DEF PathStates
  <2>4. paths'[p] = paths[p] \/ paths'[p] = lifted
    BY DEF RevertStalePaths
  <2> HIDE DEF lifted
  <2> QED
    BY <2>1, <2>3, <2>4
<1>6. paths' = [p \in Paths |-> paths'[p]]
  BY DEF RevertStalePaths
<1>3. PathsOK(paths', pc')
  BY <1>1, <1>2, <1>6 DEF PathsOK
<1>4. UnitsOK(units', pc') /\ RegionsOK(regions', pc')
  BY <1>1, UnitsLater, RegionsLater DEF RevertStalePaths, IInv
<1>5. RingOK' /\ GameOK'
  BY DEF RevertStalePaths, IInv, RingOK, GameOK, game
<1>7. QueueOK'
  BY <1>1 DEF RevertStalePaths, IInv, QueueOK, Steps
<1> QED
  BY <1>3, <1>4, <1>5, <1>7 DEF IInv

\* One path along its route leaves a unit's snapshot well formed (autoAdvance).
LEMMA AdvanceOK ==
    ASSUME NEW u \in Units, NEW x \in UnitSnapshots, SnapshotOK(u, x), x.status = "ACTIVE",
           NEW r \in Places, u # RingBearer => r \in Regions,
           NEW y, y = [x EXCEPT !.region = r, !.routeIdx = @ + 1]
    PROVE  y \in UnitSnapshots /\ SnapshotOK(u, y) /\ y.status = "ACTIVE"
<1>1. y \in UnitSnapshots
  <2> DEFINE next == x.routeIdx + 1
  <2>1. next \in Nat
    BY DEF UnitSnapshots
  <2>2. y = [x EXCEPT !.region = r, !.routeIdx = next]
    OBVIOUS
  <2> HIDE DEF next
  <2> QED
    BY <2>1, <2>2 DEF UnitSnapshots
<1>2. y.status = "ACTIVE" /\ y.region = r /\ y.strength = x.strength
  BY DEF UnitSnapshots
<1>3. SnapshotOK(u, y)
  BY <1>2 DEF SnapshotOK
<1> QED
  BY <1>1, <1>2, <1>3

LEMMA AutoAdvanceIInv == IInv /\ AutoAdvance => IInv'
<1> SUFFICES ASSUME IInv, AutoAdvance PROVE IInv'
  OBVIOUS
<1>1. pc = "orders" /\ pc' = "attacks"
  BY DEF AutoAdvance
<1>2. ASSUME NEW u \in Units
      PROVE  /\ units'[u] \in UnitSnapshots /\ SnapshotOK(u, units'[u])
             /\ units'[u].status = units[u].status
  <2>1. units[u] \in UnitSnapshots /\ SnapshotOK(u, units[u])
    BY DEF IInv, UnitsOK
  <2>2. CASE ~Advances(u)
    BY <2>1, <2>2 DEF AutoAdvance
  <2>3. CASE Advances(u)
    <3> DEFINE dest == IF u = RingBearer THEN units[u].region
                       ELSE Across(NextPath(u), units[u].region)
    <3>1. units[u].status = "ACTIVE" /\ NextPath(u) \in Paths
      BY <2>3 DEF Advances, Active
    <3>2. dest \in Places /\ (u # RingBearer => dest \in Regions)
      BY <2>1, <3>1, AcrossType DEF Places, UnitSnapshots
    <3>3. units'[u] = [units[u] EXCEPT !.region = dest, !.routeIdx = @ + 1]
      BY <2>3 DEF AutoAdvance
    <3> HIDE DEF dest
    <3>4. PICK x, y : x = units[u] /\ y = units'[u]
      OBVIOUS
    <3>5. y = [x EXCEPT !.region = dest, !.routeIdx = @ + 1]
      BY <3>3, <3>4
    <3>6. x \in UnitSnapshots /\ SnapshotOK(u, x) /\ x.status = "ACTIVE"
      BY <2>1, <3>1, <3>4
    <3>7. y \in UnitSnapshots /\ SnapshotOK(u, y) /\ y.status = "ACTIVE"
      BY <3>2, <3>5, <3>6, AdvanceOK
    <3> QED
      BY <3>4, <3>6, <3>7
  <2> QED
    BY <2>2, <2>3
<1>3. UnitsOK(units', pc')
  BY <1>1, <1>2 DEF AutoAdvance, UnitsOK
<1>4. RingOK'
  <2>1. ring'.trueRegion \in Regions
    BY AcrossType DEF AutoAdvance, Advances, IInv, RingOK
  <2>2. (ring.exposed \/ Spotted) \in BOOLEAN
    BY DEF IInv, RingOK
  <2> QED
    BY <2>1, <2>2 DEF AutoAdvance, RingOK
<1>5. PathsOK(paths', pc') /\ RegionsOK(regions', pc') /\ GameOK'
  BY <1>1, PathsLater, RegionsLater DEF AutoAdvance, IInv, GameOK, game
<1>6. QueueOK'
  BY <1>1 DEF AutoAdvance, IInv, QueueOK, Steps, Places
<1> QED
  BY <1>3, <1>4, <1>5, <1>6 DEF IInv

-----------------------------------------------------------------------------
(* The battles of step 8.                                                  *)

LEMMA GroupOK ==
    ASSUME IInv, NEW t \in Places, NEW s \in Sides, GroupDue(t, s), EndGroup(t, s),
           UnitsOK(units', pc), RegionsOK(regions', pc)
    PROVE  IInv'
<1>1. QueueOK'
  BY DEF IInv, QueueOK, GroupDue, EndGroup, game
<1>2. RingOK' /\ GameOK' /\ PathsOK(paths', pc') /\ pc' = pc
  BY DEF IInv, RingOK, GameOK, EndGroup, game
<1> QED
  BY <1>1, <1>2 DEF IInv

\* The two groups that meet are active units with at least one strength.
LEMMA FightersOK ==
    ASSUME IInv, NEW t, NEW s \in Sides
    PROVE  /\ Attackers(t, s) \in SUBSET Units /\ Defenders(t, s) \in SUBSET Units
           /\ \A u \in Attackers(t, s) \cup Defenders(t, s) :
                 units[u].status = "ACTIVE" /\ units[u].strength \in Nat /\ units[u].strength >= 1
<1>1. Attackers(t, s) \in SUBSET Units /\ Defenders(t, s) \in SUBSET Units
  BY DEF Attackers, Defenders, GroupOrders
<1>2. \A u \in Attackers(t, s) \cup Defenders(t, s) : u \in Units /\ units[u].status = "ACTIVE"
  BY <1>1 DEF Attackers, CanAttack, Defenders, Active
<1> QED
  BY <1>1, <1>2 DEF IInv, UnitsOK, UnitSnapshots, SnapshotOK

\* An active unit that is placed in a region with some strength stays well formed.
LEMMA PlacedOK ==
    ASSUME NEW u \in Units, NEW x \in UnitSnapshots, SnapshotOK(u, x), x.status = "ACTIVE",
           NEW t \in Regions, NEW n \in Nat, n >= 1,
           NEW y, \/ y = [x EXCEPT !.region = t, !.strength = n]
                  \/ y = [x EXCEPT !.region = t]
                  \/ y = [x EXCEPT !.strength = n]
    PROVE  y \in UnitSnapshots /\ SnapshotOK(u, y)
<1>1. y \in UnitSnapshots
  BY DEF UnitSnapshots, Places
<1>2. /\ y.status = "ACTIVE" /\ y.region \in {t, x.region}
      /\ y.strength \in {n, x.strength}
  BY DEF UnitSnapshots
<1> QED
  BY <1>1, <1>2 DEF SnapshotOK

\* The Maia that falls with Isengard may keep its place (disableSaruman).
LEMMA DisabledOK ==
    ASSUME NEW u \in IsengardMaia, NEW x \in UnitSnapshots
    PROVE  /\ [x EXCEPT !.status = "DESTROYED"] \in UnitSnapshots
           /\ SnapshotOK(u, [x EXCEPT !.status = "DESTROYED"])
<1>1. "DESTROYED" \in UnitStatus
  BY DEF UnitStatus
<1>2. [x EXCEPT !.status = "DESTROYED"] \in UnitSnapshots
  BY <1>1 DEF UnitSnapshots
<1>3. [x EXCEPT !.status = "DESTROYED"].status = "DESTROYED"
  BY DEF UnitSnapshots
<1> QED
  BY <1>2, <1>3 DEF SnapshotOK

\* What the led strength of a fighter does to its snapshot.
LEMMA FoughtOK ==
    ASSUME IInv, NEW t \in Regions, NEW s \in Sides,
           NEW S \in {Attackers(t, s), Defenders(t, s)}, NEW u \in S
    PROVE  /\ u \in Units /\ units[u] \in UnitSnapshots /\ SnapshotOK(u, units[u])
           /\ units[u].status = "ACTIVE"
           /\ Led(u, S, Strength) \in Nat /\ Led(u, S, Strength) >= 1
<1>1. S \in SUBSET Units /\ units[u].status = "ACTIVE"
      /\ units[u].strength \in Nat /\ units[u].strength >= 1
  BY FightersOK
<1>2. Strength[u] = units[u].strength
  BY <1>1 DEF Strength
<1>3. Led(u, S, Strength) \in Nat /\ Led(u, S, Strength) >= Strength[u]
  BY <1>1, <1>2, LedType
<1>4. units[u] \in UnitSnapshots /\ SnapshotOK(u, units[u])
  BY <1>1 DEF IInv, UnitsOK
<1> QED
  BY <1>1, <1>2, <1>3, <1>4

LEMMA BattleUnitsOK ==
    ASSUME IInv, pc = "attacks", units' = [u \in Units |-> units'[u]],
           \A u \in Units : units'[u] \in UnitSnapshots /\ SnapshotOK(u, units'[u])
    PROVE  UnitsOK(units', pc)
BY DEF UnitsOK

LEMMA UncontestedIInv ==
    ASSUME IInv, NEW t \in Places, NEW s \in Sides, Uncontested(t, s)
    PROVE  IInv'
<1>1. GroupDue(t, s) /\ EndGroup(t, s) /\ t \in Regions /\ pc = "attacks"
  BY DEF Uncontested, GroupDue
<1>2. ASSUME NEW u \in Units
      PROVE  units'[u] \in UnitSnapshots /\ SnapshotOK(u, units'[u])
  <2>1. CASE u \in Attackers(t, s)
    <3>1. PICK x, y : x = units[u] /\ y = units'[u]
      OBVIOUS
    <3>2. x \in UnitSnapshots /\ SnapshotOK(u, x) /\ x.status = "ACTIVE"
      BY <1>1, <2>1, <3>1, FoughtOK
    <3>3. y = [x EXCEPT !.region = t]
      BY <2>1, <3>1 DEF Uncontested
    <3>4. y \in UnitSnapshots /\ SnapshotOK(u, y)
      <4>1. 1 \in Nat /\ 1 >= 1
        OBVIOUS
      <4> QED
        BY <1>1, <3>2, <3>3, <4>1, PlacedOK
    <3> QED
      BY <3>1, <3>4
  <2>2. CASE u \notin Attackers(t, s)
    BY <2>2 DEF Uncontested, IInv, UnitsOK
  <2> QED
    BY <2>1, <2>2
<1>3. UnitsOK(units', pc)
  BY <1>1, <1>2, BattleUnitsOK DEF Uncontested
<1>4. RegionsOK(regions', pc)
  BY DEF Uncontested, IInv, RegionsOK, RegionStates, Controllers
<1> QED
  BY <1>1, <1>3, <1>4, GroupOK

LEMMA AttackWonIInv ==
    ASSUME IInv, NEW t \in Places, NEW s \in Sides, AttackWon(t, s)
    PROVE  IInv'
<1>1. GroupDue(t, s) /\ EndGroup(t, s) /\ t \in Regions /\ pc = "attacks"
  BY DEF AttackWon, GroupDue
<1> DEFINE A == Attackers(t, s)
           D == Defenders(t, s)
           Fought(u, hit) ==
             IF u \in A THEN [units[u] EXCEPT !.region = t, !.strength = Led(u, A, Strength)]
             ELSE IF u \in hit THEN Struck(u, units[u], Led(u, D, Strength))
             ELSE IF u \in D THEN [units[u] EXCEPT !.strength = Led(u, D, Strength)]
             ELSE units[u]
<1>2. PICK hit \in SUBSET D :
        units' = [u \in Units |-> IF Disables(u, t, s)
                                  THEN [Fought(u, hit) EXCEPT !.status = "DESTROYED"]
                                  ELSE Fought(u, hit)]
  BY DEF AttackWon, HitGroups, kSubset
<1>3. ASSUME NEW u \in Units
      PROVE  Fought(u, hit) \in UnitSnapshots /\ SnapshotOK(u, Fought(u, hit))
  <2>1. CASE u \in A
    <3>1. PICK x, n : x = units[u] /\ n = Led(u, A, Strength)
      OBVIOUS
    <3>2. /\ x \in UnitSnapshots /\ SnapshotOK(u, x) /\ x.status = "ACTIVE"
          /\ n \in Nat /\ n >= 1
      BY <1>1, <2>1, <3>1, FoughtOK
    <3>3. PICK y : y = Fought(u, hit)
      OBVIOUS
    <3>4. y = [x EXCEPT !.region = t, !.strength = n]
      BY <2>1, <3>1, <3>3
    <3> HIDE DEF Fought
    <3> QED
      BY <1>1, <3>2, <3>3, <3>4, PlacedOK
  <2>2. CASE u \notin A /\ u \in D
    <3>1. PICK x, n : x = units[u] /\ n = Led(u, D, Strength)
      OBVIOUS
    <3>2. /\ x \in UnitSnapshots /\ SnapshotOK(u, x) /\ x.status = "ACTIVE"
          /\ n \in Nat /\ n >= 1
      BY <1>1, <2>2, <3>1, FoughtOK
    <3>3. PICK y : y = Fought(u, hit)
      OBVIOUS
    <3>4. y = Struck(u, x, n) \/ y = [x EXCEPT !.strength = n]
      BY <2>2, <3>1, <3>3
    <3> HIDE DEF Fought
    <3> QED
      BY <1>1, <3>2, <3>3, <3>4, PlacedOK, StruckOK
  <2>3. CASE u \notin A /\ u \notin D
    BY <2>3 DEF IInv, UnitsOK
  <2> QED
    BY <2>1, <2>2, <2>3
<1> HIDE DEF Fought
<1>4. ASSUME NEW u \in Units
      PROVE  units'[u] \in UnitSnapshots /\ SnapshotOK(u, units'[u])
  <2>1. CASE Disables(u, t, s)
    <3>1. u \in IsengardMaia
      BY <2>1 DEF Disables
    <3>2. units'[u] = [Fought(u, hit) EXCEPT !.status = "DESTROYED"]
      BY <1>2, <2>1
    <3> QED
      BY <1>3, <3>1, <3>2, DisabledOK
  <2>2. CASE ~Disables(u, t, s)
    BY <1>2, <1>3, <2>2
  <2> QED
    BY <2>1, <2>2
<1>5. UnitsOK(units', pc)
  BY <1>1, <1>2, <1>4, BattleUnitsOK
<1>6. RegionsOK(regions', pc)
  <2>1. regions' = [r \in Regions |-> IF r = t THEN [regions[r] EXCEPT !.controlledBy = s,
                                                                      !.fortified = FALSE]
                                      ELSE regions[r]]
    BY DEF AttackWon, IInv, RegionsOK
  <2>2. ASSUME NEW x \in RegionStates, NEW y,
               y = [x EXCEPT !.controlledBy = s, !.fortified = FALSE]
        PROVE  y \in RegionStates /\ ~y.fortified
    BY <2>2 DEF RegionStates, Controllers
  <2>3. ASSUME NEW r \in Regions
        PROVE  regions'[r] \in RegionStates /\ (regions'[r] = regions[r] \/ ~regions'[r].fortified)
    <3>1. regions[r] \in RegionStates
      BY DEF IInv, RegionsOK
    <3>2. CASE r = t
      <4>1. PICK x, y : x = regions[r] /\ y = regions'[r]
        OBVIOUS
      <4>2. y = [x EXCEPT !.controlledBy = s, !.fortified = FALSE]
        BY <2>1, <3>2, <4>1
      <4>3. x \in RegionStates
        BY <3>1, <4>1
      <4>4. y \in RegionStates /\ ~y.fortified
        BY <2>2, <4>2, <4>3
      <4> QED
        BY <4>1, <4>4
    <3>3. CASE r # t
      BY <2>1, <3>1, <3>3
    <3> QED
      BY <3>2, <3>3
  <2> QED
    BY <2>1, <2>3 DEF IInv, RegionsOK
<1> QED
  BY <1>1, <1>5, <1>6, GroupOK

LEMMA AttackHeldIInv ==
    ASSUME IInv, NEW t \in Places, NEW s \in Sides, AttackHeld(t, s)
    PROVE  IInv'
<1>1. GroupDue(t, s) /\ EndGroup(t, s) /\ t \in Regions /\ pc = "attacks"
  BY DEF AttackHeld, GroupDue
<1>2. ASSUME NEW u \in Units
      PROVE  units'[u] \in UnitSnapshots /\ SnapshotOK(u, units'[u])
  <2>1. CASE u \in Attackers(t, s) \cup Defenders(t, s)
    <3>1. PICK S \in {Attackers(t, s), Defenders(t, s)} :
            /\ u \in S
            /\ \/ units'[u] = Struck(u, units[u], Led(u, S, Strength))
               \/ units'[u] = [units[u] EXCEPT !.strength = Led(u, S, Strength)]
      BY <2>1 DEF AttackHeld
    <3>2. PICK x, y, n : x = units[u] /\ y = units'[u] /\ n = Led(u, S, Strength)
      OBVIOUS
    <3>3. /\ x \in UnitSnapshots /\ SnapshotOK(u, x) /\ x.status = "ACTIVE"
          /\ n \in Nat /\ n >= 1
      BY <1>1, <3>1, <3>2, FoughtOK
    <3>4. y = Struck(u, x, n) \/ y = [x EXCEPT !.strength = n]
      BY <3>1, <3>2
    <3>5. y \in UnitSnapshots /\ SnapshotOK(u, y)
      BY <1>1, <3>3, <3>4, PlacedOK, StruckOK
    <3> QED
      BY <3>2, <3>5
  <2>2. CASE u \notin Attackers(t, s) \cup Defenders(t, s)
    BY <2>2 DEF AttackHeld, IInv, UnitsOK
  <2> QED
    BY <2>1, <2>2
<1>3. UnitsOK(units', pc)
  BY <1>1, <1>2, BattleUnitsOK DEF AttackHeld
<1>4. RegionsOK(regions', pc)
  BY DEF AttackHeld, IInv
<1> QED
  BY <1>1, <1>3, <1>4, GroupOK

LEMMA GroupIInv ==
    ASSUME IInv, NEW t \in Places, NEW s \in Sides, ResolveGroup(t, s)
    PROVE  IInv'
<1>1. CASE AttackFails(t, s)
  BY <1>1, GroupOK DEF AttackFails, IInv
<1> QED
  BY <1>1, UncontestedIInv, AttackWonIInv, AttackHeldIInv DEF ResolveGroup

-----------------------------------------------------------------------------
(* Steps 9 to 13.                                                          *)

\* A step of the clockwork: pc moves on, and little else changes.
LEMMA ClockworkOK ==
    ASSUME IInv, pc # "idle", pc' \in Steps, pc' # "idle", UNCHANGED <<orders, live, battle>>
    PROVE  QueueOK'
BY DEF IInv, QueueOK

LEMMA DecrementTempOpenIInv == IInv /\ DecrementTempOpen => IInv'
<1> SUFFICES ASSUME IInv, DecrementTempOpen PROVE IInv'
  OBVIOUS
<1>1. pc = "attacks" /\ pc' = "fortification" /\ UNCHANGED <<units, regions, ring, game>>
  BY DEF DecrementTempOpen
<1>2. ASSUME NEW p \in Paths
      PROVE  /\ paths'[p] \in PathStates
             /\ paths'[p].status = "TEMPORARILY_OPEN" => paths'[p].tempOpenTurns \in 1..2
  <2>1. /\ paths[p] \in PathStates
        /\ paths[p].status = "TEMPORARILY_OPEN" => paths[p].tempOpenTurns \in 1..3
    BY <1>1 DEF IInv, PathsOK
  <2>2. CASE paths[p].status # "TEMPORARILY_OPEN"
    BY <2>1, <2>2 DEF DecrementTempOpen
  <2>3. CASE paths[p].status = "TEMPORARILY_OPEN"
    <3> DEFINE left == paths[p].tempOpenTurns - 1
               next == IF paths[p].tempOpenTurns > 1 THEN paths[p].status
                       ELSE IF paths[p].blockedBy # NoUnit THEN "BLOCKED" ELSE "OPEN"
    <3>1. left \in 0..2 /\ (left = 0 => next # "TEMPORARILY_OPEN")
      BY <2>1, <2>3
    <3>2. next \in PathStatus
      BY <2>3 DEF PathStatus
    <3>3. paths'[p] = [paths[p] EXCEPT !.tempOpenTurns = left, !.status = next]
      BY <2>3 DEF DecrementTempOpen
    <3> HIDE DEF left, next
    <3>4. left \in Nat
      BY <3>1
    <3>5. paths'[p] \in PathStates /\ paths'[p].status = next /\ paths'[p].tempOpenTurns = left
      BY <2>1, <3>2, <3>3, <3>4 DEF PathStates
    <3> QED
      BY <3>1, <3>5
  <2> QED
    BY <2>2, <2>3
<1>3. paths' = [p \in Paths |-> paths'[p]]
  BY DEF DecrementTempOpen
<1>4. PathsOK(paths', pc')
  BY <1>1, <1>2, <1>3 DEF PathsOK
<1>5. UnitsOK(units', pc') /\ RegionsOK(regions', pc')
  BY <1>1, UnitsLater, RegionsLater DEF IInv
<1>6. RingOK' /\ GameOK' /\ QueueOK'
  BY <1>1, ClockworkOK DEF DecrementTempOpen, IInv, RingOK, GameOK, game, Steps
<1> QED
  BY <1>4, <1>5, <1>6 DEF IInv

LEMMA DecrementFortificationIInv == IInv /\ DecrementFortification => IInv'
<1> SUFFICES ASSUME IInv, DecrementFortification PROVE IInv'
  OBVIOUS
<1>1. pc = "fortification" /\ pc' = "respawn" /\ UNCHANGED <<units, paths, ring, game>>
  BY DEF DecrementFortification
<1>2. ASSUME NEW r \in Regions
      PROVE  /\ regions'[r] \in RegionStates
             /\ regions'[r].fortified => regions'[r].fortifyTurns \in 1..1
  <2>1. /\ regions[r] \in RegionStates
        /\ regions[r].fortified => regions[r].fortifyTurns \in 1..2
    BY <1>1 DEF IInv, RegionsOK
  <2>2. CASE ~regions[r].fortified
    BY <2>1, <2>2 DEF DecrementFortification
  <2>3. CASE regions[r].fortified
    <3> DEFINE left == regions[r].fortifyTurns - 1
               still == regions[r].fortifyTurns > 1
    <3>1. left \in 0..1 /\ still \in BOOLEAN /\ (still => left = 1)
      BY <2>1, <2>3
    <3>2. regions'[r] = [regions[r] EXCEPT !.fortifyTurns = left, !.fortified = still]
      BY <2>3 DEF DecrementFortification
    <3> HIDE DEF left, still
    <3>3. left \in Nat
      BY <3>1
    <3>4. regions'[r] \in RegionStates
      BY <2>1, <3>1, <3>2, <3>3 DEF RegionStates
    <3>5. regions'[r].fortified = still /\ regions'[r].fortifyTurns = left
      BY <2>1, <3>2 DEF RegionStates
    <3> QED
      BY <3>1, <3>4, <3>5
  <2> QED
    BY <2>2, <2>3
<1>3. regions' = [r \in Regions |-> regions'[r]]
  BY DEF DecrementFortification
<1>4. RegionsOK(regions', pc')
  BY <1>1, <1>2, <1>3 DEF RegionsOK
<1>5. UnitsOK(units', pc') /\ PathsOK(paths', pc')
  BY <1>1, UnitsLater, PathsLater DEF IInv
<1>6. RingOK' /\ GameOK' /\ QueueOK'
  BY <1>1, ClockworkOK DEF DecrementFortification, IInv, RingOK, GameOK, game, Steps
<1> QED
  BY <1>4, <1>5, <1>6 DEF IInv

LEMMA RespawnIInv == IInv /\ DecrementRespawnAndCooldown => IInv'
<1> SUFFICES ASSUME IInv, DecrementRespawnAndCooldown PROVE IInv'
  OBVIOUS
<1>1. pc = "respawn" /\ pc' = "detection" /\ UNCHANGED <<paths, regions, ring, game>>
  BY DEF DecrementRespawnAndCooldown
<1> DEFINE Waited(u) ==
             IF Returns(u)
             THEN [units[u] EXCEPT !.respawnTurns = 0, !.status = "ACTIVE",
                                   !.region = UnitConfig[u].start,
                                   !.strength = UnitConfig[u].strength]
             ELSE IF units[u].status = "RESPAWNING"
             THEN [units[u] EXCEPT !.respawnTurns = @ - 1]
             ELSE units[u]
\* Back home at full strength.
<1>2. ASSUME NEW u \in Units, Returns(u)
      PROVE  /\ Waited(u) \in UnitSnapshots /\ SnapshotOK(u, Waited(u))
             /\ Waited(u).status = "ACTIVE"
  <2> DEFINE home == UnitConfig[u].start
             full == UnitConfig[u].strength
  <2>1. home \in Regions /\ home \in Places /\ full \in Nat /\ full >= 1
    BY UnitsAssumption DEF UnitConfigs, Places
  <2>2. units[u] \in UnitSnapshots
    BY DEF IInv, UnitsOK
  <2>3. Waited(u) = [units[u] EXCEPT !.respawnTurns = 0, !.status = "ACTIVE",
                                     !.region = home, !.strength = full]
    BY <1>2
  <2> HIDE DEF home, full, Waited
  <2>4. "ACTIVE" \in UnitStatus /\ 0 \in Nat
    BY DEF UnitStatus
  <2>5. /\ Waited(u) \in UnitSnapshots /\ Waited(u).status = "ACTIVE"
        /\ Waited(u).region = home /\ Waited(u).strength = full
    BY <2>1, <2>2, <2>3, <2>4 DEF UnitSnapshots
  <2> QED
    BY <2>1, <2>5 DEF SnapshotOK
\* One turn less to wait, and at least one is left.
<1>3. ASSUME NEW u \in Units, ~Returns(u), units[u].status = "RESPAWNING"
      PROVE  /\ Waited(u) \in UnitSnapshots /\ SnapshotOK(u, Waited(u))
             /\ Waited(u).respawnTurns < UnitConfig[u].respawnTurns
  <2> DEFINE wait == units[u].respawnTurns - 1
             most == UnitConfig[u].respawnTurns
  <2>1. units[u] \in UnitSnapshots /\ SnapshotOK(u, units[u])
    BY DEF IInv, UnitsOK
  <2>2. most \in Nat /\ wait \in Nat /\ wait \in 1..most /\ wait < most
    BY <1>3, <2>1, UnitsAssumption DEF Returns, SnapshotOK, UnitSnapshots, UnitConfigs
  <2>3. Waited(u) = [units[u] EXCEPT !.respawnTurns = wait]
    BY <1>3
  <2> HIDE DEF wait, Waited
  <2>4. /\ Waited(u) \in UnitSnapshots /\ Waited(u).status = "RESPAWNING"
        /\ Waited(u).region = units[u].region /\ Waited(u).strength = units[u].strength
        /\ Waited(u).respawnTurns = wait
    BY <1>3, <2>1, <2>2, <2>3 DEF UnitSnapshots
  <2> QED
    BY <1>3, <2>1, <2>2, <2>4 DEF SnapshotOK
<1>4. ASSUME NEW u \in Units
      PROVE  /\ Waited(u) \in UnitSnapshots /\ SnapshotOK(u, Waited(u))
             /\ Waited(u).status = "RESPAWNING" =>
                  Waited(u).respawnTurns < UnitConfig[u].respawnTurns
  <2>1. CASE Returns(u)
    BY <1>2, <2>1
  <2>2. CASE ~Returns(u) /\ units[u].status = "RESPAWNING"
    BY <1>3, <2>2
  <2>3. CASE ~Returns(u) /\ units[u].status # "RESPAWNING"
    BY <2>3 DEF IInv, UnitsOK
  <2> QED
    BY <2>1, <2>2, <2>3
<1>5. units' = [u \in Units |-> [Waited(u) EXCEPT !.cooldown = IF @ > 0 THEN @ - 1 ELSE @]]
  BY DEF DecrementRespawnAndCooldown
<1> HIDE DEF Waited
<1>6. ASSUME NEW x \in UnitSnapshots, NEW y, y = [x EXCEPT !.cooldown = IF @ > 0 THEN @ - 1 ELSE @]
      PROVE  /\ y \in UnitSnapshots /\ y.status = x.status /\ y.region = x.region
             /\ y.strength = x.strength /\ y.respawnTurns = x.respawnTurns
  <2>1. PICK k \in Nat : k = (IF x.cooldown > 0 THEN x.cooldown - 1 ELSE x.cooldown)
    BY DEF UnitSnapshots
  <2>2. y = [x EXCEPT !.cooldown = k]
    BY <1>6, <2>1
  <2> QED
    BY <2>1, <2>2 DEF UnitSnapshots
<1>7. ASSUME NEW u \in Units
      PROVE  /\ units'[u] \in UnitSnapshots /\ SnapshotOK(u, units'[u])
             /\ units'[u].status = "RESPAWNING" =>
                  units'[u].respawnTurns < UnitConfig[u].respawnTurns
  <2>1. PICK x, y : x = Waited(u) /\ y = units'[u]
    OBVIOUS
  <2>2. y = [x EXCEPT !.cooldown = IF @ > 0 THEN @ - 1 ELSE @]
    BY <1>5, <2>1
  <2>3. /\ x \in UnitSnapshots /\ SnapshotOK(u, x)
        /\ x.status = "RESPAWNING" => x.respawnTurns < UnitConfig[u].respawnTurns
    BY <1>4, <2>1
  <2>4. /\ y \in UnitSnapshots /\ y.status = x.status /\ y.region = x.region
        /\ y.strength = x.strength /\ y.respawnTurns = x.respawnTurns
    BY <1>6, <2>2, <2>3
  <2> QED
    BY <2>1, <2>3, <2>4 DEF SnapshotOK
<1>8. UnitsOK(units', pc')
  BY <1>1, <1>5, <1>7 DEF UnitsOK
<1>9. PathsOK(paths', pc') /\ RegionsOK(regions', pc')
  BY <1>1, PathsLater, RegionsLater DEF IInv
<1>10. RingOK' /\ GameOK' /\ QueueOK'
  BY <1>1, ClockworkOK DEF DecrementRespawnAndCooldown, IInv, RingOK, GameOK, game, Steps
<1> QED
  BY <1>8, <1>9, <1>10 DEF IInv

LEMMA RunDetectionIInv == IInv /\ RunDetection => IInv'
<1> SUFFICES ASSUME IInv, RunDetection PROVE IInv'
  OBVIOUS
<1>1. /\ pc = "detection" /\ pc' = "control"
      /\ UNCHANGED <<units, paths, regions, turn, winner, starts>>
  BY DEF RunDetection
<1>2. RingOK'
  BY DEF RunDetection, IInv, RingOK
<1>3. GameOK'
  BY DEF RunDetection, IInv, RingOK, GameOK, Places
<1>4. QueueOK'
  BY <1>1, ClockworkOK DEF RunDetection, Steps
<1>5. UnitsOK(units', pc') /\ PathsOK(paths', pc') /\ RegionsOK(regions', pc')
  BY <1>1, UnitsLater, PathsLater, RegionsLater DEF IInv
<1> QED
  BY <1>2, <1>3, <1>4, <1>5 DEF IInv

LEMMA UpdateRegionControlIInv == IInv /\ UpdateRegionControl => IInv'
<1> SUFFICES ASSUME IInv, UpdateRegionControl PROVE IInv'
  OBVIOUS
<1>1. pc = "control" /\ pc' = "win" /\ UNCHANGED <<units, paths, ring, game>>
  BY DEF UpdateRegionControl
<1>2. ASSUME NEW r \in Regions
      PROVE  /\ regions'[r] \in RegionStates
             /\ regions'[r].fortified => regions'[r].fortifyTurns \in 1..1
  <2>1. PICK x, y : x = regions[r] /\ y = regions'[r]
    OBVIOUS
  <2>2. x \in RegionStates /\ (x.fortified => x.fortifyTurns \in 1..1)
    BY <1>1, <2>1 DEF IInv, RegionsOK
  <2>3. \/ y = [x EXCEPT !.controlledBy = "FREE_PEOPLES"]
        \/ y = [x EXCEPT !.controlledBy = "SHADOW"]
        \/ y = x
    BY <2>1 DEF UpdateRegionControl
  <2>4. y \in RegionStates /\ y.fortified = x.fortified /\ y.fortifyTurns = x.fortifyTurns
    BY <2>2, <2>3 DEF RegionStates, Controllers, Sides
  <2> QED
    BY <2>1, <2>2, <2>4
<1>3. regions' = [r \in Regions |-> regions'[r]]
  BY DEF UpdateRegionControl
<1>4. RegionsOK(regions', pc')
  BY <1>1, <1>2, <1>3 DEF RegionsOK
<1>5. UnitsOK(units', pc') /\ PathsOK(paths', pc')
  BY <1>1, UnitsLater, PathsLater DEF IInv
<1>6. RingOK' /\ GameOK' /\ QueueOK'
  BY <1>1, ClockworkOK DEF UpdateRegionControl, IInv, RingOK, GameOK, game, Steps
<1> QED
  BY <1>4, <1>5, <1>6 DEF IInv

LEMMA FinishTurnIInv == IInv /\ FinishTurn => IInv'
<1> SUFFICES ASSUME IInv, FinishTurn PROVE IInv'
  OBVIOUS
<1>1. pc = "win" /\ pc' = "idle" /\ UNCHANGED <<units, paths, regions>>
  BY DEF FinishTurn
<1>2. RingOK' /\ GameOK'
  <2>1. RingOK'
    BY DEF FinishTurn, IInv, RingOK
  <2>2. winner' \in {"NONE", "FREE_PEOPLES", "SHADOW", "DRAW"}
    BY DEF FinishTurn, IInv, GameOK
  <2>3. turn' \in Nat
    BY DEF FinishTurn, IInv, GameOK
  <2> QED
    BY <2>1, <2>2, <2>3 DEF FinishTurn, IInv, GameOK
<1>3. QueueOK'
  BY DEF FinishTurn, IInv, QueueOK, Steps, Places
<1>4. UnitsOK(units', pc') /\ PathsOK(paths', pc') /\ RegionsOK(regions', pc')
  BY <1>1, UnitsLater, PathsLater, RegionsLater DEF IInv
<1> QED
  BY <1>2, <1>3, <1>4 DEF IInv

-----------------------------------------------------------------------------
(* The theorems.                                                           *)

\* Every step of the program keeps the inductive invariant.
LEMMA NextIInv == IInv /\ [Next]_vars => IInv'
<1> SUFFICES ASSUME IInv, [Next]_vars PROVE IInv'
  OBVIOUS
<1>1. CASE UNCHANGED vars
  BY <1>1 DEF vars, IInv, RingOK, GameOK, QueueOK
<1>2. CASE \E i \in live : ApplyOrder(i)
  BY <1>2, AssignRouteIInv, BlockPathIInv, SearchPathIInv, ReinforceIInv, FortifyIInv,
     AbilityIInv, RejectIInv DEF ApplyOrder
<1>3. CASE \E t \in Places, s \in Sides : ResolveGroup(t, s)
  BY <1>3, GroupIInv
<1> QED
  BY <1>1, <1>2, <1>3, SubmitIInv, BetweenTurnsIInv, RevertIInv, AutoAdvanceIInv,
     DecrementTempOpenIInv, DecrementFortificationIInv, RespawnIInv, RunDetectionIInv,
     UpdateRegionControlIInv, FinishTurnIInv DEF Next, Tick

\* The invariant holds in every state the server can reach.
THEOREM Invariance == Spec => []IInv
BY InitIInv, NextIInv, PTL DEF Spec

\* Type correctness of the world state, the timers of package cache included.
THEOREM TypeCorrect == Spec => []TypeOK
BY Invariance, IInvImplies, PTL

\* The life and death of units, for every configuration (LifecycleOK).
THEOREM LifecycleCorrect == Spec => []LifecycleOK
BY Invariance, IInvImplies, PTL

\* Every timer is strictly inside its window between turns (TimersInWindow).
THEOREM TimersCorrect == Spec => []TimersInWindow
BY Invariance, IInvImplies, PTL

=============================================================================
