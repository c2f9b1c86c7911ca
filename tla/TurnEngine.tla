----------------------------- MODULE TurnEngine -----------------------------
(***************************************************************************)
(* The turn processor (package engine) over the world state of package     *)
(* cache. ProcessTurn runs the steps of a turn one after the other under   *)
(* the cache's write lock; each step, and each order a step applies, is an *)
(* action here, and pc says which step is due. Between turns (pc = "idle") *)
(* the server collects orders and may be told to start the game.           *)
(***************************************************************************)
EXTENDS Combat, Sequences

CONSTANTS
    Menu,       \* the orders the players submit, without their turn
    MaxOrders,  \* bound: orders collected for one turn
    MaxLate,    \* bound: how many turns behind an order may be
    MaxStarts   \* bound: calls of /game/start

VARIABLES
    units,    \* Units   -> UnitSnapshot
    paths,    \* Paths   -> PathState
    regions,  \* Regions -> RegionState
    ring,     \* RingBearerState: the true region, and exposed this turn
    darkView, \* where and when the dark side last detected the ring bearer
    turn,
    winner,   \* "NONE" while GameOver is false
    orders,   \* the orders of the turn, in the order they arrived
    live,     \* indices of the orders this turn has still to apply
    pc,       \* the step of ProcessTurn that is due
    battle,   \* the region whose attack groups are being resolved
    starts    \* calls of /game/start so far

world == <<units, paths, regions, ring>>
game  == <<darkView, turn, winner, starts>>
vars  == <<units, paths, regions, ring, darkView, turn, winner,
           orders, live, pc, battle, starts>>

-----------------------------------------------------------------------------

UnitStatus == {"ACTIVE", "DESTROYED", "RESPAWNING"}
PathStatus == {"OPEN", "THREATENED", "BLOCKED", "TEMPORARILY_OPEN", "CORRUPTED"}
Steps      == {"idle", "routes", "orders", "attacks", "fortification",
               "respawn", "detection", "control", "win"}

\* The step of the turn at which an order of each type is applied.
StepOf == [ASSIGN_ROUTE     |-> 2, REDIRECT_UNIT  |-> 2,
           BLOCK_PATH       |-> 3, SEARCH_PATH    |-> 3,
           REINFORCE_REGION |-> 4, DEPLOY_NAZGUL  |-> 4,
           FORTIFY_REGION   |-> 5, MAIA_ABILITY   |-> 6,
           ATTACK_REGION    |-> 8, DESTROY_RING   |-> 13]
OrderTypes == DOMAIN StepOf

\* A submitted order; a field its type does not use holds NoPath, Nowhere or <<>>.
OrderBodies == [type : OrderTypes, unit : Units \cup {NoUnit}, path : Paths \cup {NoPath},
                region : Regions \cup {Nowhere}, route : Seq(Paths \cup {NoPath})]
Orders == [body : OrderBodies, turn : Nat]

ASSUME MenuAssumption ==
    Menu \subseteq OrderBodies /\ MaxOrders \in Nat /\ MaxLate \in Nat /\ MaxStarts \in Nat

Places == Regions \cup {Nowhere}

UnitSnapshots == [region : Places, strength : Nat, status : UnitStatus, respawnTurns : Nat,
                  route : Seq(Paths \cup {NoPath}), routeIdx : Nat, cooldown : Nat]
PathStates    == [status : PathStatus, surveillance : 0..3, tempOpenTurns : Nat,
                  blockedBy : Units \cup {NoUnit}]
RegionStates  == [controlledBy : Controllers, fortified : BOOLEAN, fortifyTurns : Nat]

TypeOK ==
    /\ units \in [Units -> UnitSnapshots]
    /\ paths \in [Paths -> PathStates]
    /\ regions \in [Regions -> RegionStates]
    /\ ring \in [trueRegion : Regions, exposed : BOOLEAN]
    /\ darkView \in [turn : Nat, region : Places]
    /\ turn \in Nat
    /\ winner \in {"NONE", "FREE_PEOPLES", "SHADOW", "DRAW"}
    /\ orders \in Seq(Orders)
    /\ live \in SUBSET (1..Len(orders))
    /\ pc \in Steps
    /\ battle \in Places
    /\ starts \in Nat

Init ==
    /\ units = [u \in Units |->
                  [region |-> IF u = RingBearer THEN Nowhere ELSE UnitConfig[u].start,
                   strength |-> UnitConfig[u].strength, status |-> "ACTIVE",
                   respawnTurns |-> 0, route |-> <<>>, routeIdx |-> 0, cooldown |-> 0]]
    /\ paths = [p \in Paths |-> [status |-> "OPEN", surveillance |-> 0,
                                 tempOpenTurns |-> 0, blockedBy |-> NoUnit]]
    /\ regions = [r \in Regions |-> [controlledBy |-> StartControl[r],
                                     fortified |-> FALSE, fortifyTurns |-> 0]]
    /\ ring = [trueRegion |-> UnitConfig[RingBearer].start, exposed |-> FALSE]
    /\ darkView = [turn |-> 0, region |-> Nowhere]
    /\ turn = 0 /\ winner = "NONE" /\ starts = 0
    /\ orders = <<>> /\ live = {} /\ pc = "idle" /\ battle = Nowhere

-----------------------------------------------------------------------------
(* Between turns.                                                          *)

\* handleOrder: an order for turn t is accepted unless its unit already has
\* one for t. One accepted late is still among the orders of the next turn.
SubmitOrder ==
    /\ pc = "idle" /\ Len(orders) < MaxOrders
    /\ \E b \in Menu, t \in {n \in 0..turn : turn - n <= MaxLate} :
          /\ \A i \in DOMAIN orders : ~(orders[i].body.unit = b.unit /\ orders[i].turn = t)
          /\ orders' = Append(orders, [body |-> b, turn |-> t])
    /\ UNCHANGED <<world, game, live, pc, battle>>

\* handleGameStart sets the turn to 1 whenever it is called, and nothing else.
GameStart ==
    /\ pc = "idle" /\ starts < MaxStarts
    /\ turn' = 1 /\ starts' = starts + 1
    /\ UNCHANGED <<world, darkView, winner, orders, live, pc, battle>>

\* Orders of another turn are dropped, 0 standing for the current one.
Fresh == {i \in DOMAIN orders : orders[i].turn \in {0, turn}}

\* Mutant of Accepted: no order is a duplicate.
KeepDuplicates == Fresh

\* dedupeOrdersByUnit: the first order of each unit; "" is not a unit.
Accepted == {i \in Fresh : \/ orders[i].body.unit = NoUnit
                           \/ \A j \in Fresh : j < i => orders[j].body.unit # orders[i].body.unit}

\* Mutant of BeginTurn: a tick without orders is skipped.
BeginTurnWithOrders ==
    /\ pc = "idle" /\ winner = "NONE" /\ orders # <<>>
    /\ live' = Accepted /\ pc' = "routes"
    /\ UNCHANGED <<world, game, orders, battle>>

BeginTurn ==
    /\ pc = "idle" /\ winner = "NONE"
    /\ live' = Accepted /\ pc' = "routes"
    /\ UNCHANGED <<world, game, orders, battle>>

\* A tick after the end of the game takes the collected orders and drops them.
DiscardOrders ==
    /\ pc = "idle" /\ winner # "NONE" /\ orders # <<>>
    /\ orders' = <<>>
    /\ UNCHANGED <<world, game, live, pc, battle>>

-----------------------------------------------------------------------------
(* Steps 2 to 6: the orders, step by step and in arrival order in a step.  *)

Step(i) == StepOf[orders[i].body.type]

\* Nothing is left to apply up to step s.
DoneThrough(s) == \A j \in live : Step(j) > s

\* The i-th order is the one the loops of steps 2 to 6 reach next.
Due(i) ==
    /\ i \in live
    /\ pc = IF Step(i) = 2 THEN "routes" ELSE "orders"
    /\ Step(i) <= 6
    /\ \A j \in live : Step(j) > Step(i) \/ (Step(j) = Step(i) /\ j >= i)

Consume(i) == live' = live \ {i} /\ UNCHANGED <<game, orders, pc, battle>>

Active(u) == units[u].status = "ACTIVE"
AtEndpoint(u, p) == units[u].region \in Endpoints(p)
Guarded(p, u) == \E g \in Units \ {u} :
    UnitConfig[g].class = "FellowshipGuard" /\ Active(g) /\ AtEndpoint(g, p)

\* Some path joins the two regions and its status is not BLOCKED.
Reachable(a, b) == \E p \in PathsBetween(a, b) : paths[p].status # "BLOCKED"

CanRoute(o) == o.type \in {"ASSIGN_ROUTE", "REDIRECT_UNIT"} /\ o.unit \in Units

CanBlock(o) ==
    /\ o.type = "BLOCK_PATH" /\ o.unit \in Units /\ o.path \in Paths
    /\ AtEndpoint(o.unit, o.path)
    /\ UnitConfig[o.unit].class = "Nazgul" => ~Guarded(o.path, o.unit)

CanSearch(o) ==
    /\ o.type = "SEARCH_PATH" /\ o.unit \in Units /\ o.path \in Paths
    /\ Active(o.unit) /\ AtEndpoint(o.unit, o.path)

CanReinforce(o) ==
    /\ o.type = "REINFORCE_REGION" /\ o.unit \in Units /\ Active(o.unit)
    /\ \/ units[o.unit].region = o.region
       \/ Reachable(units[o.unit].region, o.region)

CanDeploy(o) ==
    /\ o.type = "DEPLOY_NAZGUL" /\ o.unit \in Units /\ Active(o.unit)
    /\ o.region \in Regions /\ regions[o.region].controlledBy = "SHADOW"

CanFortify(o) ==
    /\ o.type = "FORTIFY_REGION" /\ o.unit \in Units
    /\ UnitConfig[o.unit].canFortify /\ units[o.unit].region \in Regions

CanCast(o) ==
    /\ o.type = "MAIA_ABILITY" /\ o.unit \in Units /\ Active(o.unit)
    /\ UnitConfig[o.unit].maia /\ units[o.unit].cooldown = 0
    /\ o.path \in Paths /\ AtEndpoint(o.unit, o.path)
    /\ UnitConfig[o.unit].start # Mordor

CanCorrupt(o) == CanCast(o) /\ o.path \in UnitConfig[o.unit].abilityPaths

CanOpen(o) == /\ CanCast(o) /\ UnitConfig[o.unit].abilityPaths = {}
              /\ paths[o.path].status = "BLOCKED"

AssignRoute(i) ==
    LET o == orders[i].body IN
    /\ Due(i) /\ CanRoute(o)
    /\ units' = [units EXCEPT ![o.unit].route = o.route, ![o.unit].routeIdx = 0]
    /\ Consume(i) /\ UNCHANGED <<paths, regions, ring>>

BlockPath(i) ==
    LET o == orders[i].body IN
    /\ Due(i) /\ CanBlock(o)
    /\ paths' = [paths EXCEPT ![o.path].status = "BLOCKED", ![o.path].blockedBy = o.unit]
    /\ Consume(i) /\ UNCHANGED <<units, regions, ring>>

SearchPath(i) ==
    LET o == orders[i].body IN
    /\ Due(i) /\ CanSearch(o)
    /\ paths' = [paths EXCEPT ![o.path].surveillance = IF @ < 3 THEN @ + 1 ELSE @]
    /\ Consume(i) /\ UNCHANGED <<units, regions, ring>>

Reinforce(i) ==
    LET o == orders[i].body IN
    /\ Due(i) /\ (CanReinforce(o) \/ CanDeploy(o))
    /\ units' = [units EXCEPT ![o.unit].region = o.region]
    /\ Consume(i) /\ UNCHANGED <<paths, regions, ring>>

Fortify(i) ==
    LET o == orders[i].body IN
    /\ Due(i) /\ CanFortify(o)
    /\ regions' = [regions EXCEPT ![units[o.unit].region].fortified = TRUE,
                                  ![units[o.unit].region].fortifyTurns = 2]
    /\ Consume(i) /\ UNCHANGED <<units, paths, ring>>

\* Saruman's ability: the path is watched for good and closed to routes.
CorruptPath(i) ==
    LET o == orders[i].body IN
    /\ Due(i) /\ CanCorrupt(o)
    /\ paths' = [paths EXCEPT ![o.path].surveillance = 3, ![o.path].status = "CORRUPTED"]
    /\ units' = [units EXCEPT ![o.unit].cooldown = UnitConfig[o.unit].cooldown]
    /\ Consume(i) /\ UNCHANGED <<regions, ring>>

\* Mutant of OpenPath: the window is one turn too long.
OpenPathTooLong(i) ==
    LET o == orders[i].body IN
    /\ Due(i) /\ CanOpen(o)
    /\ paths' = [paths EXCEPT ![o.path].status = "TEMPORARILY_OPEN", ![o.path].tempOpenTurns = 4]
    /\ units' = [units EXCEPT ![o.unit].cooldown = UnitConfig[o.unit].cooldown]
    /\ Consume(i) /\ UNCHANGED <<regions, ring>>

\* Gandalf's ability: a blocked path is open until its timer runs out.
OpenPath(i) ==
    LET o == orders[i].body IN
    /\ Due(i) /\ CanOpen(o)
    /\ paths' = [paths EXCEPT ![o.path].status = "TEMPORARILY_OPEN", ![o.path].tempOpenTurns = 3]
    /\ units' = [units EXCEPT ![o.unit].cooldown = UnitConfig[o.unit].cooldown]
    /\ Consume(i) /\ UNCHANGED <<regions, ring>>

\* An order whose preconditions fail is skipped; so is an attack by an unknown unit.
RejectOrder(i) ==
    LET o == orders[i].body IN
    /\ \/ /\ Due(i)
          /\ ~(\/ CanRoute(o) \/ CanBlock(o) \/ CanSearch(o) \/ CanReinforce(o)
               \/ CanDeploy(o) \/ CanFortify(o) \/ CanCorrupt(o) \/ CanOpen(o))
       \/ i \in live /\ pc = "attacks" /\ Step(i) = 8 /\ o.unit \notin Units
    /\ Consume(i) /\ UNCHANGED world

\* Mutant of RevertStalePaths: only the blocks of units that are gone are lifted.
RevertDeadBlocks ==
    /\ pc = "routes" /\ DoneThrough(2)
    /\ paths' = [p \in Paths |->
                   IF /\ paths[p].status = "BLOCKED" /\ paths[p].blockedBy # NoUnit
                      /\ ~Active(paths[p].blockedBy)
                   THEN [paths[p] EXCEPT !.status = "OPEN", !.blockedBy = NoUnit]
                   ELSE paths[p]]
    /\ pc' = "orders"
    /\ UNCHANGED <<units, regions, ring, game, orders, live, battle>>

\* Mutant of RevertStalePaths: the reverted path starts afresh.
RevertToNewPath ==
    /\ pc = "routes" /\ DoneThrough(2)
    /\ paths' = [p \in Paths |->
                   IF /\ paths[p].status = "BLOCKED" /\ paths[p].blockedBy # NoUnit
                      /\ ~AtEndpoint(paths[p].blockedBy, p)
                   THEN [status |-> "OPEN", surveillance |-> 0, tempOpenTurns |-> 0,
                         blockedBy |-> NoUnit]
                   ELSE paths[p]]
    /\ pc' = "orders"
    /\ UNCHANGED <<units, regions, ring, game, orders, live, battle>>

\* Between steps 2 and 3: a block whose blocker is not at the path is lifted.
RevertStalePaths ==
    /\ pc = "routes" /\ DoneThrough(2)
    /\ paths' = [p \in Paths |->
                   IF /\ paths[p].status = "BLOCKED" /\ paths[p].blockedBy # NoUnit
                      /\ ~AtEndpoint(paths[p].blockedBy, p)
                   THEN [paths[p] EXCEPT !.status = "OPEN", !.blockedBy = NoUnit]
                   ELSE paths[p]]
    /\ pc' = "orders"
    /\ UNCHANGED <<units, regions, ring, game, orders, live, battle>>

-----------------------------------------------------------------------------
(* Step 7: every active unit with a route left moves one path along it.    *)

Here(u)     == IF u = RingBearer THEN ring.trueRegion ELSE units[u].region
NextPath(u) == units[u].route[units[u].routeIdx + 1]

\* Mutant of Advances: only corruption stops a unit.
AdvancesThroughBlocks(u) ==
    /\ Active(u) /\ units[u].routeIdx < Len(units[u].route)
    /\ NextPath(u) \in Paths
    /\ paths[NextPath(u)].status # "CORRUPTED"
    /\ Here(u) \in Endpoints(NextPath(u))

Advances(u) ==
    /\ Active(u) /\ units[u].routeIdx < Len(units[u].route)
    /\ NextPath(u) \in Paths
    /\ paths[NextPath(u)].status \notin {"BLOCKED", "CORRUPTED"}
    /\ Here(u) \in Endpoints(NextPath(u))

\* Mutant of Spotted: watched paths expose from the first turn on.
SpottedAnyTurn == Advances(RingBearer) /\ paths[NextPath(RingBearer)].surveillance >= 1

\* The ring bearer crosses a watched path after the hidden turns.
Spotted == /\ Advances(RingBearer) /\ paths[NextPath(RingBearer)].surveillance >= 1
           /\ turn > HiddenUntilTurn

AutoAdvance ==
    /\ pc = "orders" /\ DoneThrough(6)
    /\ units' = [u \in Units |->
                   IF ~Advances(u) THEN units[u]
                   ELSE [units[u] EXCEPT
                           !.region = IF u = RingBearer THEN @ ELSE Across(NextPath(u), @),
                           !.routeIdx = @ + 1]]
    /\ ring' = [trueRegion |-> IF Advances(RingBearer)
                               THEN Across(NextPath(RingBearer), ring.trueRegion)
                               ELSE ring.trueRegion,
                exposed |-> ring.exposed \/ Spotted]
    /\ pc' = "attacks" /\ battle' = Nowhere
    /\ UNCHANGED <<paths, regions, game, orders, live>>

-----------------------------------------------------------------------------
(* Step 8: the attack orders, grouped by target and then by side.          *)

GroupOrders(t, s) == {i \in live : /\ Step(i) = 8 /\ orders[i].body.region = t
                                   /\ orders[i].body.unit \in Units
                                   /\ UnitConfig[orders[i].body.unit].side = s}

\* The two maps are walked in any order, but a target's two sides in succession.
GroupDue(t, s) ==
    /\ pc = "attacks" /\ GroupOrders(t, s) # {}
    /\ t # battle => \A x \in Sides : GroupOrders(battle, x) = {}

CanAttack(u, t) ==
    Active(u) /\ (units[u].region = t \/ Reachable(units[u].region, t))

Attackers(t, s) == {u \in {orders[i].body.unit : i \in GroupOrders(t, s)} : CanAttack(u, t)}

Defenders(t, s) == {u \in Units : Active(u) /\ units[u].region = t /\ UnitConfig[u].side # s}

Strength == [u \in Units |-> units[u].strength]

AttackPower(t, s)  == Power(Attackers(t, s), Strength)
DefencePower(t, s) ==
    DefenderPower(Attackers(t, s), Defenders(t, s), Strength, t, regions[t].fortified)
AttackerWins(t, s) == AttackPower(t, s) > DefencePower(t, s)

\* Mutant of Struck: the unit that falls keeps its place on the map.
StruckInPlace(u, x, n) ==
    LET left == AfterHit(u, n) IN
    IF left > 0 THEN [x EXCEPT !.strength = left]
    ELSE IF UnitConfig[u].respawns
    THEN [x EXCEPT !.strength = 0, !.status = "RESPAWNING",
                   !.respawnTurns = UnitConfig[u].respawnTurns]
    ELSE [x EXCEPT !.strength = 0, !.status = "DESTROYED"]

\* The snapshot x of a unit that fell: off the map, for good or for a while.
Fallen(x, status, wait) ==
    [x EXCEPT !.strength = 0, !.region = Nowhere, !.status = status, !.respawnTurns = wait]

\* The snapshot x of u after one point of damage to strength n, as the engine stores it.
Struck(u, x, n) ==
    IF AfterHit(u, n) > 0 THEN [x EXCEPT !.strength = AfterHit(u, n)]
    ELSE IF UnitConfig[u].respawns THEN Fallen(x, "RESPAWNING", UnitConfig[u].respawnTurns)
    ELSE Fallen(x, "DESTROYED", x.respawnTurns)

\* disableSaruman, when the free peoples win the battle for Isengard.
Disables(u, t, s) == t = Isengard /\ s = "FREE_PEOPLES" /\ u \in IsengardMaia

EndGroup(t, s) ==
    /\ live' = live \ GroupOrders(t, s) /\ battle' = t
    /\ UNCHANGED <<paths, ring, game, orders, pc>>

\* The target is no region, or no attacker of the group can reach it.
AttackFails(t, s) ==
    /\ GroupDue(t, s) /\ (t \notin Regions \/ Attackers(t, s) = {})
    /\ EndGroup(t, s) /\ UNCHANGED <<units, regions>>

\* No defender: the attackers move in and their side controls the region.
Uncontested(t, s) ==
    /\ GroupDue(t, s) /\ t \in Regions
    /\ Attackers(t, s) # {} /\ Defenders(t, s) = {}
    /\ units' = [u \in Units |-> IF u \in Attackers(t, s)
                                 THEN [units[u] EXCEPT !.region = t] ELSE units[u]]
    /\ regions' = [regions EXCEPT ![t].controlledBy = s]
    /\ EndGroup(t, s)

\* The attackers keep the strength they fought with and take the region; the
\* damage reaches some of the defenders, and Saruman may fall with Isengard.
AttackWon(t, s) ==
    /\ GroupDue(t, s) /\ t \in Regions
    /\ Attackers(t, s) # {} /\ Defenders(t, s) # {} /\ AttackerWins(t, s)
    /\ \E hit \in HitGroups(Defenders(t, s), AttackPower(t, s) - DefencePower(t, s)) :
         units' = [u \in Units |->
           LET fought == IF u \in Attackers(t, s)
                         THEN [units[u] EXCEPT !.region = t,
                                 !.strength = Led(u, Attackers(t, s), Strength)]
                         ELSE IF u \in hit
                         THEN Struck(u, units[u], Led(u, Defenders(t, s), Strength))
                         ELSE IF u \in Defenders(t, s)
                         THEN [units[u] EXCEPT
                                 !.strength = Led(u, Defenders(t, s), Strength)]
                         ELSE units[u]
           IN  IF Disables(u, t, s) THEN [fought EXCEPT !.status = "DESTROYED"] ELSE fought]
    /\ regions' = [regions EXCEPT ![t].controlledBy = s, ![t].fortified = FALSE]
    /\ EndGroup(t, s)

\* The defenders hold: each attacker takes one point of damage.
AttackHeld(t, s) ==
    /\ GroupDue(t, s) /\ t \in Regions
    /\ Attackers(t, s) # {} /\ Defenders(t, s) # {} /\ ~AttackerWins(t, s)
    /\ units' = [u \in Units |->
                   IF u \in Attackers(t, s)
                   THEN Struck(u, units[u], Led(u, Attackers(t, s), Strength))
                   ELSE IF u \in Defenders(t, s)
                   THEN [units[u] EXCEPT !.strength = Led(u, Defenders(t, s), Strength)]
                   ELSE units[u]]
    /\ EndGroup(t, s) /\ UNCHANGED regions

-----------------------------------------------------------------------------
(* Steps 9 to 11: timers.                                                  *)

\* Mutant of DecrementTempOpen: the timers of all paths run.
DecrementEveryPath ==
    /\ pc = "attacks" /\ DoneThrough(8)
    /\ paths' = [p \in Paths |-> [paths[p] EXCEPT !.tempOpenTurns = @ - 1]]
    /\ pc' = "fortification"
    /\ UNCHANGED <<units, regions, ring, game, orders, live, battle>>

\* A path whose window ends is blocked again if a blocker is still recorded.
DecrementTempOpen ==
    /\ pc = "attacks" /\ DoneThrough(8)
    /\ paths' = [p \in Paths |->
                   IF paths[p].status # "TEMPORARILY_OPEN" THEN paths[p]
                   ELSE [paths[p] EXCEPT
                           !.tempOpenTurns = @ - 1,
                           !.status = IF paths[p].tempOpenTurns > 1 THEN @
                                      ELSE IF paths[p].blockedBy # NoUnit THEN "BLOCKED"
                                      ELSE "OPEN"]]
    /\ pc' = "fortification"
    /\ UNCHANGED <<units, regions, ring, game, orders, live, battle>>

DecrementFortification ==
    /\ pc = "fortification"
    /\ regions' = [r \in Regions |->
                     IF ~regions[r].fortified THEN regions[r]
                     ELSE [regions[r] EXCEPT !.fortifyTurns = @ - 1,
                                             !.fortified = regions[r].fortifyTurns > 1]]
    /\ pc' = "respawn"
    /\ UNCHANGED <<units, paths, ring, game, orders, live, battle>>

\* Mutant of Returns: every unit that is not active and does not wait returns.
ReturnsFromAnywhere(u) == ~Active(u) /\ units[u].respawnTurns <= 1

\* A unit whose wait is over returns home at full strength.
Returns(u) == units[u].status = "RESPAWNING" /\ units[u].respawnTurns <= 1

DecrementRespawnAndCooldown ==
    /\ pc = "respawn"
    /\ units' = [u \in Units |->
         LET waited == IF Returns(u)
                       THEN [units[u] EXCEPT !.respawnTurns = 0, !.status = "ACTIVE",
                               !.region = UnitConfig[u].start,
                               !.strength = UnitConfig[u].strength]
                       ELSE IF units[u].status = "RESPAWNING"
                       THEN [units[u] EXCEPT !.respawnTurns = @ - 1]
                       ELSE units[u]
         IN  [waited EXCEPT !.cooldown = IF @ > 0 THEN @ - 1 ELSE @]]
    /\ pc' = "detection"
    /\ UNCHANGED <<paths, regions, ring, game, orders, live, battle>>

-----------------------------------------------------------------------------
(* Steps 12 and 13: detection, control, the outcome.                       *)

\* Sauron at home adds one hop to the range of every Nazgul.
EyeOpen == \E u \in Units : /\ UnitConfig[u].class = "Maia" /\ UnitConfig[u].side = "SHADOW"
                            /\ UnitConfig[u].start = Mordor /\ units[u].region = Mordor
                            /\ Active(u)

Detects(u) ==
    /\ UnitConfig[u].class = "Nazgul" /\ Active(u)
    /\ ring.trueRegion \in Within(units[u].region,
                                  UnitConfig[u].detectionRange + (IF EyeOpen THEN 1 ELSE 0))

Detected == turn > HiddenUntilTurn /\ \E u \in Units : Detects(u)

\* Mutant of RunDetection: a ring bearer seen on a watched path is not reported.
RunDetectionByNazgul ==
    /\ pc = "detection"
    /\ IF Detected
       THEN /\ ring' = [ring EXCEPT !.exposed = TRUE]
            /\ darkView' = [turn |-> turn, region |-> ring.trueRegion]
       ELSE UNCHANGED <<ring, darkView>>
    /\ pc' = "control"
    /\ UNCHANGED <<units, paths, regions, turn, winner, starts, orders, live, battle>>

RunDetection ==
    /\ pc = "detection"
    /\ IF Detected \/ ring.exposed
       THEN /\ ring' = [ring EXCEPT !.exposed = TRUE]
            /\ darkView' = [turn |-> turn, region |-> ring.trueRegion]
       ELSE UNCHANGED <<ring, darkView>>
    /\ pc' = "control"
    /\ UNCHANGED <<units, paths, regions, turn, winner, starts, orders, live, battle>>

\* Mutant of Present: the ring bearer holds the region it is in.
PresentUnseen(s, r) == \E u \in Units :
    Active(u) /\ Here(u) = r /\ UnitConfig[u].side = s

\* The ring bearer is hidden and holds nothing.
Present(s, r) == \E u \in Units \ {RingBearer} :
    Active(u) /\ units[u].region = r /\ UnitConfig[u].side = s

UpdateRegionControl ==
    /\ pc = "control"
    /\ regions' = [r \in Regions |->
         IF Present("FREE_PEOPLES", r) /\ ~Present("SHADOW", r)
         THEN [regions[r] EXCEPT !.controlledBy = "FREE_PEOPLES"]
         ELSE IF Present("SHADOW", r) /\ ~Present("FREE_PEOPLES", r)
         THEN [regions[r] EXCEPT !.controlledBy = "SHADOW"]
         ELSE regions[r]]
    /\ pc' = "win"
    /\ UNCHANGED <<units, paths, ring, game, orders, live, battle>>

DarkSideUnitAt(r) == \E u \in Units :
    Active(u) /\ units[u].region = r /\ UnitConfig[u].side = "SHADOW"

RingDestroyed == /\ \E i \in live : orders[i].body.type = "DESTROY_RING"
                 /\ ring.trueRegion = MountDoom /\ ~DarkSideUnitAt(MountDoom)

\* Mutant of RingBearerCaught: a Nazgul need not know whom it has met.
RingBearerMet == \E u \in Units : /\ UnitConfig[u].class = "Nazgul" /\ Active(u)
                                  /\ units[u].region = ring.trueRegion

RingBearerCaught == /\ ring.exposed
                    /\ \E u \in Units : /\ UnitConfig[u].class = "Nazgul" /\ Active(u)
                                        /\ units[u].region = ring.trueRegion

\* evaluateWinConditions, and the end of ProcessTurn: the next turn, unexposed.
FinishTurn ==
    /\ pc = "win"
    /\ winner' = IF RingDestroyed THEN "FREE_PEOPLES"
                 ELSE IF RingBearerCaught THEN "SHADOW"
                 ELSE IF turn >= MaxTurns THEN "DRAW"
                 ELSE winner
    /\ turn' = turn + 1
    /\ ring' = [ring EXCEPT !.exposed = FALSE]
    /\ orders' = <<>> /\ live' = {} /\ pc' = "idle" /\ battle' = Nowhere
    /\ UNCHANGED <<units, paths, regions, darkView, starts>>

-----------------------------------------------------------------------------

ApplyOrder(i) == \/ AssignRoute(i) \/ BlockPath(i) \/ SearchPath(i) \/ Reinforce(i)
                 \/ Fortify(i) \/ CorruptPath(i) \/ OpenPath(i) \/ RejectOrder(i)

ResolveGroup(t, s) == \/ AttackFails(t, s) \/ Uncontested(t, s)
                      \/ AttackWon(t, s) \/ AttackHeld(t, s)

\* What the server does by itself: every tick starts a turn, a turn runs to its end.
Tick ==
    \/ BeginTurn \/ RevertStalePaths \/ AutoAdvance
    \/ \E i \in live : ApplyOrder(i)
    \/ \E t \in Places, s \in Sides : ResolveGroup(t, s)
    \/ DecrementTempOpen \/ DecrementFortification \/ DecrementRespawnAndCooldown
    \/ RunDetection \/ UpdateRegionControl \/ FinishTurn

Next == SubmitOrder \/ GameStart \/ DiscardOrders \/ Tick

Spec == Init /\ [][Next]_vars

\* The ticker fires for ever and ProcessTurn never waits for anything.
FairSpec == Spec /\ WF_vars(Tick)

-----------------------------------------------------------------------------
(* Safety.                                                                 *)

\* The part of LifecycleOK about one unit u whose snapshot is x.
SnapshotOK(u, x) ==
    /\ x.status = "ACTIVE" => x.strength >= 1 /\ (u # RingBearer => x.region \in Regions)
    /\ x.status = "RESPAWNING" =>
         /\ UnitConfig[u].respawns /\ ~UnitConfig[u].indestructible
         /\ x.region = Nowhere /\ x.strength = 0
         /\ x.respawnTurns \in 1..UnitConfig[u].respawnTurns
    /\ x.status = "DESTROYED" =>
         \/ u \in IsengardMaia
         \/ /\ x.region = Nowhere /\ x.strength = 0
            /\ ~UnitConfig[u].respawns /\ ~UnitConfig[u].indestructible

\* Life and death agree with the rest of a unit's snapshot, whatever sequence
\* of battles, retreats and returns it went through: an active unit has
\* strength and (the ring bearer apart) a place on the map, a waiting one has
\* neither and a wait no longer than its configuration, and a destroyed one
\* stays behind with a place only if it is the Maia that fell with Isengard
\* (applyDamage, applyGroupAttack, disableSaruman, decrementRespawnAndCooldown).
LifecycleOK == \A u \in Units : SnapshotOK(u, units[u])

\* Between turns every running timer is strictly inside its window: the step
\* that starts one runs before the step that decrements it in the same turn
\* (applyMaiaAbility's 3 "because Step 9 will decrement it to 2", applyFortify's
\* 2, the RespawnTurns of applyGroupAttack), and none is seen at 0 or below.
TimersInWindow ==
    pc = "idle" =>
      /\ \A p \in Paths : paths[p].status = "TEMPORARILY_OPEN" => paths[p].tempOpenTurns \in 1..2
      /\ \A r \in Regions : regions[r].fortified => regions[r].fortifyTurns = 1
      /\ \A u \in Units : units[u].status = "RESPAWNING" =>
           units[u].respawnTurns \in 1..(UnitConfig[u].respawnTurns - 1)

\* Once step 3 is over and before anyone is moved again, each blocked path has
\* a recorded blocker standing at one of its ends, although blockers move,
\* die and respawn, and a path reopened by Gandalf falls back to BLOCKED with
\* the blocker recorded turns ago (revertStalePaths, applyBlockPath,
\* decrementTempOpen).
BlocksStandAfterStep3 ==
    pc = "orders" /\ {i \in Accepted : Step(i) > 3} \subseteq live /\ DoneThrough(3) =>
      \A p \in Paths : paths[p].status = "BLOCKED" =>
        paths[p].blockedBy \in Units /\ AtEndpoint(paths[p].blockedBy, p)

\* The watch on a path only ever grows: what SEARCH_PATH and Saruman's ability
\* have added survives blocking, reopening and reverting of the path ("CorruptPath
\* surveillance must be permanent (=3) across turns", demo_test.go).
SurveillanceNeverDrops ==
    [][\A p \in Paths : paths'[p].surveillance >= paths[p].surveillance]_vars

\* A turn never applies two orders of one unit nor an order of another turn,
\* though orders for turn 0 outlive the call that starts the game
\* (handleOrder's check, the WRONG_TURN filter and dedupeOrdersByUnit).
OneOrderPerUnit ==
    pc # "idle" => \A i, j \in live :
      /\ orders[i].turn \in {0, turn}
      /\ orders[i].body.unit = orders[j].body.unit /\ orders[i].body.unit # NoUnit => i = j

\* Destruction is final: no step brings a destroyed unit back, the wait of a
\* unit destroyed while respawning included (disableSaruman, step 11).
DestroyedIsFinal ==
    [][\A u \in Units : units[u].status = "DESTROYED" => units'[u].status = "DESTROYED"]_vars

\* A unit grows stronger in two ways only: it comes back from its wait with what
\* its configuration gives it, or a battle leaves it with the bonus of the leaders
\* it fought beside, which is never more than all active leaders of its side
\* together give, and never goes to a leader. The code keeps the bonus for good:
\* the strengths computed for a battle are written back (computeDamage,
\* applyGroupAttack, applyLeadership).
StrengthFromLeaders ==
    [][\A u \in Units : units'[u].strength > units[u].strength =>
         \/ Returns(u) /\ units'[u].strength = UnitConfig[u].strength
         \/ /\ ~UnitConfig[u].leadership
            /\ units'[u].strength <= units[u].strength
                 + LeaderBonus({v \in Units : Active(v) /\ UnitConfig[v].side = UnitConfig[u].side})]_vars

\* The order of step 4 that places u anywhere its side controls.
Deployed(u) == \E i \in live : Due(i) /\ CanDeploy(orders[i].body) /\ orders[i].body.unit = u

\* No unit, and not the ring bearer either, goes from one region to another
\* except along a path that is not BLOCKED at that moment: routes, reinforcing
\* and attacking each check this for themselves; only DEPLOY_NAZGUL does not
\* (autoAdvance, applyReinforce, applyGroupAttack).
NoStepCrossesABlock ==
    [][/\ \A u \in Units :
            units[u].region # units'[u].region /\ {units[u].region, units'[u].region} \subseteq Regions
            => Deployed(u) \/ Reachable(units[u].region, units'[u].region)
       /\ ring.trueRegion # ring'.trueRegion => Reachable(ring.trueRegion, ring'.trueRegion)]_vars

\* What the ring bearer's private state says about exposure always reaches the
\* dark side's view in the same turn, whichever of the two steps found it, with
\* the region it is in, and does not leak into the next turn (autoAdvance,
\* runDetection, the reset at the end of ProcessTurn).
ExposureIsReported ==
    /\ ring.exposed /\ pc \in {"control", "win"} => darkView = [turn |-> turn, region |-> ring.trueRegion]
    /\ ring.exposed => pc \notin {"idle", "routes", "orders"}

\* The dark side's view never holds a sighting from a hidden turn, neither by
\* a Nazgul nor from a watched path (HiddenUntilTurn in autoAdvance and RunDetection).
HiddenTurnsStayHidden == darkView.region # Nowhere => darkView.turn > HiddenUntilTurn

\* The final position proves the outcome: a dark victory shows an active Nazgul
\* beside the ring bearer where the dark side's view has it, after the hidden
\* turns; a free victory shows the ring bearer at Mount Doom with no active
\* dark unit (evaluateWinConditions; no tick runs a turn after it).
OutcomeIsEarned ==
    /\ winner = "SHADOW" =>
         /\ darkView.region = ring.trueRegion /\ darkView.turn > HiddenUntilTurn
         /\ \E u \in Units : /\ UnitConfig[u].class = "Nazgul" /\ Active(u)
                             /\ units[u].region = ring.trueRegion
    /\ winner = "FREE_PEOPLES" =>
         ring.trueRegion = MountDoom /\ ~DarkSideUnitAt(MountDoom)

\* Every game ends: the turn limit is reached even when nobody sends an order
\* and although /game/start sets the clock back (MaxTurns, handleGameStart).
GameEnds == <>(winner # "NONE")

=============================================================================
