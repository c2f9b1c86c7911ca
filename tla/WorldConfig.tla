---------------------------- MODULE WorldConfig ----------------------------
(***************************************************************************)
(* The read-only data the game server loads at start-up: the units and     *)
(* what each of them can do (config.UnitConfig), the regions and paths of  *)
(* the map (config.RegionConfig, config.PathConfig), the two turn limits   *)
(* of config.GameConfig, and the graph built from the map (graph.Build).   *)
(* Names of units, regions and paths are opaque; the rules read only the   *)
(* attributes, as the code does.                                           *)
(***************************************************************************)
EXTENDS Naturals, FiniteSets

CONSTANTS
    Units, Regions, Paths,   \* the identifiers found in the two config files
    NoUnit, Nowhere, NoPath, \* "" and, in an order, any identifier not in them
    UnitConfig,              \* GameConfig.Units
    PathFrom, PathTo,        \* the two endpoints of a path
    Terrain, StartControl,   \* of each region
    Isengard, Mordor, MountDoom, \* the three region names the code spells out
    HiddenUntilTurn, MaxTurns,
    MaxLeadershipBonus       \* the largest leadershipBonus of any unit

-----------------------------------------------------------------------------

Sides       == {"FREE_PEOPLES", "SHADOW"}
Controllers == Sides \cup {"NEUTRAL"}
Classes     == {"RingBearer", "FellowshipGuard", "GondorArmy", "Maia",
                "Nazgul", "UrukHaiLegion"}
Terrains    == {"PLAINS", "MOUNTAINS", "FOREST", "FORTRESS", "VOLCANIC", "SWAMP"}

UnitConfigs ==
    [class           : Classes,
     side            : Sides,
     start           : Regions,
     strength        : Nat \ {0},
     leadership      : BOOLEAN,
     leadershipBonus : 0..MaxLeadershipBonus,
     indestructible  : BOOLEAN,
     detectionRange  : Nat,
     respawns        : BOOLEAN,
     respawnTurns    : Nat,
     maia            : BOOLEAN,
     abilityPaths    : SUBSET Paths,
     ignoresFortress : BOOLEAN,
     canFortify      : BOOLEAN,
     cooldown        : Nat]

\* The one unit whose position is secret.
RingBearer == CHOOSE u \in Units : UnitConfig[u].class = "RingBearer"

\* The Maia that falls with Isengard, found by its attributes as disableSaruman does.
IsengardMaia == {u \in Units : /\ UnitConfig[u].class = "Maia"
                               /\ UnitConfig[u].side = "SHADOW"
                               /\ UnitConfig[u].start = Isengard}

ASSUME NamesAssumption ==
    /\ NoUnit \notin Units
    /\ Nowhere \notin Regions
    /\ NoPath \notin Paths

ASSUME UnitsAssumption ==
    /\ IsFiniteSet(Units)
    /\ MaxLeadershipBonus \in Nat
    /\ UnitConfig \in [Units -> UnitConfigs]
    /\ \A u \in Units : UnitConfig[u].respawns => UnitConfig[u].respawnTurns >= 1

\* units.conf has one ring bearer and one Maia whose home is Isengard.
ASSUME RolesAssumption ==
    /\ \E u \in Units : UnitConfig[u].class = "RingBearer"
    /\ \A u, v \in Units :
          UnitConfig[u].class = "RingBearer" /\ UnitConfig[v].class = "RingBearer" => u = v
    /\ \A u, v \in IsengardMaia : u = v

\* No path joins a region to itself and no two paths join the same two regions.
ASSUME MapAssumption ==
    /\ PathFrom \in [Paths -> Regions]
    /\ PathTo \in [Paths -> Regions]
    /\ \A p \in Paths : PathFrom[p] # PathTo[p]
    /\ \A p, q \in Paths :
          {PathFrom[p], PathTo[p]} = {PathFrom[q], PathTo[q]} => p = q
    /\ Terrain \in [Regions -> Terrains]
    /\ StartControl \in [Regions -> Controllers]

ASSUME LimitsAssumption == HiddenUntilTurn \in Nat /\ MaxTurns \in Nat

-----------------------------------------------------------------------------
(* The map as a graph.                                                     *)

Endpoints(p) == {PathFrom[p], PathTo[p]}

\* PathBetween: the path joining two regions, as a set of at most one path.
PathsBetween(a, b) == {p \in Paths : Endpoints(p) = {a, b}}

\* The other end of path p, seen from region r.
Across(p, r) == IF r = PathFrom[p] THEN PathTo[p] ELSE PathFrom[p]

\* The regions whose BFSDistance from r is at most n hops.
Within(r, n) ==
    LET ball[k \in 0..n] ==
          IF k = 0 THEN {r}
          ELSE ball[k - 1] \cup
               UNION {Endpoints(p) : p \in {q \in Paths : Endpoints(q) \cap ball[k - 1] # {}}}
    IN  ball[n]

=============================================================================
