------------------------------- MODULE Combat -------------------------------
(***************************************************************************)
(* The combat formula (package combat) as operators on two groups of units *)
(* and the strengths they enter the battle with. A group is a set: the     *)
(* code's slices differ from it only in which defenders the pool of damage *)
(* reaches first, which TurnEngine leaves open.                            *)
(***************************************************************************)
EXTENDS WorldConfig, FiniteSetsExt

\* Sum of the leaders' bonuses in a group, counted point by point.
LeaderBonus(group) ==
    Cardinality({x \in group \X (1..MaxLeadershipBonus) :
                   /\ UnitConfig[x[1]].leadership
                   /\ x[2] <= UnitConfig[x[1]].leadershipBonus})

\* Mutant of Led: leaders lead themselves.
LedByItself(u, group, str) == str[u] + LeaderBonus(group)

\* The strength of u in its group: everyone but the leaders gets the bonus.
Led(u, group, str) ==
    str[u] + (IF UnitConfig[u].leadership THEN 0 ELSE LeaderBonus(group))

Power(group, str) == MapThenSumSet(LAMBDA u : Led(u, group, str), group)

TerrainBonus(r) ==
    CASE Terrain[r] = "FORTRESS"  -> 2
      [] Terrain[r] = "MOUNTAINS" -> 1
      [] OTHER                    -> 0

DefenderPower(attackers, defenders, str, r, fortified) ==
    Power(defenders, str)
    + (IF \E a \in attackers : UnitConfig[a].ignoresFortress THEN 0 ELSE TerrainBonus(r))
    + (IF fortified THEN 2 ELSE 0)

\* What one point of damage leaves of strength s.
AfterHit(u, s) ==
    IF s > 1 THEN s - 1
    ELSE IF UnitConfig[u].indestructible THEN 1 ELSE 0

\* The groups of defenders the damage may reach: one point each, as far as it goes.
HitGroups(defenders, damage) ==
    kSubset(Min({damage, Cardinality(defenders)}), defenders)

=============================================================================
