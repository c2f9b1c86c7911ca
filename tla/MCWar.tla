------------------------------- MODULE MCWar -------------------------------
(***************************************************************************)
(* A front line, for battles and what they do to units: a fortress with    *)
(* Saruman and a respawning Nazgul, leaders on both sides, a free unit     *)
(* that fortifies, and the plain between them.                             *)
(***************************************************************************)
EXTENDS MCWorld

MCRegions  == {"edoras", "isengard", "fangorn"}
MCPaths    == {"edo-ise", "fan-ise"}
MCPathFrom == [p \in MCPaths |-> IF p = "edo-ise" THEN "edoras" ELSE "fangorn"]
MCPathTo   == [p \in MCPaths |-> "isengard"]
MCTerrain  == [r \in MCRegions |-> IF r = "isengard" THEN "MOUNTAINS" ELSE "PLAINS"]
MCControl  == [r \in MCRegions |-> IF r = "isengard" THEN "SHADOW" ELSE "FREE_PEOPLES"]

MCUnits == {"frodo", "aragorn", "gimli", "witch-king", "nazgul", "saruman"}
MCUnitConfig ==
    [u \in MCUnits |->
       CASE u = "frodo"      -> Unit("RingBearer", "FREE_PEOPLES", "edoras", 1)
         [] u = "aragorn"    -> [Unit("FellowshipGuard", "FREE_PEOPLES", "edoras", 3)
                                   EXCEPT !.leadership = TRUE, !.leadershipBonus = 1]
         [] u = "gimli"      -> [Unit("GondorArmy", "FREE_PEOPLES", "edoras", 2)
                                   EXCEPT !.canFortify = TRUE]
         [] u = "witch-king" -> [Unit("Nazgul", "SHADOW", "fangorn", 1)
                                   EXCEPT !.leadership = TRUE, !.leadershipBonus = 1,
                                          !.indestructible = TRUE, !.ignoresFortress = TRUE]
         [] u = "nazgul"     -> [Unit("Nazgul", "SHADOW", "isengard", 1)
                                   EXCEPT !.respawns = TRUE, !.respawnTurns = 3]
         [] u = "saruman"    -> [Unit("Maia", "SHADOW", "isengard", 1)
                                   EXCEPT !.maia = TRUE, !.abilityPaths = {"fan-ise"}]]

WarMenu ==
    {ToRegion("ATTACK_REGION", "aragorn", "isengard"), ToRegion("ATTACK_REGION", "gimli", "isengard"),
     ToRegion("ATTACK_REGION", "nazgul", "edoras"), ToRegion("ATTACK_REGION", "witch-king", "edoras"),
     ToRegion("ATTACK_REGION", "witch-king", "isengard"),
     ToRegion("ATTACK_REGION", "saruman", "edoras"),
     Order("FORTIFY_REGION", "gimli"), ToRegion("DEPLOY_NAZGUL", "frodo", "isengard")}

=============================================================================
