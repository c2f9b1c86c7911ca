------------------------------- MODULE MCRoad -------------------------------
(***************************************************************************)
(* A road with a crossing, for the rules about paths: a Nazgul that blocks *)
(* and searches, Gandalf who reopens and who drives it away in battle,     *)
(* Saruman who corrupts, a guard who fortifies where it stands, and the    *)
(* ring bearer who walks the road meanwhile.                               *)
(***************************************************************************)
EXTENDS MCWorld

MCRegions  == {"rivendell", "moria", "lothlorien", "isengard"}
MCPaths    == {"riv-mor", "mor-lot", "mor-ise"}
MCPathFrom == [p \in MCPaths |-> IF p = "riv-mor" THEN "rivendell" ELSE "moria"]
MCPathTo   == [p \in MCPaths |-> CASE p = "riv-mor" -> "moria"
                                   [] p = "mor-lot" -> "lothlorien"
                                   [] p = "mor-ise" -> "isengard"]
MCTerrain  == [r \in MCRegions |-> IF r = "isengard" THEN "FORTRESS" ELSE "PLAINS"]
MCControl  == [r \in MCRegions |-> IF r = "isengard" THEN "SHADOW" ELSE "NEUTRAL"]

MCUnits == {"frodo", "gandalf", "gimli", "nazgul", "saruman"}
MCUnitConfig ==
    [u \in MCUnits |->
       CASE u = "frodo"   -> Unit("RingBearer", "FREE_PEOPLES", "rivendell", 1)
         [] u = "gandalf" -> [Unit("Maia", "FREE_PEOPLES", "rivendell", 4)
                                EXCEPT !.maia = TRUE, !.cooldown = 2]
         [] u = "gimli"   -> [Unit("FellowshipGuard", "FREE_PEOPLES", "lothlorien", 3)
                                EXCEPT !.canFortify = TRUE]
         [] u = "nazgul"  -> [Unit("Nazgul", "SHADOW", "moria", 3)
                                EXCEPT !.respawns = TRUE, !.respawnTurns = 3]
         [] u = "saruman" -> [Unit("Maia", "SHADOW", "isengard", 4)
                                EXCEPT !.maia = TRUE, !.abilityPaths = {"mor-ise"}]]

\* Blocking (of what the guard holds, too, and of a corrupted path), reopening,
\* watching and corrupting, walking past a block, leaving it and falling beside it.
RoadMenu ==
    {OnPath("BLOCK_PATH", "nazgul", "riv-mor"), OnPath("BLOCK_PATH", "nazgul", "mor-ise"),
     OnPath("BLOCK_PATH", "nazgul", "mor-lot"), OnPath("SEARCH_PATH", "nazgul", "riv-mor"),
     OnPath("MAIA_ABILITY", "gandalf", "riv-mor"), OnPath("MAIA_ABILITY", "saruman", "mor-ise"),
     Walk("frodo", <<"riv-mor", "mor-ise">>), Order("FORTIFY_REGION", "gimli"),
     ToRegion("ATTACK_REGION", "gandalf", "moria"),
     ToRegion("REINFORCE_REGION", "nazgul", "lothlorien")}

=============================================================================
