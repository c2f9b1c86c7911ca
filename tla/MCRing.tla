------------------------------- MODULE MCRing -------------------------------
(***************************************************************************)
(* The end of the quest, for hiding, detection and the outcome: the ring   *)
(* bearer two paths from Mount Doom, Sauron at home, two Nazgul.           *)
(***************************************************************************)
EXTENDS MCWorld, Secrecy

MCRegions  == {"ithilien", "cirith-ungol", "mount-doom", "mordor"}
MCPaths    == {"ith-cir", "cir-doom", "mor-doom"}
MCPathFrom == [p \in MCPaths |-> CASE p = "ith-cir"  -> "ithilien"
                                   [] p = "cir-doom" -> "cirith-ungol"
                                   [] p = "mor-doom" -> "mordor"]
MCPathTo   == [p \in MCPaths |-> IF p = "ith-cir" THEN "cirith-ungol" ELSE "mount-doom"]
MCTerrain  == [r \in MCRegions |-> "VOLCANIC"]
MCControl  == [r \in MCRegions |-> IF r = "ithilien" THEN "NEUTRAL" ELSE "SHADOW"]

MCUnits == {"frodo", "gandalf", "nazgul", "watcher", "sauron"}
MCUnitConfig ==
    [u \in MCUnits |->
       CASE u = "frodo"   -> Unit("RingBearer", "FREE_PEOPLES", "ithilien", 1)
         [] u = "gandalf" -> [Unit("Maia", "FREE_PEOPLES", "ithilien", 4) EXCEPT !.maia = TRUE]
         [] u = "nazgul"  -> Unit("Nazgul", "SHADOW", "mount-doom", 2)
         [] u = "watcher" -> Unit("UrukHaiLegion", "SHADOW", "cirith-ungol", 1)
         [] u = "sauron"  -> [Unit("Maia", "SHADOW", "mordor", 5)
                                EXCEPT !.maia = TRUE, !.indestructible = TRUE]]

RingMenu ==
    {Walk("frodo", <<"ith-cir", "cir-doom">>),
     [Walk("frodo", <<"ith-cir", "cir-doom">>) EXCEPT !.type = "REDIRECT_UNIT"], Order("DESTROY_RING", "frodo"),
     Walk("nazgul", <<"cir-doom", "ith-cir">>), OnPath("SEARCH_PATH", "watcher", "ith-cir"),
     ToRegion("ATTACK_REGION", NoUnit, "mordor")}

=============================================================================
