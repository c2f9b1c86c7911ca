------------------------------ MODULE MCWorld ------------------------------
(***************************************************************************)
(* Shorthands for the small worlds the runs are made of.                   *)
(***************************************************************************)
EXTENDS TurnEngine

Unit(class, side, start, strength) ==
    [class |-> class, side |-> side, start |-> start, strength |-> strength,
     leadership |-> FALSE, leadershipBonus |-> 0, indestructible |-> FALSE,
     detectionRange |-> 0, respawns |-> FALSE, respawnTurns |-> 0, maia |-> FALSE,
     abilityPaths |-> {}, ignoresFortress |-> FALSE, canFortify |-> FALSE, cooldown |-> 0]

Order(type, unit) ==
    [type |-> type, unit |-> unit, path |-> NoPath, region |-> Nowhere, route |-> <<>>]
OnPath(type, unit, p)   == [Order(type, unit) EXCEPT !.path = p]
ToRegion(type, unit, r) == [Order(type, unit) EXCEPT !.region = r]
Walk(unit, r)           == [Order("ASSIGN_ROUTE", unit) EXCEPT !.route = r]

=============================================================================
