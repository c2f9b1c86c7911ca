--------------------------- MODULE MCCoordinator ---------------------------
(* Two players; two calls about one unit.                                  *)
EXTENDS Coordinator

MCPlayers  == {"light", "dark"}
MCRequests == {"r1", "r2"}
MCUnitOf   == [r \in MCRequests |-> "frodo"]

=============================================================================
