----------------------------- MODULE OrderBook -----------------------------
(***************************************************************************)
(* What the game server promises about the orders it accepts: an order is  *)
(* settled at most once, applied or dropped; a turn applies at most one    *)
(* order of a unit; and once the game is over nothing more is applied.     *)
(***************************************************************************)
EXTENDS FiniteSets

CONSTANTS Requests, \* the calls of /order
          UnitOf    \* the unit each of them is about

VARIABLES fate,     \* what became of each call
          over      \* the game has ended

Fates == {"open", "accepted", "applied", "dropped"}

Init == fate = [r \in Requests |-> "open"] /\ over = FALSE

Accept(r) ==
    /\ fate[r] = "open"
    /\ fate' = [fate EXCEPT ![r] = "accepted"]
    /\ UNCHANGED over

OnePerUnit(A) == \A r, q \in A : UnitOf[r] = UnitOf[q] => r = q

\* A turn settles some of the accepted orders and may end the game.
EndTurn(applied, dropped) ==
    /\ ~over /\ applied \cap dropped = {} /\ OnePerUnit(applied)
    /\ \A r \in applied \cup dropped : fate[r] = "accepted"
    /\ fate' = [r \in Requests |-> IF r \in applied THEN "applied"
                                   ELSE IF r \in dropped THEN "dropped" ELSE fate[r]]
    /\ over' \in BOOLEAN

\* After the game orders are taken and thrown away.
Discard(dropped) ==
    /\ over /\ \A r \in dropped : fate[r] = "accepted"
    /\ fate' = [r \in Requests |-> IF r \in dropped THEN "dropped" ELSE fate[r]]
    /\ UNCHANGED over

Next ==
    \/ \E r \in Requests : Accept(r)
    \/ \E A, D \in SUBSET Requests : EndTurn(A, D)
    \/ \E D \in SUBSET Requests : Discard(D)

Spec == Init /\ [][Next]_<<fate, over>>

=============================================================================
