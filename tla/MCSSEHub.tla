------------------------------ MODULE MCSSEHub ------------------------------
(* A player who connects twice, alone or beside a player of the other side. *)
EXTENDS SSEHub

MCPlayers  == {"light-frodo", "dark-sauron"}
MCConns    == {"c1", "c2"}
MCThree    == {"c1", "c2", "c3"}
MCPlayerOf == [c \in Conns |-> IF c = "c3" THEN "dark-sauron" ELSE "light-frodo"]
MCSideOf   == [p \in MCPlayers |-> IF p = "light-frodo" THEN "light" ELSE "dark"]

=============================================================================
