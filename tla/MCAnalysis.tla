----------------------------- MODULE MCAnalysis -----------------------------
(* One request of each side; the dark side's has more tasks than taskCh      *)
(* has room for.                                                             *)
EXTENDS Analysis

MCRequests  == {"routes", "intercept"}
MCSideOf    == [r \in MCRequests |-> IF r = "routes" THEN "FREE_PEOPLES" ELSE "SHADOW"]
MCTaskCount == [s \in {"FREE_PEOPLES", "SHADOW"} |-> IF s = "SHADOW" THEN 3 ELSE 1]
MCTaskCap   == [s \in {"FREE_PEOPLES", "SHADOW"} |-> IF s = "SHADOW" THEN 1 ELSE 2]
MCScorings  == {[r \in MCRequests |-> IF r = "routes" THEN <<0>> ELSE <<1, 0, 1>>]}
MCWorkers   == {"w1", "w2"}

=============================================================================
