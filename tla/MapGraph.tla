------------------------------ MODULE MapGraph ------------------------------
(***************************************************************************)
(* The map as a weighted graph (package graph). P holds the paths as they  *)
(* were loaded, by id; every path can be walked both ways. Build makes     *)
(* adjacency lists of them in the order Go iterates a map, so nothing here *)
(* depends on the order. Dijkstra is a state machine: its heap is a set of *)
(* items, of which any of least cost may be popped.                        *)
(***************************************************************************)
EXTENDS Naturals, FiniteSets

CONSTANT Unreachable \* math.MaxInt32, more than any cost

VARIABLES
    source, \* where the search started
    dist,   \* the costs found so far: region -> cost
    heap    \* the items of the priority queue, stale ones included

searchVars == <<source, dist, heap>>

\* Build and Neighbors: the edges that leave region r.
Neighbors(P, r) ==
    {[to |-> P[p]["to"], path |-> p, cost |-> P[p]["cost"]] : p \in {q \in DOMAIN P : P[q]["from"] = r}}
    \cup
    {[to |-> P[p]["from"], path |-> p, cost |-> P[p]["cost"]] : p \in {q \in DOMAIN P : P[q]["to"] = r}}

Places(P) == {P[p]["from"] : p \in DOMAIN P} \cup {P[p]["to"] : p \in DOMAIN P}

\* The regions a breadth-first search from r has visited after n rounds.
Visited(P, r, n) ==
    LET ball[k \in 0..n] ==
          IF k = 0 THEN {r}
          ELSE ball[k - 1] \cup {e.to : e \in UNION {Neighbors(P, a) : a \in ball[k - 1]}}
    IN  ball[n]

\* Mutant of BFSWithinHops: the search goes on from the regions of the last round.
BFSWithinMoreHops(P, r, n) == Visited(P, r, n + 1) \ {r}

\* BFSWithinHops: without the region the search starts from.
BFSWithinHops(P, r, n) == Visited(P, r, n) \ {r}

BFSDistance(P, a, b) ==
    LET rounds == {n \in 0..Cardinality(Places(P)) : b \in Visited(P, a, n)}
    IN  IF rounds = {} THEN Unreachable ELSE CHOOSE n \in rounds : \A m \in rounds : n <= m

-----------------------------------------------------------------------------
(* Dijkstra.                                                               *)

NoSearch == source = "none" /\ dist = <<>> /\ heap = {}

Start(s) ==
    /\ source' = s /\ dist' = [r \in {s} |-> 0]
    /\ heap' = {[region |-> s, cost |-> 0]}

IsLeast(item) == \A other \in heap : item.cost <= other.cost

\* An item that has been overtaken by a cheaper one of the same region.
PopStale ==
    \E item \in heap :
      /\ IsLeast(item) /\ item.cost > dist[item.region]
      /\ heap' = heap \ {item}
      /\ UNCHANGED <<source, dist>>

\* Mutant of Improved: a region reached before is looked at no more.
ImprovedOnce(P, item) == {e \in Neighbors(P, item.region) : e.to \notin DOMAIN dist}

\* Mutant of Improved: equal costs count as better, and paths may cost nothing.
ImprovedOrEqual(P, item) ==
    {e \in Neighbors(P, item.region) :
       e.to \notin DOMAIN dist \/ item.cost + e.cost <= dist[e.to]}

\* The edges that give their end a cost less than it has.
Improved(P, item) ==
    {e \in Neighbors(P, item.region) :
       e.to \notin DOMAIN dist \/ item.cost + e.cost < dist[e.to]}

\* Mutant of PopFresh: a heap that gives out any item.
PopAnyFresh(P) ==
    \E item \in heap :
      /\ item.cost <= dist[item.region]
      /\ LET better   == Improved(P, item)
             cheapest == {e \in better : \A o \in better : o.to = e.to => e.cost <= o.cost}
             found    == [r \in {e.to : e \in better} |->
                            item.cost + (CHOOSE e \in cheapest : e.to = r).cost]
         IN  /\ dist' = [r \in DOMAIN dist \cup DOMAIN found |->
                           IF r \in DOMAIN found THEN found[r] ELSE dist[r]]
             /\ \E overtaken \in SUBSET (better \ cheapest) :
                  heap' = (heap \ {item}) \cup {[region |-> e.to, cost |-> item.cost + e.cost] :
                                                e \in cheapest \cup overtaken}
      /\ UNCHANGED source

\* The edges of a region are looked at one by one: the cheapest of those to one end
\* stays, and dearer ones were pushed too if they came first.
PopFresh(P) ==
    \E item \in heap :
      /\ IsLeast(item) /\ item.cost <= dist[item.region]
      /\ LET better   == Improved(P, item)
             cheapest == {e \in better : \A o \in better : o.to = e.to => e.cost <= o.cost}
             found    == [r \in {e.to : e \in better} |->
                            item.cost + (CHOOSE e \in cheapest : e.to = r).cost]
         IN  /\ dist' = [r \in DOMAIN dist \cup DOMAIN found |->
                           IF r \in DOMAIN found THEN found[r] ELSE dist[r]]
             /\ \E overtaken \in SUBSET (better \ cheapest) :
                  heap' = (heap \ {item}) \cup {[region |-> e.to, cost |-> item.cost + e.cost] :
                                                e \in cheapest \cup overtaken}
      /\ UNCHANGED source

Pop(P) == PopStale \/ PopFresh(P)

Searched == source # "none" /\ heap = {}

\* ShortestPath, once the search from its first region is over.
ShortestPath(b) == IF b \in DOMAIN dist THEN dist[b] ELSE Unreachable

-----------------------------------------------------------------------------
(* The same questions, answered by looking at every walk.                  *)

\* Where the walks of n paths from a lead, and what each costs.
Walks(P, a, n) ==
    LET walks[k \in 0..n] ==
          IF k = 0 THEN {[to |-> a, cost |-> 0]}
          ELSE UNION {{[to |-> e.to, cost |-> w.cost + e.cost] : e \in Neighbors(P, w.to)} :
                      w \in walks[k - 1]}
    IN  walks[n]

=============================================================================
