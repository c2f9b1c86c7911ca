------------------------------ MODULE Startup -------------------------------
(***************************************************************************)
(* What main does before it serves: a configuration file is loaded, the    *)
(* graph is built of the loaded paths, and then the graph is asked for     *)
(* shortest paths, one search after another, and for the risk of routes.   *)
(* The two files are read by parsers that share nothing, so a behaviour    *)
(* reads one of them; the graph is there once map.conf is read.            *)
(***************************************************************************)
EXTENDS ConfigLoader, RouteRisk

CONSTANTS
    Routes,    \* bound: the routes whose risk is asked for, as sequences of paths
    Snapshots, \* bound: the worlds they are asked in
    RouteLength \* bound: how many regions a route of the ring bearer has

\* No route is longer than the cost that stands for "no way" (math.MaxInt32), nor is
\* the range in which Nazgul count.
ASSUME LengthAssumption ==
    Unreachable \in Nat /\ Unreachable > 2 /\ RouteLength \in Nat /\ RouteLength <= Unreachable
ASSUME RiskAssumption ==
    /\ \A route \in Routes : Len(route) \in Nat /\ DOMAIN route = 1..Len(route)
    /\ \A s \in Snapshots : /\ \A p \in DOMAIN s.surveillance : s.surveillance[p] \in Nat
                            /\ IsFiniteSet(s.nazgul)

vars == <<loaderVars, searchVars>>

Init == LoaderInit /\ NoSearch

Paths    == loaded["paths"]
HasGraph == parser = "map" /\ ~Loading

Load == ReadLine /\ UNCHANGED searchVars

\* A call of Dijkstra or ShortestPath. Nothing is kept of the one before.
Search == /\ HasGraph /\ heap = {}
          /\ \E r \in Places(Paths) : Start(r)
          /\ UNCHANGED loaderVars

SearchOn == HasGraph /\ Pop(Paths) /\ UNCHANGED loaderVars

Next == Load \/ Search \/ SearchOn

Spec == Init /\ [][Next]_vars

\* The loop of Dijkstra runs until its heap is empty.
FairSpec == Spec /\ WF_vars(SearchOn)

-----------------------------------------------------------------------------

\* What the walks from a to b cost, of at most as many paths as there are regions.
WalkCosts(a, b) ==
    {w.cost : w \in {x \in UNION {Walks(Paths, a, n) : n \in 0..Cardinality(Places(Paths))} :
                       x.to = b}}

\* When a search is over, the cost of every region is that of a cheapest walk to
\* it, and a region no walk leads to has none (Dijkstra, ShortestPath).
DistancesAreLeast ==
    Searched => \A r \in Places(Paths) :
      LET costs == WalkCosts(source, r) IN
      IF costs = {} THEN ShortestPath(r) = Unreachable
      ELSE ShortestPath(r) \in costs /\ \A c \in costs : ShortestPath(r) <= c

\* Once the item with the cost of a region is popped, the region keeps that cost
\* for the rest of the search, whatever the order among items of equal cost and
\* whatever stale items remain (the heap of Dijkstra).
SettledStays ==
    [][heap # {} => \A r \in DOMAIN dist :
         [region |-> r, cost |-> dist[r]] \notin heap => dist'[r] = dist[r]]_vars

\* Every search comes to its end, also over paths that cost nothing.
SearchEnds == heap # {} ~> heap = {}

\* The terms of the formula in the comment of ComputeRouteRisk other than that of the
\* Nazgul, with paths of each kind counted. A path that is not on the map counts for
\* nothing.
RiskBesidesNazgul(route, s) ==
    LET at      == {i \in DOMAIN route : route[i] \in DOMAIN Paths}
        regions == {Paths[route[i]]["to"] : i \in at}
        watch   == [i \in DOMAIN route |-> IF i \in at THEN s.surveillance[route[i]] ELSE 0]
        blocked == {i \in at : s.status[route[i]] = "BLOCKED"}
        watched == {i \in at : s.status[route[i]] = "THREATENED"}
    IN  Total(watch, Len(route)) * 3 + Cardinality(blocked) * 5 + Cardinality(watched) * 2
        + ThreatOf(s, regions)

\* The pairs of a region at an end of the route's paths and a region with Nazgul that are
\* so many hops apart.
NazgulAt(route, s, ends, hops) ==
    LET at == {i \in DOMAIN route : route[i] \in DOMAIN Paths} IN
    {pair \in {Paths[route[i]][e] : i \in at, e \in ends} \X s.nazgul :
       BFSDistance(Paths, pair[1], pair[2]) \in hops}

\* How often Nazgul may count. The comment counts "Nazgul within 2 graph hops of any
\* region in the route", and the test of it takes in the region the route starts from;
\* the code leaves this one out, and Nazgul that stand on the route. What all of them
\* have in common: a Nazgul one or two hops from where a path leads to counts, and
\* nothing counts but a region of the route with Nazgul within two hops. (Nazgul in one
\* region are one here, as in the code: it collects the regions they stand in.)
NazgulCounts(route, s) ==
    (IF NazgulAt(route, s, {"to"}, {1, 2}) = {} THEN 0 ELSE 1)
      ..Cardinality(NazgulAt(route, s, {"from", "to"}, {0, 1, 2}))

\* The worlds of the loaded map.
Worlds == {s \in Snapshots : DOMAIN s.surveillance = DOMAIN Paths}

\* The risk of a route is what the comment says, in any world, for routes with
\* unknown paths and with a path or region met twice; how often Nazgul count is left
\* open between the readings of the comment, its test and the code (ComputeRouteRisk,
\* countNazgulProximity, BFSWithinHops).
RiskIsExplained ==
    HasGraph /\ source = "none" =>
      \A route \in Routes, s \in Worlds : \E n \in NazgulCounts(route, s) :
        ComputeRouteRisk(Paths, route, s) = RiskBesidesNazgul(route, s) + n * 2

\* A Nazgul scores at a region of the ring bearer's route exactly when some way
\* takes it there no later than the bearer and in fewer turns than the route has
\* regions (ComputeIntercept over ShortestPath, for the tasks BuildInterceptTasks
\* makes: the region at place rb of a route of length regions).
InterceptsAreReachable ==
    Searched => \A r \in Places(Paths), length \in 1..RouteLength : \A rb \in 1..length :
      ComputeIntercept(ShortestPath(r), rb, length) > 0
        <=> \E c \in WalkCosts(source, r) : c <= rb /\ c < length

=============================================================================
