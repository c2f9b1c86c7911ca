----------------------------- MODULE RouteRisk ------------------------------
(***************************************************************************)
(* The formulas of the two analyses (package pipeline), over a snapshot s  *)
(* of the world: the status and surveillance of each path, the threat of   *)
(* each region, and where the active Nazgul are.                           *)
(***************************************************************************)
EXTENDS MapGraph, Sequences, FiniteSetsExt

\* The places of a route whose path the snapshot knows; the others are passed over.
KnownOn(P, route) == {i \in DOMAIN route : route[i] \in DOMAIN P}

\* regionSet: the ends of the paths as they are written in the map.
RegionsOn(P, route) == {P[route[i]]["to"] : i \in KnownOn(P, route)}

\* The threat of those regions the snapshot has.
ThreatOf(s, regions) == MapThenSumSet(LAMBDA r : s.threat[r], regions \cap DOMAIN s.threat)

\* countNazgulProximity: pairs of a region of the route and a region with Nazgul.
NazgulProximity(P, regions, s) ==
    Cardinality({pair \in regions \X s.nazgul : pair[2] \in BFSWithinHops(P, pair[1], 2)})

\* Mutant of PathRisk: a blocked path counts as threatened too.
PathRiskTwice(p, s) ==
    s.surveillance[p] * 3 + (IF s.status[p] = "BLOCKED" THEN 5 ELSE 0)
                          + (IF s.status[p] \in {"BLOCKED", "THREATENED"} THEN 2 ELSE 0)

PathRisk(p, s) ==
    s.surveillance[p] * 3 + (CASE s.status[p] = "BLOCKED"    -> 5
                               [] s.status[p] = "THREATENED" -> 2
                               [] OTHER                      -> 0)

\* w[1] + ... + w[n], as a loop adds them up.
Total(w, n) ==
    LET sum[k \in 0..n] == IF k = 0 THEN 0 ELSE sum[k - 1] + w[k] IN sum[n]

ComputeRouteRisk(P, route, s) ==
    Total([i \in DOMAIN route |-> IF i \in KnownOn(P, route) THEN PathRisk(route[i], s) ELSE 0],
          Len(route))
    + ThreatOf(s, RegionsOn(P, route))
    + NazgulProximity(P, RegionsOn(P, route), s) * 2

\* Mutant of ComputeIntercept: a Nazgul that comes after the ring bearer counts.
InterceptLate(turns, rbTurns, length) == IF length > turns THEN length - turns ELSE 0

\* ComputeIntercept, in parts of the route's length: 1 - turns / length is
\* (length - turns) of them, 0 at least, and 0 for a Nazgul that comes too late.
ComputeIntercept(turns, rbTurns, length) ==
    IF rbTurns >= turns /\ length > turns THEN length - turns ELSE 0

=============================================================================
