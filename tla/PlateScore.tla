----------------------------- MODULE PlateScore -----------------------------
(***************************************************************************)
(* The scoring rules of internal/alpr/heuristic/scoring.go, as functions   *)
(* of the set of a plate's encounters in the lookback window.  Points are  *)
(* counted in halves, times and thresholds in one unit of time.            *)
(***************************************************************************)
EXTENDS Integers, FiniteSets, FiniteSetsExt

CONSTANTS
  T,        \* the Thresholds record
  AreaOf    \* route -> grid cell of its start, NoArea without GPS

NoArea == "none"

RoutesIn(E) == {e.route : e \in E}

(* computeWithinRouteTurns: the turniest encounter, a point for each turn  *)
(* above the minimum, capped.                                              *)
TurnPoints(E) ==
  LET excess == Max({0} \cup {e.turns - T.turnsMin : e \in E})
  IN  IF T.turnsCap > 0 THEN Min({2 * excess, T.turnsCap}) ELSE 2 * excess

(* computeWithinRoutePersistence: the longest encounter; the higher tier   *)
(* replaces the lower.                                                     *)
PersistencePoints(E) ==
  LET longest == Max({0} \cup {e.last - e.first : e \in E})
  IN  IF E = {} THEN 0
      ELSE IF longest >= T.persistHigh THEN T.persistHighPoints
      ELSE IF longest >= T.persistMid THEN T.persistMidPoints ELSE 0

(* computeCrossRouteCount: the higher tier adds to the lower. *)
RoutePoints(E) ==
  LET n == Cardinality(RoutesIn(E)) IN
    (IF n >= T.routesMid THEN T.routesMidPoints ELSE 0)
    + (IF n >= T.routesMid /\ n >= T.routesHigh THEN T.routesHighPoints ELSE 0)

(* computeCrossRouteGeoSpread: the cells in which distinct routes began. *)
AreaPoints(E) ==
  IF Cardinality({AreaOf[r] : r \in RoutesIn(E)} \ {NoArea}) >= T.areasMin
  THEN T.areasPoints ELSE 0

(* computeCrossRouteTiming: two routes whose first sightings are close.    *)
(* The code compares neighbours in order of time; the closest two are.     *)
FirstOn(E, r) == Min({e.first : e \in {x \in E : x.route = r}})

TimingPoints(E) ==
  IF \E r, q \in RoutesIn(E) : r # q /\ FirstOn(E, r) <= FirstOn(E, q)
                               /\ FirstOn(E, q) - FirstOn(E, r) <= T.timingWindow
  THEN T.timingPoints ELSE 0

Total(E) == TurnPoints(E) + PersistencePoints(E) + RoutePoints(E)
            + AreaPoints(E) + TimingPoints(E)

(* severityForScoreBuckets; severity 1 is left to manual notes. *)
SeverityFor(total) ==
  IF total >= T.buckets[4] THEN 5
  ELSE IF total >= T.buckets[3] THEN 4
  ELSE IF total >= T.buckets[2] THEN 3
  ELSE IF total >= T.buckets[1] THEN 2 ELSE 0

(* Score. *)
ScoreOf(E, whitelisted) == IF whitelisted THEN 0 ELSE SeverityFor(Total(E))

-----------------------------------------------------------------------------
(* What the defaults, and any sensible tuning, have in common: more of     *)
(* anything never earns fewer points, and no encounter earns none.         *)
PointsRise ==
  /\ {T.turnsMin, T.turnsCap, T.persistMid, T.persistHigh, T.routesHigh,
      T.timingWindow} \subseteq Int
  /\ {T.persistMidPoints, T.persistHighPoints, T.routesMidPoints, T.routesHighPoints,
      T.areasPoints, T.timingPoints} \subseteq Nat
  /\ T.persistMidPoints <= T.persistHighPoints
  /\ {T.routesMid, T.areasMin, T.buckets[1], T.buckets[2], T.buckets[3],
      T.buckets[4]} \subseteq Nat \ {0}
=============================================================================
