--------------------------- MODULE MCPlateAlerts ---------------------------
(* Two drives with three readings each, one of them not stored yet and     *)
(* the second drive aggregated before the start; the thresholds are low    *)
(* enough for two routes to raise an alert.  A plan is what the operator   *)
(* asks for, or the retention's tick (prune), in any order, and the upsets *)
(* that may come with it.  The first two detections are old enough to be   *)
(* deleted unless flagged, the first one in any case.                      *)
EXTENDS PlateRetention, TLC

CONSTANTS p1, p2, w1, e1, api, h1

MCDets      == 1..6
MCRouteOf   == <<"r1", "r1", "r1", "r2", "r2", "r2">>
MCTimeOf    == <<0, 2, 5, 18, 19, 19>>
MCFirstRead == <<p1, p1, p2, p1, p2, p1>>
MCTurnsOf   == [r1 |-> {1, 4}, r2 |-> {}]
MCAreaOf    == [r1 |-> "a", r2 |-> "b"]

MCThresholds ==
  [turnsMin |-> 0, turnsCap |-> 8, persistMid |-> 2, persistHigh |-> 5,
   persistMidPoints |-> 2, persistHighPoints |-> 3, routesMid |-> 2,
   routesMidPoints |-> 2, routesHigh |-> 3, routesHighPoints |-> 2,
   areasMin |-> 2, areasPoints |-> 2, timingWindow |-> 15, timingPoints |-> 2,
   buckets |-> <<2, 8, 9, 11>>]

(* The hypothesis under which AlertsNoneUnder is proved.                   *)
ASSUME ThresholdsRise == PointsRise

MCPlans ==
  {<<{<<"edit", 3, p1>>}, 1>>,
   <<{<<"merge", p1, p2>>}, 1>>,
   <<{<<"merge", p2, p1>>, <<"ack", p2, NoPlate>>}, 0>>,
   <<{<<"whitelist", p1, NoPlate>>, <<"unwhitelist", p1, NoPlate>>,
      <<"reevaluate", NoPlate, NoPlate>>}, 0>>,
   <<{<<"reevaluate", NoPlate, NoPlate>>}, 1>>,
   <<{<<"reevaluate", NoPlate, NoPlate>>, <<"ack", p1, NoPlate>>,
      <<"unack", p1, NoPlate>>}, 0>>,
   <<{<<"prune", NoPlate, NoPlate>>}, 1>>,
   <<{<<"prune", NoPlate, NoPlate>>, <<"edit", 3, p1>>}, 0>>}
=============================================================================
