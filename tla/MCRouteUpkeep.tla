--------------------------- MODULE MCRouteUpkeep ---------------------------
(* Days of a small server, each with the workers that matter to it: an     *)
(* upload sent twice around the cleanup, turns of a route that is deleted, *)
(* two clips in a queue of one, a clip deleted under ffmpeg, a shared      *)
(* link, logs that come early, late, again, without a fix and only in      *)
(* part, previews of two routes while one is deleted and the other still   *)
(* arrives, and the marker of a video beside the video.                    *)
EXTENDS RouteUpkeep, TLC

CONSTANTS r1, r2

R1Row == [r \in Routes |-> IF r = r1 THEN 1 ELSE 0]
R2Row == [r \in Routes |-> IF r = r2 THEN 1 ELSE 0]
Rows12 == [r \in Routes |-> IF r = r1 THEN 1 ELSE 2]
Send(S, n) == [f \in Files |-> IF f \in S THEN n ELSE 0]

Log1 == <<r1, 0, "qlog">>
Cam1 == <<r1, 0, "fcamera">>
Mark1 == <<r1, 0, "fcamera~">>
Q1   == <<r1, 0, "qcamera">>
Q2   == <<r1, 1, "qcamera">>
Q3   == <<r2, 0, "qcamera">>
Log2 == <<r1, 1, "qlog">>
Log3 == <<r2, 0, "qlog">>
Log4 == <<r2, 1, "qlog">>

MCGps   == {<<r1, 1>>, <<r2, 0>>, <<r2, 1>>}
MCTurny == MCGps

MCScenarios == {
  [on |-> {"cleanup"}, rows |-> R1Row, old |-> {Log1}, ended |-> {r1},
   sends |-> Send({Cam1}, 2), upsets |-> 3],
  [on |-> {"metadata", "cleanup"}, rows |-> R2Row, old |-> {Log3}, ended |-> {r2},
   sends |-> Send({Log4}, 1), upsets |-> 0],
  [on |-> {"transcoder"}, rows |-> R1Row, old |-> {Q1, Q2}, ended |-> {},
   sends |-> Send({Cam1}, 1), upsets |-> 1],
  [on |-> {"transcoder", "cleanup"}, rows |-> R1Row, old |-> {Log1, Cam1}, ended |-> {r1},
   sends |-> Send({Q1}, 1), upsets |-> 0],
  [on |-> {"alpr", "cleanup"}, rows |-> R1Row, old |-> {Log1, Cam1, Q1}, ended |-> {r1},
   sends |-> Send({Q2}, 1), upsets |-> 1],
  [on |-> {"metadata", "trips"}, rows |-> R1Row, old |-> {Log1}, ended |-> {},
   sends |-> Send({Log2}, 1), upsets |-> 0],
  [on |-> {"metadata", "trips", "events"}, rows |-> R1Row, old |-> {Log1}, ended |-> {},
   sends |-> Send({Log1}, 1), upsets |-> 1],
  [on |-> {"metadata", "trips", "events", "cleanup"}, rows |-> R1Row, old |-> {Log1}, ended |-> {},
   sends |-> Send({Log1}, 1), upsets |-> 0],
  [on |-> {"metadata"}, rows |-> R1Row, old |-> {Log1}, ended |-> {},
   sends |-> Send({Log2, Log3}, 1), upsets |-> 0],
  [on |-> {"thumbs", "cleanup"}, rows |-> Rows12, old |-> {Q2, Q3}, ended |-> {r2},
   sends |-> Send({Q1}, 1), upsets |-> 0],
  [on |-> {"thumbs"}, rows |-> Rows12, old |-> {Q2, Q3}, ended |-> {},
   sends |-> Send({Q1}, 1), upsets |-> 1],
  [on |-> {"metadata"}, rows |-> R1Row, old |-> {Log2}, ended |-> {},
   sends |-> Send({Log1}, 1), upsets |-> 1],
  [on |-> {"cleanup"}, rows |-> R1Row, old |-> {Log1}, ended |-> {r1},
   sends |-> Send({Mark1, Cam1}, 1), upsets |-> 1] }
=============================================================================
