------------------------- MODULE MCRouteDataRequest -------------------------
(* The kinds of one request and the files they ask for in a segment.        *)
EXTENDS RouteDataRequest, TLC

MCLogs == ("full_logs" :> {"rlog"})
MCAll  == ("all" :> {"fcamera", "rlog"})
=============================================================================
