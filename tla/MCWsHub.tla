------------------------------ MODULE MCWsHub -------------------------------
(* One device that connects three times.                                   *)
EXTENDS WsHub, TLC

CONSTANTS d1, c1, c2, c3

\* One device that reconnects twice.
MCReconnects == (c1 :> d1) @@ (c2 :> d1) @@ (c3 :> d1)
=============================================================================
