------------------------------ MODULE MCWsRpc -------------------------------
(* One device, whose connections they all are.                             *)
EXTENDS WsRpc, TLC

CONSTANTS d1, c1, k1, k2

MCDongleOf == [c \in Conns |-> d1]
=============================================================================
