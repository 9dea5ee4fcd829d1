---------------------------- MODULE MCPushClient ----------------------------
(* PushClient with two pushers and two callers of Close. *)
EXTENDS PushClient

CONSTANTS p1, p2, c1, c2
=============================================================================
