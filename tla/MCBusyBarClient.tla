-------------------------- MODULE MCBusyBarClient --------------------------
(* BusyBarClient with two callers of Close. *)
EXTENDS BusyBarClient

CONSTANTS c1, c2
=============================================================================
