---------------------------- MODULE MCFleetReload ----------------------------
(***************************************************************************)
(* Instance of FleetReload for TLC: two calls on one workspace whose entry  *)
(* comes, moves, breaks and goes.                                           *)
(***************************************************************************)
EXTENDS FleetReload

CONSTANTS c1, c2, w1, e1, e2

MCTarget == [c \in Calls |-> w1]
=============================================================================
