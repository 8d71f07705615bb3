----------------------------- MODULE MCTransfer -----------------------------
(***************************************************************************)
(* Instances of Transfer for TLC: an upload that may replace its target and *)
(* one that may not, to the same path or to a path of its own in scratch.   *)
(***************************************************************************)
EXTENDS Transfer

CONSTANTS u1, u2, p1   \* uploads, a target

OneTarget == [u \in Uploads |-> p1]
=============================================================================
