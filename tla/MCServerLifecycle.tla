------------------------- MODULE MCServerLifecycle -------------------------
(***************************************************************************)
(* Instances of ServerLifecycle for TLC: a server, its successor and, where *)
(* it matters, a rival.  The graces keep the order of those in the code.    *)
(***************************************************************************)
EXTENDS ServerLifecycle, TLC

CONSTANTS s1, s2, s3   \* servers

Symmetry == Permutations(Servers)
=============================================================================
