------------------------------ MODULE MCExecRun ------------------------------
(***************************************************************************)
(* Instances of ExecRun for TLC: a command and its descendants.             *)
(***************************************************************************)
EXTENDS ExecRun, TLC

CONSTANTS k1, k2   \* descendants

Symmetry == Permutations(Kids)
=============================================================================
