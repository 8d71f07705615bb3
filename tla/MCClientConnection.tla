------------------------- MODULE MCClientConnection -------------------------
(***************************************************************************)
(* An instance of ClientConnection for TLC: two callers that may call again,*)
(* so that a request given up on, one in the slot and one queued meet.      *)
(***************************************************************************)
EXTENDS ClientConnection

CONSTANTS c1, c2   \* callers
=============================================================================
