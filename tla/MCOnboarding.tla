----------------------------- MODULE MCOnboarding -----------------------------
(***************************************************************************)
(* Instance of Onboarding for TLC.  On host h an upgrade and an addition of *)
(* different protocols race to install; three additions contend for a name, *)
(* a root and the shell of host g.                                          *)
(***************************************************************************)
EXTENDS Onboarding, TLC

CONSTANTS a1, a2, a3, u1   \* three additions, an upgrade

V(p, s) == [protocol |-> p, software |-> s]
E(n, h, r, sh, b) == [name |-> n, host |-> h, root |-> r, shell |-> sh, bin |-> b]

MCRelease == (a1 :> V(1, 2)) @@ (a2 :> V(1, 1)) @@ (a3 :> V(1, 1)) @@ (u1 :> V(2, 1))
MCWant ==
  (a1 :> E("n1", "h", "r2", "posix", "managed")) @@
  (a2 :> E("n1", "g", "r2", "posix", "custom")) @@
  (a3 :> E("n2", "g", "r1", "powershell", "custom")) @@
  (u1 :> E("n0", "h", "r1", "posix", "managed"))
MCTyped == (a1 :> "r2") @@ (a2 :> "r2") @@ (a3 :> "r2") @@ (u1 :> "r1")
MCCustom == [x \in Hosts |-> V(1, 0)]
MCFound == [x \in Hosts |-> IF x = "h" THEN Binaries ELSE {Absent}]
MCFleet0 == [n \in Names |-> IF n = "n0" THEN MCWant[u1] ELSE None]
=============================================================================
