------------------------- MODULE MCWorkspaceServer -------------------------
(***************************************************************************)
(* Instances of WorkspaceServer for TLC: one file, two contents, and        *)
(* requests that build on one another's result, so that the decisions of    *)
(* recovery about one file differ with what came before and after.          *)
(***************************************************************************)
EXTENDS WorkspaceServer, TLC

CONSTANTS
  p1, x, y,       \* a path and two contents
  c1,             \* create with x
  e1, e2,         \* edit x into y, and y into x
  d1,             \* delete
  r1,             \* exec
  g1,             \* gc keeping nothing
  h1, h2          \* handler tasks

Request(op, base, new, keep) ==
  [op |-> op, path |-> p1, base |-> base, new |-> new, keep |-> keep]

Bodies ==
  c1 :> Request("create", x, x, None) @@ d1 :> Request("delete", x, x, None)
  @@ e1 :> Request("edit", x, y, None) @@ e2 :> Request("edit", y, x, None)
  @@ r1 :> Request("exec", x, x, None) @@ g1 :> Request("gc", x, x, 0)

MCBody == [r \in Requests |-> Bodies[r]]

Symmetry == Permutations(Handlers)
=============================================================================
