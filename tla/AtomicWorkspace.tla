--------------------------- MODULE AtomicWorkspace ---------------------------
(***************************************************************************)
(* What the server promises, without logs, markers, locks or recovery: a    *)
(* workspace on which every request is applied in one step, in a state it   *)
(* asked for, and once; success is reported only for what was applied, and  *)
(* under one operation id.  History that is dropped takes with it what is   *)
(* known of a request, which may then be applied again.                     *)
(*                                                                         *)
(* This is the promise of a server that has the workspace for itself on a   *)
(* machine that keeps its power.                                            *)
(***************************************************************************)
EXTENDS Integers, FiniteSets

CONSTANTS
  Requests, Paths, Contents, Body,  \* as in OperationStore
  Operation,                        \* operation ids
  None                              \* an absent file

VARIABLES
  file,       \* what each path holds
  applied,    \* how often each request has been applied
  reported,   \* the operations reported as the request's success
  forgotten,  \* how often what was known of a request was dropped
  void        \* requests of which the record was dropped in mid-course

vars == <<file, applied, reported, forgotten, void>>

FileState == Contents \cup {None}

Init ==
  /\ file \in [Paths -> FileState]
  /\ applied = [r \in Requests |-> 0] /\ reported = [r \in Requests |-> {}]
  /\ forgotten = [r \in Requests |-> 0] /\ void = {}

\* The state a request asks for, and the state it leaves.
Asked(r, current) ==
  CASE Body[r].op = "create" -> current = None
    [] Body[r].op = "edit"   -> current = Body[r].base
    [] Body[r].op = "delete" -> current # None
    [] OTHER                 -> TRUE

Left(r, current) ==
  CASE Body[r].op = "delete"           -> None
    [] Body[r].op \in {"create", "edit"} -> Body[r].new
    [] OTHER                           -> current

Fresh(r) == r \in void \/ applied[r] <= forgotten[r]

Apply(r) ==
  /\ Fresh(r) /\ Asked(r, file[Body[r].path])
  /\ file' = [file EXCEPT ![Body[r].path] = Left(r, @)]
  /\ applied' = [applied EXCEPT ![r] = @ + 1]
  /\ UNCHANGED <<reported, forgotten, void>>

\* One operation is reported for each time the request was applied.
Report(r, o) ==
  /\ applied[r] > 0
  /\ r \in void \/ Cardinality(reported[r] \cup {o}) <= 1 + forgotten[r]
  /\ reported' = [reported EXCEPT ![r] = @ \cup {o}]
  /\ UNCHANGED <<file, applied, forgotten, void>>

\* Any requests at once.
Forget ==
  /\ \A r \in Requests : forgotten'[r] \in {forgotten[r], forgotten[r] + 1}
  /\ void \subseteq void' /\ void' \subseteq Requests
  /\ UNCHANGED <<file, applied, reported>>

Next ==
  \/ \E r \in Requests : Apply(r)
  \/ \E r \in Requests, o \in Operation : Report(r, o)
  \/ Forget

Spec == Init /\ [][Next]_vars
=============================================================================
