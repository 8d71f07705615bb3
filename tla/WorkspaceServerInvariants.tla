---------------------- MODULE WorkspaceServerInvariants ----------------------
(***************************************************************************)
(* The invariants behind AtMostOnce, LandedNotDropped, RecoverySettles,      *)
(* NoPhantomCommit and ImplementsAtomic, on top of IInv.  Each is inductive  *)
(* together with the ones before it; WorkspaceServerProofs proves that       *)
(* they are.                                                                 *)
(*                                                                           *)
(* The argument.  One operation at most is ever named as a request's, by a   *)
(* log, a table, a handler or a client (NamedInv), because a request is with *)
(* one handler at a time (ClaimInv) and recovery names what the log names    *)
(* (AgreeInv).  Markers are in the order of their operations (StampInv,      *)
(* OrderInv) and start from what the file held (MarkInv, BaseInv), so the    *)
(* mutations of a path that follow an unresolved marker form a chain to what *)
(* the path holds (SyncInv, KnownInv, ChainInv), which recovery follows: it  *)
(* withdraws no marker of a mutation (DropInv), and so every request that    *)
(* was carried out is seen to have been (RunInv).  Where one failure at most *)
(* is added to that, the marker of a mutation that did not happen is the     *)
(* newest one until its handler or recovery withdraws it (StrayInv), so what *)
(* is committed or reported did happen (RanInv).                             *)
(***************************************************************************)
EXTENDS WorkspaceServer

-----------------------------------------------------------------------------
(***************************************************************************)
(* One operation for each request.                                         *)
(***************************************************************************)
\* Where a handler has its request claimed; where that has no operation yet.
ActivePcs == Pcs \ {"idle", "claim"}
ClaimedPcs == {"guard", "check", "hash", "prepare", "spawn"}

\* The table of requests is the log's, as far as it can be; in recovery the table
\* of records is the log's too, and what is owed is a result.
AgreeInv ==
  /\ Up => \A r \in Requests :
       /\ requests[r].status \in {"done", "error"} => reqLog[r] = requests[r]
       /\ requests[r].status = "inprogress" => reqLog[r].status # "unknown"
  /\ phase = "recover" =>
       /\ records = [o \in Ids |-> IF opsLog[o].tag = "aborted" THEN NoRecord
                                                                ELSE opsLog[o]]
       /\ \A r \in Requests : requests[r].status # "unknown" => requests[r] = reqLog[r]
  /\ phase # "recover" => owing.req = None
  /\ owing.req # None => owing.entry.status \in {"done", "error"}

\* A request is with one handler at most, and in progress while it is.
ClaimInv ==
  \A t \in Handlers : hs[t].pc \in ActivePcs =>
    /\ requests[hs[t].req].status = "inprogress"
    /\ \A u \in Handlers \ {t} : hs[u].pc \in ActivePcs => hs[u].req # hs[t].req

RequestInv == AgreeInv /\ ClaimInv

\* An entry, or a record, that makes o an operation of request r.
Names(e, o) == e.status = "done" /\ e.id = o
Keeps(rec, r) == rec.req = r /\ rec.tag \in {"prepared", "fs", "exec", "rejected"}

\* The operations anything names as request r's.
Named(r) ==
  {o \in Ids : \/ o \in told[r]
               \/ Names(requests[r], o) \/ Names(reqLog[r], o)
               \/ owing.req = r /\ Names(owing.entry, o)
               \/ Keeps(opsLog[o], r) \/ Keeps(records[o], r)
               \/ \E t \in Handlers : hs[t].req = r /\ hs[t].id = o}

\* Request r can still come to an operation.
Untouched(r) ==
  \/ Up /\ requests[r].status = "unknown"
  \/ reqLog[r].status = "unknown"
  \/ \E t \in Handlers : hs[t].pc \in ClaimedPcs /\ hs[t].req = r

\* No result of request r is stored: none was told since prune last dropped it.
Undecided(r) ==
  \/ reqLog[r].status = "inprogress"
  \/ Up /\ requests[r].status = "inprogress"

\* One operation for each time prune dropped the request's entry, and none in
\* reserve while the request can still come to one.
NamedInv ==
  \A r \in Requests :
    /\ Cardinality(Named(r)) <= 1 + forgets[r]
    /\ Untouched(r) => Cardinality(Named(r)) <= forgets[r]
    /\ Undecided(r) => Cardinality(told[r]) <= forgets[r]

-----------------------------------------------------------------------------
(***************************************************************************)
(* The order of the markers, and what they start from.                     *)
(***************************************************************************)
\* The line of a mutation: its marker or its record.
InLog(o) == opsLog[o].tag \in {"prepared", "fs"}
InTable(o) == records[o].tag \in {"prepared", "fs"}

\* While the clock keeps time, nothing is stamped later than now.
StampInv ==
  clock.steps = 0 =>
    /\ clock.at = clock.wall
    /\ \A o \in Ids : /\ opsLog[o].ts <= clock.wall /\ records[o].ts <= clock.wall
                      /\ slot[o] <= clock.wall

\* While the clock keeps time, a marker is older than every later mutation, by
\* its time stamp and by its place in the table.
OrderInv ==
  clock.steps = 0 => \A o, q \in Ids : o < q =>
    /\ opsLog[o].tag = "prepared" /\ InLog(q) => opsLog[o].ts < opsLog[q].ts
    /\ records[o].tag = "prepared" /\ InTable(q) => /\ records[o].ts < records[q].ts
                                                     /\ slot[o] < slot[q]

\* The table's records are in the log, for the same request and from the same
\* state; what was pruned or dropped has no marker; a handler's marker is its own
\* and the newest mutation, and in place once it installed.
MarkInv ==
  /\ \A o \in Ids : records[o].tag # "none" =>
       /\ opsLog[o].tag # "none" /\ opsLog[o].req = records[o].req
       /\ opsLog[o].before = records[o].before
  /\ \A o \in pruned : opsLog[o].tag # "prepared" /\ (Up => records[o].tag # "prepared")
  /\ \A o \in dropped : ~InLog(o) /\ (Up => ~InTable(o))
  /\ \A t \in Handlers : hs[t].pc \in MarkedPcs =>
       /\ records[hs[t].id].req = hs[t].req /\ records[hs[t].id].before = hs[t].before
       /\ \A o \in Ids : InLog(o) \/ o \in landed => o <= hs[t].id
  /\ \A t \in Handlers : hs[t].pc \in {"sync", "commit"} => hs[t].id \in landed

\* Where a handler has looked at its file and has not changed it.
BasedPcs == {"hash", "prepare", "verify", "install"}

\* While nobody else writes, what a handler saw is what its file holds, and is what
\* its request asked for; so a marker never leaves the state it started from.
BaseInv ==
  externals = 0 =>
    /\ \A t \in Handlers : hs[t].pc \in BasedPcs =>
         /\ OpOf(t) \in FsOps /\ Precondition(hs[t].req, hs[t].before)
         /\ hs[t].before = file[PathAt(t)]
    /\ \A o \in Ids :
         /\ opsLog[o].tag = "prepared" => opsLog[o].before # After(opsLog[o].req)
         /\ records[o].tag = "prepared" => records[o].before # After(records[o].req)

\* Nobody else wrote to the workspace, and the clock kept the order of events.
Calm == externals = 0 /\ clock.steps = 0

\* The marker of operation m is in the log, or in the table that prune may
\* write the log from.
Marker(m) == opsLog[m].tag = "prepared" \/ (Up /\ records[m].tag = "prepared")

\* The mutations of path p that are in the workspace and in the log.
On(p) == {o \in landed : InLog(o) /\ PathOf(opsLog[o].req) = p}

\* Operation o is what path p shows, or what the next mutation of p started from.
Linked(o, p) ==
  \/ file[p] = After(opsLog[o].req) /\ \A q \in On(p) : q <= o
  \/ \E q \in On(p) : /\ o < q /\ opsLog[q].before = After(opsLog[o].req)
                      /\ \A v \in On(p) : v <= o \/ q <= v

\* Prune has not touched what recovery needs to decide about the marker of m.
Intact(m) == pruned = {} \/ (opsLog[m].req \notin orphaned /\ Undecided(opsLog[m].req))

\* A mutation whose marker is unresolved has an entry for its request.
KnownInv ==
  \A o \in landed : Marker(o) =>
    /\ reqLog[opsLog[o].req].status # "unknown"
    /\ Up => requests[opsLog[o].req].status # "unknown"

\* Unsynced installs of a path are its newest mutations, with what they replaced.
SyncInv ==
  \A p \in Paths : \A u \in unsynced[p] :
    /\ u.id \in landed /\ PathOf(u.req) = p
    /\ InLog(u.id) => /\ opsLog[u.id].req = u.req
                      /\ externals = 0 => opsLog[u.id].before = u.old
    /\ \A o \in On(p) : u.id < o => \E v \in unsynced[p] : v.id = o

\* From m on, the mutations of path p lead from one to the next and to what p
\* holds, and prune would keep them.
Chain(m, p) ==
  /\ \A o \in On(p) : m <= o => Linked(o, p) /\ (Up => InTable(o))
  /\ \A u \in unsynced[p] : m <= u.id => InLog(u.id)

\* An unresolved marker of a mutation begins a chain: however recovery interleaves
\* with crashes, power losses and prunes, it can follow the evidence.
ChainInv ==
  Calm => \A m \in landed : Marker(m) /\ Intact(m) => Chain(m, PathOf(opsLog[m].req))

\* Recovery withdrew no marker of a mutation.
DropInv == externals = 0 /\ ~EvidenceLost => landed \cap dropped = {}

-----------------------------------------------------------------------------
(***************************************************************************)
(* No request is carried out twice.                                        *)
(***************************************************************************)
\* Where a handler is before its request's effect.
RunPcs == ClaimedPcs \cup UnlandedPcs

\* Request r can still be carried out.
Unrun(r) ==
  \/ Up /\ requests[r].status = "unknown"
  \/ reqLog[r].status = "unknown"
  \/ \E t \in Handlers : hs[t].pc \in RunPcs /\ hs[t].req = r

\* Record rec of operation o shows recovery that request r was carried out.
Shows(o, rec, r) ==
  rec.req = r /\ (Committed(rec) \/ (rec.tag = "prepared" /\ o \in landed))

\* Request r was carried out once for each time prune dropped its entry; once
\* less while it can still be; and while it is in progress, recovery will see it.
RunOf(r) ==
  /\ runs[r] <= 1 + forgets[r]
  /\ Unrun(r) => runs[r] <= forgets[r]
  /\ Body[r].op # "exec" =>
       /\ reqLog[r].status = "inprogress" =>
            runs[r] <= forgets[r] \/ \E o \in Ids : Shows(o, opsLog[o], r)
       /\ Up /\ requests[r].status = "inprogress" =>
            runs[r] <= forgets[r] \/ \E o \in Ids : Shows(o, records[o], r)

\* Only exec spawns, and no request of which prune left the evidence runs twice.
RunInv ==
  /\ \A t \in Handlers : hs[t].pc = "spawn" => OpOf(t) = "exec"
  /\ Calm => \A r \in Requests : r \in orphaned \/ RunOf(r)

OnceInv ==
  /\ RequestInv /\ NamedInv /\ StampInv /\ OrderInv /\ MarkInv /\ BaseInv
  /\ KnownInv /\ SyncInv /\ ChainInv /\ DropInv /\ RunInv

-----------------------------------------------------------------------------
(***************************************************************************)
(* Nothing is recorded or reported that did not happen.                    *)
(***************************************************************************)
\* A torn log, or a withdrawal that nobody else caused, is the trace of a failure;
\* both together are the traces of two.
FaultInv ==
  /\ torn => faults > 0
  /\ externals = 0 => \A t \in Handlers :
       hs[t].pc = "withdraw" => faults > 0 /\ (torn => faults > 1)

\* The server has the workspace for itself, on a machine that keeps its power and
\* the time, and one call to the file system failed at most.
Alone == faults <= 1 /\ Calm /\ losses = 0

\* A handler is about to install operation o, or to withdraw it.
Held(o) == \E t \in Handlers : hs[t].pc \in UnlandedPcs /\ hs[t].id = o

\* The marker of a mutation that is not in the workspace.
Stray(o) == opsLog[o].tag = "prepared" /\ o \notin landed

\* It is the newest, nothing was built on it, and its handler or the next recovery
\* will withdraw it.
StraySound(o) ==
  /\ file[PathOf(opsLog[o].req)] = opsLog[o].before
  /\ \A q \in Ids : q # o /\ InLog(q) => opsLog[q].ts < opsLog[o].ts
  /\ phase = "recover" => \A q \in Ids : q # o /\ InTable(q) => slot[q] < slot[o]
  /\ phase = "serving" => Held(o) \/ (torn /\ \A t \in Handlers : hs[t].pc \notin MarkedPcs)

\* Every committed mutation happened; a marker of a serving server is some handler's
\* or of a mutation; and stray markers are as they have to be.
StrayInv ==
  Alone =>
    /\ NoPhantomCommit
    /\ \A o \in Ids : phase = "serving" /\ records[o].tag = "prepared" => o \in landed \/ Held(o)
    /\ \A o \in Ids : Stray(o) => StraySound(o)

\* A result that names an operation.
Success(e) == e.status = "done" /\ e.id # 0

\* What is known of a request that succeeded: it was carried out.  Only a handler
\* that is done with its command, or about to finish, has a success to report.
RanInv ==
  /\ \A t \in Handlers : hs[t].ok => hs[t].pc \in ExecPcs \cup {"finish"}
  /\ Alone =>
       /\ \A r \in Requests :
            /\ runs[r] >= 0
            /\ Success(reqLog[r]) \/ (Up /\ Success(requests[r])) => runs[r] > 0
       /\ \A o \in Ids : opsLog[o].tag = "exec" \/ (InLog(o) /\ o \in landed)
                           => runs[opsLog[o].req] > 0
       /\ owing.req # None /\ Success(owing.entry) => runs[owing.req] > 0
       /\ \A t \in Handlers : hs[t].ok /\ hs[t].id # 0 => runs[hs[t].req] > 0

TrueInv == FaultInv /\ StrayInv /\ RanInv
=============================================================================
