--------------------------- MODULE OperationStore ---------------------------
(***************************************************************************)
(* The operation store of one workspace (store.rs): the operation log, the *)
(* request log and the op-counter file in the state directory, and the     *)
(* in-memory tables a running server keeps of them.                        *)
(*                                                                         *)
(* Every operator below with primed variables is the whole effect of one   *)
(* function of store.rs.  They are conjoined by WorkspaceServer with what   *)
(* their callers do.  The functions run under `log_append` (and, for prune, *)
(* under both table locks too), so each of them is one step.                *)
(*                                                                         *)
(* The logs are JSONL files, of which the loader keeps the LAST line of     *)
(* every operation id and of every request id; a log is therefore a         *)
(* function from ids to last lines.  A line that was only partly written    *)
(* never outlives the next start, so it is only remembered in `torn`.       *)
(***************************************************************************)
EXTENDS Integers, FiniteSets

CONSTANTS
  Requests,     \* request ids a client sends
  Paths,        \* workspace paths that requests mutate
  Contents,     \* file contents; a content stands for its SHA-256
  None,         \* no content (an absent file), no request, no holder, no limit
  Body,         \* the body each request id is sent with
  HistoryLimit, \* --history-limit, or None when disabled
  MaxOps,       \* bound: operation ids allocated, op-1 .. op-MaxOps
  MaxFaults     \* bound: failed writes and syncs

FsOps == {"create", "edit", "delete"}
Operations == FsOps \cup {"exec", "gc"}
FileState == Contents \cup {None}
Limit == Nat \cup {None}

ASSUME NoneAssumption == None \notin Requests \cup Contents \cup Nat

ASSUME BoundsAssumption == MaxOps \in Nat /\ MaxFaults \in Nat

ASSUME LimitAssumption == HistoryLimit \in Limit

ASSUME BodyAssumption ==
  Body \in [Requests -> [op : Operations, path : Paths, base : Contents,
                         new : Contents, keep : Limit]]

VARIABLES
  \* the state directory
  opsLog,    \* operations.jsonl: last line of each operation id
  reqLog,    \* requests.jsonl: last line of each request id
  counter,   \* op-counter
  \* OperationStore in the running server
  nextId,    \* next_id: the last id handed out
  records,   \* records: the table prune rewrites operations.jsonl from
  slot,      \* position of each record in that table, as a stamp
  requests,  \* requests: the idempotency table
  torn,      \* log_torn
  \* environment and history
  clock,     \* now_ms(), and the order of events it may fail to show
  faults,    \* failures so far
  pruned,    \* history: operations that prune removed as history
  forgets,   \* history: how often prune dropped each request's entry
  orphaned   \* history: requests in progress of which prune removed the evidence

diskVars == <<opsLog, reqLog, counter>>
tableVars == <<nextId, records, slot, requests>>
pruneHist == <<pruned, forgets, orphaned>>
storeVars == <<diskVars, tableVars, torn, clock, faults, pruneHist>>

Ids == 1 .. MaxOps

(***************************************************************************)
(* Log lines.  Path and result hash of an operation follow from the        *)
(* request that caused it.  The deleted-file sentinel is None: it compares  *)
(* equal to the hash of an absent file exactly where the code pairs them.   *)
(***************************************************************************)
Tags == {"none", "prepared", "fs", "exec", "rejected", "aborted"}

Record == [tag : Tags, req : Requests \cup {None}, before : FileState, ts : Nat]

NoRecord == [tag |-> "none", req |-> None, before |-> None, ts |-> 0]

\* `wall` is what now_ms() returns: it advances with every stamp, and falls
\* behind `at` for good when the host's clock is set back or two stamps are
\* taken in one millisecond.
Clock == [at : Nat, wall : Nat, steps : Nat]

Tick == [at |-> clock.at + 1, wall |-> clock.wall + 1, steps |-> clock.steps]

Status == {"unknown", "inprogress", "done", "error"}

\* `id` is the operation a stored result names; 0 for a result naming none.
Entry == [status : Status, id : 0 .. MaxOps]

NoEntry == [status |-> "unknown", id |-> 0]
InProgress == [status |-> "inprogress", id |-> 0]
Done(o) == [status |-> "done", id |-> o]
Failed == [status |-> "error", id |-> 0]

PathOf(r) == Body[r].path
After(r) == IF Body[r].op = "delete" THEN None ELSE Body[r].new

Committed(rec) == rec.tag \in {"fs", "exec", "rejected"}
IsPending(rec) == rec.tag = "prepared"

StoreTypeOK ==
  /\ opsLog \in [Ids -> Record] /\ records \in [Ids -> Record]
  /\ reqLog \in [Requests -> Entry] /\ requests \in [Requests -> Entry]
  /\ counter \in 0 .. MaxOps /\ nextId \in 0 .. MaxOps
  /\ slot \in [Ids -> Nat] /\ clock \in Clock
  /\ torn \in BOOLEAN /\ faults \in Nat
  /\ pruned \subseteq Ids /\ forgets \in [Requests -> Nat]
  /\ orphaned \subseteq Requests
  /\ \A o \in Ids : /\ opsLog[o].tag # "none" => opsLog[o].req \in Requests
                    /\ records[o].tag # "none" => records[o].req \in Requests

StoreInit ==
  /\ opsLog = [o \in Ids |-> NoRecord] /\ records = [o \in Ids |-> NoRecord]
  /\ reqLog = [r \in Requests |-> NoEntry]
  /\ requests = [r \in Requests |-> NoEntry]
  /\ counter = 0 /\ nextId = 0
  /\ slot = [o \in Ids |-> 0] /\ clock = [at |-> MaxOps, wall |-> MaxOps, steps |-> 0]
  /\ torn = FALSE /\ faults = 0
  /\ pruned = {} /\ forgets = [r \in Requests |-> 0] /\ orphaned = {}

-----------------------------------------------------------------------------
(***************************************************************************)
(* append_line.  A failed write is rolled back, or tears the log when the   *)
(* roll-back fails too: what stays is a fragment, or the whole line short   *)
(* of its newline, which the next start completes.  A failed sync leaves    *)
(* the line in the log.  A torn log refuses every later append.             *)
(***************************************************************************)
AppendFailures == {"rolledBack", "unsynced", "tornFragment", "tornLine"}
AppendResults == {"ok", "refused"} \cup AppendFailures

\* What the next start makes of a last line without a newline: a whole record
\* gets its newline, anything less is cut off.
Completed(w) == w = "tornLine"
CutOff(w) == w = "tornFragment"

OnDisk(w) == w \in {"ok", "unsynced"} \/ Completed(w)
Tears(w) == CutOff(w) \/ Completed(w)

AppendLine(w) ==
  /\ IF torn THEN w = "refused" ELSE w \in {"ok"} \cup AppendFailures
  /\ w \in AppendFailures => faults < MaxFaults
  /\ faults' = IF w \in AppendFailures THEN faults + 1 ELSE faults
  /\ torn' = (torn \/ Tears(w))

-----------------------------------------------------------------------------
(***************************************************************************)
(* The request table.  append_request_tracked applies to the table only     *)
(* what the log took.                                                       *)
(***************************************************************************)
AppendRequestTracked(r, e, w) ==
  /\ AppendLine(w)
  /\ reqLog' = IF OnDisk(w) THEN [reqLog EXCEPT ![r] = e] ELSE reqLog
  /\ requests' = IF w = "ok" THEN [requests EXCEPT ![r] = e] ELSE requests

\* The entry a resend is answered from.
Known(r) == requests[r].status # "unknown"

\* Faulty variant: the decision taken before the lock is not taken again.
ClaimableUnchecked(r) == TRUE

\* claim_request decides again under the lock: a caller that lost the race
\* finds the winner's entry.
Claimable(r) == ~Known(r)

ClaimRequest(r, w) == AppendRequestTracked(r, InProgress, w)
RememberResult(r, o, w) == AppendRequestTracked(r, Done(o), w)
RememberError(r, w) == AppendRequestTracked(r, Failed, w)

-----------------------------------------------------------------------------
(***************************************************************************)
(* Operation records.                                                       *)
(***************************************************************************)
NextOperationId(o) == o \in Ids /\ o = nextId + 1 /\ nextId' = o

Stamped(tag, r, before) ==
  [tag |-> tag, req |-> r, before |-> before, ts |-> clock.wall + 1]

\* Faulty variant: an unsynced prepared line is left as it is.
PrepareFailureKept(o, r, before, w2) ==
  [opsLog EXCEPT ![o] = Stamped("prepared", r, before)]

\* The line a failed prepare leaves in the log: its own, or the best-effort
\* aborted marker `w2` written over an unsynced one.
PrepareFailureLine(o, r, before, w2) ==
  [opsLog EXCEPT ![o] = IF OnDisk(w2) THEN Stamped("aborted", r, before)
                                      ELSE Stamped("prepared", r, before)]

PrepareUnsynced(o, r, before) ==
  /\ ~torn /\ faults < MaxFaults
  /\ \E w2 \in {"ok"} \cup AppendFailures :
       /\ w2 \in AppendFailures => faults + 1 < MaxFaults
       /\ faults' = IF w2 \in AppendFailures THEN faults + 2 ELSE faults + 1
       /\ torn' = Tears(w2)
       /\ opsLog' = PrepareFailureLine(o, r, before, w2)

PrepareFsRecord(o, r, before, w) ==
  /\ NextOperationId(o)
  /\ clock' = Tick
  /\ \/ /\ w # "unsynced"
        /\ AppendLine(w)
        /\ opsLog' = IF OnDisk(w)
                     THEN [opsLog EXCEPT ![o] = Stamped("prepared", r, before)]
                     ELSE opsLog
     \/ w = "unsynced" /\ PrepareUnsynced(o, r, before)
  /\ records' = IF w = "ok"
                THEN [records EXCEPT ![o] = Stamped("prepared", r, before)]
                ELSE records
  /\ slot' = IF w = "ok" THEN [slot EXCEPT ![o] = clock.at + 1] ELSE slot

\* append_record_tracked with the table change of its callers: a record of a
\* known id takes that id's slot, a new one goes to the end.
AppendRecordTracked(o, rec, w) ==
  /\ AppendLine(w)
  /\ clock' = Tick
  /\ opsLog' = IF OnDisk(w) THEN [opsLog EXCEPT ![o] = rec] ELSE opsLog
  /\ records' = IF w # "ok" THEN records
                ELSE [records EXCEPT ![o] = IF rec.tag = "aborted" THEN NoRecord
                                                                   ELSE rec]
  /\ slot' = IF w = "ok" /\ records[o].tag = "none"
             THEN [slot EXCEPT ![o] = clock.at + 1] ELSE slot

CommitFsRecord(o, r, before, w) ==
  AppendRecordTracked(o, Stamped("fs", r, before), w)

AbortPrepared(o, r, before, w) ==
  AppendRecordTracked(o, Stamped("aborted", r, before), w)

\* Faulty variant: an exec record reaches the log but not the table.
AppendExecUntracked(o, r, tag, w) ==
  /\ AppendLine(w)
  /\ clock' = Tick
  /\ opsLog' = IF OnDisk(w) THEN [opsLog EXCEPT ![o] = Stamped(tag, r, None)]
                            ELSE opsLog
  /\ UNCHANGED <<records, slot>>

AppendExecRecord(o, r, tag, w) ==
  AppendRecordTracked(o, Stamped(tag, r, None), w)

-----------------------------------------------------------------------------
(***************************************************************************)
(* prune: keep every pending marker and the `keep` newest records of        *)
(* history, and the entries of requests in progress or still referenced.    *)
(* Memory changes first; then op-counter, operations.jsonl and              *)
(* requests.jsonl are replaced in this order, each atomically.  `replaced`  *)
(* says how many of the three were when a failure or a crash stopped it.    *)
(***************************************************************************)
\* q comes after o in the table.  Records of one millisecond are loaded in the
\* order of their ids, as strings; the ids of an instance have one digit.
Later(q, o) == slot[q] > slot[o] \/ (slot[q] = slot[o] /\ q > o)

History == {o \in Ids : records[o].tag # "none" /\ ~IsPending(records[o])}
Pending == {o \in Ids : IsPending(records[o])}

NewestHistory(keep) ==
  {o \in History : Cardinality({q \in History : Later(q, o)}) < keep}

\* Faulty variant: markers are pruned like history.
KeptHistoryOnly(keep) == NewestHistory(keep)

KeptRecords(keep) == Pending \cup NewestHistory(keep)

KeptRequests(kept) ==
  {r \in Requests : \/ requests[r].status = "inprogress"
                    \/ \E o \in kept : records[o].req = r}

\* q is a committed change, later than o, of the file that o is about.
Follows(q, o) ==
  /\ Later(q, o) /\ records[q].tag = "fs"
  /\ PathOf(records[q].req) = PathOf(records[o].req)

\* The records by which recover could tell what became of request r: its own
\* and, when its marker is still pending, those of what followed on its file.
Evidence(r) ==
  {o \in Ids : \/ Committed(records[o]) /\ records[o].req = r
               \/ \E m \in Pending : records[m].req = r /\ Follows(o, m)}

\* Faulty variant: op-counter is replaced after the logs.
CounterWrittenLast == 4

CounterWrittenAt == 1
OpsWrittenAt == 2
RequestsWrittenAt == 3

Prune(keep, replaced, ok) ==
  LET kept == KeptRecords(keep)
      live == KeptRequests(kept)
  IN  /\ replaced \in 0 .. 3
      /\ ok => replaced = 3
      /\ ~ok => faults < MaxFaults
      /\ faults' = IF ok THEN faults ELSE faults + 1
      /\ records' = [o \in Ids |-> IF o \in kept THEN records[o] ELSE NoRecord]
      /\ requests' = [r \in Requests |-> IF r \in live THEN requests[r]
                                                       ELSE NoEntry]
      /\ counter' = IF replaced >= CounterWrittenAt THEN nextId ELSE counter
      /\ opsLog' = IF replaced >= OpsWrittenAt THEN records' ELSE opsLog
      /\ reqLog' = IF replaced >= RequestsWrittenAt THEN requests' ELSE reqLog
      /\ pruned' = pruned \cup {o \in Ids : Committed(records[o]) /\ o \notin kept}
      /\ orphaned' = orphaned \cup
           {r \in Requests : /\ requests[r].status = "inprogress"
                             /\ ~(Evidence(r) \subseteq kept)}
      /\ forgets' = [r \in Requests |->
                       IF requests[r].status # "unknown" /\ r \notin live
                       THEN forgets[r] + 1 ELSE forgets[r]]
      /\ UNCHANGED <<nextId, slot, torn, clock>>

-----------------------------------------------------------------------------
(***************************************************************************)
(* OperationStore::new: both logs collapsed by id, aborted markers gone,    *)
(* the table in timestamp order, the id counter at the high-water mark.     *)
(***************************************************************************)
HighWater(n) ==
  /\ n >= counter
  /\ \A o \in Ids : opsLog[o].tag # "none" => n >= o
  /\ n = counter \/ \E o \in Ids : o = n /\ opsLog[o].tag # "none"

Load ==
  /\ \E n \in 0 .. MaxOps : HighWater(n) /\ nextId' = n
  /\ records' = [o \in Ids |-> IF opsLog[o].tag = "aborted" THEN NoRecord
                                                            ELSE opsLog[o]]
  /\ slot' = [o \in Ids |-> opsLog[o].ts]
  /\ requests' = reqLog
  /\ torn' = FALSE

\* What a process leaves behind in memory: nothing.
Unload ==
  /\ nextId' = 0
  /\ records' = [o \in Ids |-> NoRecord]
  /\ slot' = [o \in Ids |-> 0]
  /\ requests' = [r \in Requests |-> NoEntry]
  /\ torn' = FALSE

-----------------------------------------------------------------------------
(***************************************************************************)
(* recover, the decision about one marker.                                  *)
(***************************************************************************)
\* Faulty variant: later operations are not taken as evidence.
NeverContinued(o) == FALSE

ContinuedFrom(o) ==
  \E q \in Ids : Follows(q, o) /\ records[q].before = After(records[o].req)

RecoveryOutcome(o, current) ==
  IF ContinuedFrom(o) THEN "committed"
  ELSE IF current = records[o].before THEN "noop"
  ELSE IF current = After(records[o].req) THEN "committed"
  ELSE "conflict"

\* Faulty variant: markers are resolved oldest first.
OldestMarker(o) ==
  /\ IsPending(records[o])
  /\ \A q \in Pending : ~Later(o, q)

NewestMarker(o) ==
  /\ IsPending(records[o])
  /\ \A q \in Pending : ~Later(q, o)

\* find_committed_by_request_id: the first committed record of the request.
CommittedFor(r) ==
  {o \in Ids : /\ Committed(records[o]) /\ records[o].req = r
               /\ \A q \in Ids : Committed(records[q]) /\ records[q].req = r
                                   => ~Later(o, q)}

\* reconstruct_result: a rejected exec replays as an error, naming no operation.
Reconstructed(o) == IF records[o].tag = "rejected" THEN Done(0) ELSE Done(o)
=============================================================================
