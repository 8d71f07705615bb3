--------------------------- MODULE WorkspaceServer ---------------------------
(***************************************************************************)
(* A server process on one workspace: the request handlers of server.rs,    *)
(* the mutations of fs_ops.rs with their write-ahead sequence, exec as the  *)
(* store sees it, gc, and the start-up sequence of Server::new, on top of   *)
(* the store of OperationStore.  Handlers are tokio tasks and interleave at  *)
(* every step; `write_guard` serialises the mutating ones.  The server may   *)
(* be killed at any point and started again, the machine may lose power,     *)
(* other writers (a command run by exec, anything else on the host) may      *)
(* change a file, and writes and syncs may fail.                             *)
(***************************************************************************)
EXTENDS OperationStore

CONSTANTS
  Handlers,     \* handler tasks
  MaxSends,     \* bound: requests sent, resends included
  MaxCrashes,   \* bound: server deaths
  MaxLosses,    \* bound: power losses
  MaxExternal,  \* bound: changes made by other writers
  MaxSteps,     \* bound: times the host's clock is set back
  MaxBack,      \* bound: how far
  MaxOutside    \* bound: losses, changes by others and steps together

ASSUME ServerAssumption ==
  /\ None \notin Handlers
  /\ MaxSends \in Nat /\ MaxCrashes \in Nat /\ MaxLosses \in Nat /\ MaxExternal \in Nat
  /\ MaxSteps \in Nat /\ MaxBack \in Nat /\ MaxOutside \in Nat

VARIABLES
  file,       \* workspace: what each path holds
  unsynced,   \* installs whose directory entry no sync has made durable
  phase,      \* the start-up sequence of Server::new
  owing,      \* recover: the request line owed after a marker was resolved
  guard,      \* write_lock: the handler holding it
  hs,         \* each handler's control state and locals
  landed,     \* history: operations whose mutation is in the workspace
  runs,       \* history: times each request's effect was carried out
  told,       \* history: operation ids given to the client as results
  dropped,    \* history: markers recovery withdrew
  interrupted,\* history: execs in progress at a crash
  sends, crashes, losses, externals   \* what the bounds limit

wsVars == <<file, unsynced>>
histVars == <<landed, runs, told, dropped, interrupted>>
budgetVars == <<sends, crashes, losses, externals>>
vars == <<storeVars, wsVars, phase, owing, guard, hs, histVars, budgetVars>>

Pcs == {"idle", "claim", "guard", "check", "hash", "prepare", "verify",
        "install", "sync", "commit", "withdraw", "spawn", "running", "record",
        "finish"}

\* From its prepare or its spawn on, a handler has an operation id.
MarkedPcs == {"verify", "install", "sync", "commit", "withdraw"}
ExecPcs == {"running", "record"}

HandlerState == [pc : Pcs, req : Requests \cup {None}, id : 0 .. MaxOps,
                 before : FileState, ok : BOOLEAN]

Idle == [pc |-> "idle", req |-> None, id |-> 0, before |-> None, ok |-> FALSE]

\* An install not yet synced: the operation, its request and what it replaced.
Unsynced == [id : Ids, req : Requests, old : FileState]

Phases == {"down", "recover", "failed", "serving"}

NothingOwed == [req |-> None, entry |-> NoEntry]

TypeOK ==
  /\ StoreTypeOK
  /\ file \in [Paths -> FileState]
  /\ unsynced \in [Paths -> SUBSET Unsynced]
  /\ phase \in Phases
  /\ owing \in [req : Requests \cup {None}, entry : Entry]
  /\ guard \in Handlers \cup {None}
  /\ hs \in [Handlers -> HandlerState]
  /\ \A t \in Handlers :
       /\ hs[t].pc # "idle" => hs[t].req \in Requests
       /\ hs[t].pc \in MarkedPcs \cup ExecPcs => hs[t].id \in Ids
  /\ landed \subseteq Ids
  /\ runs \in [Requests -> Int]
  /\ told \in [Requests -> SUBSET Ids]
  /\ dropped \subseteq Ids
  /\ interrupted \subseteq Requests
  /\ sends \in Nat /\ crashes \in Nat /\ losses \in Nat /\ externals \in Nat

Init ==
  /\ StoreInit
  /\ file \in [Paths -> FileState]
  /\ unsynced = [p \in Paths |-> {}]
  /\ phase = "down"
  /\ owing = NothingOwed
  /\ guard = None
  /\ hs = [t \in Handlers |-> Idle]
  /\ landed = {} /\ dropped = {} /\ interrupted = {}
  /\ runs = [r \in Requests |-> 0]
  /\ told = [r \in Requests |-> {}]
  /\ sends = 0 /\ crashes = 0 /\ losses = 0 /\ externals = 0

-----------------------------------------------------------------------------
Req(t) == hs[t].req
OpOf(t) == Body[Req(t)].op
PathAt(t) == PathOf(Req(t))

At(t, pc) == phase = "serving" /\ hs[t].pc = pc
Goto(t, pc) == hs' = [hs EXCEPT ![t].pc = pc]

\* Leave the guarded section with result `ok` and let `finish` report it.
DropGuard(t, ok) ==
  /\ guard' = None
  /\ hs' = [hs EXCEPT ![t].pc = "finish", ![t].ok = ok]

\* The client is given the stored result e of request r.
Tell(r, e) ==
  told' = [told EXCEPT ![r] = @ \cup (IF e.status = "done" /\ e.id # 0
                                      THEN {e.id} ELSE {})]

\* A failure of a file-system call that is not a log append.
Fault == faults < MaxFaults /\ faults' = faults + 1

UnchangedTables == UNCHANGED <<nextId, records, slot, requests>>
UnchangedStore == UNCHANGED storeVars
UnchangedHist == UNCHANGED <<landed, runs, dropped, interrupted>>
-----------------------------------------------------------------------------
(***************************************************************************)
(* Server::handle up to the claim.                                          *)
(***************************************************************************)
\* A resend that finds an entry is answered from it, whatever it is.
Replay(r) ==
  /\ phase = "serving" /\ sends < MaxSends
  /\ Known(r)
  /\ Tell(r, requests[r])
  /\ sends' = sends + 1
  /\ UnchangedStore /\ UnchangedHist
  /\ UNCHANGED <<wsVars, phase, owing, guard, hs, crashes, losses, externals>>

\* The unlocked first look of claim_request.
Receive(t, r) ==
  /\ At(t, "idle") /\ sends < MaxSends
  /\ ~Known(r)
  /\ hs' = [hs EXCEPT ![t] = [Idle EXCEPT !.pc = "claim", !.req = r]]
  /\ sends' = sends + 1
  /\ UnchangedStore /\ UnchangedHist
  /\ UNCHANGED <<wsVars, phase, owing, guard, told, crashes, losses, externals>>

\* Decided again under log_append.  A failed claim is answered, not executed.
Claim(t) ==
  /\ At(t, "claim")
  /\ \/ /\ ~Claimable(Req(t))
        /\ Tell(Req(t), requests[Req(t)])
        /\ hs' = [hs EXCEPT ![t] = Idle]
        /\ UnchangedStore
     \/ /\ Claimable(Req(t))
        /\ \E w \in AppendResults :
             /\ ClaimRequest(Req(t), w)
             /\ IF w # "ok" THEN hs' = [hs EXCEPT ![t] = Idle]
                ELSE Goto(t, IF OpOf(t) = "exec" THEN "spawn" ELSE "guard")
        /\ UNCHANGED <<opsLog, counter, nextId, records, slot, clock, pruneHist,
                       told>>
  /\ UnchangedHist
  /\ UNCHANGED <<wsVars, phase, owing, guard, budgetVars>>

AcquireGuard(t) ==
  /\ At(t, "guard") /\ guard = None
  /\ guard' = t
  /\ Goto(t, "check")
  /\ UnchangedStore
  /\ UNCHANGED <<wsVars, phase, owing, histVars, budgetVars>>
-----------------------------------------------------------------------------
(***************************************************************************)
(* fs_ops: create, edit and delete up to the write-ahead sequence.          *)
(***************************************************************************)
\* The state create, edit or delete requires of its file; an edit must name
\* the content it was based on and change it.
Precondition(r, current) ==
  CASE Body[r].op = "create" -> current = None
    [] Body[r].op = "edit"   -> current = Body[r].base /\ Body[r].new # current
    [] OTHER                 -> current # None

Check(t) ==
  /\ At(t, "check") /\ OpOf(t) \in FsOps
  /\ IF Precondition(Req(t), file[PathAt(t)])
     THEN /\ hs' = [hs EXCEPT
                      ![t].pc = IF OpOf(t) = "delete" THEN "hash" ELSE "prepare",
                      ![t].before = file[PathAt(t)]]
          /\ UNCHANGED guard
     ELSE DropGuard(t, FALSE)
  /\ UnchangedStore
  /\ UNCHANGED <<wsVars, phase, owing, histVars, budgetVars>>

\* delete hashes the file after having looked at its metadata.
HashBefore(t) ==
  /\ At(t, "hash")
  /\ hs' = [hs EXCEPT ![t].pc = "prepare", ![t].before = file[PathAt(t)]]
  /\ UnchangedStore
  /\ UNCHANGED <<wsVars, phase, owing, guard, histVars, budgetVars>>

Prepare(t) ==
  /\ At(t, "prepare")
  /\ \E o \in Ids, w \in AppendResults :
       /\ PrepareFsRecord(o, Req(t), hs[t].before, w)
       /\ IF w = "ok"
          THEN /\ hs' = [hs EXCEPT ![t].id = o,
                           ![t].pc = IF OpOf(t) = "edit" THEN "verify"
                                                         ELSE "install"]
               /\ UNCHANGED guard
          ELSE DropGuard(t, FALSE)
  /\ UNCHANGED <<reqLog, counter, requests, pruneHist>>
  /\ UNCHANGED <<wsVars, phase, owing, histVars, budgetVars>>

\* verify_unchanged, the last look before an edit is installed.
Verify(t) ==
  /\ At(t, "verify")
  /\ Goto(t, IF file[PathAt(t)] = hs[t].before THEN "install" ELSE "withdraw")
  /\ UnchangedStore
  /\ UNCHANGED <<wsVars, phase, owing, guard, histVars, budgetVars>>

\* A create never replaces a file and a delete needs one; a rename always works.
Installable(t) ==
  CASE OpOf(t) = "create" -> file[PathAt(t)] = None
    [] OpOf(t) = "delete" -> file[PathAt(t)] # None
    [] OTHER              -> TRUE

Install(t) ==
  /\ At(t, "install") /\ Installable(t)
  /\ file' = [file EXCEPT ![PathAt(t)] = After(Req(t))]
  /\ unsynced' = [unsynced EXCEPT ![PathAt(t)] =
        @ \cup {[id |-> hs[t].id, req |-> Req(t), old |-> file[PathAt(t)]]}]
  /\ landed' = landed \cup {hs[t].id}
  /\ runs' = [runs EXCEPT ![Req(t)] = @ + 1]
  /\ Goto(t, "sync")
  /\ UnchangedStore
  /\ UNCHANGED <<phase, owing, guard, told, dropped, interrupted, budgetVars>>

InstallFails(t) ==
  /\ At(t, "install")
  /\ \/ ~Installable(t) /\ UNCHANGED faults
     \/ Installable(t) /\ Fault
  /\ Goto(t, "withdraw")
  /\ UNCHANGED <<diskVars, tableVars, torn, clock, pruneHist>>
  /\ UNCHANGED <<wsVars, phase, owing, guard, histVars, budgetVars>>

Sync(t) ==
  /\ At(t, "sync")
  /\ OpOf(t) # "delete" => file[PathAt(t)] # None
  /\ unsynced' = [unsynced EXCEPT ![PathAt(t)] = {}]
  /\ Goto(t, "commit")
  /\ UnchangedStore
  /\ UNCHANGED <<file, phase, owing, guard, histVars, budgetVars>>

\* The mutation is there but not known durable: the marker stays.  Syncing a
\* created or edited file also fails when another writer has removed it.
SyncFails(t) ==
  /\ At(t, "sync")
  /\ \/ Fault
     \/ OpOf(t) # "delete" /\ file[PathAt(t)] = None /\ UNCHANGED faults
  /\ DropGuard(t, FALSE)
  /\ UNCHANGED <<diskVars, tableVars, torn, clock, pruneHist>>
  /\ UNCHANGED <<wsVars, phase, owing, histVars, budgetVars>>

Commit(t) ==
  /\ At(t, "commit")
  /\ \E w \in AppendResults :
       /\ CommitFsRecord(hs[t].id, Req(t), hs[t].before, w)
       /\ DropGuard(t, w = "ok")
  /\ UNCHANGED <<reqLog, counter, nextId, requests, pruneHist>>
  /\ UNCHANGED <<wsVars, phase, owing, histVars, budgetVars>>

Withdraw(t) ==
  /\ At(t, "withdraw")
  /\ \E w \in AppendResults : AbortPrepared(hs[t].id, Req(t), hs[t].before, w)
  /\ DropGuard(t, FALSE)
  /\ UNCHANGED <<reqLog, counter, nextId, requests, pruneHist>>
  /\ UNCHANGED <<wsVars, phase, owing, histVars, budgetVars>>
-----------------------------------------------------------------------------
(***************************************************************************)
(* handle_exec, which takes no guard, and gc, which does.                   *)
(***************************************************************************)
\* The id is allocated up front; then the command is rejected or started.
Spawn(t) ==
  /\ At(t, "spawn")
  /\ \E o \in Ids :
       /\ NextOperationId(o)
       /\ \/ /\ hs' = [hs EXCEPT ![t].id = o, ![t].pc = "running", ![t].ok = TRUE]
             /\ runs' = [runs EXCEPT ![Req(t)] = @ + 1]
          \/ /\ hs' = [hs EXCEPT ![t].id = o, ![t].pc = "record"]
             /\ UNCHANGED runs
  /\ UNCHANGED <<diskVars, records, slot, requests, torn, clock, faults, pruneHist>>
  /\ UNCHANGED <<wsVars, phase, owing, guard, landed, told, dropped, interrupted,
                 budgetVars>>

Exit(t) ==
  /\ At(t, "running")
  /\ Goto(t, "record")
  /\ UnchangedStore
  /\ UNCHANGED <<wsVars, phase, owing, guard, histVars, budgetVars>>

\* A run whose record could not be appended is remembered as an error.
RecordExec(t) ==
  /\ At(t, "record")
  /\ \E w \in AppendResults :
       /\ AppendExecRecord(hs[t].id, Req(t),
                           IF hs[t].ok THEN "exec" ELSE "rejected", w)
       /\ hs' = [hs EXCEPT ![t].pc = "finish", ![t].ok = @ /\ w = "ok"]
  /\ UNCHANGED <<reqLog, counter, nextId, requests, pruneHist>>
  /\ UNCHANGED <<wsVars, phase, owing, guard, histVars, budgetVars>>

\* keep, or the configured limit, or a refusal when there is neither.
Gc(t) ==
  /\ At(t, "check") /\ OpOf(t) = "gc"
  /\ LET keep == IF Body[Req(t)].keep # None THEN Body[Req(t)].keep
                                             ELSE HistoryLimit
     IN  IF keep = None THEN UnchangedStore /\ DropGuard(t, FALSE)
         ELSE \E replaced \in 0 .. 3, ok \in BOOLEAN :
                Prune(keep, replaced, ok) /\ DropGuard(t, ok)
  /\ UNCHANGED <<wsVars, phase, owing, histVars, budgetVars>>

\* finish: the result is told only once it is remembered.  The write of the reply
\* (write_line, server.rs:942) is the last thing a handler does, holds nothing of
\* the store and may wait for its client without end: ServerLifecycle has that
\* wait, and here a handler that stored its result is done.
Finish(t) ==
  /\ At(t, "finish")
  /\ LET result == IF hs[t].ok THEN Done(hs[t].id) ELSE Failed
     IN  \E w \in AppendResults :
           /\ AppendRequestTracked(Req(t), result, w)
           /\ Tell(Req(t), IF w = "ok" THEN result ELSE Failed)
  /\ hs' = [hs EXCEPT ![t] = Idle]
  /\ UNCHANGED <<opsLog, counter, nextId, records, slot, clock, pruneHist>>
  /\ UnchangedHist
  /\ UNCHANGED <<wsVars, phase, owing, guard, budgetVars>>
-----------------------------------------------------------------------------
(***************************************************************************)
(* Server::new: load, recover, prune, serve.  A failure on the way ends     *)
(* the start-up and with it the process.                                    *)
(***************************************************************************)
Start ==
  /\ phase = "down"
  /\ Load
  /\ phase' = "recover"
  /\ UNCHANGED <<diskVars, clock, faults, pruneHist>>
  /\ UNCHANGED <<wsVars, owing, guard, hs, histVars, budgetVars>>

Recovering == phase = "recover" /\ owing.req = None

\* One marker, newest first; the request line it owes is the next step.
RecoverMarker(o) ==
  LET p == records[o]
      outcome == RecoveryOutcome(o, file[PathOf(p.req)])
  IN  /\ Recovering /\ NewestMarker(o)
      /\ \E w \in AppendResults :
           /\ IF outcome = "committed" THEN CommitFsRecord(o, p.req, p.before, w)
              ELSE AbortPrepared(o, p.req, p.before, w)
           /\ phase' = IF w = "ok" THEN phase ELSE "failed"
           /\ owing' = IF w # "ok" \/ outcome = "noop" THEN NothingOwed
                       ELSE [req |-> p.req,
                             entry |-> IF outcome = "committed" THEN Done(o) ELSE Failed]
           /\ dropped' = IF OnDisk(w) /\ outcome # "committed"
                         THEN dropped \cup {o} ELSE dropped
      /\ UNCHANGED <<reqLog, counter, nextId, requests, pruneHist>>
      /\ UNCHANGED <<wsVars, guard, hs, landed, runs, told, interrupted, budgetVars>>

RecoverRemember ==
  /\ phase = "recover" /\ owing.req # None
  /\ \E w \in AppendResults :
       /\ AppendRequestTracked(owing.req, owing.entry, w)
       /\ phase' = IF w = "ok" THEN phase ELSE "failed"
  /\ owing' = NothingOwed
  /\ UNCHANGED <<opsLog, counter, nextId, records, slot, clock, pruneHist>>
  /\ UNCHANGED <<wsVars, guard, hs, histVars, budgetVars>>

\* Faulty variant: only commands are looked at.
StuckExecs == {r \in Requests : requests[r].status = "inprogress" /\ Body[r].op = "exec"}

Stuck == {r \in Requests : requests[r].status = "inprogress"}

\* Faulty variant: whatever has no committed record may run again, an exec too.
RetryStuck(r) ==
  /\ Recovering /\ Pending = {} /\ r \in Stuck
  /\ \/ \E o \in CommittedFor(r) : owing' = [req |-> r, entry |-> Reconstructed(o)]
        /\ UNCHANGED requests
     \/ /\ CommittedFor(r) = {}
        /\ requests' = [requests EXCEPT ![r] = NoEntry]
        /\ UNCHANGED owing
  /\ UNCHANGED <<diskVars, nextId, records, slot, torn, clock, faults, pruneHist>>
  /\ UNCHANGED <<wsVars, phase, guard, hs, histVars, budgetVars>>

\* A stuck request: completed, an exec that must not run again, or retryable.
ResolveStuck(r) ==
  /\ Recovering /\ Pending = {} /\ r \in Stuck
  /\ \/ \E o \in CommittedFor(r) : owing' = [req |-> r, entry |-> Reconstructed(o)]
        /\ UNCHANGED requests
     \/ /\ CommittedFor(r) = {} /\ Body[r].op = "exec"
        /\ owing' = [req |-> r, entry |-> Failed]
        /\ UNCHANGED requests
     \/ /\ CommittedFor(r) = {} /\ Body[r].op # "exec"
        /\ requests' = [requests EXCEPT ![r] = NoEntry]
        /\ UNCHANGED owing
  /\ UNCHANGED <<diskVars, nextId, records, slot, torn, clock, faults, pruneHist>>
  /\ UNCHANGED <<wsVars, phase, guard, hs, histVars, budgetVars>>

StartupPrune ==
  /\ Recovering /\ Pending = {} /\ Stuck = {}
  /\ IF HistoryLimit = None
     THEN phase' = "serving" /\ UnchangedStore
     ELSE \E replaced \in 0 .. 3, ok \in BOOLEAN :
            /\ Prune(HistoryLimit, replaced, ok)
            /\ phase' = IF ok THEN "serving" ELSE "failed"
  /\ UNCHANGED <<wsVars, owing, guard, hs, histVars, budgetVars>>

GiveUp ==
  /\ phase = "failed"
  /\ phase' = "down"
  /\ Unload
  /\ UNCHANGED <<diskVars, clock, faults, pruneHist>>
  /\ UNCHANGED <<wsVars, owing, guard, hs, histVars, budgetVars>>
-----------------------------------------------------------------------------
(***************************************************************************)
(* The environment.                                                         *)
(***************************************************************************)
Die ==
  /\ phase \in {"recover", "serving"}
  /\ phase' = "down" /\ owing' = NothingOwed /\ guard' = None
  /\ hs' = [t \in Handlers |-> Idle]
  /\ interrupted' = interrupted \cup
       {Req(t) : t \in {u \in Handlers : hs[u].pc \in {"running", "record"} /\ hs[u].ok}}
  /\ Unload
  /\ UNCHANGED <<diskVars, clock, faults, pruneHist, told, dropped, sends,
                 externals>>

\* The process is killed, or exits; the operating system keeps what it wrote.
Crash ==
  /\ Die
  /\ crashes < MaxCrashes /\ crashes' = crashes + 1
  /\ UNCHANGED <<wsVars, landed, runs, losses>>

OutsideBound == losses + externals + clock.steps < MaxOutside

\* The machine stops: unsynced installs from operation k on are undone, and a
\* path holds again what the first of them replaced.
PowerLoss(k) ==
  LET Lost(p) == {u \in unsynced[p] : u.id >= k}
      lost == UNION {Lost(p) : p \in Paths}
  IN  /\ Die
      /\ losses < MaxLosses /\ OutsideBound /\ losses' = losses + 1 /\ UNCHANGED crashes
      /\ lost # {}
      /\ file' \in [Paths -> FileState]
      /\ \A p \in Paths :
           IF Lost(p) = {} THEN file'[p] = file[p]
           ELSE \E u \in Lost(p) : /\ \A v \in Lost(p) : u.id <= v.id
                                   /\ file'[p] = u.old
      /\ unsynced' = [p \in Paths |-> {}]
      /\ landed' = {o \in landed : \A u \in lost : u.id # o}
      /\ runs' = [r \in Requests |->
           runs[r] - Cardinality({o \in Ids : \E u \in lost : u.id = o /\ u.req = r})]

\* Another writer.
ExternalWrite(p, c) ==
  /\ externals < MaxExternal /\ OutsideBound /\ c # file[p]
  /\ file' = [file EXCEPT ![p] = c]
  /\ externals' = externals + 1
  /\ UnchangedStore
  /\ UNCHANGED <<unsynced, phase, owing, guard, hs, histVars, sends, crashes, losses>>

\* The host's clock is set back, or stood still: one tick back is the
\* millisecond of the last stamp.
ClockSteps(w) ==
  /\ clock.steps < MaxSteps /\ OutsideBound
  /\ w < clock.wall /\ clock.wall <= w + MaxBack
  /\ clock' = [at |-> clock.at, wall |-> w, steps |-> clock.steps + 1]
  /\ UNCHANGED <<diskVars, tableVars, torn, faults, pruneHist>>
  /\ UNCHANGED <<wsVars, phase, owing, guard, hs, histVars, budgetVars>>

Handler(t) ==
  \/ Claim(t) \/ AcquireGuard(t) \/ Check(t) \/ HashBefore(t) \/ Prepare(t)
  \/ Verify(t) \/ Install(t) \/ InstallFails(t) \/ Sync(t) \/ SyncFails(t)
  \/ Commit(t) \/ Withdraw(t) \/ Spawn(t) \/ Exit(t) \/ RecordExec(t) \/ Gc(t)
  \/ Finish(t)

StartUp ==
  \/ Start \/ (\E o \in Ids : RecoverMarker(o)) \/ RecoverRemember
  \/ (\E r \in Requests : ResolveStuck(r)) \/ StartupPrune \/ GiveUp

Next ==
  \/ \E r \in Requests : Replay(r)
  \/ \E t \in Handlers, r \in Requests : Receive(t, r)
  \/ \E t \in Handlers : Handler(t)
  \/ StartUp
  \/ Crash
  \/ \E k \in Ids : PowerLoss(k)
  \/ \E p \in Paths, c \in FileState : ExternalWrite(p, c)
  \/ \E w \in 0 .. clock.wall : ClockSteps(w)

Spec == Init /\ [][Next]_vars
-----------------------------------------------------------------------------
(***************************************************************************)
(* Safety.                                                                  *)
(***************************************************************************)
\* A request's effect happens at most once, however often the request is sent
\* and whatever crashes come in between (Server::handle, recover), unless
\* prune dropped its entry, or the evidence of it while it was in progress.
\* Another writer that undoes an interrupted mutation before recovery looks at the
\* file makes it be retried, once; and so does a clock that is set back between it
\* and the operation that continued from it.  The client is never given two
\* different operations as the outcome of one request, replays and reconstructed
\* results included (claim_request, reconstruct_result).
AtMostOnce ==
  \A r \in Requests : r \notin orphaned =>
    /\ runs[r] <= 1 + forgets[r] + externals + clock.steps
    /\ Cardinality(told[r]) <= 1 + forgets[r]

\* An operation id given to a client stays below the counter the server
\* allocates from, through prune and restarts: it is never handed out again
\* (next_operation_id, the op-counter file).
ToldIdsStayTaken ==
  phase \in {"recover", "serving"} =>
    \A r \in Requests : \A o \in told[r] : o <= nextId

\* No mutation is in the workspace without a line for it in the log, its
\* marker or its record, until prune removes that record as history or
\* recovery decides about that marker (prepare_fs_record before the install,
\* prune sparing markers, abort_prepared only for what did not happen).
WriteAhead ==
  \A o \in landed : \/ opsLog[o].tag \in {"prepared", "fs"}
                    \/ o \in pruned \cup dropped

\* Every operation a client was told of is in the log as committed, by the
\* request it was told for, until prune removes it as history (finish,
\* append_record_tracked, prune rewriting the log from the table).
ToldIsDurable ==
  \A r \in Requests : \A o \in told[r] :
     o \in pruned \/ (Committed(opsLog[o]) /\ opsLog[o].req = r)

EvidenceLost == pruned # {} \/ clock.steps > 0

\* Recovery never drops as "the rename never took effect" the marker of a
\* mutation that is in the workspace or was built upon (recover,
\* continued_from), as long as no record was pruned, which may have been the
\* evidence, and the clock kept the order of the records.
LandedNotDropped == EvidenceLost \/ landed \cap dropped = {}

\* No committed record for a mutation that never happened (recover,
\* abort_prepared, the aborted marker of a failed prepare).
NoPhantomCommit == \A o \in Ids : opsLog[o].tag = "fs" => o \in landed

\* When the server starts serving, every marker is resolved, every mutation in
\* the workspace (unless the evidence of it was lost) has its committed
\* record, in the log and in the table, and no request is left in progress
\* (Server::new, recover).
RecoverySettles ==
  [][phase # "serving" /\ phase' = "serving" =>
       /\ \A o \in landed : \/ o \in pruned'
                            \/ opsLog'[o].tag = "fs"
                            \/ o \in dropped /\ EvidenceLost
       /\ \A o \in Ids : opsLog'[o].tag \notin {"none", "aborted"}
                           => opsLog'[o] = records'[o]
       /\ Pending' = {} /\ Stuck' = {}]_vars

\* Through crashes, failing writes, retries and recovery, the server does what
\* AtomicWorkspace does (Server::handle, fs_ops, recover, prune).
Atomic == INSTANCE AtomicWorkspace WITH
  Operation <- Ids, applied <- runs, reported <- told, forgotten <- forgets,
  void <- orphaned

ImplementsAtomic == Atomic!Spec
-----------------------------------------------------------------------------
(***************************************************************************)
(* The inductive invariant behind WriteAhead, ToldIsDurable and             *)
(* ToldIdsStayTaken.                                                        *)
(***************************************************************************)
Up == phase \in {"recover", "serving"}

GuardedPcs == {"check", "hash", "prepare", "verify", "install", "sync", "commit",
               "withdraw"}
UnlandedPcs == {"verify", "install", "withdraw"}
NoIdPcs == {"idle", "claim", "guard", "check", "hash", "prepare", "spawn"}

\* Handlers exist only while serving, and the guard admits one of them.
GuardInv ==
  /\ phase # "serving" => \A t \in Handlers : hs[t] = Idle
  /\ \A t \in Handlers : hs[t].pc \in GuardedPcs => guard = t

\* What a handler past its prepare, or past its spawn, finds under its id.
HandlerSound(t) ==
  /\ hs[t].pc \in NoIdPcs => hs[t].id = 0
  /\ hs[t].pc \in MarkedPcs => /\ opsLog[hs[t].id].tag = "prepared"
                              /\ records[hs[t].id].tag = "prepared"
  /\ hs[t].pc \in UnlandedPcs => hs[t].id \notin landed
  /\ hs[t].pc \in ExecPcs => /\ hs[t].id <= nextId
                            /\ opsLog[hs[t].id].tag = "none"
                            /\ records[hs[t].id].tag = "none"
                            /\ \A u \in Handlers \ {t} :
                                 hs[u].pc \in ExecPcs => hs[u].id # hs[t].id

HandlerInv == \A t \in Handlers : HandlerSound(t)

\* The id counter covers everything on disk and in the table.
IdInv ==
  Up => /\ counter <= nextId
        /\ \A o \in Ids : opsLog[o].tag # "none" \/ records[o].tag # "none"
                            => o <= nextId

\* An id no later start can hand out.
Taken(o) == o <= counter \/ opsLog[o].tag # "none"

TakenInv == \A o \in landed \cup pruned \cup dropped : Taken(o)

\* Committed records of the table are the log's.
TableInv == Up => \A o \in Ids : Committed(records[o]) => opsLog[o] = records[o]

LandedInv ==
  \A o \in landed \ (pruned \cup dropped) :
    /\ opsLog[o].tag \in {"prepared", "fs"}
    /\ Up => records[o].tag \in {"prepared", "fs"}

\* Operation o of request r is committed in the log and in the table.
DurableFor(o, r) ==
  o \in pruned \/ /\ Committed(opsLog[o]) /\ opsLog[o].req = r
                  /\ Up => Committed(records[o]) /\ records[o].req = r

EntryDurable(e, r) == e.status = "done" /\ e.id # 0 => DurableFor(e.id, r)

\* Every stored, owed, pending or reported result names a committed operation.
ResultInv ==
  /\ \A r \in Requests : /\ EntryDurable(reqLog[r], r)
                          /\ EntryDurable(requests[r], r)
                          /\ \A o \in told[r] : DurableFor(o, r)
  /\ owing.req # None => EntryDurable(owing.entry, owing.req)
  /\ \A t \in Handlers : hs[t].pc = "finish" /\ hs[t].ok /\ hs[t].id # 0
                            => DurableFor(hs[t].id, hs[t].req)

IInv == /\ TypeOK /\ GuardInv /\ HandlerInv /\ IdInv /\ TakenInv
        /\ TableInv /\ LandedInv /\ ResultInv
-----------------------------------------------------------------------------
(***************************************************************************)
(* Liveness of the start: its steps are taken, and a client that lost its   *)
(* server connects again, which starts one.  Handlers owe nothing.          *)
(***************************************************************************)
FairSpec == Spec /\ WF_vars(StartUp)

\* A workspace without a server gets one that has settled every request and
\* every marker, also what was left open because its result or its record could
\* not be stored, and though a start may die or fail half way (recover and the
\* prune in Server::new).
StartSettles ==
  phase = "down" ~>
    /\ phase = "serving" /\ Pending = {}
    /\ \A r \in Requests : requests[r].status # "inprogress"
-----------------------------------------------------------------------------
(***************************************************************************)
(* What comments and documents say and the code does not keep.              *)
(***************************************************************************)
\* "StuckExecMarkedError: [...] was permanently marked Error" (store.rs:44-46):
\* an exec interrupted by a crash is never run again.
InterruptedExecNotRerun == \A r \in interrupted : runs[r] <= 1

\* "reconstruct the result from the committed record rather than re-executing"
\* (store.rs:348-352): a request whose entry was never dropped runs once.
RunsOnceUnlessForgotten == \A r \in Requests : runs[r] <= 1 + forgets[r]

\* "a later committed operation on the same path started from
\* expected_after_hash: the rename completed" (store.rs:263-264), and
\* `continued_from` looks for one "logged after `p`" (store.rs:435): no marker
\* of a mutation that happened is dropped as one that did not.
LandedNeverDropped == landed \cap dropped = {}
=============================================================================
