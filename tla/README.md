# A TLA+ verification of remote-workspace

remote-workspace lets a client (a command line, a library, an MCP server) work
on a directory of a remote host through a server process that it reaches over
ssh: it reads and mutates files, runs commands and transfers files. The server
is started per connection, may be killed at any time together with the
connection, and keeps on disk what it needs so that a request that is sent again
is answered and not executed again.

This directory models that system in TLA+, checks the models with TLC and proves
their central properties with TLAPS. `PROJECT.json` lists components, runs,
mutants, the correspondence of every definition to source lines, findings,
hazards and theorems. Paths below are relative to the repository;
`server/`, `client/`, `mcp/` and `protocol/` stand for
`crates/remote-workspace-<name>/src/`.

## 1. Inventory

| component | state | operations | interaction |
|---|---|---|---|
| operation store (`server/store.rs`) | `operations.jsonl`, `requests.jsonl`, `op-counter`; tables `records`, `requests`, `next_id`; `write_lock`, `log_append`, `log_torn` | claim, remember, prepare, commit, abort, append, prune, load, recover | called by every mutating handler, and by start-up |
| request handling (`server/server.rs`) | handler tasks, `write_guard` | `handle`, `handle_exec`, `finish`, `Server::new`, session loop | one task per request line; replies through one locked stdout |
| workspace mutations (`server/fs_ops.rs`, `fsync.rs`, `hash.rs`) | the files | create, edit, delete, read, list, stat | write-ahead sequence around the store |
| commands (`server/exec.rs`, `process_group.rs`) | a process group, two bounded captures | exec, wait | record through the store, no guard |
| transfers, server side (`server/transfer.rs`) | `pending_uploads.json`, staging files | prepare, commit, abort, download record, sweep, raw receive and send | data plane is a process of its own |
| session lifecycle (`server/server.rs`, `store.rs`, `locking.rs`) | directory lock, idle clock, handler set | run, drain, lock hand-over | a new server waits for its predecessor |
| client connection (`client/lib.rs`) | waiters by request id, serial slot, child process | connect, send, close, reader loop | one connection, many callers |
| client transfers (`client/transfer.rs`) | local temporary file, child process | upload, download | control requests plus data plane |
| deployment (`client/deploy.rs`, `server/install.rs`) | installed binary, install lock | probe, upload, install | concurrent installers |
| fleet and MCP server (`mcp/lib.rs`, `client/fleet.rs`) | snapshot of workspaces, cached connections | reload, get client | reload races with calls |
| scratch (`server/scratch.rs`) | scratch tree, sweep marker | enforce, sweep | called by start-up and gc |
| path confinement (`server/workspace.rs`) | none | resolve | every path of a request |

What is hard here: handlers interleave at every await; the server dies between
any two steps; each of the three files of the state directory can be at another
age than the other two; a write or sync can fail and the process go on; the file
a decision was based on can be changed by a command or by another program; and
the decision recovery takes about a mutation has no more to go on than a hash.
`PROJECT.json`, "hazards", lists where each of these bites.

What makes each component correct:

- store and handlers: at most one effect per request; what was reported is
  durable; operation ids are never reused; no mutation without a log line; no
  committed record without a mutation; recovery settles everything;
- transfers: a target holds complete, verified content or is untouched; staging
  files of live uploads are spared and others are removed in the end;
- lifecycle: two servers never write one state directory; a server with running
  handlers is not taken for idle; a successor gets the lock;
- client connection: a reply reaches the caller of its request and nobody else; a
  caller always returns; a closed connection leaves no waiter and no process;
- reading and editing: pages of one hash are what the hash names, every page brings
  the reader on, an edit loses nothing others wrote that its author never saw;
- commands: the process group is gone when exec returns by timeout; the capture
  is bounded and keeps head and tail;
- installation: never a downgrade, never a half-written binary, a report that is
  true;
- fleet: no addition is lost, the file stays valid, and a tool call works on an
  endpoint the file gave it.

## 2. Plan

Done, in this order:

1. `OperationStore`, `WorkspaceServer`: the store and the mutating handlers.
2. `ClientConnection`: reply routing, serial slot, deadline, close.
3. `Transfer`: registry, staging, commit against abort, sweep, client side.
4. `ExecRun`: a command, its descendants and their output.
5. `ServerLifecycle`: idle timeout, drain, lock hand-over.
6. `Onboarding`: deployment of servers and additions to the fleet file.
7. `FleetReload`: the MCP server's reload and its connections.
8. `AtomicWorkspace`: what the core promises, implemented by `WorkspaceServer`; and
   a clock in `OperationStore` that may be set back.
9. `TextFile`, `RemoteFile`: paging, edit application and `download_file`, on a file
   that others change.

Open:

1. The core's theorems under fewer conditions: `AtMostOnce` with other writers and
   clock steps, which it counts, is model-checked only (run `environment`).
2. Log lines that a power loss takes; the bytes of the two logs and their repair.
3. The remaining pure functions against reference definitions: output capture (head and
   tail of a stream of pieces), `software_cmp`.
4. `exec_wait` over several connections.

## 3. Modules

`OperationStore` holds the state directory and the tables, and one operator with
primed variables per function of `store.rs`. `WorkspaceServer` extends it with
the workspace, the handlers and start-up, and composes the store's operators into
actions. `AtomicWorkspace` is what they promise together. `WorkspaceServerInvariants`
states what the second half of the core's proofs rests on. `MCWorkspaceServer` gives the
constants values.

| variable | code |
|---|---|
| `opsLog`, `reqLog` | the two JSONL files, as the last line per id, which is all the loader keeps |
| `counter` | `op-counter` |
| `records`, `slot` | the `records` vector: contents, and order of its elements |
| `requests`, `nextId`, `torn` | fields of the same name (`log_torn`) |
| `file`, `unsynced` | workspace files; installs no sync has covered yet |
| `phase`, `owing` | how far `Server::new` has come; inside `recover`, the request line still to be written for a marker already resolved |
| `guard`, `hs` | `write_guard`; program counter and locals of each handler task |
| `clock` | `now_ms()` (`wall`), and the order in which stamps were really taken (`at`) |
| `pruned`, `forgets`, `orphaned`, `landed`, `runs`, `told`, `dropped`, `interrupted` | history, read by properties only |
| `faults`, `sends`, `crashes`, `losses`, `externals` | what the bounds count |

A handler goes `claim` - `guard` - `check` (- `hash` for delete) - `prepare`
(- `verify` for edit) - `install` - `sync` - `commit` - `finish`, with
`withdraw` when the mutation could not be carried out; exec goes `claim` -
`spawn` - `running` - `record` - `finish`; gc is one step under the guard. A step
is what runs without another task being able to see or change the same state: an
append together with the table change under `log_append`, one look at the file,
one rename. Appends fail in the four ways `append_line` distinguishes: rolled
back, written but not synced, torn with a fragment, torn with a whole line that
lacks its newline.

Abstractions:

- A content stands for its SHA-256; `None` is an absent file and the sentinel of
  a deleted one. Which edits a request holds is abstracted to the content they
  are based on and the content they yield.
- Log lines are abstracted by id. A torn tail is repaired by the next start, so
  it only matters for the appends refused until then.
- The clock advances with every stamp, except where a step sets it back: one tick back
  is a second stamp in the same millisecond. The table is in the order of appending
  until a start sorts it by timestamp (`store.rs:200`), so `slot` holds `at` before and
  the timestamp after. Records of one millisecond are loaded in the order of their ids as
  strings; ids of the instances have one digit.
- A path that no longer resolves takes the conflict branch of `recover`, like a
  file with foreign content.
- Log lines reached by a failed sync survive a power loss; only installs in the
  workspace are lost by it.
- `prune` is one step (it holds all three locks) with the failures that stop it
  after any of its three replacements. A scratch sweep that fails after the prune
  of a gc is the outcome with all three replaced and an error reported.
- An aborted line keeps its request in the model; nothing reads it.
- A graceful shutdown is a crash that happens at a convenient time.

`AtomicWorkspace` has files, and for each request how often it was applied, what was
reported, and how often it was forgotten. A request is applied in one step, in a state
it asked for, and not again unless it was forgotten; a success is reported only for what
was applied. `WorkspaceServer` maps its `file`, `runs`, `told`, `forgets` and `orphaned`
to it; every step of handlers, recovery, crash and prune is one of these steps or none.
A power loss takes an install back and another writer changes a file without a request:
the promise is that of a server which has the workspace for itself on a machine that
keeps its power, and the mapping is checked there.

The other modules stand beside the core, each with a component's own state. They
meet where one's outcome is the other's input: `ClientConnection` ends and
`ServerLifecycle` sees the end of its input; `ServerLifecycle` lets a server in
and `WorkspaceServer` starts up; a connection of `FleetReload` is one
`ClientConnection`; commit of `Transfer` writes a record as the core does; and
`RemoteFile` shows of `read` and `edit` what the core takes as given when it lets an edit
name the content it is based on and the content it yields.

**`ClientConnection`** (`client/lib.rs`). `caller` is where each task is inside
`send`: permit of the serial slot, entry into `reply_map`, mutex of stdin, write,
wait for reply, close flag or deadline. `slot` moves with the entry of the
request, as the permit does in the code. `reader` reads replies, drains the
waiters and reaps the child. It stops at the end of the output, at a read error, or
when it is told to shut down; only the last kills the process. `far` and `place` are
the far end, which is external: it reads, answers in any order, answers unreadably,
spoils or closes its output and lives on, or dies. `strayed` remembers that the reader
stopped while the process lived on, `stdin` whether its input was closed.
`close_with_grace` and `Drop` own the client, so they start when nobody is inside
`send`. Whether the connection is serial is chosen at the start.

**`Transfer`** (`server/transfer.rs`, `client/transfer.rs`). Uploads: three
handlers per upload (`prep`, `comm`, `abrt`), the receiver process, the client,
`pending_uploads.json` and the table of the running server, staging files with
their age, the write guard, gc and the sweep at start. Commit goes guard - check -
install (no-clobber link or rename) - unlink - sync - record - remove, and fails or
dies between any two. Files have at least one byte. `old` is set only on staging
files nobody is about to write: no prepare, sweep or stream takes a day.

**`TextFile`, `RemoteFile`** (`server/fs_ops.rs`, `server/transfer.rs`,
`client/transfer.rs`). `TextFile` has the pure part: the page `read` cuts from a file
and the result of a list of replacements, on sequences of bytes of which two make one
long character. (The code's characters have up to four bytes and the slack is three;
one byte of slack for two-byte characters is the same relation.) `RemoteFile` has one
remote file, other programs that replace, remove, append to or truncate it at any step,
and two users of it. The agent stats and opens for every page, starts again when a hash
differs or an offset is refused, and edits what it read with the hash it was given:
arguments, size cap, read and compare, stage, last look, rename. A stale edit makes it
read again. The download has the sender process (stat, open, header, bytes, trailer,
exit; slow, cut off or killed at any point), the receiving loop with its stall window,
the reaping of the child, the local install with or without overwrite, and the record
over a connection that may be gone. A rename leaves an open file to the sender, a write
in place does not. The write-ahead log of `edit`, its failures and its crashes are in
`WorkspaceServer`. The bytes of a hash stand for the hash.

**`ExecRun`** (`server/exec.rs`, `server/process_group.rs`, POSIX). The task, the
two readers, the channel, and processes that fork, write, close or pass on the
pipes, leave the process group (`setsid` or `setpgid`), and exit. `group` is what
`killpg` reaches; nobody comes back into it. A failing start is a start that ends at once.
A server killed during a command is in `WorkspaceServer` (the claim it leaves);
what becomes of the processes then is not modelled.

**`ServerLifecycle`** (`server/server.rs`, `store.rs`, `locking.rs`). Time is in
ticks, and what is due at once happens before the next tick. A server waits for the
lock, serves, drains, aborts and exits; its client sends lines, closes, vanishes,
does not read. A reply takes room in the pipe, or its handler, or the loop for a line
that is not a request, waits in `write_line` until there is some. Lines that are not
requests are answered by the loop itself and do not count as activity, as in the code.
A server embedded in another program, one without idle timeout and one whose client is
suspended are not modelled.

**`Onboarding`** (`client/main.rs`, `deploy.rs`, `fleet.rs`, `server/install.rs`,
`protocol/version.rs`). Clients that add and upgrade at the same time, the cache
(one place per platform), the uploads, the installers that outlive their clients,
the two lock files and the fleet file. The grace of a lock is the possibility of
giving up while another holds it. A failed installation may leave its upload
behind. Edits of the fleet file that ignore its lock, and servers replaced by hand,
are not modelled here; `FleetReload` has the former.

**`FleetReload`** (`mcp/lib.rs`). Tool calls that lock `last_seen`, stamp the file,
read it, swap the snapshot, pick a handle, and connect under the handle's slot: a
look at the slot, the check of the server's version, the connection and the probe. The
check is a step of its own that may never end.
A handle is known by the call whose reload made it. A stamp is the number of the
write that made the file (two writes that leave the same time and length are
excluded); a missing file always has stamp 0. Others write and delete the file at
any step.

## 4. Runs

The number of requests, calls, changes, failures and deaths is bounded in every run, so
every run ends, and no deadlock is checked.

| run | instance | shows |
|---|---|---|
| `mutations` | create, edit, delete, exec, gc keeping nothing; history limit 1; 3 sends, 1 failure, 2 crashes | `LandedNotDropped`, `NoPhantomCommit`, `RecoverySettles`, `ToldIdsStayTaken`, `WriteAhead`, `ToldIsDurable`; the refinement `ImplementsAtomic` |
| `environment` | two edits that undo each other; 4 sends, history limit 1; a failure, a crash, and a power loss, a foreign write or a clock set back by up to two stamps; fair start | `AtMostOnce`, `StartSettles` |
| `interrupted_exec`, `orphaned_request`, `clock_step` | the smallest instance that shows it | a sentence of the repository the code does not keep (section 6) |
| `client` | serial or multiplexed, 2 callers, 3 calls, pipe of 1 request | `SerialOneInFlight`, `AnsweredIsTold`, `CallsReturn`, `DeathWakesAll`, `NoOrphan` |
| `uploads` | two uploads to one path, one overwriting; 1 failure, death, gc, foreign change | `PreparedIsRegistered`, `AbortedStaysGone`, `OkIsSettled`, `SweepSparesRegistered`, `NoClobber` |
| `exec_run` | child and two descendants, pipe and channel of 1 piece, 2 pieces per stream | `OutputComplete`, `GroupCleared`, `CompletedSpares`, `Returns` |
| `lifecycle` | two servers, graces 2, 1 and 5 ticks, 2 requests each, room for 1 reply | `HandOver`, `IdleIsIdle`, `DeadLinkFrees` |
| `onboarding` | three additions and an upgrade, two hosts, every condition of the managed server | `NoDowngrade`, `OutcomeTrue`, `RegisteredIsServed`, `NoLostEntry` |
| `fleet_reload` | two calls, one workspace, two endpoints, 2 writes, 2 attempts | `FreshEnough`, `OneServer`, `CallsEnd` |
| `remote_file` | texts of 2, 3 and 5 bytes and a cap of 4; pages of 1 and 2 bytes; five lists of edits; 3 changes by others | `PagesAgree`, `EditKeepsOthers`, `CapExact`, `AgentSettles`; `TargetSound`, `DownloadReturns` |

The inductive invariants that the proofs rest on (`IInv`, `OnceInv`, `TrueInv`, `FileInv`)
and the types are proved, and not checked again by a run.

Why the bounds are enough:

- *Core.* A decision of recovery compares hashes of one path only, so one file and
  two contents do, and operations that undo one another (create and delete; two edits in
  `clock_step`) make the ambiguous case (the file holds what it held before) happen.
  Two handlers give every race the guard and the claim are there for. Two crashes give a
  crash during recovery. In `environment` one event from outside is added to a crash and
  a failure; two of them together, gc and a second crash (both in `mutations`) are not in
  the instance. A request may be sent four times there, which is more than the executions
  any of these events allows, and enough for a marker, a later operation on its path, a
  crash and the marker's request again. A history limit of 1 drops the entries of older
  requests, so they run again. `clock_step` sets the clock
  back by up to three stamps, which is before everything the instance has logged.
- *Connection.* A request whose caller timed out, one in the slot and one queued is
  the longest chain the serial slot has; with three calls the caller that timed out is
  one of the other two again. A pipe of one request gets full.
- *Uploads.* Everything two uploads share is the target, the guard, the registry and
  the sweeps; a path under `@scratch` only drops gc's part and is not in this instance.
- *Command.* Two descendants give one that keeps a pipe and one that leaves the
  group; capacity 1 with two pieces gives a full pipe and a full channel.
- *Lifecycle.* The graces keep the order of the code's: drain and twice the abort
  grace end before the lock's grace. Two servers are a server and its successor, or
  two rivals. With room for one reply the second one blocks until the client reads.
- *Onboarding.* Two installers on a host, and three writers of the fleet file of
  whom two collide by name or by root that only the host resolves.
- *Remote file.* The texts are one with a long character that a page limit can split,
  one above the cap (no hash, read by window) and one that is not text, so a replacement
  moves a file over every threshold between stat and open. Three changes give one
  during the reading, one before the last look and one after it. The lists have edits
  that build on one another and just fit, do not fit, undo each other, break a character
  and are malformed. Agent and download meet only in the file, where an edit is one more
  replacement by others, so each runs alone.
- *Reload.* A reload that is overtaken by one write, and the reload after it.

Fairness:

- core: start-up only (a client that lost its server connects again). Handlers owe
  nothing: a reply is written without a time limit and may block for good (`server.rs:942`;
  `ServerLifecycle` has that write). Sends, crashes and failures are not fair;
- `ClientConnection`: the tasks of the client only. The second half of `NoOrphan`
  assumes, as `EndsWithInput`, that a process whose input was closed ends, as a server
  does; the first half assumes nothing of it. `CallsReturn` alone assumes, as
  `Deadlines`, that deadlines pass and that the far end reads its input: the write to
  the pipe has no deadline in the code, and without a reader it blocks for good
  (section 6);
- `RemoteFile`: the agent goes on, the client runs and its stall window passes. The
  sender owes nothing before it has sent everything; then it exits, or ssh, which runs
  it, ends by itself when the host stops answering (`ServerAliveInterval`,
  `client/transfer.rs:282-284`);
- `ExecRun`: the task and its two timers. Nothing is assumed of the processes, nor of
  the readers;
- `ServerLifecycle`: time passes, tasks run, and requests that run end (a command has
  its timeout). Clients are not fair;
- `FleetReload`: the steps of a call, but not the end of a version check, which waits
  for ssh and the server's `--version-json` without a time limit (`client/deploy.rs:305`,
  `client/deploy.rs:753`). `CallsEnd` therefore claims the end of a call of whose handle
  no check hangs, its own or another call's;
- `Transfer` and `Onboarding` claim safety only.

Limits that are accepted by the code and therefore not claimed: with two
failures, a prepared line whose sync and whose superseding aborted line both fail
can become a phantom (`store.rs:645-650` says so); a foreign writer that restores
a file's old content can make a mutation look as if it never happened.

## 5. Proofs

Every theorem holds for all values of the constants under the named assumptions of
its modules: model values are values of their own, bounds are naturals, capacities
are positive, functions are typed. Only `LifecycleAssumption` says more: the drain and
two abort graces together are shorter than the wait for the lock, as the code's
constants are (2 s, 0.5 s, 5 s). The bounds on calls, failures and deaths are constants
too, so the theorems hold whatever their values.

### The core

`WorkspaceServerProofs` proves the types, every safety property that a run checks of the
core, and the refinement:

| theorem | condition |
|---|---|
| `TypeCorrect`, `WriteAheadHolds`, `ToldIsDurableHolds`, `ToldIdsStayTakenHolds`, `OneOutcome` | none |
| `LandedNotDroppedHolds`, `RecoverySettlesHolds` | nobody else writes (`externals = 0`) |
| `AtMostOnceHolds` | nobody else writes, the clock keeps time |
| `NoPhantomCommitHolds`, `ImplementsAtomicHolds` | the same, no power loss, and one failing call at most |

A condition is a bound on what the environment has done so far, not on the constants:
the theorems hold for any number of handlers, requests, paths, contents, crashes and,
but for the last row, failures and power losses. Each condition excludes what the
property is false for or, for other writers, what it is model-checked for:

- *other writers*: one who restores a file's old content before recovery looks makes a
  mutation look as if it never happened;
- *clock steps*: section 6, `clock_step`. `LandedNotDropped` and `RecoverySettles` except
  what a step may have hidden themselves (`EvidenceLost`); `AtMostOnce` counts the steps;
- *power loss*: it takes an install back whose record recovery has committed
  (`store.rs:454`);
- *two failures*: a prepared line whose sync and whose superseding aborted line both fail,
  or a withdrawal that fails on a log already torn, leaves the marker of a mutation that
  did not happen. Once another mutation follows on the path, that marker can be taken for
  one that did (`store.rs:645-650` accepts it).

None of the properties is inductive. The argument has three layers.

`IInv` (in `WorkspaceServer`), which needs no condition:

- `IdInv`: while a server is up, `nextId` is at least the counter and every id in
  log or table, so an id handed out is new;
- `TakenInv`: every id with a history (landed, pruned, dropped) is in the log or
  covered by the counter, so the next start, too, allocates above it. This is
  what needs `prune` to replace the counter first;
- `GuardInv`, `HandlerInv`: one handler is in the guarded section, so the marker
  it wrote is still there when it installs and commits;
- `TableInv`, `LandedInv`: committed records of the table are the log's, and a
  landed mutation has its marker or record in both, so `prune` may rewrite the
  log from the table;
- `ResultInv`: each result stored, owed, about to be stored or told names an
  operation that is committed for that request.

`OnceInv` (in `WorkspaceServerInvariants`), on top of it:

- `AgreeInv`, `ClaimInv`: the table of requests is the log's as far as it can be, and a
  request is with one handler at most, which is what `claim_request` is for;
- `NamedInv`: all of log, tables, handlers and clients name one operation for a request
  between two drops of its entry, and none while it can still come to one. The cardinality
  of what is named is what is counted, because recovery may name again what the log names;
- `StampInv`, `OrderInv`: while the clock keeps time, a marker is older than every later
  mutation, by its stamp and by its place in the table;
- `MarkInv`, `BaseInv`: records of the table are in the log, for the same request and
  from the same state; a handler's marker is the newest, and what the handler saw of the
  file is what it holds;
- `ChainInv`, with `SyncInv` and `KnownInv`: from the unresolved marker of a mutation on,
  the mutations of its path lead from one to the next, each starting from what the one
  before left, and end at what the path holds; a power loss cuts the chain at a place where
  the file is again what the next one started from. That is what `continued_from` and the
  comparison of hashes follow, so recovery withdraws no marker of a mutation (`DropInv`);
- `RunInv`: a request that was carried out while it is in progress has a committed
  record, or the marker of a mutation that happened, for recovery to see.

`TrueInv`, for the last row of the table: a torn log or a withdrawal is the trace of a
failure (`FaultInv`); so with one failure the marker of a mutation that did not happen is
the newest line, the file is as it found it, and its handler or the next recovery withdraws
it before anything is built on it (`StrayInv`); and what is stored, owed or reported as a
success was carried out (`RanInv`).

Steps fall into classes with one lemma each: one per operator of the store that says what
it does to one record and one entry, two that list every way a step can change a record or
an entry, and one per part of the invariants that goes through that list. The refinement
then takes the steps that `AtomicWorkspace` sees: an install or a spawn is `Apply`, a
reply is `Report`, `prune` is `Forget`, and everything else stutters.

`AtMostOnce` was changed by proofs that failed. It was first stated with only a request's
own record as the evidence that `prune` may take; the induction broke where gc prunes the
later operation that `continued_from` needs, and at larger bounds TLC finds the request
executed twice there. And it did not count clock steps: with two failures, a crash and a
step TLC finds a second execution. Both are now part of the statement (`Evidence`,
`clock.steps`), and both are listed in section 6.

### The file

`RemoteFileProofs` proves `PagesAgreeHolds`, `EditKeepsOthersHolds`, `CapExactHolds` and
`TargetSoundHolds` for all contents, page sizes, lists of replacements and chunks, with any
changes by others and with agent and download at the same time, which the run does not have.

What `TextFile` computes comes first. `PageContent` and `PageRefused` say what a page is:
the bytes from its offset on, cut at the end of a character. `CountMatches`, `ReplaceEach`,
`ApplyEdits` and `Results` are recursive functions, of which a proof has only the equation
they are chosen by. That a solution exists, and what it is, is shown with least elements
instead of an induction theorem: a set that holds every place whose lower places it holds is
everything (`RankInduction`), so there is a function for every equation that goes from a
place to a lower one (`RecursionExists`). With that `ReplacedSize` shows that the size
predicted from the count alone is the size that replacing gives, and `ListExact` that a
list is refused as too large exactly if one of its steps is.

`FileInv` has one part per party, each inductive on top of the types:

- `PagesInv`: what was read is the beginning of what the hash names, and of the file while
  it is the one the reading began with; from the request for an edit on it is all of it;
- `EditInv`: the text an edit installs is what its list makes of the bytes of its base
  hash, and from the last look on the file is these bytes, or was changed since;
- `SenderInv`: while the file is the one the stat found, what was sent is its beginning and
  the open file is that one, so the trailer closes all of it;
- `TargetInv`: from the trailer on the stream is whole and nothing else can be installed;
  a target that was there is only replaced by an overwriting download.

`CapExact` was changed by its proof: it first had the text a list starts from among the
sizes within the cap, but a file can grow between `edit`'s check of its size and its read
(`fs_ops.rs:672`, `fs_ops.rs:697`), and is then edited from above the cap if the result fits.

### The other components

Each module `XProofs` proves that `IInv` of `X` is inductive, one lemma per class of
steps, and derives the properties.

- `ClientConnectionProofs`: `SerialOneInFlightHolds`, `AnsweredIsToldHolds`. The
  invariant says which entries of the reply map exist for which callers, and that a
  request with the far end has an entry or belongs to a closed connection; so the
  slot, which an entry holds, outlives a caller that timed out.
- `TransferProofs`: `PreparedIsRegisteredHolds`, `AbortedStaysGoneHolds`,
  `OkIsSettledHolds`, `SweepSparesRegisteredHolds`, `NoClobberHolds`. The invariant ties the stages of
  client, handlers and receiver together: who may still write a staging file, and that
  the table agrees with the file on disk whenever no handler is between the two.
- `ExecRunProofs`: `OutputCompleteHolds`, `GroupClearedHolds`, `CompletedSparesHolds`.
  Pieces are conserved from `written` through pipe, reader and channel to `captured`,
  and a reader ends only at a pipe without writers.
- `ServerLifecycleProofs`: `HandOverHolds`, `IdleIsIdleHolds`. A server that waits for
  the lock of one that is leaving has more ticks left than that one can take.
- `OnboardingProofs`: `NoDowngradeHolds`, `OutcomeTrueHolds`,
  `RegisteredIsServedHolds`, `NoLostEntryHolds`, `FleetIsValidHolds`. An installer
  under its lock knows what is installed, the holder of the fleet lock knows the file,
  and being older is transitive although not every two versions can be compared.
- `FleetReloadProofs`: `FreshEnoughHolds`, `OneServerHolds`. Stamps that were taken are
  never ahead of the file's, so a stamp equal to the file's (and not that of a missing
  file) belongs to its present content; what a reload has read is known to every
  call that can see its snapshot, because those calls began before the read.

Only model-checked: `AtMostOnce` where others write or the clock is set back, and the
liveness properties `StartSettles`, `CallsReturn`, `DeathWakesAll`, `NoOrphan`,
`Returns`, `DeadLinkFrees`, `CallsEnd`, `AgentSettles` and `DownloadReturns`: liveness
under fairness is out of this prover's reach.

## 6. Where code and text disagree

Shown by a run:

1. `interrupted_exec`: "permanently marked Error" (`store.rs:44-46`) does not survive
   the prune of the same start; the command runs again on a resend.
2. `orphaned_request`: a gc between commit and `finish` removes the record the result
   would be rebuilt from (`store.rs:348-352`); after a crash the mutation is repeated.
3. `clock_step`: "a later committed operation on the same path started from
   expected_after_hash: the rename completed" (`store.rs:263-264`), but the evidence is
   looked for behind the marker in a table sorted by wall-clock time (`store.rs:200`).
   With the clock set back in between, the mutation is dropped as one that never
   happened.

Met while modelling, or limits of the code a reader of the properties should know:

- a terminal entry without a record is forgotten at the next prune (`store.rs:912`), not
  together with the oldest operations (`docs/design.md:391-393`);
- gc may remove the operation that proves that a marker landed (`store.rs:440`); if the
  marker's request has no result stored, it is executed again on a resend;
- a request whose marker a clock step has separated from its continuation, and whose
  result could not be stored either, is executed again on a resend (`store.rs:200`);
- recovery commits a marker whose install was never synced (`store.rs:454`);
- a caller whose write fails on a dying serial connection leaves its entry, and with it
  the slot, to a map that has been drained: callers queued for the slot wait for their
  deadline (`client/lib.rs:487`). `DeathWakesAll` is therefore claimed for callers past
  the slot;
- the sender of a download stats the file and then opens it (`server/transfer.rs:565-571`):
  of a larger file that replaced it in between, the beginning is sent, verified and
  installed, and a file rewritten in place while it is sent arrives as a mixture.
  `TargetSound` claims the file as it was only if it did not change;
- a page of a file above the text cap has no hash, and pages of such a file may come from
  different versions (`fs_ops.rs:168-177`); `PagesAgree` claims nothing of them once the
  file changed;
- the size cap of `edit` is checked by a stat before the read: a file that grows beyond it
  in between is read whole, and edited if every result fits (`fs_ops.rs:672`);
- a download whose record cannot be written is installed and reported as failed
  (`client/transfer.rs:755`);
- a write to a far end that does not read has no deadline (`client/lib.rs:477`);
- "When stdout ends, the child has exited" (`client/lib.rs:328`): the reader also stops
  at a read error, such as a line that is not UTF-8 (`client/lib.rs:868-871`), and at the
  end of a stdout that a live process closed. The connection then counts as closed and
  nobody is left to receive a shutdown, so `close` neither closes stdin nor kills the
  process, and waits for a reader that waits for it (`client/lib.rs:350-363`). `NoOrphan`
  excepts such a process unless its input was closed;
- an upload that was installed and whose record could not be written stays unrecorded
  (`server/transfer.rs:272`);
- eviction of scratch files by gc goes by age alone and may take the staging file of a
  registered upload (`server/server.rs:636`);
- "Kills the command's whole process tree" (`process_group.rs:3`): descendants that called
  `setsid` or `setpgid`, as the jobs of an interactive shell do, are outside the group that
  is killed (`process_group.rs:35`). `GroupCleared` is about the group;
- "a dead *link* is covered from the far end by the server's idle timeout"
  (`docs/design.md:578-579`): a reply that does not fit into the pipe of a dead link keeps
  its handler in the write, the idle timer finds it running each time and starts again
  (`server/server.rs:231`), and the server keeps the lock until the transport ends its input
  (`server/server.rs:942`). `DeadLinkFrees` excepts it until then;
- the check of the server's version has no time limit and runs under the mutex of the
  handle's slot (`mcp/lib.rs:491-496`): one that hangs on a live host blocks its call and
  all that wait for the slot;
- a newer protocol installed between the client's probe and the installer's is kept and
  used, not refused with `client_too_old` (`client/deploy.rs:674`, `docs/design.md:462`);
- a fleet file that is missing when it is stamped, exists when it is read and is missing
  again leaves its entries in the snapshot under the stamp of a missing file; the promise
  that deleting the file clears the fleet (`docs/design.md:561`) then waits for the next change
  (`mcp/lib.rs:425-433`). `FreshEnough` excepts calls that found the file missing;
- an entry of the fleet that is changed and changed back gets a new handle, whose server
  is refused by the state lock as long as a call on the old one runs (`mcp/lib.rs:375`).

## 7. Not modelled

- Path confinement: a function of the file system's links that keeps no state.
- Output capture and `exec_wait`: open, see section 2.
- `list`, `stat`, history and description requests, which change nothing.
- Windows process groups and the PowerShell side of deployment.
- Parsing of configuration and arguments, JSON encoding, ssh command lines, logs and
  statistics, which keep no state the rest depends on.
