------------------------------ MODULE Transfer ------------------------------
(***************************************************************************)
(* Uploads, end to end: the client's prepare, stream, commit and abort      *)
(* (upload_file in the client's transfer.rs), the receiver process that     *)
(* moves the bytes, and the server's registry, staging files and handlers   *)
(* (the server's transfer.rs), with servers that die and are started again, *)
(* clients that give up while a handler still runs, failing writes, and     *)
(* the sweeps of abandoned staging files.                                   *)
(*                                                                         *)
(* An upload is named by its transfer id, which no two uploads share.  The  *)
(* requests are new ones each time, so the idempotency table of             *)
(* WorkspaceServer plays no part here.  The staging directory holds one     *)
(* file per upload; its name and permissions are left out, and a file to    *)
(* upload has at least one byte.                                            *)
(***************************************************************************)
EXTENDS Naturals, FiniteSets

CONSTANTS
  Uploads,      \* uploads that clients make
  Paths,        \* target paths
  TargetOf,     \* the target of each upload
  Overwrite,    \* uploads made with overwrite
  Scratch,      \* targets under @scratch
  None,         \* no file, nobody
  Foreign,      \* content of a file that no upload wrote
  Gc,           \* the gc handler as holder of the write guard
  MaxFaults,    \* bound: failed writes, renames and syncs
  MaxDeaths,    \* bound: server deaths
  MaxForeign,   \* bound: changes to targets made by others
  MaxGcs        \* bound: gc requests

ASSUME TransferAssumption ==
  /\ TargetOf \in [Uploads -> Paths] /\ Overwrite \subseteq Uploads
  /\ Scratch \subseteq Paths
  /\ None \notin Uploads /\ Foreign \notin Uploads /\ Gc \notin Uploads
  /\ None # Foreign /\ None # Gc
  /\ MaxFaults \in Nat /\ MaxDeaths \in Nat /\ MaxForeign \in Nat /\ MaxGcs \in Nat

VARIABLES
  target,     \* what each target path holds
  staging,    \* how much of each upload its staging file holds
  old,        \* staging files not written for STALE_STAGING_MAX_AGE
  onDisk,     \* pending_uploads.json
  recorded,   \* uploads with a transfer record in the operation log
  up,         \* a server is running
  pending,    \* UploadRegistry::entries of that server
  guard,      \* the write guard
  prep,       \* handler of each upload's prepare request
  comm,       \* handler of each upload's commit request
  abrt,       \* handler of each upload's abort request
  gc,         \* the gc handler
  inFlight,   \* the staging files gc will spare
  receiver,   \* --transfer-receive process of each upload
  client,     \* upload_file of each upload
  installed,  \* history: uploads that reached their target
  aborted,    \* history: uploads whose abort was reported done
  faults, deaths, foreigns, gcs   \* what the bounds limit

fileVars == <<target, staging, old>>
diskVars == <<onDisk, recorded>>
handlerVars == <<prep, comm, abrt, gc, inFlight>>
histVars == <<installed, aborted>>
budgetVars == <<faults, deaths, foreigns, gcs>>
vars == <<fileVars, diskVars, up, pending, guard, handlerVars, receiver, client,
          histVars, budgetVars>>

StagingState == {"none", "empty", "partial", "full"}
PrepPcs == {"idle", "check", "create", "insert", "persist"}
CommPcs == {"idle", "guard", "check", "install", "unlink", "sync", "record", "remove"}
AbrtPcs == {"idle", "registry", "file"}
ClientPcs == {"start", "preparing", "streaming", "commit", "committing", "abort",
              "aborting", "ok", "failed"}

TypeOK ==
  /\ target \in [Paths -> Uploads \cup {None, Foreign}]
  /\ staging \in [Uploads -> StagingState] /\ old \subseteq Uploads
  /\ onDisk \subseteq Uploads /\ recorded \subseteq Uploads
  /\ up \in BOOLEAN /\ pending \subseteq Uploads
  /\ guard \in Uploads \cup {None, Gc}
  /\ prep \in [Uploads -> PrepPcs] /\ comm \in [Uploads -> CommPcs]
  /\ abrt \in [Uploads -> AbrtPcs]
  /\ gc \in {"idle", "sweep"} /\ inFlight \subseteq Uploads
  /\ receiver \in [Uploads -> {"none", "starting", "running", "done"}]
  /\ client \in [Uploads -> ClientPcs]
  /\ installed \subseteq Uploads /\ aborted \subseteq Uploads
  /\ faults \in Nat /\ deaths \in Nat /\ foreigns \in Nat /\ gcs \in Nat

Init ==
  /\ target \in [Paths -> {None, Foreign}]
  /\ staging = [u \in Uploads |-> "none"] /\ old = {}
  /\ onDisk = {} /\ recorded = {} /\ up = FALSE /\ pending = {} /\ guard = None
  /\ prep = [u \in Uploads |-> "idle"] /\ comm = [u \in Uploads |-> "idle"]
  /\ abrt = [u \in Uploads |-> "idle"] /\ gc = "idle" /\ inFlight = {}
  /\ receiver = [u \in Uploads |-> "none"] /\ client = [u \in Uploads |-> "start"]
  /\ installed = {} /\ aborted = {}
  /\ faults = 0 /\ deaths = 0 /\ foreigns = 0 /\ gcs = 0

-----------------------------------------------------------------------------
Fault == faults < MaxFaults /\ faults' = faults + 1
NoFault == UNCHANGED faults

\* The client of u, if it still waits in `from`, goes on in `to`.
Answer(u, from, to) ==
  client' = IF client[u] = from THEN [client EXCEPT ![u] = to] ELSE client

UnchangedBut == UNCHANGED <<deaths, foreigns, gcs>>
UnchangedHandlers == UNCHANGED <<comm, abrt, gc, inFlight, guard>>

\* Faulty variant: registered uploads are not spared.
StaleAll(spared) == {u \in Uploads : u \in old}

\* sweep_stale_staging_dir: old staging files of uploads not in `spared`.
Stale(spared) == {u \in Uploads : u \in old /\ u \notin spared}

\* scratch::enforce: idle files under scratch, whoever they belong to; its age
\* limit is a day or more.
Evictable == {u \in old : TargetOf[u] \in Scratch}

WithoutFiles(us) == [u \in Uploads |-> IF u \in us THEN "none" ELSE staging[u]]

Delete(us) == staging' = WithoutFiles(us) /\ old' = old \ us
-----------------------------------------------------------------------------
(***************************************************************************)
(* upload_prepare, which takes no guard.                                    *)
(***************************************************************************)
SendPrepare(u) ==
  /\ up /\ client[u] = "start"
  /\ client' = [client EXCEPT ![u] = "preparing"]
  /\ prep' = [prep EXCEPT ![u] = "check"]
  /\ UNCHANGED <<fileVars, diskVars, up, pending, guard, comm, abrt, gc, inFlight,
                 receiver, histVars, budgetVars>>

PrepareCheck(u) ==
  /\ prep[u] = "check"
  /\ IF target[TargetOf[u]] = None \/ u \in Overwrite
     THEN prep' = [prep EXCEPT ![u] = "create"] /\ UNCHANGED client
     ELSE prep' = [prep EXCEPT ![u] = "idle"] /\ Answer(u, "preparing", "failed")
  /\ UnchangedHandlers
  /\ UNCHANGED <<fileVars, diskVars, up, pending, receiver, histVars, budgetVars>>

\* The target's directory is swept on the way to creating the staging file.
PrepareCreate(u) ==
  /\ prep[u] = "create"
  /\ old' = old \ Stale(pending)
  /\ \/ /\ NoFault
        /\ staging' = [WithoutFiles(Stale(pending)) EXCEPT ![u] = "empty"]
        /\ prep' = [prep EXCEPT ![u] = "insert"] /\ UNCHANGED client
     \/ /\ Fault
        /\ staging' = WithoutFiles(Stale(pending))
        /\ prep' = [prep EXCEPT ![u] = "idle"] /\ Answer(u, "preparing", "failed")
  /\ UnchangedBut /\ UnchangedHandlers
  /\ UNCHANGED <<target, diskVars, up, pending, receiver, histVars>>

PrepareInsert(u) ==
  /\ prep[u] = "insert"
  /\ pending' = pending \cup {u}
  /\ prep' = [prep EXCEPT ![u] = "persist"]
  /\ UnchangedHandlers
  /\ UNCHANGED <<fileVars, diskVars, up, receiver, client, histVars, budgetVars>>

\* Faulty variant: the registration is not written to disk.
PersistNothing(entries) == UNCHANGED onDisk

\* persist: pending_uploads.json is replaced whole.
Persist(entries) == onDisk' = entries

\* The sync of the directory may fail after the file was replaced.
PersistFails(entries) == onDisk' \in {onDisk, entries}

\* The client learns the transfer id once the registration is on disk; a
\* registration that could not be written is taken back, and its file too if
\* that succeeds.
PreparePersist(u) ==
  /\ prep[u] = "persist"
  /\ \/ /\ NoFault
        /\ Persist(pending)
        /\ Answer(u, "preparing", "streaming")
        /\ UNCHANGED <<staging, old, pending>>
     \/ /\ Fault
        /\ PersistFails(pending)
        /\ pending' = pending \ {u}
        /\ Delete({u}) \/ UNCHANGED <<staging, old>>
        /\ Answer(u, "preparing", "failed")
  /\ prep' = [prep EXCEPT ![u] = "idle"]
  /\ UnchangedBut /\ UnchangedHandlers
  /\ UNCHANGED <<target, recorded, up, receiver, histVars>>
-----------------------------------------------------------------------------
(***************************************************************************)
(* The data plane.  The receiver is a process of its own: it outlives       *)
(* servers, and may start after its client has given up.                    *)
(***************************************************************************)
SpawnReceiver(u) ==
  /\ client[u] = "streaming" /\ receiver[u] = "none"
  /\ receiver' = [receiver EXCEPT ![u] = "starting"]
  /\ UNCHANGED <<fileVars, diskVars, up, pending, guard, handlerVars, client,
                 histVars, budgetVars>>

\* Faulty variant: the receiver creates the file it is to write.
OpenCreates(u) == TRUE

\* The staging file must exist.
OpenSucceeds(u) == staging[u] # "none"

ReceiverOpen(u) ==
  /\ receiver[u] = "starting" /\ OpenSucceeds(u)
  /\ staging' = [staging EXCEPT ![u] = "partial"] /\ old' = old \ {u}
  /\ receiver' = [receiver EXCEPT ![u] = "running"]
  /\ UNCHANGED <<target, diskVars, up, pending, guard, handlerVars, client,
                 histVars, budgetVars>>

\* All bytes written and synced; both sides agree on size and hash.  A file
\* that was unlinked meanwhile is written all the same.
ReceiverFinish(u) ==
  /\ receiver[u] = "running"
  /\ staging' = IF staging[u] = "none" THEN staging
                                       ELSE [staging EXCEPT ![u] = "full"]
  /\ old' = old \ {u}
  /\ receiver' = [receiver EXCEPT ![u] = "done"]
  /\ Answer(u, "streaming", "commit")
  /\ UNCHANGED <<target, diskVars, up, pending, guard, handlerVars, histVars,
                 budgetVars>>

\* It finds no staging file, its input ends early, or the network fails.
ReceiverFails(u) ==
  /\ receiver[u] \in {"starting", "running"}
  /\ receiver' = [receiver EXCEPT ![u] = "done"]
  /\ Answer(u, "streaming", "abort")
  /\ UNCHANGED <<fileVars, diskVars, up, pending, guard, handlerVars, histVars,
                 budgetVars>>
-----------------------------------------------------------------------------
(***************************************************************************)
(* upload_commit, under the write guard.                                    *)
(***************************************************************************)
SendCommit(u) ==
  /\ up /\ client[u] = "commit"
  /\ client' = [client EXCEPT ![u] = "committing"]
  /\ comm' = [comm EXCEPT ![u] = "guard"]
  /\ UNCHANGED <<fileVars, diskVars, up, pending, guard, prep, abrt, gc, inFlight,
                 receiver, histVars, budgetVars>>

CommitStep(u, pc) == comm' = [comm EXCEPT ![u] = pc] /\ UNCHANGED <<client, guard>>

CommitEnds(u, to) ==
  /\ comm' = [comm EXCEPT ![u] = "idle"]
  /\ guard' = None
  /\ Answer(u, "committing", to)

UnchangedInCommit ==
  UNCHANGED <<up, prep, abrt, gc, inFlight, receiver, aborted, deaths, foreigns, gcs>>

CommitGuard(u) ==
  /\ comm[u] = "guard" /\ guard = None
  /\ guard' = u
  /\ comm' = [comm EXCEPT ![u] = "check"]
  /\ UnchangedInCommit
  /\ UNCHANGED <<fileVars, diskVars, pending, client, installed, faults>>

\* The entry, the staging file and its size.
CommitCheck(u) ==
  /\ comm[u] = "check"
  /\ IF u \in pending /\ staging[u] = "full" THEN CommitStep(u, "install")
                                             ELSE CommitEnds(u, "abort")
  /\ UnchangedInCommit
  /\ UNCHANGED <<fileVars, diskVars, pending, installed, faults>>

\* Faulty variant: a rename also where nothing may be replaced.
MayReplace(u) == TRUE

\* Only an overwriting upload may replace a file (rename or hard_link).
Linkable(u) == u \in Overwrite \/ target[TargetOf[u]] = None

\* Setting the mode and the rename or link both need the staging file.
CommitInstall(u) ==
  /\ comm[u] = "install"
  /\ \/ /\ staging[u] # "none" /\ Linkable(u) /\ NoFault
        /\ target' = [target EXCEPT ![TargetOf[u]] = u]
        /\ installed' = installed \cup {u}
        /\ IF u \in Overwrite
           THEN Delete({u}) /\ CommitStep(u, "sync")
           ELSE UNCHANGED <<staging, old>> /\ CommitStep(u, "unlink")
     \/ /\ staging[u] = "none" \/ ~Linkable(u) \/ faults < MaxFaults
        /\ IF staging[u] # "none" /\ Linkable(u) THEN Fault ELSE NoFault
        /\ CommitEnds(u, "abort")
        /\ UNCHANGED <<fileVars, installed>>
  /\ UnchangedInCommit
  /\ UNCHANGED <<diskVars, pending>>

\* The link installed, the staging name goes; an abort may have been faster.
CommitUnlink(u) ==
  /\ comm[u] = "unlink"
  /\ \/ /\ staging[u] # "none" /\ NoFault
        /\ Delete({u}) /\ CommitStep(u, "sync")
     \/ /\ IF staging[u] = "none" THEN NoFault ELSE Fault
        /\ CommitEnds(u, "abort")
        /\ UNCHANGED <<staging, old>>
  /\ UnchangedInCommit
  /\ UNCHANGED <<target, diskVars, pending, installed>>

CommitSync(u) ==
  /\ comm[u] = "sync"
  /\ \/ NoFault /\ CommitStep(u, "record")
     \/ Fault /\ CommitEnds(u, "abort")
  /\ UnchangedInCommit
  /\ UNCHANGED <<fileVars, diskVars, pending, installed>>

\* Faulty variant: a record that could not be appended is passed over.
RecordFailureIgnored(u) == CommitStep(u, "remove")

RecordFailure(u) == CommitEnds(u, "abort")

\* A line whose sync failed may be in the log all the same.
CommitRecord(u) ==
  /\ comm[u] = "record"
  /\ \/ NoFault /\ recorded' = recorded \cup {u} /\ CommitStep(u, "remove")
     \/ Fault /\ recorded' \in {recorded, recorded \cup {u}} /\ RecordFailure(u)
  /\ UnchangedInCommit
  /\ UNCHANGED <<fileVars, onDisk, pending, installed>>

CommitRemove(u) ==
  /\ comm[u] = "remove"
  /\ pending' = pending \ {u}
  /\ \/ NoFault /\ Persist(pending') /\ CommitEnds(u, "ok")
     \/ Fault /\ PersistFails(pending') /\ CommitEnds(u, "abort")
  /\ UnchangedInCommit
  /\ UNCHANGED <<fileVars, recorded, installed>>
-----------------------------------------------------------------------------
(***************************************************************************)
(* upload_abort, which takes no guard and may overtake a commit its client  *)
(* stopped waiting for.                                                     *)
(***************************************************************************)
SendAbort(u) ==
  /\ up /\ client[u] = "abort"
  /\ client' = [client EXCEPT ![u] = "aborting"]
  /\ abrt' = [abrt EXCEPT ![u] = "registry"]
  /\ UNCHANGED <<fileVars, diskVars, up, pending, guard, prep, comm, gc, inFlight,
                 receiver, histVars, budgetVars>>

AbortRegistry(u) ==
  /\ abrt[u] = "registry"
  /\ pending' = pending \ {u}
  /\ \/ /\ NoFault /\ Persist(pending')
        /\ IF u \in pending
           THEN abrt' = [abrt EXCEPT ![u] = "file"] /\ UNCHANGED client
           ELSE abrt' = [abrt EXCEPT ![u] = "idle"] /\ Answer(u, "aborting", "failed")
     \/ /\ Fault /\ PersistFails(pending')
        /\ abrt' = [abrt EXCEPT ![u] = "idle"] /\ Answer(u, "aborting", "failed")
  /\ UnchangedBut
  /\ UNCHANGED <<fileVars, recorded, up, guard, prep, comm, gc, inFlight, receiver,
                 histVars>>

AbortFile(u) ==
  /\ abrt[u] = "file"
  /\ \/ /\ NoFault
        /\ Delete({u})
        /\ aborted' = aborted \cup {u}
     \/ /\ Fault /\ staging[u] # "none"
        /\ UNCHANGED <<staging, old, aborted>>
  /\ abrt' = [abrt EXCEPT ![u] = "idle"]
  /\ Answer(u, "aborting", "failed")
  /\ UnchangedBut
  /\ UNCHANGED <<target, diskVars, up, pending, guard, prep, comm, gc, inFlight,
                 receiver, installed>>
-----------------------------------------------------------------------------
(***************************************************************************)
(* The client stops waiting: a deadline, a closed connection, or no new one *)
(* to be had.  A failed prepare leaves no transfer id to abort.             *)
(***************************************************************************)
ClientGivesUp(u) ==
  /\ client[u] \in {"preparing", "streaming", "commit", "committing", "abort", "aborting"}
  /\ client' = [client EXCEPT ![u] =
       IF @ \in {"streaming", "commit", "committing"} THEN "abort" ELSE "failed"]
  /\ UNCHANGED <<fileVars, diskVars, up, pending, guard, handlerVars, receiver,
                 histVars, budgetVars>>

(***************************************************************************)
(* The server: start, death, gc.                                            *)
(***************************************************************************)
\* Faulty variant: registrations are all given up.
RetainNone == {}

\* UploadRegistry::new keeps registrations whose staging file is fresh.
Retained == {u \in onDisk : staging[u] # "none" /\ u \notin old}

\* The sweep of scratch comes first, if a day has passed since the last one;
\* what it evicts is not fresh.
Start ==
  /\ ~up
  /\ up' = TRUE
  /\ Delete(Evictable) \/ UNCHANGED <<staging, old>>
  /\ pending' = Retained
  /\ Persist(Retained)
  /\ UNCHANGED <<target, recorded, guard, handlerVars, receiver, client, histVars,
                 budgetVars>>

Die ==
  /\ up /\ deaths < MaxDeaths
  /\ up' = FALSE /\ deaths' = deaths + 1
  /\ pending' = {} /\ guard' = None
  /\ prep' = [u \in Uploads |-> "idle"] /\ comm' = [u \in Uploads |-> "idle"]
  /\ abrt' = [u \in Uploads |-> "idle"] /\ gc' = "idle" /\ inFlight' = {}
  /\ client' = [u \in Uploads |->
       CASE client[u] = "preparing"  -> "failed"
         [] client[u] = "committing" -> "abort"
         [] client[u] = "aborting"   -> "failed"
         [] OTHER                    -> client[u]]
  /\ UNCHANGED <<fileVars, diskVars, receiver, histVars, faults, foreigns, gcs>>

GcSnapshot ==
  /\ up /\ gc = "idle" /\ guard = None /\ gcs < MaxGcs
  /\ guard' = Gc /\ gc' = "sweep" /\ inFlight' = pending /\ gcs' = gcs + 1
  /\ UNCHANGED <<fileVars, diskVars, up, pending, prep, comm, abrt, receiver, client,
                 histVars, faults, deaths, foreigns>>

GcSweep ==
  /\ gc = "sweep"
  /\ Delete(Stale(inFlight)) \/ Delete(Stale(inFlight) \cup Evictable)
  /\ gc' = "idle" /\ inFlight' = {} /\ guard' = None
  /\ UNCHANGED <<target, diskVars, up, pending, prep, comm, abrt, receiver, client,
                 histVars, budgetVars>>

\* A day passes over a staging file nobody writes: no prepare takes that long,
\* no sweep, and no stream without progress
\* (TRANSFER_STALL_TIMEOUT).
Age(u) ==
  /\ staging[u] # "none" /\ u \notin old
  /\ client[u] # "streaming" /\ receiver[u] \notin {"starting", "running"}
  /\ prep[u] = "idle" /\ (gc = "sweep" => u \in inFlight \/ u \notin pending)
  /\ old' = old \cup {u}
  /\ UNCHANGED <<target, staging, diskVars, up, pending, guard, handlerVars, receiver,
                 client, histVars, budgetVars>>

\* Somebody else creates or removes a target.
ForeignWrite(p) ==
  /\ foreigns < MaxForeign /\ foreigns' = foreigns + 1
  /\ target' = [target EXCEPT ![p] = IF @ = None THEN Foreign ELSE None]
  /\ UNCHANGED <<staging, old, diskVars, up, pending, guard, handlerVars, receiver,
                 client, histVars, faults, deaths, gcs>>

Handlers(u) ==
  \/ PrepareCheck(u) \/ PrepareCreate(u) \/ PrepareInsert(u) \/ PreparePersist(u)
  \/ CommitGuard(u) \/ CommitCheck(u) \/ CommitInstall(u) \/ CommitUnlink(u)
  \/ CommitSync(u) \/ CommitRecord(u) \/ CommitRemove(u)
  \/ AbortRegistry(u) \/ AbortFile(u)

Client(u) == SendPrepare(u) \/ SpawnReceiver(u) \/ SendCommit(u) \/ SendAbort(u)

Receiver(u) == ReceiverOpen(u) \/ ReceiverFinish(u) \/ ReceiverFails(u)

Next ==
  \/ \E u \in Uploads : \/ Handlers(u) \/ Client(u) \/ Receiver(u)
                        \/ ClientGivesUp(u) \/ Age(u)
  \/ Start \/ Die \/ GcSnapshot \/ GcSweep
  \/ \E p \in Paths : ForeignWrite(p)

Spec == Init /\ [][Next]_vars
-----------------------------------------------------------------------------
(***************************************************************************)
(* Safety.                                                                  *)
(***************************************************************************)
\* An upload whose client holds a transfer id can be committed by any server
\* to come, as long as its staging file stays fresh: it is registered on disk
\* and in the running server (insert, persist, UploadRegistry::new).
Registered(u) == u \in onDisk /\ (up => u \in pending)

PreparedIsRegistered ==
  \A u \in Uploads :
    client[u] \in {"streaming", "commit"} =>
      \/ Registered(u)
      \/ u \in old \/ staging[u] = "none"

\* A staging file in the workspace whose upload is registered is removed by its
\* own commit or abort only, never by a sweep (in_flight_staging,
\* sweep_stale_staging_dir).
SweptAway(u) ==
  /\ staging[u] # "none" /\ staging'[u] = "none"
  /\ u \in pending /\ u \in pending' /\ comm[u] \notin {"install", "unlink"}

SweepSparesRegistered == [][\A u \in Uploads : TargetOf[u] \notin Scratch => ~SweptAway(u)]_vars

\* An aborted upload leaves no staging file behind, even when its receiver
\* starts only after the abort (run_transfer_receive opens, never creates).
AbortedStaysGone == \A u \in aborted : staging[u] = "none"

\* Without overwrite no upload replaces a file, not even one that appeared
\* between prepare and commit (hard_link in upload_commit).
NoClobber ==
  [][\A p \in Paths : target[p] # None /\ target'[p] # target[p]
       => target'[p] \in Overwrite \cup {None, Foreign}]_vars

\* A client that is told of success has its upload in place and recorded, and
\* nothing of it is left to clean up (the order of upload_commit's steps).
OkIsSettled ==
  \A u \in Uploads : client[u] = "ok" =>
    u \in installed /\ u \in recorded /\ u \notin onDisk /\ staging[u] = "none"
-----------------------------------------------------------------------------
(***************************************************************************)
(* The inductive invariant.                                                 *)
(***************************************************************************)
\* Handlers run in a running server, those that hold the guard one at a time.
HandlerInv ==
  /\ ~up => /\ pending = {} /\ gc = "idle"
            /\ \A u \in Uploads : prep[u] = "idle" /\ comm[u] = "idle" /\ abrt[u] = "idle"
  /\ \A u \in Uploads : comm[u] \notin {"idle", "guard"} => guard = u
  /\ gc = "sweep" => guard = Gc

\* The requests of an upload follow each other; a client that gave one up is
\* further on than the handler.
PhaseInv ==
  \A u \in Uploads :
    /\ prep[u] # "idle" => client[u] \in {"preparing", "failed"}
    /\ client[u] \in {"start", "preparing"} \/ prep[u] # "idle" =>
         comm[u] = "idle" /\ abrt[u] = "idle" /\ receiver[u] = "none"
    /\ client[u] = "start" => prep[u] = "idle"
    /\ client[u] \in {"streaming", "commit"} => comm[u] = "idle" /\ abrt[u] = "idle"
    /\ client[u] = "ok" => comm[u] = "idle"
    /\ client[u] \in {"commit", "committing", "ok"} \/ comm[u] # "idle" =>
         receiver[u] = "done"
    /\ abrt[u] # "idle" => client[u] \in {"aborting", "failed"}
    /\ client[u] = "abort" => abrt[u] = "idle"
    /\ u \in aborted => client[u] = "failed" \/ client[u] = "aborting"
    /\ u \in aborted => prep[u] = "idle"

\* What a prepared upload has, and what a sweep does not know of is fresh.
StagingInv ==
  /\ \A u \in Uploads :
       /\ prep[u] \in {"insert", "persist"} => staging[u] # "none"
       /\ client[u] = "start" => staging[u] = "none"
       /\ client[u] = "start" \/ prep[u] # "idle" => u \notin old
       /\ prep[u] = "persist" => u \in pending
       /\ client[u] = "streaming" => staging[u] # "none" /\ u \notin old
       /\ client[u] = "preparing" => u \notin aborted
       /\ abrt[u] = "file" => u \notin pending
  /\ gc = "sweep" => pending \cap old \subseteq inFlight

\* What a commit has done at each of its steps.
CommitInv ==
  \A u \in Uploads :
    /\ comm[u] \in {"unlink", "sync", "record", "remove"} => u \in installed
    /\ comm[u] \in {"sync", "record", "remove"} => staging[u] = "none"
    /\ comm[u] = "remove" => u \in recorded
    /\ client[u] = "ok" => u \notin pending

IInv ==
  /\ TypeOK /\ HandlerInv /\ PhaseInv /\ StagingInv /\ CommitInv
  /\ PreparedIsRegistered /\ AbortedStaysGone /\ OkIsSettled
=============================================================================
