------------------------ MODULE WorkspaceServerProofs ------------------------
(***************************************************************************)
(* What is proved of WorkspaceServer, for every value of the constants: any  *)
(* number of handlers, requests, paths, contents, failures, crashes, power   *)
(* losses and other writers.  First the types; then IInv, and with it        *)
(* WriteAhead, ToldIsDurable and ToldIdsStayTaken; then OnceInv and TrueInv  *)
(* (WorkspaceServerInvariants), and with them AtMostOnce, LandedNotDropped,  *)
(* RecoverySettles and NoPhantomCommit; last that the server implements      *)
(* AtomicWorkspace, under the conditions each theorem names.                 *)
(*                                                                           *)
(* TypeOK is inductive as it stands: from its prepare or its spawn on, a     *)
(* handler's operation id is one of Ids, which is what the log and the       *)
(* history sets need.                                                        *)
(*                                                                           *)
(* IInv.  A new operation id is above nextId, and nextId covers              *)
(* everything in the log, in the table and in op-counter (IdInv), so a new   *)
(* id has no line yet and was never landed, pruned or dropped (TakenInv).    *)
(* The guard admits one handler (GuardInv), so the marker that handler       *)
(* wrote is still there when it installs, commits or withdraws               *)
(* (HandlerInv).  A committed record of the table is the log's (TableInv),   *)
(* which is what lets prune rewrite the log from the table.  Results name    *)
(* committed operations from the moment they are produced (ResultInv).       *)
(*                                                                           *)
(* OnceInv and TrueInv.  One lemma per operator of the store says what it    *)
(* does to one record or one entry, two list the ways a step can change      *)
(* records and entries; then one lemma per invariant, and one per kind of    *)
(* step for the refinement.                                                  *)
(***************************************************************************)
EXTENDS WorkspaceServerInvariants, FiniteSetTheorems, WellFoundedInduction, TLAPS

USE NoneAssumption, BoundsAssumption, LimitAssumption, BodyAssumption, ServerAssumption

-----------------------------------------------------------------------------
(***************************************************************************)
(* Type correctness: one lemma per operator of the store, one per way a     *)
(* handler's state is assigned, then one step per action.                   *)
(***************************************************************************)
\* Records and entries the store writes.
LEMMA StampedType ==
  ASSUME TypeOK, NEW tag \in Tags, NEW r \in Requests, NEW b \in FileState
  PROVE  /\ Stamped(tag, r, b) \in Record
         /\ Stamped(tag, r, b).req = r /\ Stamped(tag, r, b).tag = tag
BY DEF Stamped, Record, TypeOK, StoreTypeOK, Clock

\* The constant lines and entries are typed.
LEMMA EntryType ==
  /\ NoEntry \in Entry /\ InProgress \in Entry /\ Failed \in Entry
  /\ \A o \in 0 .. MaxOps : Done(o) \in Entry
  /\ NoRecord \in Record
BY DEF NoEntry, InProgress, Failed, Done, Entry, Status, NoRecord, Record, Tags, FileState

\* A state directory that was never used is well typed.
LEMMA InitType == Init => TypeOK
<1> SUFFICES ASSUME Init PROVE TypeOK OBVIOUS
<1>1. StoreTypeOK
  <2>1. NoRecord \in Record /\ NoRecord.tag = "none" BY EntryType DEF NoRecord
  <2>2. NoEntry \in Entry BY EntryType
  <2>3. /\ opsLog \in [Ids -> Record] /\ records \in [Ids -> Record]
        /\ \A o \in Ids : /\ opsLog[o].tag # "none" => opsLog[o].req \in Requests
                          /\ records[o].tag # "none" => records[o].req \in Requests
    BY <2>1 DEF Init, StoreInit
  <2>4. reqLog \in [Requests -> Entry] /\ requests \in [Requests -> Entry]
    BY <2>2 DEF Init, StoreInit
  <2>5. /\ counter \in 0 .. MaxOps /\ nextId \in 0 .. MaxOps
        /\ slot \in [Ids -> Nat] /\ clock \in Clock
        /\ faults \in Nat /\ forgets \in [Requests -> Nat]
        /\ pruned \subseteq Ids /\ orphaned \subseteq Requests
    BY DEF Init, StoreInit, Clock
  <2>6. torn \in BOOLEAN BY Zenon DEF Init, StoreInit
  <2>7. QED BY <2>3, <2>4, <2>5, <2>6 DEF StoreTypeOK
<1>2. Idle \in HandlerState /\ Idle.pc = "idle" /\ Idle.pc \notin MarkedPcs \cup ExecPcs
  BY DEF Idle, HandlerState, Pcs, FileState, MarkedPcs, ExecPcs
<1>3. NothingOwed \in [req : Requests \cup {None}, entry : Entry]
  BY EntryType DEF NothingOwed
<1>4. QED BY <1>1, <1>2, <1>3 DEF Init, TypeOK, Phases

\* append_line keeps its fault count and its torn flag typed.
LEMMA AppendLineType ==
  ASSUME TypeOK, NEW w, AppendLine(w)
  PROVE  faults' \in Nat /\ torn' \in BOOLEAN
BY DEF TypeOK, StoreTypeOK, AppendLine, Tears

\* So do append_request_tracked and the request table.
LEMMA AppendRequestType ==
  ASSUME TypeOK, NEW r \in Requests, NEW e \in Entry, NEW w,
         AppendRequestTracked(r, e, w)
  PROVE  /\ faults' \in Nat /\ torn' \in BOOLEAN
         /\ reqLog' \in [Requests -> Entry] /\ requests' \in [Requests -> Entry]
<1>1. AppendLine(w) BY DEF AppendRequestTracked
<1>2. QED BY <1>1, AppendLineType DEF TypeOK, StoreTypeOK, AppendRequestTracked

\* append_record_tracked: the log, the table and its order stay typed.
LEMMA AppendRecordType ==
  ASSUME TypeOK, NEW o \in Ids, NEW tag \in Tags, NEW r \in Requests,
         NEW b \in FileState, NEW w,
         AppendRecordTracked(o, Stamped(tag, r, b), w)
  PROVE  /\ faults' \in Nat /\ torn' \in BOOLEAN /\ clock' \in Clock
         /\ opsLog' \in [Ids -> Record] /\ records' \in [Ids -> Record]
         /\ slot' \in [Ids -> Nat]
         /\ \A q \in Ids : /\ opsLog'[q].tag # "none" => opsLog'[q].req \in Requests
                           /\ records'[q].tag # "none" => records'[q].req \in Requests
<1> DEFINE rec == Stamped(tag, r, b)
<1>1. AppendLine(w) BY DEF AppendRecordTracked
<1>2. rec \in Record /\ rec.req = r BY StampedType
<1>3. NoRecord \in Record /\ NoRecord.tag = "none" BY EntryType DEF NoRecord
<1> HIDE DEF rec
<1>4. AppendRecordTracked(o, rec, w) BY DEF rec
<1>5. /\ opsLog \in [Ids -> Record] /\ records \in [Ids -> Record]
      /\ clock \in Clock /\ slot \in [Ids -> Nat]
      /\ \A q \in Ids : /\ opsLog[q].tag # "none" => opsLog[q].req \in Requests
                        /\ records[q].tag # "none" => records[q].req \in Requests
  BY DEF TypeOK, StoreTypeOK
<1>6. opsLog' \in [Ids -> Record] /\ \A q \in Ids : opsLog'[q].tag # "none" => opsLog'[q].req \in Requests
  BY <1>2, <1>4, <1>5 DEF AppendRecordTracked
<1>7. records' \in [Ids -> Record] /\ \A q \in Ids : records'[q].tag # "none" => records'[q].req \in Requests
  BY <1>2, <1>3, <1>4, <1>5 DEF AppendRecordTracked
<1>8. clock' \in Clock /\ slot' \in [Ids -> Nat]
  BY <1>4, <1>5 DEF AppendRecordTracked, Tick, Clock
<1>9. QED BY <1>1, <1>6, <1>7, <1>8, AppendLineType

\* prepare_fs_record, its failure paths included.
LEMMA PrepareType ==
  ASSUME TypeOK, NEW o, NEW r \in Requests, NEW b \in FileState, NEW w,
         PrepareFsRecord(o, r, b, w)
  PROVE  /\ o \in Ids /\ nextId' \in 0 .. MaxOps
         /\ faults' \in Nat /\ torn' \in BOOLEAN /\ clock' \in Clock
         /\ opsLog' \in [Ids -> Record] /\ records' \in [Ids -> Record]
         /\ slot' \in [Ids -> Nat]
         /\ \A q \in Ids : /\ opsLog'[q].tag # "none" => opsLog'[q].req \in Requests
                           /\ records'[q].tag # "none" => records'[q].req \in Requests
<1> DEFINE P == Stamped("prepared", r, b)
           A == Stamped("aborted", r, b)
<1>1. P \in Record /\ P.req = r /\ A \in Record /\ A.req = r BY StampedType DEF Tags
<1>2. /\ opsLog \in [Ids -> Record] /\ records \in [Ids -> Record]
      /\ clock \in Clock /\ slot \in [Ids -> Nat] /\ nextId \in 0 .. MaxOps
      /\ faults \in Nat /\ torn \in BOOLEAN
      /\ \A q \in Ids : /\ opsLog[q].tag # "none" => opsLog[q].req \in Requests
                        /\ records[q].tag # "none" => records[q].req \in Requests
  BY DEF TypeOK, StoreTypeOK
<1>3. o \in Ids /\ nextId' \in 0 .. MaxOps BY DEF PrepareFsRecord, NextOperationId, Ids
<1>4. /\ faults' \in Nat /\ torn' \in BOOLEAN
      /\ \/ opsLog' = opsLog
         \/ opsLog' = [opsLog EXCEPT ![o] = P]
         \/ opsLog' = [opsLog EXCEPT ![o] = A]
  <2>1. CASE w # "unsynced"
    <3>1. AppendLine(w) BY <2>1 DEF PrepareFsRecord
    <3>2. QED BY <2>1, <3>1, AppendLineType DEF PrepareFsRecord
  <2>2. CASE w = "unsynced"
    <3>1. PrepareUnsynced(o, r, b) BY <2>2 DEF PrepareFsRecord
    <3>2. PICK w2 : /\ faults' = IF w2 \in AppendFailures THEN faults + 2 ELSE faults + 1
                    /\ torn' = Tears(w2)
                    /\ opsLog' = PrepareFailureLine(o, r, b, w2)
      BY <3>1 DEF PrepareUnsynced
    <3>3. torn' \in BOOLEAN BY <3>2 DEF Tears
    <3>4. faults' \in Nat BY <1>2, <3>2
    <3>5. \/ opsLog' = [opsLog EXCEPT ![o] = P]
          \/ opsLog' = [opsLog EXCEPT ![o] = A]
      <4>1. CASE OnDisk(w2) BY <3>2, <4>1 DEF PrepareFailureLine
      <4>2. CASE ~OnDisk(w2) BY <3>2, <4>2 DEF PrepareFailureLine
      <4>3. QED BY <4>1, <4>2
    <3>6. QED BY <3>3, <3>4, <3>5
  <2>3. QED BY <2>1, <2>2
<1>5. /\ records' = records \/ records' = [records EXCEPT ![o] = P]
      /\ slot' = slot \/ slot' = [slot EXCEPT ![o] = clock.at + 1]
      /\ clock' = Tick
  BY DEF PrepareFsRecord
<1> HIDE DEF P, A
<1>6. QED BY <1>1, <1>2, <1>3, <1>4, <1>5 DEF Tick, Clock

\* prune, stopped after any of its three file replacements.
LEMMA PruneType ==
  ASSUME TypeOK, NEW keep, NEW replaced, NEW ok, Prune(keep, replaced, ok)
  PROVE  StoreTypeOK'
<1> DEFINE kept == KeptRecords(keep)
           live == KeptRequests(kept)
<1> USE EntryType DEF TypeOK, StoreTypeOK
<1> HIDE DEF kept, live
<1>1. /\ records' = [o \in Ids |-> IF o \in kept THEN records[o] ELSE NoRecord]
      /\ requests' = [r \in Requests |-> IF r \in live THEN requests[r] ELSE NoEntry]
      /\ counter' = counter \/ counter' = nextId
      /\ opsLog' = opsLog \/ opsLog' = records'
      /\ reqLog' = reqLog \/ reqLog' = requests'
      /\ UNCHANGED <<nextId, slot, torn, clock>>
      /\ faults' = faults \/ faults' = faults + 1
  BY DEF Prune, kept, live
<1>2. pruned' \subseteq Ids BY DEF Prune
<1>3. orphaned' \subseteq Requests BY DEF Prune
<1>4. forgets' \in [Requests -> Nat]  BY DEF Prune
<1>5. /\ records' \in [Ids -> Record] /\ requests' \in [Requests -> Entry]
      /\ \A q \in Ids : records'[q].tag # "none" => records'[q].req \in Requests
  BY <1>1 DEF NoRecord
<1>6. /\ opsLog' \in [Ids -> Record] /\ reqLog' \in [Requests -> Entry]
      /\ \A q \in Ids : opsLog'[q].tag # "none" => opsLog'[q].req \in Requests
  <2>1. CASE opsLog' = opsLog BY <2>1, <1>1, <1>5
  <2>2. CASE opsLog' = records' BY <2>2, <1>1, <1>5
  <2>3. QED BY <2>1, <2>2, <1>1
<1>7. counter' \in 0 .. MaxOps /\ nextId' \in 0 .. MaxOps BY <1>1
<1>8. QED BY <1>1, <1>2, <1>3, <1>4, <1>5, <1>6, <1>7

-----------------------------------------------------------------------------
HandlersOK ==
  /\ hs \in [Handlers -> HandlerState]
  /\ \A t \in Handlers :
       /\ hs[t].pc # "idle" => hs[t].req \in Requests
       /\ hs[t].pc \in MarkedPcs \cup ExecPcs => hs[t].id \in Ids

\* Assigning a handler a new state.
LEMMA UpdateType ==
  ASSUME TypeOK, NEW t \in Handlers, NEW h \in HandlerState, h.req \in Requests,
         h.pc \in MarkedPcs \cup ExecPcs => h.id \in Ids,
         hs' = [hs EXCEPT ![t] = h]
  PROVE  HandlersOK'
BY DEF TypeOK, HandlersOK

\* Assignments to the fields of a handler's state.
LEMMA GotoType ==
  ASSUME TypeOK, NEW t \in Handlers, NEW pc \in Pcs,
         hs[t].pc # "idle",
         pc \in MarkedPcs \cup ExecPcs => hs[t].id \in Ids,
         Goto(t, pc)
  PROVE  HandlersOK'
<1> DEFINE h == [hs[t] EXCEPT !.pc = pc]
<1>1. hs[t] \in HandlerState /\ hs[t].req \in Requests BY DEF TypeOK
<1>2. h \in HandlerState /\ h.req = hs[t].req /\ h.pc = pc /\ h.id = hs[t].id
  BY <1>1 DEF HandlerState
<1>3. hs' = [hs EXCEPT ![t] = h] BY DEF Goto
<1> HIDE DEF h
<1>4. QED BY <1>1, <1>2, <1>3, UpdateType

\* Check and HashBefore.
LEMMA SetBeforeType ==
  ASSUME TypeOK, NEW t \in Handlers, NEW pc \in Pcs, NEW b \in FileState,
         hs[t].pc # "idle",
         pc \in MarkedPcs \cup ExecPcs => hs[t].id \in Ids,
         hs' = [hs EXCEPT ![t].pc = pc, ![t].before = b]
  PROVE  HandlersOK'
<1> DEFINE h == [hs[t] EXCEPT !.pc = pc, !.before = b]
<1>1. hs[t] \in HandlerState /\ hs[t].req \in Requests BY DEF TypeOK
<1>2. h \in HandlerState /\ h.req = hs[t].req /\ h.pc = pc /\ h.id = hs[t].id
  BY <1>1 DEF HandlerState
<1>3. hs' = [hs EXCEPT ![t] = h] OBVIOUS
<1> HIDE DEF h
<1>4. QED BY <1>1, <1>2, <1>3, UpdateType

\* Prepare, and a rejected exec.
LEMMA SetIdType ==
  ASSUME TypeOK, NEW t \in Handlers, NEW pc \in Pcs, NEW o \in 0 .. MaxOps,
         hs[t].pc # "idle",
         pc \in MarkedPcs \cup ExecPcs => o \in Ids,
         hs' = [hs EXCEPT ![t].id = o, ![t].pc = pc]
  PROVE  HandlersOK'
<1> DEFINE h == [hs[t] EXCEPT !.id = o, !.pc = pc]
<1>1. hs[t] \in HandlerState /\ hs[t].req \in Requests BY DEF TypeOK
<1>2. h \in HandlerState /\ h.req = hs[t].req /\ h.pc = pc /\ h.id = o
  BY <1>1 DEF HandlerState
<1>3. hs' = [hs EXCEPT ![t] = h] OBVIOUS
<1> HIDE DEF h
<1>4. QED BY <1>1, <1>2, <1>3, UpdateType

\* A started exec.
LEMMA SetIdOkType ==
  ASSUME TypeOK, NEW t \in Handlers, NEW pc \in Pcs, NEW o \in 0 .. MaxOps,
         NEW ok \in BOOLEAN,
         hs[t].pc # "idle",
         pc \in MarkedPcs \cup ExecPcs => o \in Ids,
         hs' = [hs EXCEPT ![t].id = o, ![t].pc = pc, ![t].ok = ok]
  PROVE  HandlersOK'
<1> DEFINE h == [hs[t] EXCEPT !.id = o, !.pc = pc, !.ok = ok]
<1>1. hs[t] \in HandlerState /\ hs[t].req \in Requests BY DEF TypeOK
<1>2. h \in HandlerState /\ h.req = hs[t].req /\ h.pc = pc /\ h.id = o
  BY <1>1 DEF HandlerState
<1>3. hs' = [hs EXCEPT ![t] = h] OBVIOUS
<1> HIDE DEF h
<1>4. QED BY <1>1, <1>2, <1>3, UpdateType

\* A handler that reports its result.
LEMMA SetOkType ==
  ASSUME TypeOK, NEW t \in Handlers, NEW pc \in Pcs, NEW ok \in BOOLEAN,
         hs[t].pc # "idle",
         pc \in MarkedPcs \cup ExecPcs => hs[t].id \in Ids,
         hs' = [hs EXCEPT ![t].pc = pc, ![t].ok = ok]
  PROVE  HandlersOK'
<1> DEFINE h == [hs[t] EXCEPT !.pc = pc, !.ok = ok]
<1>1. hs[t] \in HandlerState /\ hs[t].req \in Requests BY DEF TypeOK
<1>2. h \in HandlerState /\ h.req = hs[t].req /\ h.pc = pc /\ h.id = hs[t].id
  BY <1>1 DEF HandlerState
<1>3. hs' = [hs EXCEPT ![t] = h] OBVIOUS
<1> HIDE DEF h
<1>4. QED BY <1>1, <1>2, <1>3, UpdateType

\* A handler that has ended.
LEMMA IdleType ==
  ASSUME TypeOK, NEW t \in Handlers, hs' = [hs EXCEPT ![t] = Idle]
  PROVE  HandlersOK'
<1>1. Idle \in HandlerState /\ Idle.pc = "idle"
  BY DEF Idle, HandlerState, Pcs, FileState
<1>2. QED BY <1>1 DEF TypeOK, HandlersOK, MarkedPcs, ExecPcs

\* Leaving the guarded section.
LEMMA DropGuardType ==
  ASSUME TypeOK, NEW t \in Handlers, NEW ok \in BOOLEAN, hs[t].pc # "idle",
         DropGuard(t, ok)
  PROVE  HandlersOK' /\ guard' \in Handlers \cup {None}
<1>1. guard' \in Handlers \cup {None} BY DEF DropGuard
<1>2. "finish" \in Pcs /\ "finish" \notin MarkedPcs \cup ExecPcs
  BY DEF Pcs, MarkedPcs, ExecPcs
<1>3. hs' = [hs EXCEPT ![t].pc = "finish", ![t].ok = ok] BY DEF DropGuard
<1>4. QED BY <1>1, <1>2, <1>3, SetOkType

\* Reporting a stored result.
LEMMA TellType ==
  ASSUME TypeOK, NEW r \in Requests, NEW e \in Entry, Tell(r, e)
  PROVE  told' \in [Requests -> SUBSET Ids]
<1>1. e.status = "done" /\ e.id # 0 => e.id \in Ids BY DEF Entry, Ids
<1>2. told[r] \cup (IF e.status = "done" /\ e.id # 0 THEN {e.id} ELSE {}) \in SUBSET Ids
  BY <1>1 DEF TypeOK
<1>3. QED BY <1>2 DEF Tell, TypeOK

\* The end of a process.
LEMMA UnloadType ==
  ASSUME TypeOK, Unload, UNCHANGED <<diskVars, clock, faults, pruneHist>>
  PROVE  StoreTypeOK'
<1>1. /\ NoRecord \in Record /\ NoRecord.tag = "none" /\ NoEntry \in Entry
  BY EntryType DEF NoRecord
<1>2. torn' \in BOOLEAN BY Zenon DEF Unload
<1>3. QED BY <1>1, <1>2 DEF TypeOK, StoreTypeOK, Unload, diskVars, pruneHist

\* OperationStore::new.
LEMMA LoadType ==
  ASSUME TypeOK, Load, UNCHANGED <<diskVars, clock, faults, pruneHist>>
  PROVE  StoreTypeOK'
<1>1. /\ NoRecord \in Record /\ NoRecord.tag = "none"
  BY EntryType DEF NoRecord
<1>2. torn' \in BOOLEAN BY Zenon DEF Load
<1>3. nextId' \in 0 .. MaxOps BY DEF Load
<1>4. slot' \in [Ids -> Nat] BY DEF Load, TypeOK, StoreTypeOK, Record
<1>5. records' \in [Ids -> Record] /\ \A o \in Ids : records'[o].tag # "none" => records'[o].req \in Requests
  BY <1>1 DEF Load, TypeOK, StoreTypeOK
<1>6. QED BY <1>1, <1>2, <1>3, <1>4, <1>5 DEF TypeOK, StoreTypeOK, Load, diskVars, pruneHist

\* Steps outside the store.
LEMMA StutterType ==
  ASSUME TypeOK, UNCHANGED storeVars PROVE StoreTypeOK'
BY DEF TypeOK, StoreTypeOK, storeVars, diskVars, tableVars, pruneHist

\* Every step of a handler keeps the type invariant.
LEMMA HandlerType ==
  ASSUME TypeOK, NEW t \in Handlers, Handler(t)
  PROVE  TypeOK'
<1> USE DEF wsVars, histVars, budgetVars, UnchangedHist, UnchangedStore
<1>0. hs[t] \in HandlerState /\ (hs[t].pc # "idle" => Req(t) \in Requests)
  BY DEF TypeOK, Req
<1>b. hs[t].before \in FileState /\ hs[t].id \in 0 .. MaxOps /\ hs[t].ok \in BOOLEAN
  BY <1>0 DEF HandlerState
<1>c. Req(t) \in Requests => /\ PathAt(t) \in Paths /\ file[PathAt(t)] \in FileState
                             /\ After(Req(t)) \in FileState
  BY DEF PathAt, PathOf, After, FileState, TypeOK
<1>d. hs[t].pc \in MarkedPcs \cup ExecPcs => hs[t].id \in Ids BY DEF TypeOK
<1>e. /\ {"idle", "guard", "check", "hash", "prepare", "spawn", "record"} \subseteq Pcs
      /\ MarkedPcs \cup ExecPcs \subseteq Pcs
      /\ {"idle", "guard", "check", "hash", "prepare", "spawn", "finish"}
           \cap (MarkedPcs \cup ExecPcs) = {}
  BY DEF Pcs, MarkedPcs, ExecPcs
<1>1. CASE Claim(t)
  <2>0. hs[t].pc # "idle" /\ Req(t) \in Requests BY <1>0, <1>1 DEF Claim, At
  <2>1. requests[Req(t)] \in Entry BY <2>0 DEF TypeOK, StoreTypeOK
  <2>2. CASE ~Claimable(Req(t))
    <3>1. HandlersOK' BY <1>1, <2>2, IdleType DEF Claim
    <3>2. told' \in [Requests -> SUBSET Ids] BY <1>1, <2>0, <2>1, <2>2, TellType DEF Claim
    <3>3. StoreTypeOK' BY <1>1, <2>2, StutterType DEF Claim
    <3>4. QED BY <1>1, <3>1, <3>2, <3>3 DEF TypeOK, Claim, HandlersOK
  <2>3. CASE Claimable(Req(t))
    <3>1. PICK w \in AppendResults :
            /\ ClaimRequest(Req(t), w)
            /\ IF w # "ok" THEN hs' = [hs EXCEPT ![t] = Idle]
               ELSE Goto(t, IF OpOf(t) = "exec" THEN "spawn" ELSE "guard")
      BY <1>1, <2>3 DEF Claim
    <3>2. HandlersOK'
      <4>1. CASE w # "ok" BY <3>1, <4>1, IdleType
      <4>2. CASE w = "ok" BY <1>e, <2>0, <3>1, <4>2, GotoType
      <4>3. QED BY <4>1, <4>2
    <3>3. UNCHANGED <<opsLog, counter, nextId, records, slot, clock, pruneHist, told>>
      BY <1>1, <2>3 DEF Claim
    <3>4. StoreTypeOK'
      BY <3>1, <3>3, <2>0, AppendRequestType, EntryType
      DEF ClaimRequest, TypeOK, StoreTypeOK, pruneHist
    <3>5. QED BY <1>1, <3>2, <3>3, <3>4 DEF TypeOK, Claim, HandlersOK
  <2>4. QED BY <2>2, <2>3
<1>2. CASE AcquireGuard(t)
  <2>1. HandlersOK' BY <1>2, <1>e, GotoType DEF AcquireGuard, At
  <2>2. StoreTypeOK' BY <1>2, StutterType DEF AcquireGuard
  <2>3. QED BY <1>2, <2>1, <2>2 DEF TypeOK, AcquireGuard, HandlersOK
<1>3. CASE Check(t)
  <2>0. hs[t].pc # "idle" /\ Req(t) \in Requests BY <1>0, <1>3 DEF Check, At
  <2>1. HandlersOK' /\ guard' \in Handlers \cup {None}
    <3>1. CASE Precondition(Req(t), file[PathAt(t)])
      <4>1. PICK pc \in {"hash", "prepare"} :
              hs' = [hs EXCEPT ![t].pc = pc, ![t].before = file[PathAt(t)]]
        BY <1>3, <3>1 DEF Check
      <4>2. QED BY <1>3, <1>c, <1>e, <2>0, <3>1, <4>1, SetBeforeType DEF Check, TypeOK
    <3>2. CASE ~Precondition(Req(t), file[PathAt(t)])
      BY <1>3, <2>0, <3>2, DropGuardType DEF Check
    <3>3. QED BY <3>1, <3>2
  <2>2. StoreTypeOK' BY <1>3, StutterType DEF Check
  <2>3. QED BY <1>3, <2>1, <2>2 DEF TypeOK, Check, HandlersOK
<1>4. CASE HashBefore(t)
  <2>0. hs[t].pc # "idle" /\ Req(t) \in Requests BY <1>0, <1>4 DEF HashBefore, At
  <2>1. HandlersOK' BY <1>4, <1>c, <1>e, <2>0, SetBeforeType DEF HashBefore
  <2>2. StoreTypeOK' BY <1>4, StutterType DEF HashBefore
  <2>3. QED BY <1>4, <2>1, <2>2 DEF TypeOK, HashBefore, HandlersOK
<1>5. CASE Prepare(t)
  <2>0. hs[t].pc # "idle" /\ Req(t) \in Requests BY <1>0, <1>5 DEF Prepare, At
  <2>1. PICK o \in Ids, w \in AppendResults :
          /\ PrepareFsRecord(o, Req(t), hs[t].before, w)
          /\ IF w = "ok"
             THEN /\ hs' = [hs EXCEPT ![t].id = o,
                              ![t].pc = IF OpOf(t) = "edit" THEN "verify" ELSE "install"]
                  /\ UNCHANGED guard
             ELSE DropGuard(t, FALSE)
    BY <1>5 DEF Prepare
  <2>2. HandlersOK' /\ guard' \in Handlers \cup {None}
    <3>1. CASE w = "ok"
      <4>1. PICK pc \in Pcs : hs' = [hs EXCEPT ![t].id = o, ![t].pc = pc]
        BY <2>1, <3>1 DEF Pcs
      <4>2. o \in 0 .. MaxOps BY DEF Ids
      <4>3. HandlersOK' BY <4>1, <4>2, <2>0, SetIdType
      <4>4. QED BY <2>1, <3>1, <4>3 DEF TypeOK
    <3>2. CASE w # "ok" BY <2>0, <2>1, <3>2, DropGuardType
    <3>3. QED BY <3>1, <3>2
  <2>3. StoreTypeOK'
    BY <1>5, <1>b, <2>0, <2>1, PrepareType DEF Prepare, TypeOK, StoreTypeOK, pruneHist
  <2>4. QED BY <1>5, <2>2, <2>3 DEF TypeOK, Prepare, HandlersOK
<1>6. CASE Verify(t)
  <2>1. hs[t].pc \in MarkedPcs /\ hs[t].pc # "idle" BY <1>6 DEF Verify, At, MarkedPcs
  <2>2. PICK pc \in MarkedPcs : Goto(t, pc) BY <1>6 DEF Verify, MarkedPcs
  <2>3. HandlersOK' BY <1>d, <1>e, <2>1, <2>2, GotoType
  <2>4. StoreTypeOK' BY <1>6, StutterType DEF Verify
  <2>5. QED BY <1>6, <2>3, <2>4 DEF TypeOK, Verify, HandlersOK
<1>7. CASE Install(t)
  <2>0. hs[t].pc \in MarkedPcs /\ hs[t].pc # "idle" /\ Req(t) \in Requests
    BY <1>0, <1>7 DEF Install, At, MarkedPcs
  <2>1. HandlersOK'
    <3>1. "sync" \in MarkedPcs BY DEF MarkedPcs
    <3>2. QED BY <1>7, <1>d, <1>e, <2>0, <3>1, GotoType DEF Install
  <2>2. StoreTypeOK' BY <1>7, StutterType DEF Install
  <2>3. [id |-> hs[t].id, req |-> Req(t), old |-> file[PathAt(t)]] \in Unsynced
    BY <1>c, <1>d, <2>0 DEF Unsynced
  <2>4. unsynced' \in [Paths -> SUBSET Unsynced]
    <3> DEFINE u == [id |-> hs[t].id, req |-> Req(t), old |-> file[PathAt(t)]]
    <3>1. unsynced' = [unsynced EXCEPT ![PathAt(t)] = @ \cup {u}] BY <1>7 DEF Install
    <3>2. u \in Unsynced BY <2>3
    <3> HIDE DEF u
    <3>3. QED BY <3>1, <3>2, <1>c, <2>0 DEF TypeOK
  <2>5. /\ file' \in [Paths -> FileState] /\ landed' \subseteq Ids
        /\ runs' \in [Requests -> Int]
    BY <1>7, <1>c, <1>d, <2>0 DEF Install, TypeOK
  <2>6. QED BY <1>7, <2>1, <2>2, <2>4, <2>5 DEF TypeOK, Install, HandlersOK
<1>8. CASE InstallFails(t)
  <2>1. hs[t].pc \in MarkedPcs /\ hs[t].pc # "idle" BY <1>8 DEF InstallFails, At, MarkedPcs
  <2>2. "withdraw" \in MarkedPcs BY DEF MarkedPcs
  <2>3. HandlersOK' BY <1>8, <1>d, <1>e, <2>1, <2>2, GotoType DEF InstallFails
  <2>4. StoreTypeOK'
    BY <1>8 DEF InstallFails, Fault, TypeOK, StoreTypeOK, diskVars, tableVars, pruneHist
  <2>5. QED BY <1>8, <2>3, <2>4 DEF TypeOK, InstallFails, HandlersOK
<1>9. CASE Sync(t)
  <2>1. hs[t].pc \in MarkedPcs /\ hs[t].pc # "idle" BY <1>9 DEF Sync, At, MarkedPcs
  <2>2. "commit" \in MarkedPcs BY DEF MarkedPcs
  <2>3. HandlersOK' BY <1>9, <1>d, <1>e, <2>1, <2>2, GotoType DEF Sync
  <2>4. StoreTypeOK' BY <1>9, StutterType DEF Sync
  <2>5. unsynced' \in [Paths -> SUBSET Unsynced] BY <1>9 DEF Sync, TypeOK
  <2>6. QED BY <1>9, <2>3, <2>4, <2>5 DEF TypeOK, Sync, HandlersOK
<1>10. CASE SyncFails(t)
  <2>1. hs[t].pc # "idle" BY <1>10 DEF SyncFails, At
  <2>2. HandlersOK' /\ guard' \in Handlers \cup {None}
    BY <1>10, <2>1, DropGuardType DEF SyncFails
  <2>3. StoreTypeOK'
    BY <1>10 DEF SyncFails, Fault, TypeOK, StoreTypeOK, diskVars, tableVars, pruneHist
  <2>4. QED BY <1>10, <2>2, <2>3 DEF TypeOK, SyncFails, HandlersOK
<1>11. CASE Commit(t)
  <2>0. hs[t].pc \in MarkedPcs /\ hs[t].pc # "idle" /\ Req(t) \in Requests
    BY <1>0, <1>11 DEF Commit, At, MarkedPcs
  <2>1. PICK w \in AppendResults :
          /\ CommitFsRecord(hs[t].id, Req(t), hs[t].before, w)
          /\ DropGuard(t, w = "ok")
    BY <1>11 DEF Commit
  <2>2. HandlersOK' /\ guard' \in Handlers \cup {None} BY <2>0, <2>1, DropGuardType
  <2>3. StoreTypeOK'
    BY <1>11, <1>b, <1>d, <2>0, <2>1, AppendRecordType
    DEF Commit, CommitFsRecord, TypeOK, StoreTypeOK, pruneHist, Tags
  <2>4. QED BY <1>11, <2>2, <2>3 DEF TypeOK, Commit, HandlersOK
<1>12. CASE Withdraw(t)
  <2>0. hs[t].pc \in MarkedPcs /\ hs[t].pc # "idle" /\ Req(t) \in Requests
    BY <1>0, <1>12 DEF Withdraw, At, MarkedPcs
  <2>1. PICK w \in AppendResults : AbortPrepared(hs[t].id, Req(t), hs[t].before, w)
    BY <1>12 DEF Withdraw
  <2>2. HandlersOK' /\ guard' \in Handlers \cup {None}
    BY <1>12, <2>0, DropGuardType DEF Withdraw
  <2>3. StoreTypeOK'
    BY <1>12, <1>b, <1>d, <2>0, <2>1, AppendRecordType
    DEF Withdraw, AbortPrepared, TypeOK, StoreTypeOK, pruneHist, Tags
  <2>4. QED BY <1>12, <2>2, <2>3 DEF TypeOK, Withdraw, HandlersOK
<1>13. CASE Spawn(t)
  <2>0. hs[t].pc # "idle" /\ Req(t) \in Requests BY <1>0, <1>13 DEF Spawn, At
  <2>1. PICK o \in Ids :
          /\ NextOperationId(o)
          /\ \/ /\ hs' = [hs EXCEPT ![t].id = o, ![t].pc = "running", ![t].ok = TRUE]
                /\ runs' = [runs EXCEPT ![Req(t)] = @ + 1]
             \/ /\ hs' = [hs EXCEPT ![t].id = o, ![t].pc = "record"]
                /\ UNCHANGED runs
    BY <1>13 DEF Spawn
  <2>2. o \in 0 .. MaxOps /\ "running" \in Pcs /\ "record" \in Pcs BY DEF Ids, Pcs
  <2>3. HandlersOK'
    <3>1. CASE hs' = [hs EXCEPT ![t].id = o, ![t].pc = "running", ![t].ok = TRUE]
      BY <2>0, <2>2, <3>1, SetIdOkType
    <3>2. CASE hs' = [hs EXCEPT ![t].id = o, ![t].pc = "record"]
      BY <2>0, <2>2, <3>2, SetIdType
    <3>3. QED BY <2>1, <3>1, <3>2
  <2>4. runs' \in [Requests -> Int] BY <2>0, <2>1 DEF TypeOK
  <2>5. nextId' \in 0 .. MaxOps BY <2>1, <2>2 DEF NextOperationId
  <2>6. StoreTypeOK' BY <1>13, <2>5 DEF Spawn, TypeOK, StoreTypeOK, diskVars, pruneHist
  <2>7. QED BY <1>13, <2>3, <2>4, <2>6 DEF TypeOK, Spawn, HandlersOK
<1>14. CASE Exit(t)
  <2>1. hs[t].pc \in ExecPcs /\ hs[t].pc # "idle" BY <1>14 DEF Exit, At, ExecPcs
  <2>2. HandlersOK' BY <1>14, <1>d, <1>e, <2>1, GotoType DEF Exit
  <2>3. StoreTypeOK' BY <1>14, StutterType DEF Exit
  <2>4. QED BY <1>14, <2>2, <2>3 DEF TypeOK, Exit, HandlersOK
<1>15. CASE RecordExec(t)
  <2>0. hs[t].pc \in ExecPcs /\ hs[t].pc # "idle" /\ Req(t) \in Requests
    BY <1>0, <1>15 DEF RecordExec, At, ExecPcs
  <2>1. PICK w \in AppendResults :
          /\ AppendExecRecord(hs[t].id, Req(t), IF hs[t].ok THEN "exec" ELSE "rejected", w)
          /\ hs' = [hs EXCEPT ![t].pc = "finish", ![t].ok = @ /\ w = "ok"]
    BY <1>15 DEF RecordExec
  <2>2. HandlersOK'
    <3>1. (hs[t].ok /\ w = "ok") \in BOOLEAN OBVIOUS
    <3>2. "finish" \in Pcs BY DEF Pcs
    <3>3. hs' = [hs EXCEPT ![t].pc = "finish", ![t].ok = (hs[t].ok /\ w = "ok")]
      BY <2>1
    <3>4. QED BY <1>e, <2>0, <3>1, <3>2, <3>3, SetOkType
  <2>3. PICK tag \in Tags : AppendExecRecord(hs[t].id, Req(t), tag, w)
    BY <2>1 DEF Tags
  <2>4. None \in FileState BY DEF FileState
  <2>5. StoreTypeOK'
    BY <1>15, <1>d, <2>0, <2>3, <2>4, AppendRecordType
    DEF RecordExec, AppendExecRecord, TypeOK, StoreTypeOK, pruneHist
  <2>6. QED BY <1>15, <2>2, <2>5 DEF TypeOK, RecordExec, HandlersOK
<1>16. CASE Gc(t)
  <2>0. hs[t].pc # "idle" BY <1>16 DEF Gc, At
  <2>1. StoreTypeOK' /\ \E ok \in BOOLEAN : DropGuard(t, ok)
    BY <1>16, StutterType, PruneType DEF Gc
  <2>2. HandlersOK' /\ guard' \in Handlers \cup {None} BY <2>0, <2>1, DropGuardType
  <2>3. QED BY <1>16, <2>1, <2>2 DEF TypeOK, Gc, HandlersOK
<1>17. CASE Finish(t)
  <2>0. hs[t].pc # "idle" /\ Req(t) \in Requests BY <1>0, <1>17 DEF Finish, At
  <2> DEFINE result == IF hs[t].ok THEN Done(hs[t].id) ELSE Failed
  <2>1. PICK w \in AppendResults :
          /\ AppendRequestTracked(Req(t), result, w)
          /\ Tell(Req(t), IF w = "ok" THEN result ELSE Failed)
    BY <1>17 DEF Finish
  <2>2. result \in Entry /\ Failed \in Entry BY <1>b, EntryType
  <2> HIDE DEF result
  <2>3. HandlersOK' BY <1>17, IdleType DEF Finish
  <2>4. told' \in [Requests -> SUBSET Ids]
    <3>1. PICK e \in Entry : Tell(Req(t), e) BY <2>1, <2>2
    <3>2. QED BY <3>1, <2>0, TellType
  <2>5. StoreTypeOK'
    BY <1>17, <2>0, <2>1, <2>2, AppendRequestType DEF Finish, TypeOK, StoreTypeOK, pruneHist
  <2>6. QED BY <1>17, <2>3, <2>4, <2>5 DEF TypeOK, Finish, HandlersOK
<1>18. QED
  BY <1>1, <1>2, <1>3, <1>4, <1>5, <1>6, <1>7, <1>8, <1>9, <1>10, <1>11, <1>12,
     <1>13, <1>14, <1>15, <1>16, <1>17 DEF Handler

\* Every step of Server::new keeps the type invariant.
LEMMA StartUpType ==
  ASSUME TypeOK, StartUp
  PROVE  TypeOK'
<1> USE DEF wsVars, histVars, budgetVars, UnchangedStore
<1>0. NothingOwed \in [req : Requests \cup {None}, entry : Entry]
  BY EntryType DEF NothingOwed
<1>1. CASE Start
  BY <1>1, LoadType DEF Start, TypeOK, Phases
<1>2. ASSUME NEW o \in Ids, RecoverMarker(o) PROVE TypeOK'
  <2> DEFINE p == records[o]
             outcome == RecoveryOutcome(o, file[PathOf(p.req)])
  <2>1. PICK w \in AppendResults :
          /\ IF outcome = "committed" THEN CommitFsRecord(o, p.req, p.before, w)
             ELSE AbortPrepared(o, p.req, p.before, w)
          /\ phase' = IF w = "ok" THEN phase ELSE "failed"
          /\ owing' = IF w # "ok" \/ outcome = "noop" THEN NothingOwed
                      ELSE [req |-> p.req,
                            entry |-> IF outcome = "committed" THEN Done(o) ELSE Failed]
          /\ dropped' = IF OnDisk(w) /\ outcome # "committed"
                        THEN dropped \cup {o} ELSE dropped
    BY <1>2 DEF RecoverMarker
  <2>2. p.req \in Requests /\ p.before \in FileState
    BY <1>2 DEF RecoverMarker, NewestMarker, IsPending, TypeOK, StoreTypeOK, Record
  <2>3. o \in 0 .. MaxOps BY DEF Ids
  <2>4. StoreTypeOK'
    <3>1. PICK tag \in Tags : AppendRecordTracked(o, Stamped(tag, p.req, p.before), w)
      BY <2>1 DEF CommitFsRecord, AbortPrepared, Tags
    <3>2. QED BY <1>2, <2>2, <3>1, AppendRecordType
              DEF RecoverMarker, TypeOK, StoreTypeOK, pruneHist
  <2>5. owing' \in [req : Requests \cup {None}, entry : Entry]
    BY <1>0, <2>1, <2>2, <2>3, EntryType
  <2>6. phase' \in Phases /\ dropped' \subseteq Ids BY <2>1 DEF TypeOK, Phases
  <2>7. QED BY <1>2, <2>4, <2>5, <2>6 DEF TypeOK, RecoverMarker
<1>3. CASE RecoverRemember
  <2>1. PICK w \in AppendResults :
          /\ AppendRequestTracked(owing.req, owing.entry, w)
          /\ phase' = IF w = "ok" THEN phase ELSE "failed"
    BY <1>3 DEF RecoverRemember
  <2>2. owing.req \in Requests /\ owing.entry \in Entry BY <1>3 DEF RecoverRemember, TypeOK
  <2>3. StoreTypeOK'
    BY <1>3, <2>1, <2>2, AppendRequestType DEF RecoverRemember, TypeOK, StoreTypeOK, pruneHist
  <2>4. phase' \in Phases BY <2>1 DEF TypeOK, Phases
  <2>5. QED BY <1>0, <1>3, <2>3, <2>4 DEF TypeOK, RecoverRemember
<1>4. ASSUME NEW r \in Requests, ResolveStuck(r) PROVE TypeOK'
  <2>1. requests' \in [Requests -> Entry]
    BY <1>4, EntryType DEF ResolveStuck, TypeOK, StoreTypeOK
  <2>2. StoreTypeOK'
    BY <1>4, <2>1 DEF ResolveStuck, TypeOK, StoreTypeOK, diskVars, pruneHist
  <2>3. owing' \in [req : Requests \cup {None}, entry : Entry]
    <3>1. \A o \in Ids : Reconstructed(o) \in Entry BY EntryType DEF Reconstructed, Ids
    <3>2. \A o \in CommittedFor(r) : o \in Ids BY DEF CommittedFor
    <3>3. QED BY <1>4, <3>1, <3>2, EntryType DEF ResolveStuck, TypeOK
  <2>4. QED BY <1>4, <2>2, <2>3 DEF TypeOK, ResolveStuck
<1>5. CASE StartupPrune
  <2>1. StoreTypeOK' /\ phase' \in Phases
    BY <1>5, StutterType, PruneType DEF StartupPrune, Phases
  <2>2. QED BY <1>5, <2>1 DEF TypeOK, StartupPrune
<1>6. CASE GiveUp
  BY <1>6, UnloadType DEF GiveUp, TypeOK, Phases
<1>7. QED BY <1>1, <1>2, <1>3, <1>4, <1>5, <1>6 DEF StartUp

\* The death of a process keeps what it touches typed.
LEMMA DieType ==
  ASSUME TypeOK, Die
  PROVE  /\ StoreTypeOK' /\ HandlersOK' /\ guard' \in Handlers \cup {None}
         /\ owing' \in [req : Requests \cup {None}, entry : Entry]
         /\ interrupted' \subseteq Requests /\ phase' \in Phases
         /\ UNCHANGED <<told, dropped, sends, externals>>
<1>1. StoreTypeOK' BY UnloadType DEF Die
<1>2. HandlersOK'
  <2>1. Idle \in HandlerState /\ Idle.pc = "idle"
    BY DEF Idle, HandlerState, Pcs, FileState
  <2>2. QED BY <2>1 DEF Die, HandlersOK, MarkedPcs, ExecPcs
<1>3. owing' \in [req : Requests \cup {None}, entry : Entry]
  BY EntryType DEF Die, NothingOwed
<1>4. interrupted' \subseteq Requests BY DEF Die, TypeOK, Req
<1>5. QED BY <1>1, <1>2, <1>3, <1>4 DEF Die, Phases

\* The type invariant is inductive.
LEMMA NextType ==
  ASSUME TypeOK, [Next]_vars
  PROVE  TypeOK'
<1> USE DEF wsVars, histVars, budgetVars, UnchangedHist, UnchangedStore
<1>1. ASSUME NEW r \in Requests, Replay(r) PROVE TypeOK'
  <2>1. requests[r] \in Entry BY DEF TypeOK, StoreTypeOK
  <2>2. told' \in [Requests -> SUBSET Ids] BY <1>1, <2>1, TellType DEF Replay
  <2>3. StoreTypeOK' BY <1>1, StutterType DEF Replay
  <2>4. QED BY <1>1, <2>2, <2>3 DEF Replay, TypeOK
<1>2. ASSUME NEW t \in Handlers, NEW r \in Requests, Receive(t, r) PROVE TypeOK'
  <2> DEFINE h == [Idle EXCEPT !.pc = "claim", !.req = r]
  <2>1. /\ h \in HandlerState /\ h.req \in Requests
        /\ h.pc \notin MarkedPcs \cup ExecPcs
    <3>1. /\ Idle \in HandlerState /\ "claim" \in Pcs
          /\ "claim" \notin MarkedPcs \cup ExecPcs
      BY DEF Idle, HandlerState, Pcs, FileState, MarkedPcs, ExecPcs
    <3>2. h \in HandlerState /\ h.req = r /\ h.pc = "claim" BY <3>1 DEF HandlerState
    <3>3. QED BY <3>1, <3>2
  <2>2. hs' = [hs EXCEPT ![t] = h] BY <1>2 DEF Receive
  <2> HIDE DEF h
  <2>3. HandlersOK' BY <2>1, <2>2, UpdateType
  <2>4. StoreTypeOK' BY <1>2, StutterType DEF Receive
  <2>5. QED BY <1>2, <2>3, <2>4 DEF Receive, TypeOK, HandlersOK
<1>3. ASSUME NEW t \in Handlers, Handler(t) PROVE TypeOK' BY <1>3, HandlerType
<1>4. CASE StartUp BY <1>4, StartUpType
<1>5. CASE Crash
  BY <1>5, DieType DEF Crash, TypeOK, HandlersOK
<1>6. ASSUME NEW k \in Ids, PowerLoss(k) PROVE TypeOK'
  <2>1. runs' \in [Requests -> Int]
    <3> DEFINE lost == UNION {{u \in unsynced[p] : u.id >= k} : p \in Paths}
               Undone(r) == {o \in Ids : \E u \in lost : u.id = o /\ u.req = r}
    <3>1. \A r \in Requests : Cardinality(Undone(r)) \in Nat
      <4>1. IsFiniteSet(Ids) BY FS_Interval DEF Ids
      <4> TAKE r \in Requests
      <4>2. Undone(r) \subseteq Ids OBVIOUS
      <4>3. QED BY <4>1, <4>2, FS_Subset, FS_CardinalityType
    <3>2. runs' = [r \in Requests |-> runs[r] - Cardinality(Undone(r))]
      BY <1>6 DEF PowerLoss
    <3> HIDE DEF Undone
    <3>3. QED BY <3>1, <3>2 DEF TypeOK
  <2>2. file' \in [Paths -> FileState] BY <1>6 DEF PowerLoss
  <2>3. unsynced' \in [Paths -> SUBSET Unsynced] BY <1>6 DEF PowerLoss
  <2>4. landed' \subseteq Ids BY <1>6 DEF PowerLoss, TypeOK
  <2>5. Die /\ losses' = losses + 1 /\ UNCHANGED crashes BY <1>6 DEF PowerLoss
  <2>6. QED BY <2>1, <2>2, <2>3, <2>4, <2>5, DieType DEF TypeOK, HandlersOK
<1>7. ASSUME NEW p \in Paths, NEW c \in FileState, ExternalWrite(p, c) PROVE TypeOK'
  BY <1>7, StutterType DEF ExternalWrite, TypeOK
<1>8. ASSUME NEW w \in 0 .. clock.wall, ClockSteps(w) PROVE TypeOK'
  <2>1. clock' \in Clock BY <1>8 DEF ClockSteps, TypeOK, StoreTypeOK, Clock
  <2>2. StoreTypeOK'
    BY <1>8, <2>1 DEF ClockSteps, TypeOK, StoreTypeOK, diskVars, tableVars, pruneHist
  <2>3. QED BY <1>8, <2>2 DEF ClockSteps, TypeOK, wsVars, histVars, budgetVars
<1>9. CASE UNCHANGED vars
  BY <1>9, StutterType DEF vars, TypeOK
<1>10. QED BY <1>1, <1>2, <1>3, <1>4, <1>5, <1>6, <1>7, <1>8, <1>9 DEF Next

\* Every reachable state is well typed, for any number of handlers, requests,
\* paths and contents and any bounds (the state of OperationStore and Server).
THEOREM TypeCorrect == Spec => []TypeOK
<1>1. Init => TypeOK BY InitType
<1>2. TypeOK /\ [Next]_vars => TypeOK' BY NextType
<1>3. QED BY <1>1, <1>2, PTL DEF Spec

-----------------------------------------------------------------------------
(***************************************************************************)
(* What the steps do to the log and the table, whatever the handlers do.    *)
(***************************************************************************)
LogInv == IdInv /\ TakenInv /\ TableInv /\ LandedInv

\* Nothing a client was told of is lost.
DurableNext(o, r) ==
  o \in pruned' \/ /\ Committed(opsLog'[o]) /\ opsLog'[o].req = r
                   /\ Up' => Committed(records'[o]) /\ records'[o].req = r

DurableKept == \A o \in Ids : \A r : DurableFor(o, r) => DurableNext(o, r)

\* Steps that leave the operation records alone.
LEMMA QuietStep ==
  ASSUME TypeOK, LogInv, Up' => Up, landed' \subseteq landed,
         UNCHANGED <<opsLog, records, counter, nextId, pruned, dropped>>
  PROVE  LogInv' /\ DurableKept
<1>1. IdInv' BY DEF LogInv, IdInv
<1>2. TakenInv' BY DEF LogInv, TakenInv, Taken
<1>3. TableInv' BY DEF LogInv, TableInv
<1>4. LandedInv' BY DEF LogInv, LandedInv
<1>5. DurableKept BY DEF DurableKept, DurableFor, DurableNext
<1>6. QED BY <1>1, <1>2, <1>3, <1>4, <1>5 DEF LogInv

\* Steps that append one record, of an operation without a committed one.
RecordStep(q, rec) ==
  /\ opsLog' = opsLog \/ opsLog' = [opsLog EXCEPT ![q] = rec]
  /\ \/ records' = records
     \/ /\ opsLog' = [opsLog EXCEPT ![q] = rec]
        /\ \/ records' = [records EXCEPT ![q] = rec]
           \/ rec.tag = "aborted" /\ records' = [records EXCEPT ![q] = NoRecord]
  /\ \/ dropped' = dropped
     \/ dropped' = dropped \cup {q} /\ opsLog' = [opsLog EXCEPT ![q] = rec]

\* Appending such a record keeps the log invariant and every told operation.
LEMMA RecordStepKeeps ==
  ASSUME TypeOK, LogInv, Up, NEW q \in Ids, NEW rec \in Record, RecordStep(q, rec),
         rec.tag # "none", ~Committed(records[q]),
         q <= nextId', nextId <= nextId', nextId' \in Int,
         UNCHANGED <<counter, pruned, landed>>,
         \/ opsLog' = opsLog \/ rec.tag \in {"prepared", "fs"}
         \/ q \notin landed \/ q \in pruned \cup dropped'
  PROVE  LogInv' /\ DurableKept
<1> USE DEF RecordStep
<1>0. /\ opsLog \in [Ids -> Record] /\ records \in [Ids -> Record]
      /\ counter \in Int /\ nextId \in Int
      /\ landed \subseteq Ids /\ pruned \subseteq Ids /\ dropped \subseteq Ids
      /\ dropped \subseteq dropped'
      /\ Ids \subseteq Int
  BY DEF TypeOK, StoreTypeOK, Ids
<1>a. /\ \A o \in Ids : o # q => opsLog'[o] = opsLog[o] /\ records'[o] = records[o]
      /\ opsLog'[q] = opsLog[q] \/ opsLog'[q] = rec
      /\ \/ records'[q] = records[q]
         \/ opsLog'[q] = rec /\ (records'[q] = rec \/ (rec.tag = "aborted" /\ records'[q] = NoRecord))
      /\ q \in dropped' => q \in dropped \/ opsLog'[q] = rec
      /\ \A o \in dropped' : o = q \/ o \in dropped
  BY <1>0
<1>b. NoRecord.tag = "none" BY DEF NoRecord
<1>1. IdInv' BY <1>0, <1>a DEF LogInv, IdInv
<1>2. TakenInv'
  <2> SUFFICES ASSUME NEW o \in landed' \cup pruned' \cup dropped' PROVE Taken(o)'
    BY DEF TakenInv
  <2>1. CASE o \in landed \cup pruned \cup dropped
    <3>1. Taken(o) /\ o \in Ids BY <2>1, <1>0 DEF LogInv, TakenInv
    <3>2. QED BY <3>1, <1>a DEF Taken
  <2>2. CASE o \notin landed \cup pruned \cup dropped BY <1>a, <2>2 DEF Taken
  <2>3. QED BY <2>1, <2>2
<1>3. TableInv'
  <2> SUFFICES ASSUME NEW o \in Ids, Committed(records[o])' PROVE (opsLog[o] = records[o])'
    BY DEF TableInv
  <2>1. CASE o = q BY <2>1, <1>a, <1>b DEF Committed
  <2>2. CASE o # q BY <2>2, <1>a DEF Committed, LogInv, TableInv
  <2>3. QED BY <2>1, <2>2
<1>4. LandedInv'
  <2> SUFFICES ASSUME NEW o \in landed, o \notin pruned, o \notin dropped'
               PROVE  /\ opsLog'[o].tag \in {"prepared", "fs"}
                      /\ Up' => records'[o].tag \in {"prepared", "fs"}
    BY DEF LandedInv
  <2>0. /\ o \in Ids /\ o \notin dropped
        /\ opsLog[o].tag \in {"prepared", "fs"} /\ records[o].tag \in {"prepared", "fs"}
    BY <1>0 DEF LogInv, LandedInv
  <2>1. CASE o = q BY <2>0, <2>1, <1>a, <1>0
  <2>2. CASE o # q BY <2>0, <2>2, <1>a
  <2>3. QED BY <2>1, <2>2
<1>5. DurableKept
  <2> SUFFICES ASSUME NEW o \in Ids, NEW r, DurableFor(o, r) PROVE DurableNext(o, r)
    BY DEF DurableKept
  <2>1. CASE o = q BY <2>1 DEF DurableFor, DurableNext
  <2>2. CASE o # q BY <2>2, <1>a DEF DurableFor, DurableNext, Committed
  <2>3. QED BY <2>1, <2>2
<1>6. QED BY <1>1, <1>2, <1>3, <1>4, <1>5 DEF LogInv

\* prune.
LEMMA PruneKeeps ==
  ASSUME TypeOK, LogInv, Up, NEW keep, NEW replaced, NEW ok,
         Prune(keep, replaced, ok), UNCHANGED <<landed, dropped>>
  PROVE  LogInv' /\ DurableKept
<1> DEFINE kept == KeptRecords(keep)
<1>0. /\ opsLog \in [Ids -> Record] /\ records \in [Ids -> Record]
      /\ counter \in Int /\ nextId \in Int
      /\ landed \subseteq Ids /\ pruned \subseteq Ids /\ dropped \subseteq Ids
      /\ Ids \subseteq Int
  BY DEF TypeOK, StoreTypeOK, Ids
<1>a. \A o \in Ids : IsPending(records[o]) => o \in kept BY DEF KeptRecords, Pending
<1>b. NoRecord.tag = "none" BY DEF NoRecord
<1>c. replaced \in 0 .. 3 BY DEF Prune
<1> HIDE DEF kept
<1>1. /\ records' = [o \in Ids |-> IF o \in kept THEN records[o] ELSE NoRecord]
      /\ pruned' = pruned \cup {o \in Ids : Committed(records[o]) /\ o \notin kept}
      /\ nextId' = nextId
  BY DEF Prune, kept
<1>2. \/ counter' = nextId /\ (opsLog' = opsLog \/ opsLog' = records')
      \/ counter' = counter /\ opsLog' = opsLog
  BY <1>c DEF Prune, CounterWrittenAt, OpsWrittenAt
<1>3. IdInv' BY <1>0, <1>1, <1>2, <1>b DEF LogInv, IdInv
<1>4. TakenInv'
  <2> SUFFICES ASSUME NEW o \in landed \cup pruned' \cup dropped PROVE Taken(o)'
    BY DEF TakenInv
  <2>1. o \in Ids /\ Taken(o)
    <3>1. CASE o \in landed \cup pruned \cup dropped BY <3>1, <1>0 DEF LogInv, TakenInv
    <3>2. CASE o \in Ids /\ Committed(records[o])
      BY <3>2, <1>0 DEF LogInv, TableInv, Taken, Committed
    <3>3. QED BY <3>1, <3>2, <1>1
  <2>2. o <= nextId BY <2>1, <1>0 DEF Taken, LogInv, IdInv
  <2>3. QED BY <2>1, <2>2, <1>0, <1>2 DEF Taken
<1>5. TableInv'
  <2> SUFFICES ASSUME NEW o \in Ids, Committed(records[o])' PROVE (opsLog[o] = records[o])'
    BY DEF TableInv
  <2>1. Committed(records[o]) /\ records'[o] = records[o] BY <1>1, <1>b DEF Committed
  <2>2. QED BY <2>1, <1>2 DEF LogInv, TableInv
<1>6. LandedInv'
  <2> SUFFICES ASSUME NEW o \in landed, o \notin pruned', o \notin dropped
               PROVE  /\ opsLog'[o].tag \in {"prepared", "fs"}
                      /\ records'[o].tag \in {"prepared", "fs"}
    BY DEF LandedInv
  <2>1. /\ o \in Ids /\ opsLog[o].tag \in {"prepared", "fs"}
        /\ records[o].tag \in {"prepared", "fs"}
    BY <1>0, <1>1 DEF LogInv, LandedInv
  <2>2. o \in kept BY <2>1, <1>1, <1>a DEF IsPending, Committed
  <2>3. QED BY <2>1, <2>2, <1>1, <1>2
<1>7. DurableKept
  <2> SUFFICES ASSUME NEW o \in Ids, NEW r, DurableFor(o, r), o \notin pruned'
               PROVE DurableNext(o, r)
    BY DEF DurableKept, DurableFor, DurableNext
  <2>1. /\ Committed(opsLog[o]) /\ opsLog[o].req = r
        /\ Committed(records[o]) /\ records[o].req = r
    BY <1>1 DEF DurableFor
  <2>2. records'[o] = records[o] BY <2>1, <1>1
  <2>3. opsLog'[o] = opsLog[o] \/ opsLog'[o] = records'[o] BY <1>2
  <2>4. QED BY <2>1, <2>2, <2>3 DEF DurableNext, Committed
<1>8. QED BY <1>3, <1>4, <1>5, <1>6, <1>7 DEF LogInv

\* The end of a process, and the start of the next one.
LEMMA DownStep ==
  ASSUME TypeOK, LogInv, ~Up', landed' \subseteq landed,
         UNCHANGED <<opsLog, counter, pruned, dropped>>
  PROVE  LogInv' /\ DurableKept
<1>1. IdInv' /\ TableInv' BY DEF IdInv, TableInv
<1>2. TakenInv' BY DEF LogInv, TakenInv, Taken
<1>3. LandedInv' BY DEF LogInv, LandedInv
<1>4. DurableKept BY DEF DurableKept, DurableFor, DurableNext
<1>5. QED BY <1>1, <1>2, <1>3, <1>4 DEF LogInv

\* The start of the next one reads the table from the log.
LEMMA StartStep ==
  ASSUME TypeOK, LogInv, Start
  PROVE  LogInv' /\ DurableKept
<1>0. /\ opsLog \in [Ids -> Record] /\ counter \in Int
      /\ landed \subseteq Ids /\ Ids \subseteq Int
      /\ NoRecord.tag = "none"
  BY DEF TypeOK, StoreTypeOK, Ids, NoRecord
<1>1. /\ records' = [o \in Ids |-> IF opsLog[o].tag = "aborted" THEN NoRecord ELSE opsLog[o]]
      /\ nextId' \in Int /\ HighWater(nextId')
      /\ UNCHANGED <<opsLog, counter, pruned, dropped, landed>>
      /\ ~Up
  BY DEF Start, Load, diskVars, pruneHist, histVars, Up
<1>2. IdInv' BY <1>0, <1>1 DEF IdInv, HighWater
<1>3. TakenInv' BY <1>1 DEF LogInv, TakenInv, Taken
<1>4. TableInv' BY <1>0, <1>1 DEF TableInv, Committed
<1>5. LandedInv' BY <1>0, <1>1 DEF LogInv, LandedInv
<1>6. DurableKept BY <1>0, <1>1 DEF DurableKept, DurableFor, DurableNext, Committed
<1>7. QED BY <1>2, <1>3, <1>4, <1>5, <1>6 DEF LogInv
-----------------------------------------------------------------------------
(***************************************************************************)
(* What the steps do to the handlers and to stored results.                 *)
(***************************************************************************)
Others(t) == \A u \in Handlers : u # t => hs'[u] = hs[u]

\* What Goto leaves in a handler's state.
LEMMA GotoView ==
  ASSUME TypeOK, NEW t \in Handlers, NEW pc, Goto(t, pc)
  PROVE  /\ Others(t) /\ hs'[t].pc = pc /\ hs'[t].id = hs[t].id
         /\ hs'[t].req = hs[t].req /\ hs'[t].ok = hs[t].ok
         /\ hs'[t].before = hs[t].before
BY DEF TypeOK, HandlerState, Goto, Others

\* What DropGuard leaves in a handler's state.
LEMMA DropView ==
  ASSUME TypeOK, NEW t \in Handlers, NEW ok \in BOOLEAN, DropGuard(t, ok)
  PROVE  /\ Others(t) /\ hs'[t].pc = "finish" /\ hs'[t].id = hs[t].id
         /\ hs'[t].req = hs[t].req /\ hs'[t].ok = ok /\ guard' = None
         /\ hs'[t].before = hs[t].before
BY DEF TypeOK, HandlerState, DropGuard, Others

\* The guard stays, is taken when free, or is given back by its holder.
LEMMA GuardStep ==
  ASSUME TypeOK, GuardInv, NEW t \in Handlers, Others(t),
         phase = "serving", phase' = "serving",
         hs'[t].pc \in GuardedPcs => guard' = t,
         \/ guard' = guard
         \/ guard = None /\ guard' = t
         \/ hs[t].pc \in GuardedPcs /\ guard' = None
  PROVE  GuardInv'
BY DEF GuardInv, Others, TypeOK

\* Handler t moves on without a record being appended.
LEMMA HandlerStep ==
  ASSUME TypeOK, HandlerInv, NEW t \in Handlers, Others(t),
         UNCHANGED <<opsLog, records, landed, nextId>>,
         hs'[t].pc \in NoIdPcs => hs'[t].id = 0,
         hs'[t].pc \in MarkedPcs => hs[t].pc \in MarkedPcs /\ hs'[t].id = hs[t].id,
         hs'[t].pc \in UnlandedPcs => hs[t].pc \in UnlandedPcs,
         hs'[t].pc \in ExecPcs => hs[t].pc \in ExecPcs /\ hs'[t].id = hs[t].id
  PROVE  HandlerInv'
<1>1. UnlandedPcs \subseteq MarkedPcs BY DEF UnlandedPcs, MarkedPcs
<1>2. HandlerSound(t)' BY <1>1 DEF HandlerInv, HandlerSound, Others
<1>3. ASSUME NEW u \in Handlers, u # t PROVE HandlerSound(u)'
  BY <1>3 DEF HandlerInv, HandlerSound, Others
<1>4. QED BY <1>2, <1>3 DEF HandlerInv

\* Without handlers, their invariants hold.
LEMMA IdleHandlers ==
  ASSUME \A t \in Handlers : hs'[t] = Idle
  PROVE  GuardInv' /\ HandlerInv'
<1>1. \A t \in Handlers : hs'[t].pc = "idle" /\ hs'[t].id = 0 BY DEF Idle
<1>2. "idle" \notin GuardedPcs \cup MarkedPcs \cup UnlandedPcs \cup ExecPcs
  BY DEF GuardedPcs, MarkedPcs, UnlandedPcs, ExecPcs
<1>3. GuardInv' BY <1>1, <1>2 DEF GuardInv
<1>4. \A t \in Handlers : HandlerSound(t)' BY <1>1, <1>2 DEF HandlerSound
<1>5. QED BY <1>3, <1>4 DEF HandlerInv

NewSound(e, r) == e.status = "done" /\ e.id # 0 => DurableNext(e.id, r)

FinishSound(h) == h.pc = "finish" /\ h.ok /\ h.id # 0 => DurableNext(h.id, h.req)

\* Results known before a step are durable after it.
LEMMA SoundKept ==
  ASSUME TypeOK, ResultInv, DurableKept
  PROVE  /\ \A r \in Requests : /\ NewSound(reqLog[r], r) /\ NewSound(requests[r], r)
                                 /\ \A o \in told[r] : DurableNext(o, r)
         /\ owing.req # None => NewSound(owing.entry, owing.req)
         /\ \A t \in Handlers : FinishSound(hs[t])
<1>1. \A e \in Entry : e.id # 0 => e.id \in Ids BY DEF Entry, Ids
<1>2. \A e \in Entry : \A r : EntryDurable(e, r) => NewSound(e, r)
  BY <1>1 DEF EntryDurable, NewSound, DurableKept
<1>3. ASSUME NEW r \in Requests
      PROVE  /\ NewSound(reqLog[r], r) /\ NewSound(requests[r], r)
             /\ \A o \in told[r] : DurableNext(o, r)
  BY <1>2 DEF TypeOK, StoreTypeOK, ResultInv, DurableKept
<1>4. owing.req # None => NewSound(owing.entry, owing.req)
  BY <1>2 DEF TypeOK, ResultInv
<1>5. \A t \in Handlers : FinishSound(hs[t])
  <2> SUFFICES ASSUME NEW t \in Handlers PROVE FinishSound(hs[t]) OBVIOUS
  <2>1. hs[t].id # 0 => hs[t].id \in Ids BY DEF TypeOK, HandlerState, Ids
  <2>2. QED BY <2>1 DEF FinishSound, ResultInv, DurableKept
<1>6. QED BY <1>3, <1>4, <1>5

\* ResultInv after a step, from its parts.
LEMMA ResultStep ==
  ASSUME \A r \in Requests : /\ NewSound(reqLog'[r], r) /\ NewSound(requests'[r], r)
                              /\ \A o \in told'[r] : DurableNext(o, r),
         owing'.req # None => NewSound(owing'.entry, owing'.req),
         \A t \in Handlers : FinishSound(hs'[t])
  PROVE  ResultInv'
BY DEF ResultInv, EntryDurable, NewSound, FinishSound, DurableFor, DurableNext

\* A line of the request log that names a durable operation or none.
LEMMA RequestStep ==
  ASSUME TypeOK, ResultInv, DurableKept, NEW q \in Requests, NEW e \in Entry, NEW w,
         AppendRequestTracked(q, e, w), NewSound(e, q)
  PROVE  \A r \in Requests : NewSound(reqLog'[r], r) /\ NewSound(requests'[r], r)
<1>1. \A r \in Requests : /\ reqLog'[r] = reqLog[r] \/ (r = q /\ reqLog'[r] = e)
                          /\ requests'[r] = requests[r] \/ (r = q /\ requests'[r] = e)
  BY DEF AppendRequestTracked, TypeOK, StoreTypeOK
<1>2. QED BY <1>1, SoundKept

\* A reported result that names a durable operation or none.
LEMMA TellStep ==
  ASSUME TypeOK, ResultInv, DurableKept, NEW q \in Requests, NEW e \in Entry,
         Tell(q, e), NewSound(e, q)
  PROVE  \A r \in Requests : \A o \in told'[r] : DurableNext(o, r)
<1>1. \A r \in Requests : \A o \in told'[r] :
        o \in told[r] \/ (r = q /\ e.status = "done" /\ e.id # 0 /\ o = e.id)
  BY DEF Tell, TypeOK
<1>2. QED BY <1>1, SoundKept DEF NewSound
-----------------------------------------------------------------------------
(***************************************************************************)
(* The steps, one by one.                                                   *)
(***************************************************************************)
Rest == GuardInv /\ HandlerInv /\ LogInv /\ ResultInv

\* IInv in the two parts that are proved separately.
LEMMA IInvParts == IInv <=> TypeOK /\ Rest
BY DEF IInv, Rest, LogInv

\* A handler's step that touches no operation record.
LEMMA QuietHandler ==
  ASSUME TypeOK, Rest, NEW t \in Handlers, Others(t), phase = "serving",
         UNCHANGED <<opsLog, records, counter, nextId, pruned, dropped, landed,
                     phase, owing>>,
         hs'[t].pc \in GuardedPcs => guard' = t,
         \/ guard' = guard
         \/ guard = None /\ guard' = t
         \/ hs[t].pc \in GuardedPcs /\ guard' = None,
         hs'[t].pc \in NoIdPcs => hs'[t].id = 0,
         hs'[t].pc \in MarkedPcs => hs[t].pc \in MarkedPcs /\ hs'[t].id = hs[t].id,
         hs'[t].pc \in UnlandedPcs => hs[t].pc \in UnlandedPcs,
         hs'[t].pc \in ExecPcs => hs[t].pc \in ExecPcs /\ hs'[t].id = hs[t].id,
         hs'[t].pc = "finish" => hs'[t].ok = FALSE \/ hs'[t].id = 0,
         DurableKept => \A r \in Requests : /\ NewSound(reqLog'[r], r)
                                            /\ NewSound(requests'[r], r)
                                            /\ \A o \in told'[r] : DurableNext(o, r)
  PROVE  Rest'
<1>1. GuardInv' BY GuardStep DEF Rest
<1>2. HandlerInv' BY HandlerStep DEF Rest
<1>3. LogInv' /\ DurableKept BY QuietStep DEF Rest, Up
<1>4. \A u \in Handlers : FinishSound(hs'[u])
  <2>1. \A u \in Handlers : FinishSound(hs[u]) BY <1>3, SoundKept DEF Rest
  <2>2. FinishSound(hs'[t]) BY DEF FinishSound
  <2>3. QED BY <2>1, <2>2 DEF Others
<1>5. owing'.req # None => NewSound(owing'.entry, owing'.req) BY <1>3, SoundKept DEF Rest
<1>6. ResultInv' BY <1>3, <1>4, <1>5, ResultStep
<1>7. QED BY <1>1, <1>2, <1>3, <1>6 DEF Rest

\* Steps that neither store nor report a result.
LEMMA SameResults ==
  ASSUME TypeOK, Rest, DurableKept, UNCHANGED <<reqLog, requests, told>>
  PROVE  \A r \in Requests : /\ NewSound(reqLog'[r], r) /\ NewSound(requests'[r], r)
                              /\ \A o \in told'[r] : DurableNext(o, r)
BY SoundKept DEF Rest

\* The handler steps that touch no operation record.
LEMMA QuietHandlerKeeps ==
  ASSUME TypeOK, Rest, NEW t \in Handlers,
         \/ Claim(t) \/ AcquireGuard(t) \/ Check(t) \/ HashBefore(t) \/ Verify(t)
         \/ InstallFails(t) \/ Sync(t) \/ SyncFails(t) \/ Exit(t) \/ Finish(t)
  PROVE  Rest'
<1> USE DEF wsVars, histVars, budgetVars, UnchangedHist, UnchangedStore, storeVars,
            diskVars, tableVars, pruneHist, At
<1>0. hs[t] \in HandlerState /\ (hs[t].pc # "idle" => Req(t) \in Requests) /\ Req(t) = hs[t].req
  BY DEF TypeOK, Req
<1>i. /\ hs' = [hs EXCEPT ![t] = Idle] => Others(t) /\ hs'[t].pc = "idle" /\ hs'[t].id = 0
  BY DEF TypeOK, Others, Idle
<1>z. hs[t].pc \in NoIdPcs => hs[t].id = 0 BY DEF Rest, HandlerInv, HandlerSound
<1>g. hs[t].pc \in GuardedPcs => guard = t BY DEF Rest, GuardInv
<1>1. CASE Claim(t)
  <2>0. hs[t].pc = "claim" /\ Req(t) \in Requests BY <1>0, <1>1 DEF Claim
  <2>1. requests[Req(t)] \in Entry BY <2>0 DEF TypeOK, StoreTypeOK
  <2>2. CASE ~Claimable(Req(t))
    <3>1. DurableKept => \A r \in Requests : \A o \in told'[r] : DurableNext(o, r)
      BY <1>1, <2>0, <2>1, <2>2, TellStep, SoundKept DEF Claim, Rest
    <3>2. UNCHANGED <<reqLog, requests>> BY <1>1, <2>2 DEF Claim
    <3>3. DurableKept => \A r \in Requests : NewSound(reqLog'[r], r) /\ NewSound(requests'[r], r)
      BY <3>2, SoundKept DEF Rest
    <3>4. Others(t) /\ hs'[t].pc = "idle" /\ hs'[t].id = 0 BY <1>1, <1>i, <2>2 DEF Claim
    <3>5. QED
      BY <1>1, <2>2, <3>1, <3>3, <3>4, QuietHandler
      DEF Claim, GuardedPcs, NoIdPcs, MarkedPcs, UnlandedPcs, ExecPcs
  <2>3. CASE Claimable(Req(t))
    <3>1. PICK w \in AppendResults :
            /\ ClaimRequest(Req(t), w)
            /\ IF w # "ok" THEN hs' = [hs EXCEPT ![t] = Idle]
               ELSE Goto(t, IF OpOf(t) = "exec" THEN "spawn" ELSE "guard")
      BY <1>1, <2>3 DEF Claim
    <3>2. Others(t) /\ hs'[t].pc \in {"idle", "spawn", "guard"} /\ hs'[t].id = 0
      <4>1. CASE w # "ok" BY <1>i, <3>1, <4>1
      <4>2. CASE w = "ok" BY <1>z, <2>0, <3>1, <4>2, GotoView DEF NoIdPcs
      <4>3. QED BY <4>1, <4>2
    <3>3. UNCHANGED <<opsLog, counter, nextId, records, slot, clock, pruneHist, told>>
      BY <1>1, <2>3 DEF Claim
    <3>4. NewSound(InProgress, Req(t)) BY DEF NewSound, InProgress
    <3>5. DurableKept => \A r \in Requests : NewSound(reqLog'[r], r) /\ NewSound(requests'[r], r)
      BY <2>0, <3>1, <3>4, EntryType, RequestStep DEF ClaimRequest, Rest
    <3>6. DurableKept => \A r \in Requests : \A o \in told'[r] : DurableNext(o, r)
      BY <3>3, SoundKept DEF Rest
    <3>7. QED
      BY <1>1, <3>2, <3>3, <3>5, <3>6, QuietHandler
      DEF Claim, GuardedPcs, NoIdPcs, MarkedPcs, UnlandedPcs, ExecPcs
  <2>4. QED BY <2>2, <2>3
<1>2. CASE AcquireGuard(t)
  <2>1. Others(t) /\ hs'[t].pc = "check" /\ hs'[t].id = 0
    BY <1>2, <1>z, GotoView DEF AcquireGuard, NoIdPcs
  <2>2. QED BY <1>2, <2>1, QuietHandler, SameResults
            DEF AcquireGuard, GuardedPcs, NoIdPcs, MarkedPcs, UnlandedPcs, ExecPcs
<1>3. CASE Check(t)
  <2>1. CASE Precondition(Req(t), file[PathAt(t)])
    <3>1. Others(t) /\ hs'[t].pc \in {"hash", "prepare"} /\ hs'[t].id = 0 /\ UNCHANGED guard
      BY <1>3, <1>z, <2>1 DEF Check, TypeOK, HandlerState, Others, NoIdPcs
    <3>2. guard = t BY <1>3, <1>g DEF Check, GuardedPcs
    <3>3. QED BY <1>3, <3>1, <3>2, QuietHandler, SameResults
              DEF Check, GuardedPcs, NoIdPcs, MarkedPcs, UnlandedPcs, ExecPcs
  <2>2. CASE ~Precondition(Req(t), file[PathAt(t)])
    <3>1. Others(t) /\ hs'[t].pc = "finish" /\ hs'[t].ok = FALSE /\ guard' = None
      BY <1>3, <2>2, DropView DEF Check
    <3>2. QED BY <1>3, <3>1, QuietHandler, SameResults
              DEF Check, GuardedPcs, NoIdPcs, MarkedPcs, UnlandedPcs, ExecPcs
  <2>3. QED BY <2>1, <2>2
<1>4. CASE HashBefore(t)
  <2>1. Others(t) /\ hs'[t].pc = "prepare" /\ hs'[t].id = 0
    BY <1>4, <1>z DEF HashBefore, TypeOK, HandlerState, Others, NoIdPcs
  <2>2. guard = t BY <1>4, <1>g DEF HashBefore, GuardedPcs
  <2>3. QED BY <1>4, <2>1, <2>2, QuietHandler, SameResults
            DEF HashBefore, GuardedPcs, NoIdPcs, MarkedPcs, UnlandedPcs, ExecPcs
<1>5. CASE Verify(t)
  <2>1. Others(t) /\ hs'[t].pc \in {"install", "withdraw"} /\ hs'[t].id = hs[t].id
    BY <1>5, GotoView DEF Verify
  <2>2. guard = t BY <1>5, <1>g DEF Verify, GuardedPcs
  <2>3. QED BY <1>5, <2>1, <2>2, QuietHandler, SameResults
            DEF Verify, GuardedPcs, NoIdPcs, MarkedPcs, UnlandedPcs, ExecPcs
<1>6. CASE InstallFails(t)
  <2>1. Others(t) /\ hs'[t].pc = "withdraw" /\ hs'[t].id = hs[t].id
    BY <1>6, GotoView DEF InstallFails
  <2>2. guard = t BY <1>6, <1>g DEF InstallFails, GuardedPcs
  <2>3. QED BY <1>6, <2>1, <2>2, QuietHandler, SameResults
            DEF InstallFails, GuardedPcs, NoIdPcs, MarkedPcs, UnlandedPcs, ExecPcs
<1>7. CASE Sync(t)
  <2>1. Others(t) /\ hs'[t].pc = "commit" /\ hs'[t].id = hs[t].id
    BY <1>7, GotoView DEF Sync
  <2>2. guard = t BY <1>7, <1>g DEF Sync, GuardedPcs
  <2>3. QED BY <1>7, <2>1, <2>2, QuietHandler, SameResults
            DEF Sync, GuardedPcs, NoIdPcs, MarkedPcs, UnlandedPcs, ExecPcs
<1>8. CASE SyncFails(t)
  <2>1. Others(t) /\ hs'[t].pc = "finish" /\ hs'[t].ok = FALSE /\ guard' = None
    BY <1>8, DropView DEF SyncFails
  <2>2. QED BY <1>8, <2>1, QuietHandler, SameResults
            DEF SyncFails, GuardedPcs, NoIdPcs, MarkedPcs, UnlandedPcs, ExecPcs
<1>9. CASE Exit(t)
  <2>1. Others(t) /\ hs'[t].pc = "record" /\ hs'[t].id = hs[t].id
    BY <1>9, GotoView DEF Exit
  <2>2. QED BY <1>9, <2>1, QuietHandler, SameResults
            DEF Exit, GuardedPcs, NoIdPcs, MarkedPcs, UnlandedPcs, ExecPcs
<1>10. CASE Finish(t)
  <2>0. hs[t].pc = "finish" /\ Req(t) \in Requests BY <1>0, <1>10 DEF Finish
  <2> DEFINE result == IF hs[t].ok THEN Done(hs[t].id) ELSE Failed
  <2>1. PICK w \in AppendResults :
          /\ AppendRequestTracked(Req(t), result, w)
          /\ Tell(Req(t), IF w = "ok" THEN result ELSE Failed)
    BY <1>10 DEF Finish
  <2>2. result \in Entry /\ Failed \in Entry BY <1>0, EntryType DEF HandlerState
  <2>3. DurableKept => NewSound(result, Req(t)) /\ NewSound(Failed, Req(t))
    <3>1. DurableKept => FinishSound(hs[t]) BY SoundKept DEF Rest
    <3>2. QED BY <1>0, <2>0, <3>1 DEF FinishSound, NewSound, Done, Failed
  <2> HIDE DEF result
  <2>4. DurableKept => \A r \in Requests : NewSound(reqLog'[r], r) /\ NewSound(requests'[r], r)
    BY <2>0, <2>1, <2>2, <2>3, RequestStep DEF Rest
  <2>5. DurableKept => \A r \in Requests : \A o \in told'[r] : DurableNext(o, r)
    <3>1. CASE w = "ok" BY <2>0, <2>1, <2>2, <2>3, <3>1, TellStep DEF Rest
    <3>2. CASE w # "ok" BY <2>0, <2>1, <2>2, <2>3, <3>2, TellStep DEF Rest
    <3>3. QED BY <3>1, <3>2
  <2>6. Others(t) /\ hs'[t].pc = "idle" /\ hs'[t].id = 0 BY <1>10, <1>i DEF Finish
  <2>7. QED BY <1>10, <2>4, <2>5, <2>6, QuietHandler
            DEF Finish, GuardedPcs, NoIdPcs, MarkedPcs, UnlandedPcs, ExecPcs
<1>11. QED BY <1>1, <1>2, <1>3, <1>4, <1>5, <1>6, <1>7, <1>8, <1>9, <1>10

\* Handler t's step on the record of operation q, which no other handler has.
LEMMA HandlerRecordStep ==
  ASSUME TypeOK, TypeOK', Rest, NEW t \in Handlers, Others(t), NEW q \in Ids,
         landed' = landed, nextId <= nextId',
         \A o \in Ids : o # q => opsLog'[o] = opsLog[o] /\ records'[o] = records[o],
         \A u \in Handlers : u # t /\ hs[u].pc \in MarkedPcs \cup ExecPcs
                                => hs[u].id # q,
         hs'[t].pc \notin ExecPcs, HandlerSound(t)'
  PROVE  HandlerInv'
<1>1. ASSUME NEW u \in Handlers, u # t PROVE HandlerSound(u)'
  <2>1. HandlerSound(u) /\ hs'[u] = hs[u] BY <1>1 DEF Rest, HandlerInv, Others
  <2>2. hs[u].pc \in MarkedPcs \cup ExecPcs => hs[u].id \in Ids /\ hs[u].id # q
    BY <1>1 DEF TypeOK
  <2>3. nextId \in Int /\ nextId' \in Int /\ hs[u].id \in Int
    BY DEF TypeOK, StoreTypeOK, HandlerState
  <2>4. \A v \in Handlers \ {u} : hs'[v].pc \in ExecPcs => hs[v].pc \in ExecPcs /\ hs'[v] = hs[v]
    BY DEF Others
  <2>5. QED BY <2>1, <2>2, <2>3, <2>4 DEF HandlerSound
<1>2. QED BY <1>1 DEF HandlerInv

\* append_record_tracked is a RecordStep.
LEMMA RecordView ==
  ASSUME TypeOK, NEW q \in Ids, NEW rec, NEW w, AppendRecordTracked(q, rec, w),
         \/ dropped' = dropped
         \/ dropped' = dropped \cup {q} /\ OnDisk(w)
  PROVE  /\ RecordStep(q, rec)
         /\ \A o \in Ids : o # q => opsLog'[o] = opsLog[o] /\ records'[o] = records[o]
         /\ w = "ok" => opsLog'[q] = rec /\ (rec.tag # "aborted" => records'[q] = rec)
<1>1. w = "ok" => OnDisk(w) BY DEF OnDisk
<1>2. QED BY <1>1 DEF AppendRecordTracked, RecordStep, TypeOK, StoreTypeOK

\* prepare_fs_record is a RecordStep on a new id.
LEMMA PrepareView ==
  ASSUME TypeOK, NEW q, NEW r \in Requests, NEW b \in FileState, NEW w,
         PrepareFsRecord(q, r, b, w), dropped' = dropped
  PROVE  /\ q \in Ids /\ q = nextId + 1 /\ nextId' = q
         /\ \E rec \in Record : /\ RecordStep(q, rec)
                                /\ rec.tag \in {"prepared", "aborted"}
                                /\ w = "ok" => /\ rec.tag = "prepared"
                                               /\ opsLog' = [opsLog EXCEPT ![q] = rec]
                                               /\ records' = [records EXCEPT ![q] = rec]
<1> DEFINE P == Stamped("prepared", r, b)
           A == Stamped("aborted", r, b)
<1>1. P \in Record /\ P.tag = "prepared" /\ A \in Record /\ A.tag = "aborted"
  BY StampedType DEF Tags
<1>2. q \in Ids /\ q = nextId + 1 /\ nextId' = q BY DEF PrepareFsRecord, NextOperationId
<1>3. CASE w = "ok"
  <2>1. opsLog' = [opsLog EXCEPT ![q] = P] /\ records' = [records EXCEPT ![q] = P]
    BY <1>3 DEF PrepareFsRecord, OnDisk
  <2> HIDE DEF P
  <2>2. RecordStep(q, P) BY <2>1 DEF RecordStep
  <2>3. QED BY <1>1, <1>2, <2>1, <2>2
<1>4. CASE w # "ok"
  <2>1. records' = records BY <1>4 DEF PrepareFsRecord
  <2>2. \/ opsLog' = opsLog
        \/ opsLog' = [opsLog EXCEPT ![q] = P]
        \/ opsLog' = [opsLog EXCEPT ![q] = A]
    <3>1. CASE w = "unsynced"
      <4>1. PICK w2 : opsLog' = PrepareFailureLine(q, r, b, w2)
        BY <3>1 DEF PrepareFsRecord, PrepareUnsynced
      <4>2. CASE OnDisk(w2) BY <4>1, <4>2 DEF PrepareFailureLine
      <4>3. CASE ~OnDisk(w2) BY <4>1, <4>3 DEF PrepareFailureLine
      <4>4. QED BY <4>2, <4>3
    <3>2. CASE w # "unsynced" BY <3>2 DEF PrepareFsRecord
    <3>3. QED BY <3>1, <3>2
  <2> HIDE DEF P, A
  <2>3. RecordStep(q, P) \/ RecordStep(q, A) BY <2>1, <2>2 DEF RecordStep
  <2>4. QED BY <1>1, <1>2, <1>4, <2>3
<1>5. QED BY <1>3, <1>4

\* The handler steps that append a record: only the guard's holder has a marker,
\* and an exec's id is its own.
LEMMA RecordHandlerKeeps ==
  ASSUME TypeOK, TypeOK', Rest, NEW t \in Handlers,
         Prepare(t) \/ Commit(t) \/ Withdraw(t) \/ RecordExec(t)
  PROVE  Rest'
<1> USE DEF wsVars, histVars, budgetVars, pruneHist, At
<1>0. hs[t] \in HandlerState /\ (hs[t].pc # "idle" => Req(t) \in Requests) /\ Req(t) = hs[t].req
  BY DEF TypeOK, Req
<1>b. hs[t].before \in FileState /\ None \in FileState BY <1>0 DEF HandlerState, FileState
<1>d. \A u \in Handlers : hs[u].pc \in MarkedPcs \cup ExecPcs => hs[u].id \in Ids
  BY DEF TypeOK
<1>s. \A u \in Handlers : HandlerSound(u) BY DEF Rest, HandlerInv
<1>g. \A u \in Handlers : hs[u].pc \in GuardedPcs => guard = u BY DEF Rest, GuardInv
<1>m. MarkedPcs \subseteq GuardedPcs BY DEF MarkedPcs, GuardedPcs
<1>n. /\ nextId \in Int /\ nextId' \in Int /\ Ids \subseteq Int /\ counter \in Int
      /\ opsLog \in [Ids -> Record] /\ records \in [Ids -> Record]
  <2>1. /\ nextId \in 0 .. MaxOps /\ counter \in 0 .. MaxOps
        /\ opsLog \in [Ids -> Record] /\ records \in [Ids -> Record]
    BY DEF TypeOK, StoreTypeOK
  <2>2. nextId' \in 0 .. MaxOps BY DEF TypeOK, StoreTypeOK
  <2>3. QED BY <2>1, <2>2 DEF Ids
<1>1. CASE Prepare(t)
  <2>0. hs[t].pc = "prepare" /\ Req(t) \in Requests /\ phase = "serving" /\ phase' = "serving"
    BY <1>0, <1>1 DEF Prepare
  <2>1. PICK q \in Ids, w \in AppendResults :
          /\ PrepareFsRecord(q, Req(t), hs[t].before, w)
          /\ IF w = "ok"
             THEN /\ hs' = [hs EXCEPT ![t].id = q,
                              ![t].pc = IF OpOf(t) = "edit" THEN "verify" ELSE "install"]
                  /\ UNCHANGED guard
             ELSE DropGuard(t, FALSE)
    BY <1>1 DEF Prepare
  <2>2. UNCHANGED <<reqLog, counter, requests, pruned, landed, told, dropped, owing>>
    BY <1>1 DEF Prepare
  <2>3. /\ q = nextId + 1 /\ nextId' = q
        /\ \E rec \in Record : /\ RecordStep(q, rec)
                               /\ rec.tag \in {"prepared", "aborted"}
                               /\ w = "ok" => /\ rec.tag = "prepared"
                                              /\ opsLog' = [opsLog EXCEPT ![q] = rec]
                                              /\ records' = [records EXCEPT ![q] = rec]
    BY <1>b, <2>0, <2>1, <2>2, PrepareView
  <2>4. PICK rec \in Record : /\ RecordStep(q, rec)
                              /\ rec.tag \in {"prepared", "aborted"}
                              /\ w = "ok" => /\ rec.tag = "prepared"
                                             /\ opsLog' = [opsLog EXCEPT ![q] = rec]
                                             /\ records' = [records EXCEPT ![q] = rec]
    BY <2>3
  <2>5. opsLog[q].tag = "none" /\ records[q].tag = "none" /\ q \notin landed
    <3>1. Up BY <2>0 DEF Up
    <3>2. ~(q <= nextId) BY <1>n, <2>3
    <3>3. opsLog[q].tag = "none" /\ records[q].tag = "none" /\ ~(q <= counter)
      BY <1>n, <3>1, <3>2 DEF Rest, LogInv, IdInv
    <3>4. QED BY <3>3 DEF Rest, LogInv, TakenInv, Taken
  <2>6. LogInv' /\ DurableKept
    BY <1>n, <2>0, <2>2, <2>3, <2>4, <2>5, RecordStepKeeps DEF Rest, Up, Committed
  <2>7. /\ Others(t)
        /\ IF w = "ok" THEN /\ hs'[t].pc \in {"verify", "install"} /\ hs'[t].id = q
                            /\ guard' = guard
           ELSE hs'[t].pc = "finish" /\ hs'[t].ok = FALSE /\ guard' = None
    <3>1. CASE w = "ok" BY <2>1, <3>1 DEF TypeOK, HandlerState, Others
    <3>2. CASE w # "ok" BY <2>1, <3>2, DropView
    <3>3. QED BY <3>1, <3>2
  <2>8. guard = t BY <1>g, <2>0 DEF GuardedPcs
  <2>9. GuardInv'
    BY <2>0, <2>7, <2>8, GuardStep DEF Rest, GuardedPcs
  <2>10. HandlerInv'
    <3>1. \A o \in Ids : o # q => opsLog'[o] = opsLog[o] /\ records'[o] = records[o]
      BY <1>n, <2>4 DEF RecordStep
    <3>2. \A u \in Handlers : u # t /\ hs[u].pc \in MarkedPcs \cup ExecPcs => hs[u].id # q
      BY <1>g, <1>m, <1>n, <1>s, <2>3, <2>8 DEF HandlerSound
    <3>3. HandlerSound(t)'
      BY <1>n, <2>2, <2>4, <2>5, <2>7 DEF HandlerSound, NoIdPcs, MarkedPcs, UnlandedPcs, ExecPcs
    <3>4. hs'[t].pc \notin ExecPcs BY <2>7 DEF ExecPcs
    <3>5. QED BY <1>n, <2>2, <2>3, <2>7, <3>1, <3>2, <3>3, <3>4, HandlerRecordStep
  <2>11. ResultInv'
    <3>1. FinishSound(hs'[t]) BY <2>7 DEF FinishSound
    <3>2. QED BY <2>2, <2>6, <2>7, <3>1, SoundKept, SameResults, ResultStep DEF Rest, Others
  <2>12. QED BY <2>6, <2>9, <2>10, <2>11 DEF Rest
<1>2. CASE Commit(t) \/ Withdraw(t)
  <2>0. /\ hs[t].pc \in MarkedPcs /\ hs[t].pc # "idle" /\ Req(t) \in Requests
        /\ phase = "serving" /\ phase' = "serving"
        /\ UNCHANGED <<reqLog, counter, nextId, requests, pruned, landed, told, dropped, owing>>
    BY <1>0, <1>2 DEF Commit, Withdraw, MarkedPcs
  <2> DEFINE q == hs[t].id
  <2>1. PICK tag \in {"fs", "aborted"}, w \in AppendResults, ok \in BOOLEAN :
          /\ AppendRecordTracked(q, Stamped(tag, Req(t), hs[t].before), w)
          /\ DropGuard(t, ok) /\ (ok => tag = "fs" /\ w = "ok")
          /\ tag = "aborted" => hs[t].pc = "withdraw"
    <3>1. CASE Commit(t)
      <4>1. PICK w \in AppendResults : /\ CommitFsRecord(q, Req(t), hs[t].before, w)
                                      /\ DropGuard(t, w = "ok")
        BY <3>1 DEF Commit
      <4>2. AppendRecordTracked(q, Stamped("fs", Req(t), hs[t].before), w)
        BY <4>1 DEF CommitFsRecord
      <4>3. (w = "ok") \in BOOLEAN OBVIOUS
      <4>4. QED BY <4>1, <4>2, <4>3
    <3>2. CASE Withdraw(t)
      <4>1. PICK w \in AppendResults : AbortPrepared(q, Req(t), hs[t].before, w)
        BY <3>2 DEF Withdraw
      <4>2. AppendRecordTracked(q, Stamped("aborted", Req(t), hs[t].before), w)
        BY <4>1 DEF AbortPrepared
      <4>3. DropGuard(t, FALSE) /\ hs[t].pc = "withdraw" BY <3>2 DEF Withdraw
      <4>4. QED BY <4>2, <4>3
    <3>3. QED BY <1>2, <3>1, <3>2
  <2> DEFINE rec == Stamped(tag, Req(t), hs[t].before)
  <2>2. rec \in Record /\ rec.tag = tag /\ rec.req = Req(t)
    BY <1>b, <2>0, StampedType DEF Tags
  <2>3. q \in Ids /\ opsLog[q].tag = "prepared" /\ records[q].tag = "prepared"
    BY <1>d, <1>s, <2>0 DEF HandlerSound
  <2>4. tag = "aborted" => q \notin landed
    BY <1>s, <2>1 DEF HandlerSound, UnlandedPcs
  <2>5. /\ Others(t) /\ hs'[t].pc = "finish" /\ hs'[t].id = q /\ hs'[t].req = Req(t)
        /\ hs'[t].ok = ok /\ guard' = None
    BY <1>0, <2>1, DropView
  <2> HIDE DEF rec
  <2>6. /\ RecordStep(q, rec)
        /\ \A o \in Ids : o # q => opsLog'[o] = opsLog[o] /\ records'[o] = records[o]
        /\ w = "ok" => opsLog'[q] = rec /\ (rec.tag # "aborted" => records'[q] = rec)
    BY <2>0, <2>1, <2>3, RecordView DEF rec
  <2> HIDE DEF q
  <2>7. q <= nextId BY <1>n, <2>0, <2>3 DEF Rest, LogInv, IdInv, Up
  <2>8. LogInv' /\ DurableKept
    <3>1. /\ Up /\ LogInv /\ nextId' = nextId /\ nextId <= nextId'
          /\ UNCHANGED <<counter, pruned, landed>>
      BY <1>n, <2>0 DEF Rest, Up
    <3>2. ~Committed(records[q]) BY <2>3 DEF Committed
    <3>3. rec.tag # "none" /\ (rec.tag \in {"prepared", "fs"} \/ q \notin landed)
      BY <2>1, <2>2, <2>4
    <3>4. QED BY <1>n, <2>2, <2>3, <2>6, <2>7, <3>1, <3>2, <3>3, RecordStepKeeps
  <2>9. GuardInv' BY <1>m, <2>0, <2>5, GuardStep DEF Rest, GuardedPcs
  <2>10. HandlerInv'
    <3>1. \A u \in Handlers : u # t /\ hs[u].pc \in MarkedPcs \cup ExecPcs => hs[u].id # q
      <4> SUFFICES ASSUME NEW u \in Handlers, u # t, hs[u].pc \in MarkedPcs \cup ExecPcs
                   PROVE  hs[u].id # q
        OBVIOUS
      <4>1. guard = t BY <1>g, <1>m, <2>0
      <4>2. hs[u].pc \notin MarkedPcs BY <1>g, <1>m, <4>1
      <4>3. opsLog[hs[u].id].tag = "none" BY <1>s, <4>2 DEF HandlerSound
      <4>4. QED BY <2>3, <4>3
    <3>2. HandlerSound(t)'
      BY <2>5 DEF HandlerSound, NoIdPcs, MarkedPcs, UnlandedPcs, ExecPcs
    <3>3. hs'[t].pc \notin ExecPcs BY <2>5 DEF ExecPcs
    <3>4. QED BY <1>n, <2>0, <2>3, <2>5, <2>6, <3>1, <3>2, <3>3, HandlerRecordStep
  <2>11. ResultInv'
    <3>1. FinishSound(hs'[t])
      BY <2>1, <2>2, <2>5, <2>6 DEF FinishSound, DurableNext, Committed
    <3>2. QED BY <2>0, <2>5, <2>8, <3>1, SoundKept, SameResults, ResultStep DEF Rest, Others
  <2>12. QED BY <2>8, <2>9, <2>10, <2>11 DEF Rest
<1>3. CASE RecordExec(t)
  <2>0. /\ hs[t].pc \in ExecPcs /\ hs[t].pc = "record" /\ Req(t) \in Requests
        /\ phase = "serving" /\ phase' = "serving" /\ guard' = guard
        /\ UNCHANGED <<reqLog, counter, nextId, requests, pruned, landed, told, dropped, owing>>
    BY <1>0, <1>3 DEF RecordExec, ExecPcs
  <2> DEFINE q == hs[t].id
             tag == IF hs[t].ok THEN "exec" ELSE "rejected"
             rec == Stamped(tag, Req(t), None)
  <2>1. PICK w \in AppendResults :
          /\ AppendRecordTracked(q, rec, w)
          /\ hs' = [hs EXCEPT ![t].pc = "finish", ![t].ok = @ /\ w = "ok"]
    BY <1>3 DEF RecordExec, AppendExecRecord
  <2>2. rec \in Record /\ rec.tag = tag /\ rec.req = Req(t)
    BY <1>b, <2>0, StampedType DEF Tags
  <2>3. /\ q \in Ids /\ q <= nextId /\ opsLog[q].tag = "none" /\ records[q].tag = "none"
        /\ \A u \in Handlers \ {t} : hs[u].pc \in ExecPcs => hs[u].id # q
    BY <1>d, <1>s, <2>0 DEF HandlerSound
  <2>4. /\ Others(t) /\ hs'[t].pc = "finish" /\ hs'[t].id = q /\ hs'[t].req = Req(t)
        /\ hs'[t].ok => w = "ok"
    BY <1>0, <2>1 DEF TypeOK, HandlerState, Others
  <2>5. q \notin landed \ (pruned \cup dropped)
    BY <2>3 DEF Rest, LogInv, LandedInv
  <2>6. tag # "none" /\ tag # "aborted" /\ tag \in {"exec", "rejected"} OBVIOUS
  <2> HIDE DEF rec, tag
  <2>7. /\ RecordStep(q, rec)
        /\ \A o \in Ids : o # q => opsLog'[o] = opsLog[o] /\ records'[o] = records[o]
        /\ w = "ok" => opsLog'[q] = rec /\ (rec.tag # "aborted" => records'[q] = rec)
    BY <2>0, <2>1, <2>3, RecordView
  <2> HIDE DEF q
  <2>8. LogInv' /\ DurableKept
    <3>1. /\ Up /\ LogInv /\ nextId' = nextId /\ nextId <= nextId'
          /\ UNCHANGED <<counter, pruned, landed>>
      BY <1>n, <2>0 DEF Rest, Up
    <3>2. ~Committed(records[q]) BY <2>3 DEF Committed
    <3>3. rec.tag # "none" /\ (q \notin landed \/ q \in pruned \cup dropped')
      BY <2>0, <2>2, <2>5, <2>6
    <3>4. QED BY <1>n, <2>2, <2>3, <2>7, <3>1, <3>2, <3>3, RecordStepKeeps
  <2>9. GuardInv' BY <2>0, <2>4, GuardStep DEF Rest, GuardedPcs
  <2>10. HandlerInv'
    <3>1. \A u \in Handlers : u # t /\ hs[u].pc \in MarkedPcs \cup ExecPcs => hs[u].id # q
      <4> SUFFICES ASSUME NEW u \in Handlers, u # t, hs[u].pc \in MarkedPcs
                   PROVE  hs[u].id # q
        BY <2>3
      <4>1. opsLog[hs[u].id].tag = "prepared" BY <1>s DEF HandlerSound
      <4>2. QED BY <2>3, <4>1
    <3>2. HandlerSound(t)'
      BY <2>4 DEF HandlerSound, NoIdPcs, MarkedPcs, UnlandedPcs, ExecPcs
    <3>3. hs'[t].pc \notin ExecPcs BY <2>4 DEF ExecPcs
    <3>4. landed' = landed /\ nextId <= nextId' BY <1>n, <2>0
    <3>5. QED BY <2>3, <2>4, <2>7, <3>1, <3>2, <3>3, <3>4, HandlerRecordStep
  <2>11. ResultInv'
    <3>1. FinishSound(hs'[t])
      BY <2>2, <2>4, <2>6, <2>7 DEF FinishSound, DurableNext, Committed
    <3>2. QED BY <2>0, <2>4, <2>8, <3>1, SoundKept, SameResults, ResultStep DEF Rest, Others
  <2>12. QED BY <2>8, <2>9, <2>10, <2>11 DEF Rest
<1>4. QED BY <1>1, <1>2, <1>3

\* The install: the marker is in the log and in the table before it.
LEMMA InstallKeeps ==
  ASSUME TypeOK, Rest, NEW t \in Handlers, Install(t)
  PROVE  Rest'
<1> USE DEF UnchangedStore, storeVars, diskVars, tableVars, pruneHist, At
<1>0. /\ hs[t].pc = "install" /\ phase = "serving" /\ phase' = "serving" /\ guard' = guard
      /\ landed' = landed \cup {hs[t].id}
      /\ UNCHANGED <<opsLog, records, counter, nextId, pruned, dropped, reqLog, requests,
                     told, owing>>
  BY DEF Install
<1>1. /\ hs[t].id \in Ids /\ guard = t
      /\ opsLog[hs[t].id].tag = "prepared" /\ records[hs[t].id].tag = "prepared"
  BY <1>0 DEF TypeOK, Rest, GuardInv, GuardedPcs, HandlerInv, HandlerSound, MarkedPcs
<1>2. Others(t) /\ hs'[t].pc = "sync" /\ hs'[t].id = hs[t].id
  BY GotoView DEF Install
<1>3. GuardInv' BY <1>0, <1>1, <1>2, GuardStep DEF Rest
<1>4. HandlerInv'
  <2>1. HandlerSound(t)'
    BY <1>0, <1>1, <1>2 DEF HandlerSound, NoIdPcs, MarkedPcs, UnlandedPcs, ExecPcs
  <2>2. ASSUME NEW u \in Handlers, u # t PROVE HandlerSound(u)'
    <3>1. hs[u].pc \notin UnlandedPcs
      BY <1>1, <2>2 DEF Rest, GuardInv, UnlandedPcs, GuardedPcs
    <3>2. \A v \in Handlers : hs'[v].pc \in ExecPcs => hs'[v] = hs[v]
      BY <1>2 DEF Others, ExecPcs
    <3>3. QED BY <1>0, <1>2, <2>2, <3>1, <3>2 DEF Rest, HandlerInv, HandlerSound, Others
  <2>3. QED BY <2>1, <2>2 DEF HandlerInv
<1>5. LogInv' /\ DurableKept
  <2>1. IdInv' /\ TableInv' BY <1>0 DEF Rest, LogInv, IdInv, TableInv, Up
  <2>2. TakenInv' BY <1>0, <1>1 DEF Rest, LogInv, TakenInv, Taken
  <2>3. LandedInv' BY <1>0, <1>1 DEF Rest, LogInv, LandedInv, Up
  <2>4. DurableKept BY <1>0 DEF DurableKept, DurableFor, DurableNext, Up
  <2>5. QED BY <2>1, <2>2, <2>3, <2>4 DEF LogInv
<1>6. ResultInv'
  <2>1. FinishSound(hs'[t]) BY <1>2 DEF FinishSound
  <2>2. QED BY <1>0, <1>2, <1>5, <2>1, SoundKept, SameResults, ResultStep DEF Rest, Others
<1>7. QED BY <1>3, <1>4, <1>5, <1>6 DEF Rest

\* An exec takes a new id.
LEMMA SpawnKeeps ==
  ASSUME TypeOK, Rest, NEW t \in Handlers, Spawn(t)
  PROVE  Rest'
<1> USE DEF diskVars, pruneHist, At
<1>0. /\ hs[t].pc = "spawn" /\ phase = "serving" /\ phase' = "serving" /\ guard' = guard
      /\ UNCHANGED <<opsLog, records, counter, pruned, dropped, landed, reqLog, requests,
                     told, owing>>
  BY DEF Spawn
<1>1. PICK q \in Ids : /\ q = nextId + 1 /\ nextId' = q
                       /\ \/ hs' = [hs EXCEPT ![t].id = q, ![t].pc = "running", ![t].ok = TRUE]
                          \/ hs' = [hs EXCEPT ![t].id = q, ![t].pc = "record"]
  BY DEF Spawn, NextOperationId
<1>2. Others(t) /\ hs'[t].pc \in {"running", "record"} /\ hs'[t].id = q
  BY <1>1 DEF TypeOK, HandlerState, Others
<1>3. nextId \in Int /\ q \in Int /\ counter \in Int /\ Ids \subseteq Int
  BY DEF TypeOK, StoreTypeOK, Ids
<1>4. opsLog[q].tag = "none" /\ records[q].tag = "none"
  BY <1>0, <1>1, <1>3 DEF Rest, LogInv, IdInv, Up
<1>5. GuardInv' BY <1>0, <1>2, GuardStep DEF Rest, GuardedPcs
<1>6. HandlerInv'
  <2>1. \A u \in Handlers : u # t /\ hs[u].pc \in ExecPcs => hs[u].id <= nextId /\ hs[u].id \in Int
    BY <1>3 DEF Rest, HandlerInv, HandlerSound, TypeOK
  <2>2. \A u \in Handlers : u # t /\ hs'[u].pc \in ExecPcs => hs'[u].id # q
    BY <1>1, <1>2, <1>3, <2>1 DEF Others
  <2>3. HandlerSound(t)'
    BY <1>0, <1>1, <1>2, <1>3, <1>4, <2>2
    DEF HandlerSound, NoIdPcs, MarkedPcs, UnlandedPcs, ExecPcs
  <2>4. ASSUME NEW u \in Handlers, u # t PROVE HandlerSound(u)'
    <3>1. HandlerSound(u) /\ hs'[u] = hs[u] BY <1>2, <2>4 DEF Rest, HandlerInv, Others
    <3>2. hs[u].pc \in ExecPcs => hs[u].id <= nextId' /\ hs[u].id # q
      BY <1>1, <1>3, <2>1, <2>4
    <3>3. \A v \in Handlers : v # t => hs'[v] = hs[v] BY <1>2 DEF Others
    <3>4. QED BY <1>0, <1>2, <3>1, <3>2, <3>3 DEF HandlerSound
  <2>5. QED BY <2>3, <2>4 DEF HandlerInv
<1>7. LogInv' /\ DurableKept
  <2>1. IdInv' BY <1>0, <1>1, <1>3 DEF Rest, LogInv, IdInv, Up
  <2>2. TakenInv' BY <1>0 DEF Rest, LogInv, TakenInv, Taken
  <2>3. TableInv' /\ LandedInv' BY <1>0 DEF Rest, LogInv, TableInv, LandedInv, Up
  <2>4. DurableKept BY <1>0 DEF DurableKept, DurableFor, DurableNext, Up
  <2>5. QED BY <2>1, <2>2, <2>3, <2>4 DEF LogInv
<1>8. ResultInv'
  <2>1. FinishSound(hs'[t]) BY <1>2 DEF FinishSound
  <2>2. QED BY <1>0, <1>2, <1>7, <2>1, SoundKept, SameResults, ResultStep DEF Rest, Others
<1>9. QED BY <1>5, <1>6, <1>7, <1>8 DEF Rest

\* After a prune, entries are what they were or gone.
LEMMA PruneResults ==
  ASSUME TypeOK, Rest, DurableKept, NEW keep, NEW replaced, NEW ok,
         Prune(keep, replaced, ok), told' = told
  PROVE  \A r \in Requests : /\ NewSound(reqLog'[r], r) /\ NewSound(requests'[r], r)
                              /\ \A o \in told'[r] : DurableNext(o, r)
<1>1. \A r \in Requests : /\ requests'[r] \in {requests[r], NoEntry}
                          /\ reqLog'[r] \in {reqLog[r], requests'[r]}
  BY DEF Prune
<1>2. \A r \in Requests : NewSound(NoEntry, r) BY DEF NewSound, NoEntry
<1>3. QED BY <1>1, <1>2, SoundKept DEF Rest

\* gc prunes while it holds the guard.
LEMMA GcKeeps ==
  ASSUME TypeOK, TypeOK', Rest, NEW t \in Handlers, Gc(t)
  PROVE  Rest'
<1> USE DEF UnchangedStore, histVars, At
<1>0. /\ hs[t].pc = "check" /\ phase = "serving" /\ phase' = "serving" /\ guard = t
      /\ hs[t].id = 0
      /\ UNCHANGED <<dropped, landed, told, owing>>
  BY DEF Gc, Rest, GuardInv, GuardedPcs, HandlerInv, HandlerSound, NoIdPcs
<1>1. PICK ok \in BOOLEAN : DropGuard(t, ok) BY DEF Gc
<1>2. Others(t) /\ hs'[t].pc = "finish" /\ hs'[t].id = 0 /\ guard' = None
  BY <1>0, <1>1, DropView
<1>3. CASE UNCHANGED storeVars
  BY <1>0, <1>2, <1>3, QuietHandler, SameResults
  DEF GuardedPcs, NoIdPcs, MarkedPcs, UnlandedPcs, ExecPcs, storeVars, diskVars, tableVars,
      pruneHist
<1>4. ASSUME NEW keep, NEW replaced, NEW done, Prune(keep, replaced, done) PROVE Rest'
  <2>1. LogInv' /\ DurableKept BY <1>0, <1>4, PruneKeeps DEF Rest, Up
  <2>2. GuardInv' BY <1>0, <1>2, GuardStep DEF Rest, GuardedPcs
  <2>3. HandlerInv'
    <3>1. HandlerSound(t)'
      BY <1>2 DEF HandlerSound, NoIdPcs, MarkedPcs, UnlandedPcs, ExecPcs
    <3>2. ASSUME NEW u \in Handlers, u # t PROVE HandlerSound(u)'
      <4>1. hs[u].pc \notin MarkedPcs \cup UnlandedPcs
        BY <1>0, <3>2 DEF Rest, GuardInv, GuardedPcs, MarkedPcs, UnlandedPcs
      <4>2. HandlerSound(u) /\ hs'[u] = hs[u] BY <1>2, <3>2 DEF Rest, HandlerInv, Others
      <4>3. hs[u].pc \in ExecPcs => hs[u].id \in Ids BY DEF TypeOK
      <4>4. \A o \in Ids : opsLog[o].tag = "none" /\ records[o].tag = "none"
                             => opsLog'[o].tag = "none" /\ records'[o].tag = "none"
        BY <1>4 DEF Prune, NoRecord
      <4>5. nextId' = nextId BY <1>4 DEF Prune
      <4>6. \A v \in Handlers : hs'[v].pc \in ExecPcs => hs'[v] = hs[v]
        BY <1>2 DEF Others, ExecPcs
      <4>7. QED BY <4>1, <4>2, <4>3, <4>4, <4>5, <4>6 DEF HandlerSound
    <3>3. QED BY <3>1, <3>2 DEF HandlerInv
  <2>4. ResultInv'
    <3>1. FinishSound(hs'[t]) BY <1>2 DEF FinishSound
    <3>2. \A r \in Requests : /\ NewSound(reqLog'[r], r) /\ NewSound(requests'[r], r)
                               /\ \A o \in told'[r] : DurableNext(o, r)
      BY <1>0, <1>4, <2>1, PruneResults
    <3>3. QED BY <1>0, <1>2, <2>1, <3>1, <3>2, SoundKept, ResultStep DEF Rest, Others
  <2>5. QED BY <2>1, <2>2, <2>3, <2>4 DEF Rest
<1>5. UNCHANGED storeVars \/ \E keep, replaced, done : Prune(keep, replaced, done) BY DEF Gc
<1>6. QED BY <1>3, <1>4, <1>5

\* The start-up sequence.
LEMMA StartUpKeeps ==
  ASSUME TypeOK, TypeOK', Rest, StartUp
  PROVE  Rest'
<1> USE DEF wsVars, histVars, budgetVars, UnchangedStore, diskVars, pruneHist
<1>0. phase # "serving" /\ UNCHANGED <<hs, guard, told, landed>>
  BY DEF StartUp, Start, RecoverMarker, Recovering, RecoverRemember, ResolveStuck,
         StartupPrune, GiveUp
<1>1. \A t \in Handlers : hs'[t] = Idle BY <1>0 DEF Rest, GuardInv
<1>2. GuardInv' /\ HandlerInv' BY <1>1, IdleHandlers
<1>3. \A t \in Handlers : FinishSound(hs'[t]) BY <1>1 DEF FinishSound, Idle
<1>4. NothingOwed.req = None BY DEF NothingOwed
<1>5. CASE Start
  <2>1. LogInv' /\ DurableKept BY <1>5, StartStep DEF Rest
  <2>2. requests' = reqLog /\ UNCHANGED <<reqLog, owing>> BY <1>5 DEF Start, Load
  <2>3. ResultInv' BY <1>0, <1>3, <2>1, <2>2, SoundKept, ResultStep DEF Rest
  <2>4. QED BY <1>2, <2>1, <2>3 DEF Rest
<1>6. ASSUME NEW q \in Ids, RecoverMarker(q) PROVE Rest'
  <2> DEFINE p == records[q]
             outcome == RecoveryOutcome(q, file[PathOf(p.req)])
             tag == IF outcome = "committed" THEN "fs" ELSE "aborted"
             rec == Stamped(tag, p.req, p.before)
  <2>1. PICK w \in AppendResults :
          /\ AppendRecordTracked(q, rec, w)
          /\ phase' = IF w = "ok" THEN phase ELSE "failed"
          /\ owing' = IF w # "ok" \/ outcome = "noop" THEN NothingOwed
                      ELSE [req |-> p.req,
                            entry |-> IF outcome = "committed" THEN Done(q) ELSE Failed]
          /\ dropped' = IF OnDisk(w) /\ outcome # "committed"
                        THEN dropped \cup {q} ELSE dropped
    BY <1>6 DEF RecoverMarker, CommitFsRecord, AbortPrepared
  <2>2. /\ phase = "recover" /\ records[q].tag = "prepared"
        /\ UNCHANGED <<reqLog, counter, nextId, requests, pruned>>
    BY <1>6 DEF RecoverMarker, Recovering, NewestMarker, IsPending
  <2>3. p.req \in Requests /\ p.before \in FileState
    BY <2>2 DEF TypeOK, StoreTypeOK, Record
  <2>4. rec \in Record /\ rec.tag = tag /\ rec.req = p.req
    BY <2>3, StampedType DEF Tags
  <2>5. /\ tag \in {"fs", "aborted"} /\ (tag = "fs" <=> outcome = "committed")
    OBVIOUS
  <2>6. Up /\ (Up' => w = "ok") /\ nextId \in Int /\ q \in Int
    BY <2>1, <2>2 DEF Up, TypeOK, StoreTypeOK, Ids
  <2> HIDE DEF rec, tag, outcome
  <2>7. /\ RecordStep(q, rec)
        /\ w = "ok" => opsLog'[q] = rec /\ (rec.tag # "aborted" => records'[q] = rec)
    <3>1. \/ dropped' = dropped
          \/ dropped' = dropped \cup {q} /\ OnDisk(w)
      BY <2>1
    <3>2. QED BY <2>1, <3>1, RecordView
  <2>8. LogInv' /\ DurableKept
    <3>1. ~Committed(records[q]) BY <2>2 DEF Committed
    <3>2. q <= nextId /\ nextId' = nextId /\ nextId <= nextId'
      BY <2>2, <2>6 DEF Rest, LogInv, IdInv
    <3>3. \/ opsLog' = opsLog \/ rec.tag \in {"prepared", "fs"}
          \/ q \notin landed \/ q \in pruned \cup dropped'
      BY <2>1, <2>4, <2>5 DEF AppendRecordTracked
    <3>4. rec.tag # "none" BY <2>4, <2>5
    <3>5. UNCHANGED <<counter, pruned, landed>> BY <1>0, <2>2
    <3>6. LogInv BY DEF Rest
    <3>7. nextId' \in Int /\ Up BY <2>6, <3>2
    <3>8. QED BY <2>4, <2>7, <3>1, <3>2, <3>3, <3>4, <3>5, <3>6, <3>7, RecordStepKeeps
  <2>9. owing'.req # None => NewSound(owing'.entry, owing'.req)
    <3>1. CASE w # "ok" \/ outcome = "noop" BY <1>4, <2>1, <3>1
    <3>2. CASE w = "ok" /\ outcome = "committed"
      <4>1. owing' = [req |-> p.req, entry |-> Done(q)] BY <2>1, <3>2
      <4>2. DurableNext(q, p.req)
        BY <2>4, <2>5, <2>7, <3>2 DEF DurableNext, Committed
      <4>3. QED BY <4>1, <4>2 DEF NewSound, Done
    <3>3. CASE w = "ok" /\ outcome \notin {"committed", "noop"}
      BY <2>1, <3>3 DEF NewSound, Failed
    <3>4. QED BY <3>1, <3>2, <3>3
  <2>10. ResultInv'
    BY <1>0, <1>3, <2>2, <2>8, <2>9, SameResults, ResultStep
  <2>11. QED BY <1>2, <2>8, <2>10 DEF Rest
<1>7. CASE RecoverRemember
  <2>1. PICK w \in AppendResults : AppendRequestTracked(owing.req, owing.entry, w)
    BY <1>7 DEF RecoverRemember
  <2>2. /\ phase = "recover" /\ owing.req # None /\ owing' = NothingOwed
        /\ UNCHANGED <<opsLog, records, counter, nextId, pruned, dropped, landed>>
    BY <1>7 DEF RecoverRemember
  <2>3. LogInv' /\ DurableKept BY <2>2, QuietStep DEF Rest, Up
  <2>4. owing.req \in Requests /\ owing.entry \in Entry BY <2>2 DEF TypeOK
  <2>5. NewSound(owing.entry, owing.req) BY <2>2, <2>3, SoundKept DEF Rest
  <2>6. \A r \in Requests : NewSound(reqLog'[r], r) /\ NewSound(requests'[r], r)
    BY <2>1, <2>3, <2>4, <2>5, RequestStep DEF Rest
  <2>7. ResultInv' BY <1>0, <1>3, <1>4, <2>2, <2>3, <2>6, SoundKept, ResultStep DEF Rest
  <2>8. QED BY <1>2, <2>3, <2>7 DEF Rest
<1>8. ASSUME NEW q \in Requests, ResolveStuck(q) PROVE Rest'
  <2>1. /\ phase = "recover" /\ phase' = phase
        /\ UNCHANGED <<opsLog, records, counter, nextId, pruned, dropped, landed, reqLog>>
    BY <1>8 DEF ResolveStuck, Recovering
  <2>2. LogInv' /\ DurableKept BY <2>1, QuietStep DEF Rest, Up
  <2>3. \A r \in Requests : NewSound(requests'[r], r)
    <3>1. \A r \in Requests : requests'[r] \in {requests[r], NoEntry}
      BY <1>8 DEF ResolveStuck, TypeOK, StoreTypeOK
    <3>2. \A r \in Requests : NewSound(NoEntry, r) BY DEF NewSound, NoEntry
    <3>3. QED BY <2>2, <3>1, <3>2, SoundKept DEF Rest
  <2>4. owing'.req # None => NewSound(owing'.entry, owing'.req)
    <3>1. ASSUME NEW o \in CommittedFor(q), owing' = [req |-> q, entry |-> Reconstructed(o)]
          PROVE  NewSound(owing'.entry, owing'.req)
      <4>1. o \in Ids /\ Committed(records[o]) /\ records[o].req = q
        BY <3>1 DEF CommittedFor
      <4>2. opsLog[o] = records[o] BY <2>1, <4>1 DEF Rest, LogInv, TableInv, Up
      <4>3. DurableNext(o, q) BY <2>1, <4>1, <4>2 DEF DurableNext
      <4>4. QED BY <3>1, <4>3 DEF NewSound, Reconstructed, Done
    <3>2. CASE owing' = [req |-> q, entry |-> Failed] BY <3>2 DEF NewSound, Failed
    <3>3. CASE owing' = owing BY <2>2, <3>3, SoundKept DEF Rest
    <3>4. QED BY <1>8, <3>1, <3>2, <3>3 DEF ResolveStuck
  <2>5. ResultInv' BY <1>0, <1>3, <2>1, <2>2, <2>3, <2>4, SoundKept, ResultStep DEF Rest
  <2>6. QED BY <1>2, <2>2, <2>5 DEF Rest
<1>9. CASE StartupPrune
  <2>1. phase = "recover" /\ UNCHANGED <<dropped, owing>> BY <1>9 DEF StartupPrune, Recovering
  <2>2. CASE UNCHANGED storeVars
    <3>1. LogInv' /\ DurableKept
      BY <1>0, <2>1, <2>2, QuietStep DEF Rest, Up, storeVars, tableVars
    <3>2. ResultInv'
      BY <1>0, <1>3, <2>1, <2>2, <3>1, SoundKept, SameResults, ResultStep
      DEF Rest, storeVars, tableVars
    <3>3. QED BY <1>2, <3>1, <3>2 DEF Rest
  <2>3. ASSUME NEW keep, NEW replaced, NEW ok, Prune(keep, replaced, ok) PROVE Rest'
    <3>1. LogInv' /\ DurableKept BY <1>0, <2>1, <2>3, PruneKeeps DEF Rest, Up
    <3>2. ResultInv'
      BY <1>0, <1>3, <2>1, <2>3, <3>1, SoundKept, PruneResults, ResultStep DEF Rest
    <3>3. QED BY <1>2, <3>1, <3>2 DEF Rest
  <2>4. QED BY <1>9, <2>2, <2>3 DEF StartupPrune
<1>10. CASE GiveUp
  <2>1. ~Up' /\ UNCHANGED <<opsLog, counter, pruned, dropped, reqLog, owing>>
    BY <1>10 DEF GiveUp, Up
  <2>2. LogInv' /\ DurableKept BY <1>0, <2>1, DownStep DEF Rest
  <2>3. \A r \in Requests : NewSound(requests'[r], r)
    BY <1>10 DEF GiveUp, Unload, NewSound, NoEntry
  <2>4. ResultInv' BY <1>0, <1>3, <2>1, <2>2, <2>3, SoundKept, ResultStep DEF Rest
  <2>5. QED BY <1>2, <2>2, <2>4 DEF Rest
<1>11. QED BY <1>5, <1>6, <1>7, <1>8, <1>9, <1>10 DEF StartUp

\* Crash and power loss.
LEMMA DieKeeps ==
  ASSUME TypeOK, Rest, Die, landed' \subseteq landed
  PROVE  Rest'
<1> USE DEF diskVars, pruneHist
<1>1. \A t \in Handlers : hs'[t] = Idle BY DEF Die
<1>2. GuardInv' /\ HandlerInv' BY <1>1, IdleHandlers
<1>3. \A t \in Handlers : FinishSound(hs'[t]) BY <1>1 DEF FinishSound, Idle
<1>4. ~Up' /\ UNCHANGED <<opsLog, counter, pruned, dropped, reqLog, told>> /\ owing'.req = None
  BY DEF Die, Up, NothingOwed
<1>5. LogInv' /\ DurableKept BY <1>4, DownStep DEF Rest
<1>6. \A r \in Requests : NewSound(requests'[r], r) BY DEF Die, Unload, NewSound, NoEntry
<1>7. ResultInv' BY <1>3, <1>4, <1>5, <1>6, SoundKept, ResultStep DEF Rest
<1>8. QED BY <1>2, <1>5, <1>7 DEF Rest

\* Steps that change nothing the invariant speaks of.
LEMMA FrameKeeps ==
  ASSUME TypeOK, Rest,
         UNCHANGED <<opsLog, records, counter, nextId, pruned, dropped, landed, phase,
                     owing, guard, hs, reqLog, requests>>,
         DurableKept => \A r \in Requests : \A o \in told'[r] : DurableNext(o, r)
  PROVE  Rest'
<1>1. LogInv' /\ DurableKept BY QuietStep DEF Rest, Up
<1>2. GuardInv' BY DEF Rest, GuardInv
<1>3. HandlerInv' BY DEF Rest, HandlerInv, HandlerSound
<1>4. ResultInv' BY <1>1, SoundKept, ResultStep DEF Rest
<1>5. QED BY <1>1, <1>2, <1>3, <1>4 DEF Rest

\* Every step of the specification keeps the second part of IInv.
LEMMA RestNext ==
  ASSUME TypeOK, TypeOK', Rest, [Next]_vars
  PROVE  Rest'
<1> USE DEF wsVars, histVars, budgetVars, UnchangedHist, UnchangedStore, storeVars,
            diskVars, tableVars, pruneHist
<1>1. ASSUME NEW q \in Requests, Replay(q) PROVE Rest'
  <2>1. requests[q] \in Entry BY DEF TypeOK, StoreTypeOK
  <2>2. DurableKept => \A r \in Requests : \A o \in told'[r] : DurableNext(o, r)
    BY <1>1, <2>1, TellStep, SoundKept DEF Replay, Rest
  <2>3. QED BY <1>1, <2>2, FrameKeeps DEF Replay
<1>2. ASSUME NEW t \in Handlers, NEW r \in Requests, Receive(t, r) PROVE Rest'
  <2>1. Others(t) /\ hs'[t].pc = "claim" /\ hs'[t].id = 0
    BY <1>2 DEF Receive, TypeOK, Others, Idle
  <2>2. QED BY <1>2, <2>1, QuietHandler, SameResults
            DEF Receive, At, GuardedPcs, NoIdPcs, MarkedPcs, UnlandedPcs, ExecPcs
<1>3. ASSUME NEW t \in Handlers, Handler(t) PROVE Rest'
  BY <1>3, QuietHandlerKeeps, RecordHandlerKeeps, InstallKeeps, SpawnKeeps, GcKeeps
  DEF Handler
<1>4. CASE StartUp BY <1>4, StartUpKeeps
<1>5. CASE Crash BY <1>5, DieKeeps DEF Crash
<1>6. ASSUME NEW k \in Ids, PowerLoss(k) PROVE Rest'
  <2>1. Die /\ landed' \subseteq landed BY <1>6 DEF PowerLoss
  <2>2. QED BY <2>1, DieKeeps
<1>7. ASSUME NEW p \in Paths, NEW c \in FileState, ExternalWrite(p, c) PROVE Rest'
  BY <1>7, FrameKeeps, SoundKept DEF ExternalWrite, Rest
<1>8. ASSUME NEW w \in 0 .. clock.wall, ClockSteps(w) PROVE Rest'
  BY <1>8, FrameKeeps, SoundKept DEF ClockSteps, Rest, histVars
<1>9. CASE UNCHANGED vars BY <1>9, FrameKeeps, SoundKept DEF vars, Rest
<1>10. QED BY <1>1, <1>2, <1>3, <1>4, <1>5, <1>6, <1>7, <1>8, <1>9 DEF Next

\* And the initial states satisfy it.
LEMMA InitRest == Init => Rest
<1> SUFFICES ASSUME Init PROVE Rest OBVIOUS
<1>1. /\ phase = "down" /\ owing.req = None
      /\ \A t \in Handlers : hs[t].pc = "idle" /\ hs[t].id = 0 /\ hs[t] = Idle
      /\ landed = {} /\ pruned = {} /\ dropped = {}
      /\ \A r \in Requests : /\ told[r] = {} /\ reqLog[r].status = "unknown"
                             /\ requests[r].status = "unknown"
  BY DEF Init, StoreInit, NothingOwed, Idle, NoEntry
<1>2. GuardInv BY <1>1 DEF GuardInv, GuardedPcs
<1>3. HandlerInv
  BY <1>1 DEF HandlerInv, HandlerSound, NoIdPcs, MarkedPcs, UnlandedPcs, ExecPcs
<1>4. LogInv BY <1>1 DEF LogInv, IdInv, TakenInv, TableInv, LandedInv, Up
<1>5. ResultInv BY <1>1 DEF ResultInv, EntryDurable
<1>6. QED BY <1>2, <1>3, <1>4, <1>5 DEF Rest

\* The strengthened invariant holds in every reachable state: store, handlers
\* and recovery keep log, table, counter and stored results consistent.
THEOREM Inductive == Spec => []IInv
<1>1. Init => IInv BY InitType, InitRest, IInvParts
<1>2. IInv /\ [Next]_vars => IInv' 
  <2> SUFFICES ASSUME IInv, [Next]_vars PROVE IInv' OBVIOUS
  <2>1. TypeOK /\ Rest BY IInvParts
  <2>2. TypeOK' BY <2>1, NextType
  <2>3. Rest' BY <2>1, <2>2, RestNext
  <2>4. QED BY <2>2, <2>3 DEF IInv, Rest, LogInv
<1>3. QED BY <1>1, <1>2, PTL DEF Spec

\* No mutation is ever in the workspace without its marker or its record in the
\* log, until prune or recovery removes that (prepare_fs_record before the
\* install, prune sparing markers).
THEOREM WriteAheadHolds == Spec => []WriteAhead
<1>1. IInv => WriteAhead BY DEF IInv, LandedInv, WriteAhead
<1>2. QED BY <1>1, Inductive, PTL

\* Every operation a client was told of is committed in the log, for the request
\* it was told for, until prune removes it (finish, reconstruct_result).
THEOREM ToldIsDurableHolds == Spec => []ToldIsDurable
<1>1. IInv => ToldIsDurable BY DEF IInv, ResultInv, DurableFor, ToldIsDurable
<1>2. QED BY <1>1, Inductive, PTL

\* An operation id given to a client is never allocated again, by this server or
\* by a later one (next_operation_id, the op-counter file, prune's write order).
THEOREM ToldIdsStayTakenHolds == Spec => []ToldIdsStayTaken
<1>1. IInv => ToldIdsStayTaken
  <2> SUFFICES ASSUME IInv, Up, NEW r \in Requests, NEW o \in told[r] PROVE o <= nextId
    BY DEF ToldIdsStayTaken, Up
  <2>1. o \in Ids /\ o \in Int /\ counter \in Int /\ nextId \in Int
    BY DEF IInv, TypeOK, StoreTypeOK, Ids
  <2>2. Taken(o) BY DEF IInv, ResultInv, DurableFor, TakenInv, Taken, Committed
  <2>3. QED BY <2>1, <2>2 DEF IInv, IdInv, Taken
<1>2. QED BY <1>1, Inductive, PTL

-----------------------------------------------------------------------------
(***************************************************************************)
(* What the steps do, read off their definitions.                           *)
(***************************************************************************)
QuietMoves ==
  {<<"guard", "check">>, <<"check", "hash">>, <<"check", "prepare">>,
   <<"check", "finish">>, <<"hash", "prepare">>, <<"verify", "install">>,
   <<"verify", "withdraw">>, <<"install", "withdraw">>, <<"sync", "commit">>,
   <<"sync", "finish">>, <<"running", "record">>}

Quiet(t) ==
  \/ AcquireGuard(t) \/ Check(t) \/ HashBefore(t) \/ Verify(t) \/ InstallFails(t)
  \/ Sync(t) \/ SyncFails(t) \/ Exit(t)
  \/ Gc(t) /\ DropGuard(t, FALSE) /\ UNCHANGED storeVars

\* The steps of a handler that change neither files nor logs nor tables.
LEMMA QuietView ==
  ASSUME TypeOK, NEW t \in Handlers, Quiet(t)
  PROVE  /\ Others(t) /\ <<hs[t].pc, hs'[t].pc>> \in QuietMoves
         /\ hs'[t].req = hs[t].req /\ hs'[t].id = hs[t].id
         /\ hs'[t].ok = hs[t].ok \/ hs'[t].ok = FALSE
         /\ IF hs[t].pc \in {"check", "hash"} /\ hs'[t].pc # "finish"
            THEN /\ hs'[t].before = file[PathAt(t)]
                 /\ hs[t].pc = "check" =>
                      OpOf(t) \in FsOps /\ Precondition(hs[t].req, file[PathAt(t)])
            ELSE hs'[t].before = hs[t].before
         /\ phase = "serving" /\ phase' = "serving"
         /\ \A p \in Paths : unsynced'[p] \in {unsynced[p], {}}
         /\ UNCHANGED <<opsLog, reqLog, counter, nextId, records, slot, requests, torn,
                        clock, pruned, forgets, orphaned, file, owing, landed, runs,
                        told, dropped, losses, externals>>
<1> USE DEF wsVars, histVars, budgetVars, UnchangedStore, storeVars, diskVars,
            tableVars, pruneHist, At, QuietMoves
<1>0. hs[t] \in HandlerState BY DEF TypeOK
<1>1. CASE AcquireGuard(t) BY <1>0, <1>1, GotoView DEF AcquireGuard
<1>2. CASE Check(t)
  <2>1. CASE Precondition(Req(t), file[PathAt(t)])
    BY <1>0, <1>2, <2>1 DEF Check, TypeOK, HandlerState, Others, Req
  <2>2. CASE ~Precondition(Req(t), file[PathAt(t)]) BY <1>0, <1>2, <2>2, DropView DEF Check
  <2>3. QED BY <2>1, <2>2
<1>3. CASE HashBefore(t) BY <1>0, <1>3 DEF HashBefore, TypeOK, HandlerState, Others
<1>4. CASE Verify(t) BY <1>0, <1>4, GotoView DEF Verify
<1>5. CASE InstallFails(t) BY <1>0, <1>5, GotoView DEF InstallFails
<1>6. CASE Sync(t)
  <2>1. \A p \in Paths : unsynced'[p] \in {unsynced[p], {}} BY <1>6 DEF Sync, TypeOK
  <2>2. QED BY <1>0, <1>6, <2>1, GotoView DEF Sync
<1>7. CASE SyncFails(t) BY <1>0, <1>7, DropView DEF SyncFails
<1>8. CASE Exit(t) BY <1>0, <1>8, GotoView DEF Exit
<1>9. CASE Gc(t) /\ DropGuard(t, FALSE) /\ UNCHANGED storeVars
  BY <1>0, <1>9, DropView DEF Gc
<1>10. QED BY <1>1, <1>2, <1>3, <1>4, <1>5, <1>6, <1>7, <1>8, <1>9 DEF Quiet

\* append_request_tracked, entry by entry.
LEMMA RequestView ==
  ASSUME TypeOK, NEW r \in Requests, NEW e \in Entry, NEW w, AppendRequestTracked(r, e, w)
  PROVE  /\ \A s \in Requests : s # r => reqLog'[s] = reqLog[s] /\ requests'[s] = requests[s]
         /\ reqLog'[r] = reqLog[r] \/ reqLog'[r] = e
         /\ IF w = "ok" THEN reqLog'[r] = e /\ requests'[r] = e
                        ELSE requests' = requests
<1>1. w = "ok" => OnDisk(w) BY DEF OnDisk
<1>2. QED BY <1>1 DEF AppendRequestTracked, TypeOK, StoreTypeOK

\* append_record_tracked, record by record.
LEMMA AppendView ==
  ASSUME TypeOK, NEW q \in Ids, NEW rec, NEW w, AppendRecordTracked(q, rec, w)
  PROVE  /\ \A o \in Ids : o # q => /\ opsLog'[o] = opsLog[o] /\ records'[o] = records[o]
                                    /\ slot'[o] = slot[o]
         /\ opsLog'[q] = IF OnDisk(w) THEN rec ELSE opsLog[q]
         /\ records'[q] = IF w # "ok" THEN records[q]
                          ELSE IF rec.tag = "aborted" THEN NoRecord ELSE rec
         /\ slot'[q] = IF w = "ok" /\ records[q].tag = "none" THEN clock.at + 1 ELSE slot[q]
         /\ clock' = Tick /\ (w = "ok" => OnDisk(w))
<1>1. w = "ok" => OnDisk(w) BY DEF OnDisk
<1>2. QED BY <1>1 DEF AppendRecordTracked, TypeOK, StoreTypeOK

\* prepare_fs_record, record by record.
LEMMA PreparedView ==
  ASSUME TypeOK, NEW q \in Ids, NEW r \in Requests, NEW b \in FileState, NEW w,
         PrepareFsRecord(q, r, b, w)
  PROVE  /\ \A o \in Ids : o # q => /\ opsLog'[o] = opsLog[o] /\ records'[o] = records[o]
                                    /\ slot'[o] = slot[o]
         /\ opsLog'[q] \in {opsLog[q], Stamped("prepared", r, b), Stamped("aborted", r, b)}
         /\ IF w = "ok" THEN /\ opsLog'[q] = Stamped("prepared", r, b)
                             /\ records'[q] = Stamped("prepared", r, b)
                             /\ slot'[q] = clock.at + 1
                        ELSE records' = records /\ slot' = slot
         /\ clock' = Tick /\ q = nextId + 1 /\ nextId' = q
<1> DEFINE P == Stamped("prepared", r, b)
           A == Stamped("aborted", r, b)
<1>1. opsLog \in [Ids -> Record] /\ records \in [Ids -> Record] /\ slot \in [Ids -> Nat]
  BY DEF TypeOK, StoreTypeOK
<1>2. clock' = Tick /\ q = nextId + 1 /\ nextId' = q BY DEF PrepareFsRecord, NextOperationId
<1>3. CASE w = "ok"
  <2>1. /\ opsLog' = [opsLog EXCEPT ![q] = P] /\ records' = [records EXCEPT ![q] = P]
        /\ slot' = [slot EXCEPT ![q] = clock.at + 1]
    BY <1>3 DEF PrepareFsRecord, OnDisk
  <2> HIDE DEF P, A
  <2>2. QED BY <1>1, <1>2, <1>3, <2>1 DEF P
<1>4. CASE w # "ok"
  <2>1. records' = records /\ slot' = slot BY <1>4 DEF PrepareFsRecord
  <2>2. \/ opsLog' = opsLog
        \/ opsLog' = [opsLog EXCEPT ![q] = P]
        \/ opsLog' = [opsLog EXCEPT ![q] = A]
    <3>1. CASE w = "unsynced"
      <4>1. PICK w2 : opsLog' = PrepareFailureLine(q, r, b, w2)
        BY <3>1 DEF PrepareFsRecord, PrepareUnsynced
      <4>2. CASE OnDisk(w2) BY <4>1, <4>2 DEF PrepareFailureLine
      <4>3. CASE ~OnDisk(w2) BY <4>1, <4>3 DEF PrepareFailureLine
      <4>4. QED BY <4>2, <4>3
    <3>2. CASE w # "unsynced" BY <3>2 DEF PrepareFsRecord
    <3>3. QED BY <3>1, <3>2
  <2> HIDE DEF P, A
  <2>3. QED BY <1>1, <1>2, <1>4, <2>1, <2>2 DEF P, A
<1>5. QED BY <1>3, <1>4

\* prune: what it may do to an entry, a record and the counts.
LEMMA PruneView ==
  ASSUME TypeOK, NEW keep, NEW replaced, NEW ok, Prune(keep, replaced, ok)
  PROVE  /\ \A o \in Ids : \/ records'[o] = records[o]
                           \/ records'[o] = NoRecord /\ records[o].tag # "prepared"
         /\ \A r \in Requests :
              \/ requests'[r] = requests[r] /\ forgets'[r] = forgets[r]
              \/ /\ requests'[r] = NoEntry
                 /\ requests[r].status # "unknown" /\ requests[r].status # "inprogress"
                 /\ forgets'[r] = forgets[r] + 1
                 /\ \A o \in Ids : records'[o].req # r \/ records'[o].tag = "none"
              \/ /\ requests'[r] = NoEntry /\ requests[r].status = "unknown"
                 /\ forgets'[r] = forgets[r]
         /\ opsLog' = opsLog \/ opsLog' = records'
         /\ reqLog' = reqLog \/ (reqLog' = requests' /\ opsLog' = records')
         /\ ok => opsLog' = records' /\ reqLog' = requests'
         /\ orphaned \subseteq orphaned' /\ UNCHANGED <<nextId, slot, torn, clock>>
         /\ \A r \in Requests \ orphaned' : requests[r].status = "inprogress" =>
              \A o \in Evidence(r) : records'[o] = records[o]
         /\ \A o \in pruned' : o \in pruned \/ (o \in Ids /\ Committed(records[o]))
         /\ pruned \subseteq pruned'
         /\ \A o \in Ids : Committed(records[o]) /\ o \notin pruned' => records'[o] = records[o]
<1> DEFINE kept == KeptRecords(keep)
           live == KeptRequests(kept)
<1>0. /\ records \in [Ids -> Record] /\ requests \in [Requests -> Entry]
      /\ forgets \in [Requests -> Nat] /\ replaced \in 0 .. 3
  BY DEF TypeOK, StoreTypeOK, Prune
<1>1. \A o \in Ids : IsPending(records[o]) => o \in kept BY DEF KeptRecords, Pending
<1>2. \A r \in Requests : requests[r].status = "inprogress" => r \in live
  BY DEF KeptRequests
<1>3. \A r \in Requests \ live : \A o \in kept : records[o].req # r BY DEF KeptRequests
<1>h. kept \subseteq Ids BY DEF KeptRecords, Pending, NewestHistory, History
<1>4. /\ records' = [o \in Ids |-> IF o \in kept THEN records[o] ELSE NoRecord]
      /\ requests' = [r \in Requests |-> IF r \in live THEN requests[r] ELSE NoEntry]
      /\ forgets' = [r \in Requests |->
                       IF requests[r].status # "unknown" /\ r \notin live
                       THEN forgets[r] + 1 ELSE forgets[r]]
      /\ pruned' = pruned \cup {o \in Ids : Committed(records[o]) /\ o \notin kept}
      /\ orphaned' = orphaned \cup
           {r \in Requests : /\ requests[r].status = "inprogress"
                             /\ ~(Evidence(r) \subseteq kept)}
      /\ UNCHANGED <<nextId, slot, torn, clock>>
  BY DEF Prune
<1>5. /\ opsLog' = IF replaced >= 2 THEN records' ELSE opsLog
      /\ reqLog' = IF replaced >= 3 THEN requests' ELSE reqLog
      /\ ok => replaced = 3
  BY DEF Prune, OpsWrittenAt, RequestsWrittenAt
<1> HIDE DEF kept, live
<1>6. NoRecord.tag = "none" BY DEF NoRecord
<1>7. \A o \in Ids : /\ o \in kept => records'[o] = records[o]
                     /\ o \notin kept => records'[o] = NoRecord
  BY <1>0, <1>4
<1>8. \A o \in Ids : \/ records'[o] = records[o]
                     \/ records'[o] = NoRecord /\ records[o].tag # "prepared"
  BY <1>1, <1>7 DEF IsPending
<1>9. \A r \in Requests :
        \/ requests'[r] = requests[r] /\ forgets'[r] = forgets[r]
        \/ /\ requests'[r] = NoEntry
           /\ requests[r].status # "unknown" /\ requests[r].status # "inprogress"
           /\ forgets'[r] = forgets[r] + 1
           /\ \A o \in Ids : records'[o].req # r \/ records'[o].tag = "none"
        \/ /\ requests'[r] = NoEntry /\ requests[r].status = "unknown"
           /\ forgets'[r] = forgets[r]
  BY <1>0, <1>2, <1>3, <1>4, <1>6, <1>7
<1>10. /\ opsLog' = opsLog \/ opsLog' = records'
       /\ reqLog' = reqLog \/ (reqLog' = requests' /\ opsLog' = records')
       /\ ok => opsLog' = records' /\ reqLog' = requests'
  BY <1>0, <1>5
<1>11. \A r \in Requests \ orphaned' : requests[r].status = "inprogress" =>
              \A o \in Evidence(r) : records'[o] = records[o]
  <2>1. \A r : Evidence(r) \subseteq Ids BY DEF Evidence
  <2>2. QED BY <1>4, <1>7, <2>1
<1>12. /\ \A o \in pruned' : o \in pruned \/ (o \in Ids /\ Committed(records[o]))
       /\ pruned \subseteq pruned' /\ orphaned \subseteq orphaned'
       /\ \A o \in Ids : Committed(records[o]) /\ o \notin pruned' => records'[o] = records[o]
  BY <1>4, <1>7
<1>13. QED BY <1>4, <1>8, <1>9, <1>10, <1>11, <1>12

\* gc with neither a keep nor a limit refuses, else it prunes.
LEMMA GcView ==
  ASSUME NEW t \in Handlers, Gc(t)
  PROVE  \/ Quiet(t)
         \/ \E keep, replaced : \E ok \in BOOLEAN :
              Prune(keep, replaced, ok) /\ DropGuard(t, ok)
<1> DEFINE keep == IF Body[Req(t)].keep # None THEN Body[Req(t)].keep ELSE HistoryLimit
<1>1. IF keep = None THEN UNCHANGED storeVars /\ DropGuard(t, FALSE)
      ELSE \E replaced \in 0 .. 3, ok \in BOOLEAN : Prune(keep, replaced, ok) /\ DropGuard(t, ok)
  BY DEF Gc, UnchangedStore
<1> HIDE DEF keep
<1>2. CASE keep = None BY <1>1, <1>2 DEF Quiet
<1>3. CASE keep # None BY <1>1, <1>3
<1>4. QED BY <1>2, <1>3

\* The steps of a handler, the quiet ones together.
LEMMA HandlerCases ==
  ASSUME NEW t \in Handlers, Handler(t)
  PROVE  \/ Quiet(t) \/ Claim(t) \/ Prepare(t) \/ Commit(t) \/ Withdraw(t) \/ RecordExec(t)
         \/ Install(t) \/ Spawn(t) \/ Finish(t)
         \/ Gc(t) /\ \E keep, replaced : \E ok \in BOOLEAN :
                        Prune(keep, replaced, ok) /\ DropGuard(t, ok)
<1>1. CASE Gc(t) BY <1>1, GcView
<1>2. CASE ~Gc(t) BY <1>2 DEF Handler, Quiet
<1>3. QED BY <1>1, <1>2

-----------------------------------------------------------------------------
(***************************************************************************)
(* One operation for each request.                                         *)
(***************************************************************************)

\* A step of handler t that stores no entry.
LEMMA ActiveMove ==
  ASSUME TypeOK, RequestInv, NEW t \in Handlers, Others(t),
         phase = "serving", phase' = "serving", UNCHANGED <<reqLog, requests, owing>>,
         hs'[t].pc \in ActivePcs => hs[t].pc \in ActivePcs /\ hs'[t].req = hs[t].req
  PROVE  RequestInv'
<1>1. AgreeInv' BY DEF RequestInv, AgreeInv, Up
<1>2. ClaimInv' BY DEF RequestInv, ClaimInv, Others
<1>3. QED BY <1>1, <1>2 DEF RequestInv

\* Every step of a handler keeps tables, log and handlers in agreement.
LEMMA RequestHandler ==
  ASSUME TypeOK, RequestInv, NEW t \in Handlers, Handler(t)
  PROVE  RequestInv'
<1> USE DEF wsVars, histVars, budgetVars, UnchangedHist, UnchangedStore, storeVars,
            diskVars, tableVars, pruneHist, At
<1>0. hs[t] \in HandlerState /\ (hs[t].pc # "idle" => Req(t) \in Requests) /\ Req(t) = hs[t].req
  BY DEF TypeOK, Req
<1>i. hs' = [hs EXCEPT ![t] = Idle] => Others(t) /\ hs'[t].pc = "idle"
  BY DEF TypeOK, Others, Idle
<1>a. \A u \in Handlers : hs[u].pc \in ActivePcs => hs[u].req \in Requests
  BY DEF TypeOK, ActivePcs
<1>1. CASE Quiet(t)
  BY <1>1, QuietView, ActiveMove DEF QuietMoves, ActivePcs, Pcs
<1>2. CASE Claim(t)
  <2>0. hs[t].pc = "claim" /\ Req(t) \in Requests /\ phase = "serving" /\ phase' = "serving"
        /\ UNCHANGED owing
    BY <1>0, <1>2 DEF Claim
  <2>1. CASE ~Claimable(Req(t))
    BY <1>2, <1>i, <2>0, <2>1, ActiveMove DEF Claim, ActivePcs
  <2>2. CASE Claimable(Req(t))
    <3>1. PICK w \in AppendResults :
            /\ ClaimRequest(Req(t), w)
            /\ IF w # "ok" THEN hs' = [hs EXCEPT ![t] = Idle]
               ELSE Goto(t, IF OpOf(t) = "exec" THEN "spawn" ELSE "guard")
      BY <1>2, <2>2 DEF Claim
    <3>2. requests[Req(t)].status = "unknown" BY <2>2 DEF Claimable, Known
    <3>3. /\ \A s \in Requests : s # Req(t) => reqLog'[s] = reqLog[s] /\ requests'[s] = requests[s]
          /\ reqLog'[Req(t)] = reqLog[Req(t)] \/ reqLog'[Req(t)] = InProgress
          /\ IF w = "ok" THEN reqLog'[Req(t)] = InProgress /\ requests'[Req(t)] = InProgress
                         ELSE requests' = requests
      BY <2>0, <3>1, EntryType, RequestView DEF ClaimRequest
    <3>4. InProgress.status = "inprogress" BY DEF InProgress
    <3>5. /\ Others(t) /\ (hs'[t].req = Req(t) \/ hs'[t].pc = "idle")
          /\ w # "ok" => hs'[t].pc = "idle"
      BY <1>0, <1>i, <3>1, GotoView
    <3>6. Others(t) BY <1>i, <3>1, GotoView
    <3>7. AgreeInv' BY <2>0, <3>2, <3>3, <3>4 DEF RequestInv, AgreeInv, Up
    <3>8. ClaimInv'
      BY <1>a, <2>0, <3>2, <3>3, <3>4, <3>5, <3>6 DEF RequestInv, ClaimInv, Others, ActivePcs
    <3>9. QED BY <3>7, <3>8 DEF RequestInv
  <2>3. QED BY <2>1, <2>2
<1>3. CASE Prepare(t)
  <2>1. Others(t) /\ hs'[t].req = hs[t].req
    <3>1. PICK q \in Ids, w \in AppendResults :
            IF w = "ok"
             THEN /\ hs' = [hs EXCEPT ![t].id = q,
                              ![t].pc = IF OpOf(t) = "edit" THEN "verify" ELSE "install"]
                  /\ UNCHANGED guard
             ELSE DropGuard(t, FALSE)
      BY <1>3 DEF Prepare
    <3>2. CASE w = "ok" BY <3>1, <3>2 DEF TypeOK, HandlerState, Others
    <3>3. CASE w # "ok" BY <3>1, <3>3, DropView
    <3>4. QED BY <3>2, <3>3
  <2>2. QED BY <1>3, <2>1, ActiveMove DEF Prepare, ActivePcs, Pcs
<1>4. CASE Commit(t) \/ Withdraw(t)
  <2>1. \E ok \in BOOLEAN : DropGuard(t, ok) BY <1>4 DEF Commit, Withdraw
  <2>2. Others(t) /\ hs'[t].req = hs[t].req BY <2>1, DropView
  <2>3. QED BY <1>4, <2>2, ActiveMove DEF Commit, Withdraw, ActivePcs, Pcs
<1>5. CASE RecordExec(t)
  <2>1. Others(t) /\ hs'[t].req = hs[t].req
    BY <1>5 DEF RecordExec, TypeOK, HandlerState, Others
  <2>2. QED BY <1>5, <2>1, ActiveMove DEF RecordExec, ActivePcs, Pcs
<1>6. CASE Install(t)
  <2>1. Others(t) /\ hs'[t].req = hs[t].req BY <1>6, GotoView DEF Install
  <2>2. QED BY <1>6, <2>1, ActiveMove DEF Install, ActivePcs, Pcs
<1>7. CASE Spawn(t)
  <2>1. Others(t) /\ hs'[t].req = hs[t].req
    BY <1>7 DEF Spawn, TypeOK, HandlerState, Others
  <2>2. QED BY <1>7, <2>1, ActiveMove DEF Spawn, ActivePcs, Pcs
<1>8. ASSUME NEW keep, NEW replaced, NEW ok \in BOOLEAN, Gc(t), Prune(keep, replaced, ok),
             DropGuard(t, ok)
      PROVE  RequestInv'
  <2>1. Others(t) /\ hs'[t].req = hs[t].req BY <1>8, DropView
  <2>2. /\ \A r \in Requests :
             \/ requests'[r] = requests[r]
             \/ requests'[r] = NoEntry /\ requests[r].status # "inprogress"
        /\ reqLog' = reqLog \/ reqLog' = requests'
    BY <1>8, PruneView
  <2>3. NoEntry.status = "unknown" BY DEF NoEntry
  <2>4. phase = "serving" /\ phase' = "serving" /\ owing' = owing /\ hs[t].pc = "check"
    BY <1>8 DEF Gc
  <2>5. AgreeInv' BY <2>2, <2>3, <2>4 DEF RequestInv, AgreeInv, Up
  <2>6. ClaimInv'
    BY <1>a, <2>1, <2>2, <2>3, <2>4 DEF RequestInv, ClaimInv, Others, ActivePcs, Pcs
  <2>7. QED BY <2>5, <2>6 DEF RequestInv
<1>9. CASE Finish(t)
  <2>0. /\ hs[t].pc = "finish" /\ Req(t) \in Requests /\ phase = "serving" /\ phase' = "serving"
        /\ UNCHANGED owing /\ Others(t) /\ hs'[t].pc = "idle"
    BY <1>0, <1>9, <1>i DEF Finish
  <2> DEFINE result == IF hs[t].ok THEN Done(hs[t].id) ELSE Failed
  <2>1. PICK w : AppendRequestTracked(Req(t), result, w) BY <1>9 DEF Finish
  <2>2. result \in Entry /\ result.status \in {"done", "error"}
    BY <1>0, EntryType DEF HandlerState, Done, Failed
  <2> HIDE DEF result
  <2>3. /\ \A s \in Requests : s # Req(t) => reqLog'[s] = reqLog[s] /\ requests'[s] = requests[s]
        /\ reqLog'[Req(t)] = reqLog[Req(t)] \/ reqLog'[Req(t)] = result
        /\ IF w = "ok" THEN reqLog'[Req(t)] = result /\ requests'[Req(t)] = result
                       ELSE requests' = requests
    BY <2>0, <2>1, <2>2, RequestView
  <2>4. requests[Req(t)].status = "inprogress"
    BY <1>0, <2>0 DEF RequestInv, ClaimInv, ActivePcs, Pcs
  <2>5. AgreeInv' BY <2>0, <2>2, <2>3, <2>4 DEF RequestInv, AgreeInv, Up
  <2>6. ClaimInv'
    BY <1>a, <1>0, <2>0, <2>3 DEF RequestInv, ClaimInv, Others, ActivePcs, Pcs
  <2>7. QED BY <2>5, <2>6 DEF RequestInv
<1>10. QED BY <1>1, <1>2, <1>3, <1>4, <1>5, <1>6, <1>7, <1>8, <1>9, HandlerCases

\* And so does every other step.
LEMMA RequestNext ==
  ASSUME TypeOK, GuardInv, RequestInv, [Next]_vars
  PROVE  RequestInv'
<1> USE DEF wsVars, histVars, budgetVars, UnchangedHist, UnchangedStore, storeVars,
            diskVars, tableVars, pruneHist
<1>f. ASSUME UNCHANGED <<phase, owing, reqLog, requests, opsLog, records, hs>>
      PROVE  RequestInv'
  BY <1>f DEF RequestInv, AgreeInv, ClaimInv, Up
<1>d. ASSUME phase' \notin {"recover", "serving"}, owing'.req = None,
             \A t \in Handlers : hs'[t] = Idle
      PROVE  RequestInv'
  BY <1>d DEF RequestInv, AgreeInv, ClaimInv, Up, Idle, ActivePcs
<1>n. NothingOwed.req = None BY DEF NothingOwed
<1>h. phase # "serving" => \A t \in Handlers : hs[t] = Idle BY DEF GuardInv
<1>c. (\A t \in Handlers : hs'[t] = Idle) => ClaimInv' BY DEF ClaimInv, Idle, ActivePcs
<1>1. ASSUME NEW r \in Requests, Replay(r) PROVE RequestInv' BY <1>1, <1>f DEF Replay
<1>2. ASSUME NEW t \in Handlers, NEW r \in Requests, Receive(t, r) PROVE RequestInv'
  <2>1. Others(t) /\ hs'[t].pc = "claim" BY <1>2 DEF Receive, TypeOK, Others, Idle
  <2>2. QED BY <1>2, <2>1, ActiveMove DEF Receive, At, ActivePcs
<1>3. ASSUME NEW t \in Handlers, Handler(t) PROVE RequestInv' BY <1>3, RequestHandler
<1>4. CASE StartUp
  <2>0. phase # "serving" /\ hs' = hs
    BY <1>4 DEF StartUp, Start, RecoverMarker, Recovering, RecoverRemember, ResolveStuck,
                StartupPrune, GiveUp
  <2>c. ClaimInv' BY <1>c, <1>h, <2>0
  <2>1. CASE Start
    <3>1. /\ phase = "down" /\ phase' = "recover" /\ requests' = reqLog /\ UNCHANGED <<reqLog, opsLog, owing>>
          /\ records' = [o \in Ids |-> IF opsLog[o].tag = "aborted" THEN NoRecord ELSE opsLog[o]]
      BY <2>1 DEF Start, Load
    <3>2. AgreeInv' BY <3>1 DEF RequestInv, AgreeInv, Up
    <3>3. QED BY <2>c, <3>2 DEF RequestInv
  <2>2. ASSUME NEW q \in Ids, RecoverMarker(q) PROVE RequestInv'
    <3> DEFINE p == records[q]
               outcome == RecoveryOutcome(q, file[PathOf(p.req)])
               tag == IF outcome = "committed" THEN "fs" ELSE "aborted"
               rec == Stamped(tag, p.req, p.before)
    <3>1. PICK w \in AppendResults :
            /\ AppendRecordTracked(q, rec, w)
            /\ phase' = IF w = "ok" THEN phase ELSE "failed"
            /\ owing' = IF w # "ok" \/ outcome = "noop" THEN NothingOwed
                        ELSE [req |-> p.req,
                              entry |-> IF outcome = "committed" THEN Done(q) ELSE Failed]
      BY <2>2 DEF RecoverMarker, CommitFsRecord, AbortPrepared
    <3>2. phase = "recover" /\ UNCHANGED <<reqLog, requests>> BY <2>2 DEF RecoverMarker, Recovering
    <3>3. rec.tag = tag /\ tag # "none" BY DEF Stamped
    <3> HIDE DEF rec, tag, outcome
    <3>4. CASE w # "ok" BY <1>d, <1>n, <1>h, <2>0, <3>1, <3>4
    <3>5. CASE w = "ok"
      <4>1. /\ opsLog' = [opsLog EXCEPT ![q] = rec]
            /\ records' = [records EXCEPT ![q] = IF rec.tag = "aborted" THEN NoRecord ELSE rec]
            /\ phase' = "recover"
        BY <3>1, <3>2, <3>5 DEF AppendRecordTracked, OnDisk
      <4>2. records = [o \in Ids |-> IF opsLog[o].tag = "aborted" THEN NoRecord ELSE opsLog[o]]
        BY <3>2 DEF RequestInv, AgreeInv
      <4>3. records' = [o \in Ids |-> IF opsLog'[o].tag = "aborted" THEN NoRecord ELSE opsLog'[o]]
        BY <4>1, <4>2 DEF TypeOK, StoreTypeOK
      <4>4. owing'.req # None => owing'.entry.status \in {"done", "error"}
        BY <1>n, <3>1 DEF Done, Failed
      <4>5. AgreeInv' BY <3>2, <4>1, <4>3, <4>4 DEF RequestInv, AgreeInv, Up
      <4>6. QED BY <2>c, <4>5 DEF RequestInv
    <3>6. QED BY <3>4, <3>5
  <2>3. CASE RecoverRemember
    <3>1. PICK w \in AppendResults : /\ AppendRequestTracked(owing.req, owing.entry, w)
                                    /\ phase' = IF w = "ok" THEN phase ELSE "failed"
      BY <2>3 DEF RecoverRemember
    <3>2. /\ phase = "recover" /\ owing.req # None /\ owing' = NothingOwed
          /\ UNCHANGED <<opsLog, records>>
      BY <2>3 DEF RecoverRemember
    <3>3. owing.req \in Requests /\ owing.entry \in Entry BY <3>2 DEF TypeOK
    <3>4. CASE w # "ok" BY <1>d, <1>n, <1>h, <2>0, <3>1, <3>2, <3>4
    <3>5. CASE w = "ok"
      <4>1. /\ \A s \in Requests : s # owing.req => reqLog'[s] = reqLog[s] /\ requests'[s] = requests[s]
            /\ reqLog'[owing.req] = owing.entry /\ requests'[owing.req] = owing.entry
        BY <3>1, <3>3, <3>5, RequestView
      <4>2. AgreeInv' BY <1>n, <3>1, <3>2, <3>5, <4>1 DEF RequestInv, AgreeInv, Up
      <4>3. QED BY <2>c, <4>2 DEF RequestInv
    <3>6. QED BY <3>4, <3>5
  <2>4. ASSUME NEW r \in Requests, ResolveStuck(r) PROVE RequestInv'
    <3>1. phase = "recover" /\ phase' = "recover" /\ UNCHANGED <<opsLog, records, reqLog>>
      BY <2>4 DEF ResolveStuck, Recovering
    <3>2. \A s \in Requests : requests'[s] = requests[s] \/ requests'[s] = NoEntry
      BY <2>4 DEF ResolveStuck, TypeOK, StoreTypeOK
    <3>3. NoEntry.status = "unknown" BY DEF NoEntry
    <3>4. owing'.req # None => owing'.entry.status \in {"done", "error"}
      BY <2>4 DEF ResolveStuck, Reconstructed, Done, Failed, RequestInv, AgreeInv
    <3>5. AgreeInv' BY <3>1, <3>2, <3>3, <3>4 DEF RequestInv, AgreeInv, Up
    <3>6. QED BY <2>c, <3>5 DEF RequestInv
  <2>5. CASE StartupPrune
    <3>1. phase = "recover" /\ phase' \in {"serving", "failed"} /\ owing' = owing /\ owing.req = None
      BY <2>5 DEF StartupPrune, Recovering
    <3>2. CASE UNCHANGED storeVars BY <2>c, <3>1, <3>2 DEF RequestInv, AgreeInv, Up
    <3>3. ASSUME NEW keep, NEW replaced, NEW ok, Prune(keep, replaced, ok) PROVE RequestInv'
      <4>1. /\ \A r \in Requests :
                 \/ requests'[r] = requests[r]
                 \/ requests'[r] = NoEntry /\ requests[r].status # "inprogress"
            /\ reqLog' = reqLog \/ reqLog' = requests'
        BY <3>3, PruneView
      <4>2. NoEntry.status = "unknown" BY DEF NoEntry
      <4>3. AgreeInv' BY <3>1, <4>1, <4>2 DEF RequestInv, AgreeInv, Up
      <4>4. QED BY <2>c, <4>3 DEF RequestInv
    <3>4. QED BY <2>5, <3>2, <3>3 DEF StartupPrune
  <2>6. CASE GiveUp
    BY <1>d, <1>h, <2>0, <2>6 DEF GiveUp, RequestInv, AgreeInv
  <2>7. QED BY <1>4, <2>1, <2>2, <2>3, <2>4, <2>5, <2>6 DEF StartUp
<1>5. CASE Die BY <1>5, <1>d, <1>n DEF Die
<1>6. ASSUME NEW p \in Paths, NEW c \in FileState, ExternalWrite(p, c) PROVE RequestInv'
  BY <1>6, <1>f DEF ExternalWrite
<1>7. ASSUME NEW w \in 0 .. clock.wall, ClockSteps(w) PROVE RequestInv'
  BY <1>7, <1>f DEF ClockSteps
<1>8. CASE UNCHANGED vars BY <1>8, <1>f DEF vars
<1>9. QED BY <1>1, <1>2, <1>3, <1>4, <1>5, <1>6, <1>7, <1>8 DEF Next, Crash, PowerLoss

\* A non-empty set of natural numbers has a least element.
LEMMA LeastNat ==
  ASSUME NEW S \in SUBSET Nat, S # {}
  PROVE  \E x \in S : \A y \in S : x <= y
<1>1. PICK x \in S : \A y \in S : <<y, x>> \notin OpToRel(<, Nat)
  BY NatLessThanWellFounded, WFMin
<1>2. \A y \in S : ~(y < x) BY <1>1 DEF OpToRel
<1>3. QED BY <1>2

\* find_committed_by_request_id finds a record when there is one.
LEMMA FirstCommitted ==
  ASSUME TypeOK, NEW r, NEW o \in Ids, Committed(records[o]), records[o].req = r
  PROVE  CommittedFor(r) # {}
<1> DEFINE S == {q \in Ids : Committed(records[q]) /\ records[q].req = r}
<1>1. slot \in [Ids -> Nat] /\ Ids \subseteq Nat BY DEF TypeOK, StoreTypeOK, Ids
<1>2. PICK m \in {slot[q] : q \in S} : \A n \in {slot[q] : q \in S} : m <= n
  <2>1. {slot[q] : q \in S} # {} /\ {slot[q] : q \in S} \in SUBSET Nat BY <1>1
  <2>2. QED BY <2>1, LeastNat
<1> DEFINE T == {q \in S : slot[q] = m}
<1>3. PICK x \in T : \A y \in T : x <= y
  <2>1. T # {} /\ T \in SUBSET Nat BY <1>1, <1>2
  <2>2. QED BY <2>1, LeastNat
<1>4. x \in CommittedFor(r)
  BY <1>1, <1>2, <1>3 DEF CommittedFor, Later
<1>5. QED BY <1>4

\* What a step may do with one request, and keep NamedInv.
NamedMove(r) ==
  /\ forgets[r] <= forgets'[r]
  /\ \/ Named(r)' \subseteq Named(r)
     \/ Untouched(r) /\ ~Untouched(r)' /\ \E o \in Ids : Named(r)' \subseteq Named(r) \cup {o}
  /\ Untouched(r)' => \/ Untouched(r) \/ forgets[r] < forgets'[r]
                      \/ Undecided(r) /\ Named(r)' \subseteq told[r]
  /\ Undecided(r)' => told'[r] \subseteq told[r] /\ (Undecided(r) \/ Untouched(r))

\* Steps that move every request so keep NamedInv.
LEMMA NamedStep ==
  ASSUME TypeOK, TypeOK', NamedInv, \A r \in Requests : NamedMove(r)
  PROVE  NamedInv'
<1> SUFFICES ASSUME NEW r \in Requests
             PROVE  /\ Cardinality(Named(r)') <= 1 + forgets'[r]
                    /\ Untouched(r)' => Cardinality(Named(r)') <= forgets'[r]
                    /\ Undecided(r)' => Cardinality(told'[r]) <= forgets'[r]
  BY DEF NamedInv
<1>1. IsFiniteSet(Ids) BY FS_Interval DEF Ids
<1>2. \A S \in SUBSET Ids : IsFiniteSet(S) /\ Cardinality(S) \in Nat
  BY <1>1, FS_Subset, FS_CardinalityType
<1>3. \A S, T \in SUBSET Ids : S \subseteq T => Cardinality(S) <= Cardinality(T)
  BY <1>2, FS_Subset
<1>4. Named(r) \in SUBSET Ids /\ Named(r)' \in SUBSET Ids BY DEF Named
<1>5. told[r] \in SUBSET Ids /\ told'[r] \in SUBSET Ids /\ told[r] \subseteq Named(r)
  BY DEF TypeOK, Named
<1>6. forgets[r] \in Nat /\ forgets'[r] \in Nat BY DEF TypeOK, StoreTypeOK
<1>7. \A o \in Ids : Cardinality(Named(r) \cup {o}) <= Cardinality(Named(r)) + 1
  BY <1>2, <1>4, FS_AddElement
<1>8. /\ Cardinality(Named(r)) <= 1 + forgets[r]
      /\ Untouched(r) => Cardinality(Named(r)) <= forgets[r]
      /\ Undecided(r) => Cardinality(told[r]) <= forgets[r]
  BY DEF NamedInv
<1>9. /\ Cardinality(Named(r)) \in Nat /\ Cardinality(Named(r)') \in Nat
      /\ Cardinality(told[r]) \in Nat /\ Cardinality(told'[r]) \in Nat
      /\ Cardinality(told[r]) <= Cardinality(Named(r))
  BY <1>2, <1>3, <1>4, <1>5
<1>m. NamedMove(r) OBVIOUS
<1>10. \/ Cardinality(Named(r)') <= Cardinality(Named(r))
       \/ Untouched(r) /\ ~Untouched(r)' /\ Cardinality(Named(r)') <= Cardinality(Named(r)) + 1
  <2>1. CASE Named(r)' \subseteq Named(r) BY <1>3, <1>4, <2>1
  <2>2. CASE ~(Named(r)' \subseteq Named(r))
    <3>1. PICK o \in Ids : Named(r)' \subseteq Named(r) \cup {o} BY <1>m, <2>2 DEF NamedMove
    <3>2. Untouched(r) /\ ~Untouched(r)' BY <1>m, <2>2 DEF NamedMove
    <3>3. Named(r) \cup {o} \in SUBSET Ids BY <1>4
    <3>4. /\ Cardinality(Named(r)') <= Cardinality(Named(r) \cup {o})
          /\ Cardinality(Named(r) \cup {o}) \in Nat
      BY <1>2, <1>3, <1>4, <3>1, <3>3
    <3>5. QED BY <1>7, <1>9, <3>2, <3>4
  <2>3. QED BY <2>1, <2>2
<1>11. Undecided(r)' => /\ Cardinality(told'[r]) <= Cardinality(told[r])
                        /\ Undecided(r) \/ Untouched(r)
  BY <1>m, <1>3, <1>5 DEF NamedMove
<1>12. Untouched(r)' => \/ Untouched(r) \/ forgets[r] < forgets'[r]
                        \/ Undecided(r) /\ Cardinality(Named(r)') <= Cardinality(told[r])
  BY <1>m, <1>3, <1>4, <1>5 DEF NamedMove
<1>13. forgets[r] <= forgets'[r] BY <1>m DEF NamedMove
<1>14. QED BY <1>6, <1>8, <1>9, <1>10, <1>11, <1>12, <1>13

\* A step after which every name was one before.
LEMMA NamedFrame ==
  ASSUME NEW r \in Requests, NEW S,
         forgets[r] \in Nat, forgets'[r] = forgets[r], told'[r] \subseteq told[r] \cup S,
         \A o \in Ids : Names(requests'[r], o) => o \in Named(r),
         \A o \in Ids : Names(reqLog'[r], o) => o \in Named(r),
         owing'.req = r => \A o \in Ids : Names(owing'.entry, o) => o \in Named(r),
         \A o \in Ids : Keeps(opsLog'[o], r) \/ Keeps(records'[o], r) => o \in Named(r),
         \A u \in Handlers : hs'[u].req = r /\ hs'[u].id \in Ids => hs'[u].id \in Named(r),
         S \subseteq Named(r), S # {} => ~Undecided(r)',
         Untouched(r)' => Untouched(r),
         Undecided(r)' => Undecided(r) \/ Untouched(r)
  PROVE  NamedMove(r)
<1>1. told[r] \cap Ids \subseteq Named(r) BY DEF Named
<1>2. Named(r)' \subseteq Named(r) BY <1>1 DEF Named
<1>3. Undecided(r)' => told'[r] \subseteq told[r] OBVIOUS
<1>4. QED BY <1>2, <1>3 DEF NamedMove

\* A step that tells nothing, forgets nothing and names nothing new.
LEMMA NamedKept ==
  ASSUME NEW r \in Requests,
         forgets[r] \in Nat, forgets'[r] = forgets[r], told'[r] = told[r],
         \A o \in Ids : Names(requests'[r], o) => o \in Named(r),
         \A o \in Ids : Names(reqLog'[r], o) => o \in Named(r),
         owing'.req = r => \A o \in Ids : Names(owing'.entry, o) => o \in Named(r),
         \A o \in Ids : Keeps(opsLog'[o], r) \/ Keeps(records'[o], r) => o \in Named(r),
         \A u \in Handlers : hs'[u].req = r /\ hs'[u].id \in Ids => hs'[u].id \in Named(r),
         Untouched(r)' => Untouched(r),
         Undecided(r)' => Undecided(r) \/ Untouched(r)
  PROVE  NamedMove(r)
<1>1. Named(r)' \subseteq Named(r) BY DEF Named
<1>2. QED BY <1>1 DEF NamedMove

\* What is named already.
LEMMA NamedNow ==
  ASSUME NEW r
  PROVE  /\ \A o \in Ids : Names(requests[r], o) \/ Names(reqLog[r], o) => o \in Named(r)
         /\ owing.req = r => \A o \in Ids : Names(owing.entry, o) => o \in Named(r)
         /\ \A o \in Ids : Keeps(opsLog[o], r) \/ Keeps(records[o], r) => o \in Named(r)
         /\ \A t \in Handlers : hs[t].req = r /\ hs[t].id \in Ids => hs[t].id \in Named(r)
BY DEF Named

\* Tell, seen from one request.
LEMMA TellView ==
  ASSUME TypeOK, NEW s \in Requests, NEW e \in Entry, Tell(s, e), NEW r \in Requests
  PROVE  told'[r] \subseteq told[r] \cup (IF r = s /\ Success(e) THEN {e.id} ELSE {})
BY DEF Tell, TypeOK, Success

\* prune, whoever calls it.
LEMMA NamedPrune ==
  ASSUME TypeOK, RequestInv, NEW r \in Requests, NEW keep, NEW replaced, NEW ok,
         Prune(keep, replaced, ok), Up, owing' = owing, told' = told,
         \A u \in Handlers : /\ hs'[u].req = hs[u].req /\ hs'[u].id = hs[u].id
                             /\ hs'[u].pc \in ClaimedPcs => hs[u].pc \in ClaimedPcs
  PROVE  NamedMove(r)
<1>1. /\ \A o \in Ids : records'[o] = records[o] \/ records'[o] = NoRecord
      /\ \/ requests'[r] = requests[r] /\ forgets'[r] = forgets[r]
         \/ /\ requests'[r] = NoEntry /\ requests[r].status # "inprogress"
            /\ forgets'[r] = forgets[r] + 1
         \/ /\ requests'[r] = NoEntry /\ requests[r].status = "unknown"
            /\ forgets'[r] = forgets[r]
      /\ opsLog' = opsLog \/ opsLog' = records'
      /\ reqLog' = reqLog \/ reqLog' = requests'
  BY PruneView
<1>2. NoEntry.status = "unknown" /\ NoRecord.tag = "none" BY DEF NoEntry, NoRecord
<1>3. forgets[r] \in Nat BY DEF TypeOK, StoreTypeOK
<1>4. Named(r)' \subseteq Named(r) BY <1>1, <1>2 DEF Named, Names, Keeps
<1>5. Untouched(r)' => Untouched(r) \/ forgets'[r] = forgets[r] + 1
  BY <1>1, <1>2 DEF Untouched
<1>6. Undecided(r)' => Undecided(r) BY <1>1, <1>2 DEF Undecided
<1>7. QED BY <1>1, <1>3, <1>4, <1>5, <1>6 DEF NamedMove

\* A handler's step gives its request at most one new operation, and its last
\* one.
LEMMA NamedHandler ==
  ASSUME TypeOK, TypeOK', HandlerInv, RequestInv, NEW t \in Handlers, Handler(t),
         NEW r \in Requests
  PROVE  NamedMove(r)
<1> USE DEF wsVars, histVars, budgetVars, UnchangedHist, UnchangedStore, storeVars,
            diskVars, tableVars, pruneHist, At
<1>0. hs[t] \in HandlerState /\ (hs[t].pc # "idle" => Req(t) \in Requests) /\ Req(t) = hs[t].req
  BY DEF TypeOK, Req
<1>i. hs' = [hs EXCEPT ![t] = Idle] => Others(t) /\ hs'[t] = Idle
  BY DEF TypeOK, Others
<1>j. Idle.id \notin Ids /\ Idle.pc = "idle" BY DEF Idle, Ids
<1>f. forgets[r] \in Nat /\ requests[r] \in Entry /\ requests[r].id \in 0 .. MaxOps
  BY DEF TypeOK, StoreTypeOK, Entry
<1>s. ASSUME Others(t), UNCHANGED <<told, requests, reqLog, owing, opsLog, records, forgets>>,
             phase = "serving", phase' = "serving",
             hs'[t].req = hs[t].req, hs'[t].id = hs[t].id,
             hs'[t].pc \in ClaimedPcs => hs[t].pc \in ClaimedPcs
      PROVE  NamedMove(r)
  <2>1. \A u \in Handlers : /\ hs'[u].req = hs[u].req /\ hs'[u].id = hs[u].id
                            /\ hs'[u].pc \in ClaimedPcs => hs[u].pc \in ClaimedPcs
    BY <1>s DEF Others
  <2>2. Untouched(r)' => Untouched(r) BY <1>s, <2>1 DEF Untouched, Up
  <2>3. Undecided(r)' => Undecided(r) BY <1>s DEF Undecided, Up
  <2>4. Named(r)' \subseteq Named(r) BY <1>s, <2>1 DEF Named
  <2>5. QED BY <1>f, <1>s, <2>2, <2>3, <2>4 DEF NamedMove
<1>1. CASE Quiet(t)
  BY <1>1, <1>s, QuietView DEF QuietMoves, ClaimedPcs
<1>2. CASE Install(t)
  <2>1. Others(t) /\ hs'[t].req = hs[t].req /\ hs'[t].id = hs[t].id /\ hs'[t].pc = "sync"
    BY <1>2, GotoView DEF Install
  <2>2. QED BY <1>2, <1>s, <2>1 DEF Install, ClaimedPcs
<1>3. CASE Claim(t)
  <2>0. hs[t].pc = "claim" /\ Req(t) \in Requests /\ phase = "serving" /\ phase' = "serving"
        /\ UNCHANGED <<owing, opsLog, records, forgets>>
    BY <1>0, <1>3 DEF Claim
  <2>1. CASE ~Claimable(Req(t))
    <3>1. /\ Tell(Req(t), requests[Req(t)]) /\ hs' = [hs EXCEPT ![t] = Idle]
          /\ UNCHANGED <<requests, reqLog>>
      BY <1>3, <2>1 DEF Claim
    <3>2. requests[Req(t)] \in Entry BY <2>0 DEF TypeOK, StoreTypeOK
    <3> DEFINE S == IF r = Req(t) /\ Success(requests[Req(t)]) THEN {requests[Req(t)].id} ELSE {}
    <3>3. told'[r] \subseteq told[r] \cup S BY <2>0, <3>1, <3>2, TellView
    <3>4. S # {} => requests[r].status = "done" /\ reqLog[r] = requests[r]
      BY <2>0 DEF Success, RequestInv, AgreeInv, Up
    <3>5. S \subseteq Named(r)
      BY <1>f, <3>2, NamedNow DEF Success, Names, Ids
    <3>6. S # {} => ~Undecided(r)' BY <3>1, <3>4 DEF Undecided
    <3>7. Untouched(r)' => Untouched(r)
      BY <1>i, <1>j, <2>0, <3>1 DEF Untouched, Up, Others, ClaimedPcs
    <3>8. Undecided(r)' => Undecided(r) BY <2>0, <3>1 DEF Undecided, Up
    <3>9. \A u \in Handlers : hs'[u].req = r /\ hs'[u].id \in Ids => hs'[u].id \in Named(r)
      BY <1>i, <1>j, <3>1, NamedNow DEF Others
    <3> HIDE DEF S
    <3>10. QED BY <1>f, <2>0, <3>1, <3>3, <3>5, <3>6, <3>7, <3>8, <3>9, NamedFrame, NamedNow
  <2>2. CASE Claimable(Req(t))
    <3>1. PICK w \in AppendResults :
            /\ ClaimRequest(Req(t), w)
            /\ IF w # "ok" THEN hs' = [hs EXCEPT ![t] = Idle]
               ELSE Goto(t, IF OpOf(t) = "exec" THEN "spawn" ELSE "guard")
      BY <1>3, <2>2 DEF Claim
    <3>t. told' = told BY <1>3, <2>2 DEF Claim
    <3>2. requests[Req(t)].status = "unknown" BY <2>2 DEF Claimable, Known
    <3>3. /\ \A s \in Requests : s # Req(t) => reqLog'[s] = reqLog[s] /\ requests'[s] = requests[s]
          /\ reqLog'[Req(t)] = reqLog[Req(t)] \/ reqLog'[Req(t)] = InProgress
          /\ requests'[Req(t)] = requests[Req(t)] \/ requests'[Req(t)] = InProgress
      BY <2>0, <3>1, EntryType, RequestView DEF ClaimRequest
    <3>4. InProgress.status = "inprogress" BY DEF InProgress
    <3>5. hs[t].id = 0 BY <2>0 DEF HandlerInv, HandlerSound, NoIdPcs
    <3>6. Others(t) /\ ((hs'[t].id = 0 /\ hs'[t].req = Req(t)) \/ hs'[t] = Idle)
      BY <1>0, <1>i, <3>1, <3>5, GotoView
    <3>7. Untouched(Req(t)) BY <2>0, <3>2 DEF Untouched, Up
    <3>8. Untouched(r)' => Untouched(r)
      BY <1>j, <2>0, <3>3, <3>4, <3>6, <3>7 DEF Untouched, Up, Others, ClaimedPcs
    <3>9. Undecided(r)' => Undecided(r) \/ Untouched(r)
      BY <2>0, <3>3, <3>7 DEF Undecided, Up
    <3>10. \A u \in Handlers : hs'[u].req = r /\ hs'[u].id \in Ids => hs'[u].id \in Named(r)
      BY <1>j, <3>6, NamedNow DEF Others, Ids
    <3>11. \A o \in Ids : Names(requests'[r], o) \/ Names(reqLog'[r], o) => o \in Named(r)
      BY <2>0, <3>3, <3>4, NamedNow DEF Names
    <3>12. QED
      BY <1>f, <2>0, <3>t, <3>8, <3>9, <3>10, <3>11, NamedKept, NamedNow
  <2>3. QED BY <2>1, <2>2
<1>u. ASSUME hs[t].pc \in {"prepare", "spawn"}, hs'[t].pc \notin ClaimedPcs, Others(t),
             phase = "serving", phase' = "serving", UNCHANGED <<requests, reqLog>>
      PROVE  IF r = Req(t) THEN Untouched(r) /\ ~Untouched(r)' ELSE Untouched(r)' => Untouched(r)
  <2>1. r = Req(t) => Untouched(r) BY <1>0, <1>u DEF Untouched, ClaimedPcs
  <2>2. /\ requests[Req(t)].status = "inprogress" /\ reqLog[Req(t)].status # "unknown"
        /\ \A u \in Handlers \ {t} : hs[u].pc \in ActivePcs => hs[u].req # Req(t)
    BY <1>0, <1>u DEF RequestInv, ClaimInv, AgreeInv, Up, ActivePcs, Pcs
  <2>3. r = Req(t) => ~Untouched(r)'
    BY <1>u, <2>2 DEF Untouched, Others, ClaimedPcs, ActivePcs, Pcs
  <2>4. QED BY <1>u, <2>1, <2>3 DEF Untouched, Up, Others
<1>4. CASE Prepare(t)
  <2>1. PICK q \in Ids, w \in AppendResults :
          /\ PrepareFsRecord(q, Req(t), hs[t].before, w)
          /\ IF w = "ok"
             THEN /\ hs' = [hs EXCEPT ![t].id = q,
                              ![t].pc = IF OpOf(t) = "edit" THEN "verify" ELSE "install"]
                  /\ UNCHANGED guard
             ELSE DropGuard(t, FALSE)
    BY <1>4 DEF Prepare
  <2>2. /\ hs[t].pc = "prepare" /\ phase = "serving" /\ phase' = "serving" /\ Req(t) \in Requests
        /\ hs[t].before \in FileState /\ UNCHANGED <<requests, reqLog, told, owing, forgets>>
    BY <1>0, <1>4 DEF Prepare, HandlerState
  <2>3. /\ Others(t) /\ hs'[t].req = Req(t) /\ hs'[t].id \in {hs[t].id, q}
        /\ hs'[t].pc \notin ClaimedPcs
    <3>1. CASE w = "ok" BY <1>0, <2>1, <3>1 DEF TypeOK, HandlerState, Others, ClaimedPcs
    <3>2. CASE w # "ok" BY <1>0, <2>1, <3>2, DropView DEF ClaimedPcs
    <3>3. QED BY <3>1, <3>2
  <2>4. /\ \A o \in Ids : o # q => opsLog'[o] = opsLog[o] /\ records'[o] = records[o]
        /\ opsLog'[q] = opsLog[q] \/ opsLog'[q].req = Req(t)
        /\ records'[q] = records[q] \/ records'[q].req = Req(t)
    <3>1. \A tag : Stamped(tag, Req(t), hs[t].before).req = Req(t) BY DEF Stamped
    <3>2. /\ \A o \in Ids : o # q => opsLog'[o] = opsLog[o] /\ records'[o] = records[o]
          /\ opsLog'[q] \in {opsLog[q], Stamped("prepared", Req(t), hs[t].before),
                             Stamped("aborted", Req(t), hs[t].before)}
          /\ IF w = "ok" THEN records'[q] = Stamped("prepared", Req(t), hs[t].before)
                         ELSE records' = records
      BY <2>1, <2>2, PreparedView
    <3>3. QED BY <3>1, <3>2
  <2>5. IF r = Req(t) THEN Untouched(r) /\ ~Untouched(r)' ELSE Untouched(r)' => Untouched(r)
    BY <1>u, <2>2, <2>3
  <2>6. Undecided(r)' => Undecided(r) BY <2>2 DEF Undecided, Up
  <2>7. r # Req(t) => Named(r)' \subseteq Named(r)
    BY <2>2, <2>3, <2>4 DEF Named, Keeps, Others
  <2>8. r = Req(t) => Named(r)' \subseteq Named(r) \cup {q}
    BY <1>0, <2>2, <2>3, <2>4 DEF Named, Keeps, Others
  <2>9. QED BY <1>f, <2>2, <2>5, <2>6, <2>7, <2>8 DEF NamedMove
<1>5. CASE Spawn(t)
  <2>1. PICK q \in Ids : \/ hs' = [hs EXCEPT ![t].id = q, ![t].pc = "running", ![t].ok = TRUE]
                         \/ hs' = [hs EXCEPT ![t].id = q, ![t].pc = "record"]
    BY <1>5 DEF Spawn
  <2>2. /\ hs[t].pc = "spawn" /\ phase = "serving" /\ phase' = "serving"
        /\ UNCHANGED <<requests, reqLog, told, owing, forgets, opsLog, records>>
    BY <1>5 DEF Spawn
  <2>3. /\ Others(t) /\ hs'[t].req = Req(t) /\ hs'[t].id = q /\ hs'[t].pc \notin ClaimedPcs
    BY <1>0, <2>1 DEF TypeOK, HandlerState, Others, ClaimedPcs
  <2>5. IF r = Req(t) THEN Untouched(r) /\ ~Untouched(r)' ELSE Untouched(r)' => Untouched(r)
    BY <1>u, <2>2, <2>3
  <2>6. Undecided(r)' => Undecided(r) BY <2>2 DEF Undecided, Up
  <2>7. r # Req(t) => Named(r)' \subseteq Named(r) BY <2>2, <2>3 DEF Named, Others
  <2>8. r = Req(t) => Named(r)' \subseteq Named(r) \cup {q} BY <2>2, <2>3 DEF Named, Others
  <2>9. QED BY <1>f, <2>2, <2>5, <2>6, <2>7, <2>8 DEF NamedMove
<1>6. CASE Commit(t) \/ Withdraw(t) \/ RecordExec(t)
  <2>1. PICK tag, b, w : AppendRecordTracked(hs[t].id, Stamped(tag, Req(t), b), w)
    BY <1>6 DEF Commit, Withdraw, RecordExec, CommitFsRecord, AbortPrepared, AppendExecRecord
  <2>2. /\ phase = "serving" /\ phase' = "serving" /\ hs[t].pc \in MarkedPcs \cup ExecPcs
        /\ UNCHANGED <<requests, reqLog, told, owing, forgets>>
    BY <1>6 DEF Commit, Withdraw, RecordExec, MarkedPcs, ExecPcs
  <2>3. hs[t].id \in Ids BY <2>2 DEF TypeOK
  <2>4. Others(t) /\ hs'[t].req = hs[t].req /\ hs'[t].id = hs[t].id /\ hs'[t].pc = "finish"
    <3>1. CASE Commit(t) \/ Withdraw(t)
      <4>1. \E ok \in BOOLEAN : DropGuard(t, ok) BY <3>1 DEF Commit, Withdraw
      <4>2. QED BY <4>1, DropView
    <3>2. CASE RecordExec(t) BY <1>0, <3>2 DEF RecordExec, TypeOK, HandlerState, Others
    <3>3. QED BY <1>6, <3>1, <3>2
  <2>5. /\ \A o \in Ids : o # hs[t].id => opsLog'[o] = opsLog[o] /\ records'[o] = records[o]
        /\ opsLog'[hs[t].id] = opsLog[hs[t].id] \/ opsLog'[hs[t].id].req = Req(t)
        /\ \/ records'[hs[t].id] = records[hs[t].id] \/ records'[hs[t].id].req = Req(t)
           \/ records'[hs[t].id] = NoRecord
    BY <2>1, <2>3, AppendView DEF Stamped
  <2>6. NoRecord.tag = "none" BY DEF NoRecord
  <2>7. \A o \in Ids : Keeps(opsLog'[o], r) \/ Keeps(records'[o], r) => o \in Named(r)
    BY <1>0, <2>3, <2>5, <2>6, NamedNow DEF Keeps
  <2>8. Untouched(r)' => Untouched(r) BY <2>2, <2>4 DEF Untouched, Up, Others, ClaimedPcs
  <2>9. Undecided(r)' => Undecided(r) BY <2>2 DEF Undecided, Up
  <2>10. \A u \in Handlers : hs'[u].req = r /\ hs'[u].id \in Ids => hs'[u].id \in Named(r)
    BY <2>4, NamedNow DEF Others
  <2>11. QED
    BY <1>f, <2>2, <2>7, <2>8, <2>9, <2>10, NamedKept, NamedNow
<1>7. ASSUME NEW keep, NEW replaced, NEW ok \in BOOLEAN, Gc(t), Prune(keep, replaced, ok),
             DropGuard(t, ok)
      PROVE  NamedMove(r)
  <2>1. Others(t) /\ hs'[t].req = hs[t].req /\ hs'[t].id = hs[t].id /\ hs'[t].pc = "finish"
    BY <1>7, DropView
  <2>2. phase = "serving" /\ phase' = "serving" /\ owing' = owing /\ told' = told BY <1>7 DEF Gc
  <2>3. \A u \in Handlers : /\ hs'[u].req = hs[u].req /\ hs'[u].id = hs[u].id
                            /\ hs'[u].pc \in ClaimedPcs => hs[u].pc \in ClaimedPcs
    BY <2>1 DEF Others, ClaimedPcs
  <2>4. Up BY <2>2 DEF Up
  <2>5. QED BY <1>7, <2>2, <2>3, <2>4, NamedPrune
<1>8. CASE Finish(t)
  <2>0. /\ hs[t].pc = "finish" /\ Req(t) \in Requests /\ phase = "serving" /\ phase' = "serving"
        /\ UNCHANGED <<owing, opsLog, records, forgets>> /\ Others(t) /\ hs'[t] = Idle
    BY <1>0, <1>8, <1>i DEF Finish
  <2> DEFINE result == IF hs[t].ok THEN Done(hs[t].id) ELSE Failed
  <2>1. PICK w : /\ AppendRequestTracked(Req(t), result, w)
                 /\ Tell(Req(t), IF w = "ok" THEN result ELSE Failed)
    BY <1>8 DEF Finish
  <2>2. /\ result \in Entry /\ result.status \in {"done", "error"} /\ Failed \in Entry
        /\ \A o : Names(result, o) => o = hs[t].id
        /\ ~Success(Failed) /\ (Success(result) => hs[t].id \in Ids /\ result.id = hs[t].id)
    BY <1>0, EntryType DEF HandlerState, Done, Failed, Names, Success, Ids
  <2> HIDE DEF result
  <2>3. /\ \A s \in Requests : s # Req(t) => reqLog'[s] = reqLog[s] /\ requests'[s] = requests[s]
        /\ reqLog'[Req(t)] = reqLog[Req(t)] \/ reqLog'[Req(t)] = result
        /\ IF w = "ok" THEN reqLog'[Req(t)] = result /\ requests'[Req(t)] = result
                       ELSE requests' = requests
    BY <2>0, <2>1, <2>2, RequestView
  <2> DEFINE S == IF r = Req(t) /\ Success(IF w = "ok" THEN result ELSE Failed)
                  THEN {(IF w = "ok" THEN result ELSE Failed).id} ELSE {}
  <2>4. told'[r] \subseteq told[r] \cup S BY <2>0, <2>1, <2>2, TellView
  <2>5. S \subseteq Named(r) BY <1>0, <2>2, NamedNow
  <2>6. S # {} => ~Undecided(r)' BY <2>0, <2>2, <2>3 DEF Undecided
  <2>7. Untouched(r)' => Untouched(r)
    BY <1>j, <2>0, <2>2, <2>3 DEF Untouched, Up, Others, ClaimedPcs
  <2>8. Undecided(r)' => Undecided(r) BY <2>0, <2>2, <2>3 DEF Undecided, Up
  <2>9. \A u \in Handlers : hs'[u].req = r /\ hs'[u].id \in Ids => hs'[u].id \in Named(r)
    BY <1>j, <2>0, NamedNow DEF Others
  <2>10. \A o \in Ids : Names(requests'[r], o) \/ Names(reqLog'[r], o) => o \in Named(r)
    BY <1>0, <2>0, <2>2, <2>3, NamedNow
  <2> HIDE DEF S
  <2>11. QED BY <1>f, <2>0, <2>4, <2>5, <2>6, <2>7, <2>8, <2>9, <2>10, NamedFrame, NamedNow
<1>9. QED BY <1>1, <1>2, <1>3, <1>4, <1>5, <1>6, <1>7, <1>8, HandlerCases

\* So does every step; recovery names what the log already names.
LEMMA NamedMoves ==
  ASSUME TypeOK, TypeOK', GuardInv, HandlerInv, RequestInv, [Next]_vars, NEW r \in Requests
  PROVE  NamedMove(r)
<1> USE DEF wsVars, histVars, budgetVars, UnchangedHist, UnchangedStore, storeVars,
            diskVars, tableVars, pruneHist
<1>f. forgets[r] \in Nat BY DEF TypeOK, StoreTypeOK
<1>e. NoEntry.status = "unknown" /\ NoRecord.tag = "none" /\ NothingOwed.req = None /\ None # r
      /\ Idle.req = None /\ Idle.pc = "idle"
  BY DEF NoEntry, NoRecord, NothingOwed, Idle
<1>s. ASSUME UNCHANGED <<told, requests, reqLog, owing, opsLog, records, forgets, hs, phase>>
      PROVE  NamedMove(r)
  BY <1>s, <1>f DEF NamedMove, Named, Untouched, Undecided, Up
<1>d. ASSUME ~Up', owing' = NothingOwed \/ owing' = owing, \A t \in Handlers : hs'[t] = Idle,
             requests' = [s \in Requests |-> NoEntry], records' = [o \in Ids |-> NoRecord],
             UNCHANGED <<told, reqLog, opsLog, forgets>>
      PROVE  NamedMove(r)
  <2>1. Named(r)' \subseteq Named(r) BY <1>d, <1>e DEF Named, Names, Keeps
  <2>2. Untouched(r)' => Untouched(r) BY <1>d, <1>e DEF Untouched, ClaimedPcs
  <2>3. Undecided(r)' => Undecided(r) BY <1>d DEF Undecided
  <2>4. QED BY <1>d, <1>f, <2>1, <2>2, <2>3 DEF NamedMove
<1>1. ASSUME NEW s \in Requests, Replay(s) PROVE NamedMove(r)
  <2>1. /\ Tell(s, requests[s]) /\ phase = "serving"
        /\ UNCHANGED <<requests, reqLog, owing, opsLog, records, forgets, hs, phase>>
    BY <1>1 DEF Replay
  <2>2. requests[s] \in Entry BY DEF TypeOK, StoreTypeOK
  <2> DEFINE S == IF r = s /\ Success(requests[s]) THEN {requests[s].id} ELSE {}
  <2>3. told'[r] \subseteq told[r] \cup S BY <2>1, <2>2, TellView
  <2>4. S # {} => requests[r].status = "done" /\ reqLog[r] = requests[r]
    BY <2>1 DEF Success, RequestInv, AgreeInv, Up
  <2>5. S \subseteq Named(r) BY <2>2, NamedNow DEF Success, Names, Ids, Entry
  <2>6. S # {} => ~Undecided(r)' BY <2>1, <2>4 DEF Undecided
  <2>7. Untouched(r)' => Untouched(r) BY <2>1 DEF Untouched, Up
  <2>8. Undecided(r)' => Undecided(r) BY <2>1 DEF Undecided, Up
  <2> HIDE DEF S
  <2>9. QED BY <1>f, <2>1, <2>3, <2>5, <2>6, <2>7, <2>8, NamedFrame, NamedNow
<1>2. ASSUME NEW t \in Handlers, NEW s \in Requests, Receive(t, s) PROVE NamedMove(r)
  <2>1. /\ Others(t) /\ hs'[t].pc = "claim" /\ hs'[t].id = 0
        /\ UNCHANGED <<told, requests, reqLog, owing, opsLog, records, forgets, phase>>
    BY <1>2 DEF Receive, TypeOK, Others, Idle
  <2>2. Untouched(r)' => Untouched(r) BY <2>1 DEF Untouched, Up, Others, ClaimedPcs
  <2>3. Undecided(r)' => Undecided(r) BY <2>1 DEF Undecided, Up
  <2>4. \A u \in Handlers : hs'[u].req = r /\ hs'[u].id \in Ids => hs'[u].id \in Named(r)
    BY <2>1, NamedNow DEF Others, Ids
  <2>5. QED BY <1>f, <2>1, <2>2, <2>3, <2>4, NamedKept, NamedNow
<1>3. ASSUME NEW t \in Handlers, Handler(t) PROVE NamedMove(r) BY <1>3, NamedHandler
<1>4. CASE StartUp
  <2>0. phase # "serving" /\ hs' = hs /\ told' = told
    BY <1>4 DEF StartUp, Start, RecoverMarker, Recovering, RecoverRemember, ResolveStuck,
                StartupPrune, GiveUp
  <2>h. \A t \in Handlers : hs[t] = Idle BY <2>0 DEF GuardInv
  <2>u. \A u \in Handlers : hs'[u].req = r /\ hs'[u].id \in Ids => hs'[u].id \in Named(r)
    BY <2>0, NamedNow
  <2>1. CASE Start
    <3>1. /\ phase = "down" /\ requests' = reqLog /\ UNCHANGED <<reqLog, opsLog, owing, forgets>>
          /\ \A o \in Ids : records'[o] = NoRecord \/ records'[o] = opsLog[o]
      BY <2>1 DEF Start, Load
    <3>2. Named(r)' \subseteq Named(r) BY <1>e, <2>0, <3>1 DEF Named, Names, Keeps
    <3>3. Untouched(r)' => Untouched(r) BY <2>0, <3>1 DEF Untouched
    <3>4. Undecided(r)' => Undecided(r) BY <3>1 DEF Undecided
    <3>5. QED BY <1>f, <2>0, <3>1, <3>2, <3>3, <3>4 DEF NamedMove
  <2>2. ASSUME NEW q \in Ids, RecoverMarker(q) PROVE NamedMove(r)
    <3> DEFINE p == records[q]
    <3>1. PICK tag, w : AppendRecordTracked(q, Stamped(tag, p.req, p.before), w)
      BY <2>2 DEF RecoverMarker, CommitFsRecord, AbortPrepared
    <3>2. /\ phase = "recover" /\ UNCHANGED <<reqLog, requests, forgets>> /\ p.tag = "prepared"
          /\ owing'.req \in {None, p.req} /\ \A o : Names(owing'.entry, o) => o = q
      BY <2>2 DEF RecoverMarker, Recovering, NewestMarker, IsPending, Done, Failed, Names,
                  NothingOwed, NoEntry
    <3>3. /\ \A o \in Ids : o # q => opsLog'[o] = opsLog[o] /\ records'[o] = records[o]
          /\ opsLog'[q] = opsLog[q] \/ opsLog'[q].req = p.req
          /\ \/ records'[q] = records[q] \/ records'[q].req = p.req
             \/ records'[q] = NoRecord
      BY <3>1, AppendView DEF Stamped
    <3>4. p.req = r => q \in Named(r) BY <3>2, NamedNow DEF Keeps
    <3>5. \A o \in Ids : Keeps(opsLog'[o], r) \/ Keeps(records'[o], r) => o \in Named(r)
      BY <1>e, <3>3, <3>4, NamedNow DEF Keeps
    <3>6. owing'.req = r => \A o \in Ids : Names(owing'.entry, o) => o \in Named(r)
      BY <1>e, <3>2, <3>4
    <3>7. Untouched(r)' => Untouched(r) BY <2>0, <3>2 DEF Untouched, Up
    <3>8. Undecided(r)' => Undecided(r) BY <3>2 DEF Undecided, Up
    <3>9. QED BY <1>f, <2>0, <2>u, <3>2, <3>5, <3>6, <3>7, <3>8, NamedKept, NamedNow
  <2>3. CASE RecoverRemember
    <3>1. PICK w : AppendRequestTracked(owing.req, owing.entry, w) BY <2>3 DEF RecoverRemember
    <3>2. /\ phase = "recover" /\ owing.req # None /\ owing' = NothingOwed
          /\ UNCHANGED <<opsLog, records, forgets>>
      BY <2>3 DEF RecoverRemember
    <3>3. /\ owing.req \in Requests /\ owing.entry \in Entry
          /\ owing.entry.status \in {"done", "error"}
      BY <3>2 DEF TypeOK, RequestInv, AgreeInv
    <3>4. /\ \A s \in Requests : s # owing.req => reqLog'[s] = reqLog[s] /\ requests'[s] = requests[s]
          /\ reqLog'[owing.req] = owing.entry \/ reqLog'[owing.req] = reqLog[owing.req]
          /\ requests'[owing.req] = owing.entry \/ requests'[owing.req] = requests[owing.req]
      BY <3>1, <3>3, RequestView
    <3>5. \A o \in Ids : Names(requests'[r], o) \/ Names(reqLog'[r], o) => o \in Named(r)
      BY <3>4, NamedNow
    <3>6. Untouched(r)' => Untouched(r) BY <2>0, <3>2, <3>3, <3>4 DEF Untouched, Up
    <3>7. Undecided(r)' => Undecided(r) BY <3>2, <3>3, <3>4 DEF Undecided, Up
    <3>8. QED BY <1>e, <1>f, <2>0, <2>u, <3>2, <3>5, <3>6, <3>7, NamedKept, NamedNow
  <2>4. ASSUME NEW s \in Requests, ResolveStuck(s) PROVE NamedMove(r)
    <3>1. /\ phase = "recover" /\ phase' = "recover" /\ UNCHANGED <<opsLog, records, reqLog, forgets>>
          /\ requests[s].status = "inprogress" /\ owing.req = None /\ Pending = {}
      BY <2>4 DEF ResolveStuck, Recovering, Stuck
    <3>2. CASE UNCHANGED requests
      <4>1. \/ \E o \in CommittedFor(s) : owing' = [req |-> s, entry |-> Reconstructed(o)]
            \/ owing' = [req |-> s, entry |-> Failed]
        <5>1. NoEntry # requests[s] BY <1>e, <3>1
        <5>2. requests' # [requests EXCEPT ![s] = NoEntry]
          BY <3>2, <5>1 DEF TypeOK, StoreTypeOK
        <5>3. QED BY <2>4, <5>2 DEF ResolveStuck
      <4>2. owing'.req = r => \A o \in Ids : Names(owing'.entry, o) => o \in Named(r)
        <5>1. CASE owing' = [req |-> s, entry |-> Failed] BY <5>1 DEF Names, Failed
        <5>2. ASSUME NEW o \in CommittedFor(s), owing' = [req |-> s, entry |-> Reconstructed(o)]
              PROVE  owing'.req = r => \A q \in Ids : Names(owing'.entry, q) => q \in Named(r)
          <6>1. o \in Ids /\ Keeps(records[o], s) BY DEF CommittedFor, Committed, Keeps
          <6>2. \A q \in Ids : Names(Reconstructed(o), q) => q = o
            BY DEF Reconstructed, Names, Done, Ids
          <6>3. QED BY <5>2, <6>1, <6>2, NamedNow
        <5>3. QED BY <4>1, <5>1, <5>2
      <4>3. Untouched(r)' => Untouched(r) BY <2>0, <3>1, <3>2 DEF Untouched, Up
      <4>4. Undecided(r)' => Undecided(r) BY <3>1, <3>2 DEF Undecided, Up
      <4>5. QED BY <1>f, <2>0, <2>u, <3>1, <3>2, <4>2, <4>3, <4>4, NamedKept, NamedNow
    <3>3. CASE requests' # requests
      <4>1. /\ CommittedFor(s) = {} /\ requests' = [requests EXCEPT ![s] = NoEntry]
            /\ UNCHANGED owing
        BY <2>4, <3>3 DEF ResolveStuck
      <4>2. /\ requests'[s] = NoEntry
            /\ \A x \in Requests : x # s => requests'[x] = requests[x]
        BY <4>1 DEF TypeOK, StoreTypeOK
      <4>3. Named(r)' \subseteq Named(r) BY <1>e, <2>0, <3>1, <4>1, <4>2 DEF Named, Names
      <4>4. Undecided(r)' => Undecided(r) BY <1>e, <3>1, <4>2 DEF Undecided, Up
      <4>5. CASE r # s
        <5>1. Untouched(r)' => Untouched(r) BY <2>0, <3>1, <4>2, <4>5 DEF Untouched, Up
        <5>2. QED BY <1>f, <2>0, <3>1, <4>3, <4>4, <5>1 DEF NamedMove
      <4>6. CASE r = s
        <5>1. Undecided(r) BY <3>1, <4>6 DEF Undecided, Up
        <5>2. reqLog[r].status = "inprogress" BY <3>1, <4>6 DEF RequestInv, AgreeInv
        <5>3. \A o \in Ids : ~Keeps(records[o], r)
          <6>1. SUFFICES ASSUME NEW o \in Ids, Keeps(records[o], r) PROVE FALSE OBVIOUS
          <6>2. Committed(records[o]) /\ records[o].req = s
            BY <3>1, <4>6, <6>1 DEF Keeps, Pending, IsPending, Committed
          <6>3. QED BY <4>1, <6>2, FirstCommitted
        <5>4. \A o \in Ids : ~Keeps(opsLog[o], r)
          <6>1. \A o \in Ids : records[o] = IF opsLog[o].tag = "aborted" THEN NoRecord ELSE opsLog[o]
            BY <3>1 DEF RequestInv, AgreeInv
          <6>2. QED BY <5>3, <6>1 DEF Keeps
        <5>5. Named(r)' \subseteq told[r]
          BY <1>e, <2>0, <2>h, <3>1, <4>1, <4>2, <4>6, <5>2, <5>3, <5>4 DEF Named, Names
        <5>6. QED BY <1>f, <2>0, <3>1, <4>3, <4>4, <5>1, <5>5 DEF NamedMove
      <4>7. QED BY <4>5, <4>6
    <3>4. QED BY <3>2, <3>3
  <2>5. CASE StartupPrune
    <3>1. phase = "recover" /\ Up /\ owing' = owing BY <2>5 DEF StartupPrune, Recovering, Up
    <3>2. CASE UNCHANGED storeVars
      BY <1>f, <2>0, <3>1, <3>2 DEF NamedMove, Named, Untouched, Undecided
    <3>3. ASSUME NEW keep, NEW replaced, NEW ok, Prune(keep, replaced, ok) PROVE NamedMove(r)
      BY <2>0, <3>1, <3>3, NamedPrune
    <3>4. QED BY <2>5, <3>2, <3>3 DEF StartupPrune
  <2>6. CASE GiveUp BY <1>d, <2>h, <2>0, <2>6 DEF GiveUp, Unload, Up
  <2>7. QED BY <1>4, <2>1, <2>2, <2>3, <2>4, <2>5, <2>6 DEF StartUp
<1>5. CASE Die BY <1>5, <1>d DEF Die, Unload, Up
<1>6. ASSUME NEW p \in Paths, NEW c \in FileState, ExternalWrite(p, c) PROVE NamedMove(r)
  BY <1>6, <1>s DEF ExternalWrite
<1>7. ASSUME NEW w \in 0 .. clock.wall, ClockSteps(w) PROVE NamedMove(r)
  BY <1>7, <1>s DEF ClockSteps
<1>8. CASE UNCHANGED vars BY <1>8, <1>s DEF vars
<1>9. QED
  BY <1>1, <1>2, <1>3, <1>4, <1>5, <1>6, <1>7, <1>8 DEF Next, Crash, PowerLoss

\* NamedInv is inductive.
LEMMA NamedNext ==
  ASSUME TypeOK, TypeOK', GuardInv, HandlerInv, RequestInv, NamedInv, [Next]_vars
  PROVE  NamedInv'
BY NamedStep, NamedMoves

-----------------------------------------------------------------------------
(***************************************************************************)
(* The ways a step changes records and entries.                            *)
(***************************************************************************)
\* Every way a step changes logs and table.
SameStore ==
  /\ UNCHANGED <<opsLog, records, slot, dropped, pruned, orphaned>>
  /\ (Up' => Up) /\ (clock' = clock \/ clock'.steps > 0)

PrepareStore ==
  \E t \in Handlers, q \in Ids, w \in AppendResults :
    /\ hs[t].pc = "prepare" /\ hs[t].req \in Requests /\ hs[t].before \in FileState
    /\ PrepareFsRecord(q, hs[t].req, hs[t].before, w)
    /\ IF w = "ok" THEN hs'[t].pc \in UnlandedPcs /\ hs'[t].id = q
                   ELSE hs'[t].pc = "finish"
    /\ UNCHANGED <<dropped, pruned, orphaned>> /\ Up /\ Up'

ResolveStore ==
  \E q \in Ids, tag \in {"fs", "aborted"}, w \in AppendResults :
    /\ records[q].tag = "prepared" /\ Up
    /\ RecoverMarker(q) \/ \E t \in Handlers : hs[t].pc \in MarkedPcs /\ hs[t].id = q
    /\ AppendRecordTracked(q, Stamped(tag, records[q].req, records[q].before), w)
    /\ \/ dropped' = dropped
       \/ /\ tag = "aborted" /\ OnDisk(w) /\ dropped' = dropped \cup {q}
          /\ w = "ok" \/ ~Up'
    /\ tag = "fs" => \/ q \in landed
                     \/ /\ RecoverMarker(q)
                        /\ RecoveryOutcome(q, file[PathOf(records[q].req)]) = "committed"
    /\ tag = "aborted" => \/ q \notin landed /\ opsLog[q].tag = "prepared"
                          \/ /\ RecoverMarker(q)
                             /\ RecoveryOutcome(q, file[PathOf(records[q].req)]) # "committed"
    /\ UNCHANGED <<pruned, orphaned>>

ExecStore ==
  \E q \in Ids, tag \in {"exec", "rejected"}, r \in Requests, w \in AppendResults :
    /\ opsLog[q].tag = "none" /\ records[q].tag = "none" /\ phase = "serving" /\ Up /\ Up'
    /\ AppendRecordTracked(q, Stamped(tag, r, None), w)
    /\ tag = "exec" => \E t \in Handlers : hs[t].ok /\ hs[t].id # 0 /\ hs[t].req = r
    /\ UNCHANGED <<dropped, pruned, orphaned>>

PruneStore ==
  /\ Up /\ dropped' = dropped /\ \E keep, replaced, ok : Prune(keep, replaced, ok)
  /\ Pending = {} \/ \E t \in Handlers : hs[t].pc = "check"

LoadStore == Load /\ ~Up /\ UNCHANGED <<opsLog, clock, dropped, pruned, orphaned>>
UnloadStore == Unload /\ ~Up' /\ UNCHANGED <<opsLog, clock, dropped, pruned, orphaned>>

\* Every way a step changes the entries of requests.
SameEntries == UNCHANGED <<reqLog, requests, forgets>> /\ (Up' => Up)

WriteEntry ==
  \E s \in Requests, e \in Entry, w \in AppendResults :
    /\ AppendRequestTracked(s, e, w) /\ e.status # "unknown"
    /\ e.status = "inprogress" => Up /\ requests[s].status = "unknown"
    /\ Success(e) => \/ \E t \in Handlers : hs[t].ok /\ hs[t].id # 0 /\ hs[t].req = s
                     \/ owing.req = s /\ owing.entry = e
    /\ UNCHANGED forgets /\ (Up' => Up)

LoadEntries == ~Up /\ requests' = reqLog /\ UNCHANGED <<reqLog, forgets>>
UnloadEntries == ~Up' /\ UNCHANGED <<reqLog, forgets>>

\* The list is complete.
LEMMA StoreCases ==
  ASSUME TypeOK, HandlerInv, MarkInv, [Next]_vars
  PROVE  \/ SameStore \/ PrepareStore \/ ResolveStore \/ ExecStore \/ PruneStore
         \/ LoadStore \/ UnloadStore
<1> USE DEF wsVars, histVars, budgetVars, UnchangedHist, UnchangedStore, storeVars,
            diskVars, tableVars, pruneHist
<1>s. UNCHANGED <<opsLog, records, slot, dropped, pruned, orphaned, clock, phase>> => SameStore
  BY DEF SameStore, Up
<1>1. ASSUME NEW r \in Requests, Replay(r) PROVE SameStore BY <1>1, <1>s DEF Replay
<1>2. ASSUME NEW t \in Handlers, NEW r \in Requests, Receive(t, r) PROVE SameStore
  BY <1>2, <1>s DEF Receive
<1>3. ASSUME NEW t \in Handlers, Handler(t)
      PROVE  SameStore \/ PrepareStore \/ ResolveStore \/ ExecStore \/ PruneStore
  <2> USE DEF At
  <2>0. hs[t] \in HandlerState /\ (hs[t].pc # "idle" => Req(t) \in Requests) /\ Req(t) = hs[t].req
    BY DEF TypeOK, Req
  <2>1. CASE Quiet(t) BY <1>s, <2>1, QuietView
  <2>2. CASE Claim(t) BY <1>s, <2>2 DEF Claim
  <2>3. CASE Install(t) BY <1>s, <2>3 DEF Install
  <2>4. CASE Spawn(t) BY <1>s, <2>4 DEF Spawn
  <2>5. CASE Finish(t) BY <1>s, <2>5 DEF Finish
  <2>6. CASE Prepare(t)
    <3>1. /\ hs[t].pc = "prepare" /\ Up /\ Up' /\ UNCHANGED <<dropped, pruned, orphaned>>
          /\ hs[t].before \in FileState /\ hs[t].req \in Requests
      BY <2>0, <2>6 DEF Prepare, Up, HandlerState
    <3>2. PICK q \in Ids, w \in AppendResults :
            /\ PrepareFsRecord(q, hs[t].req, hs[t].before, w)
            /\ IF w = "ok"
               THEN hs' = [hs EXCEPT ![t].id = q,
                              ![t].pc = IF OpOf(t) = "edit" THEN "verify" ELSE "install"]
               ELSE DropGuard(t, FALSE)
      BY <2>0, <2>6 DEF Prepare
    <3>3. w = "ok" => hs'[t].pc \in UnlandedPcs /\ hs'[t].id = q
      BY <2>0, <3>2 DEF TypeOK, HandlerState, UnlandedPcs
    <3>4. w # "ok" => hs'[t].pc = "finish" BY <3>2, DropView
    <3>5. QED BY <3>1, <3>2, <3>3, <3>4 DEF PrepareStore
  <2>7. CASE Commit(t) \/ Withdraw(t)
    <3>1. /\ hs[t].pc \in MarkedPcs /\ Up /\ UNCHANGED <<dropped, pruned, orphaned>>
      BY <2>7 DEF Commit, Withdraw, MarkedPcs, Up
    <3>2. /\ hs[t].id \in Ids /\ records[hs[t].id].tag = "prepared"
          /\ records[hs[t].id].req = Req(t) /\ records[hs[t].id].before = hs[t].before
      BY <2>0, <3>1 DEF TypeOK, HandlerInv, HandlerSound, MarkInv
    <3>3. \E tag \in {"fs", "aborted"}, w \in AppendResults :
             /\ AppendRecordTracked(hs[t].id, Stamped(tag, Req(t), hs[t].before), w)
             /\ hs[t].pc = IF tag = "fs" THEN "commit" ELSE "withdraw"
      BY <2>7 DEF Commit, Withdraw, CommitFsRecord, AbortPrepared
    <3>4. /\ hs[t].pc = "withdraw" =>
               hs[t].id \notin landed /\ opsLog[hs[t].id].tag = "prepared"
          /\ hs[t].pc = "commit" => hs[t].id \in landed
      BY DEF HandlerInv, HandlerSound, UnlandedPcs, MarkedPcs, MarkInv
    <3>5. QED BY <3>1, <3>2, <3>3, <3>4 DEF ResolveStore
  <2>8. CASE RecordExec(t)
    <3>1. /\ hs[t].pc = "record" /\ Up /\ Up' /\ UNCHANGED <<dropped, pruned, orphaned>>
          /\ phase = "serving"
      BY <2>8 DEF RecordExec, Up
    <3>2. /\ hs[t].id \in Ids /\ records[hs[t].id].tag = "none" /\ opsLog[hs[t].id].tag = "none"
      BY <3>1 DEF TypeOK, HandlerInv, HandlerSound, ExecPcs
    <3>3. \E tag \in {"exec", "rejected"}, w \in AppendResults :
             /\ AppendRecordTracked(hs[t].id, Stamped(tag, Req(t), None), w)
             /\ tag = "exec" => hs[t].ok
      BY <2>8 DEF RecordExec, AppendExecRecord
    <3>4. hs[t].id # 0 BY <3>2 DEF Ids
    <3>5. QED BY <2>0, <3>1, <3>2, <3>3, <3>4 DEF ExecStore
  <2>9. CASE Gc(t) /\ \E keep, replaced : \E ok \in BOOLEAN :
                        Prune(keep, replaced, ok) /\ DropGuard(t, ok)
    <3>1. Up /\ dropped' = dropped /\ hs[t].pc = "check" BY <2>9 DEF Gc, Up
    <3>2. QED BY <2>9, <3>1 DEF PruneStore
  <2>10. QED BY <1>3, <2>1, <2>2, <2>3, <2>4, <2>5, <2>6, <2>7, <2>8, <2>9, HandlerCases
<1>4. CASE StartUp
  <2>1. CASE Start BY <2>1 DEF Start, LoadStore, Up
  <2>2. ASSUME NEW q \in Ids, RecoverMarker(q) PROVE ResolveStore
    <3> DEFINE p == records[q]
               outcome == RecoveryOutcome(q, file[PathOf(p.req)])
               tag == IF outcome = "committed" THEN "fs" ELSE "aborted"
    <3>1. PICK w \in AppendResults :
            /\ AppendRecordTracked(q, Stamped(tag, p.req, p.before), w)
            /\ phase' = IF w = "ok" THEN phase ELSE "failed"
            /\ dropped' = IF OnDisk(w) /\ outcome # "committed" THEN dropped \cup {q} ELSE dropped
      BY <2>2 DEF RecoverMarker, CommitFsRecord, AbortPrepared
    <3>2. records[q].tag = "prepared" /\ Up /\ UNCHANGED <<pruned, orphaned>>
      BY <2>2 DEF RecoverMarker, Recovering, NewestMarker, IsPending, Up
    <3>3. w = "ok" \/ ~Up' BY <3>1 DEF Up
    <3>4. /\ tag \in {"fs", "aborted"} /\ (tag = "aborted" => outcome # "committed")
          /\ dropped' = dropped \/ (tag = "aborted" /\ OnDisk(w) /\ dropped' = dropped \cup {q})
      BY <3>1
    <3>5. /\ tag = "aborted" =>
               RecoveryOutcome(q, file[PathOf(records[q].req)]) # "committed"
          /\ tag = "fs" => RecoveryOutcome(q, file[PathOf(records[q].req)]) = "committed"
      BY <3>4
    <3> HIDE DEF tag, outcome
    <3>6. QED BY <2>2, <3>1, <3>2, <3>3, <3>4, <3>5 DEF ResolveStore
  <2>3. CASE RecoverRemember
    <3>1. CASE Up' BY <2>3, <3>1 DEF RecoverRemember, SameStore, Up
    <3>2. CASE ~Up' BY <2>3, <3>2 DEF RecoverRemember, SameStore, Up
    <3>3. QED BY <3>1, <3>2
  <2>4. ASSUME NEW r \in Requests, ResolveStuck(r) PROVE SameStore
    BY <1>s, <2>4 DEF ResolveStuck
  <2>5. CASE StartupPrune
    <3>1. Up /\ dropped' = dropped /\ Pending = {} BY <2>5 DEF StartupPrune, Recovering, Up
    <3>2. CASE HistoryLimit = None
      BY <2>5, <3>1, <3>2 DEF StartupPrune, SameStore, Up
    <3>3. CASE HistoryLimit # None BY <2>5, <3>1, <3>3 DEF StartupPrune, PruneStore
    <3>4. QED BY <3>2, <3>3
  <2>6. CASE GiveUp BY <2>6 DEF GiveUp, UnloadStore, Up
  <2>7. QED BY <1>4, <2>1, <2>2, <2>3, <2>4, <2>5, <2>6 DEF StartUp
<1>5. CASE Die BY <1>5 DEF Die, UnloadStore, Up
<1>6. ASSUME NEW p \in Paths, NEW c \in FileState, ExternalWrite(p, c) PROVE SameStore
  BY <1>6, <1>s DEF ExternalWrite
<1>7. ASSUME NEW w \in 0 .. clock.wall, ClockSteps(w) PROVE SameStore
  BY <1>7 DEF ClockSteps, SameStore, Up, TypeOK, StoreTypeOK, Clock
<1>8. CASE UNCHANGED vars BY <1>8, <1>s DEF vars
<1>9. QED
  BY <1>1, <1>2, <1>3, <1>4, <1>5, <1>6, <1>7, <1>8 DEF Next, Crash, PowerLoss

-----------------------------------------------------------------------------
(***************************************************************************)
(* The order of the markers, and what they start from.                     *)
(***************************************************************************)
\* The fields of a new line, and of none.
LEMMA LineFields ==
  /\ \A tag, r, b : /\ Stamped(tag, r, b).tag = tag /\ Stamped(tag, r, b).req = r
                    /\ Stamped(tag, r, b).before = b /\ Stamped(tag, r, b).ts = clock.wall + 1
  /\ NoRecord.tag = "none" /\ NoRecord.ts = 0
BY DEF Stamped, NoRecord

\* The types that comparing stamps needs.
LEMMA StoreTypes ==
  ASSUME TypeOK
  PROVE  /\ clock.at \in Nat /\ clock.wall \in Nat /\ clock.steps \in Nat
         /\ \A o \in Ids : opsLog[o].ts \in Nat /\ records[o].ts \in Nat /\ slot[o] \in Nat
         /\ Tick.at = clock.at + 1 /\ Tick.wall = clock.wall + 1 /\ Tick.steps = clock.steps
         /\ Ids \subseteq Nat
BY DEF TypeOK, StoreTypeOK, Clock, Record, Tick, Ids

\* A new id is above everything in the log and in the table.
LEMMA NewId ==
  ASSUME TypeOK, IdInv, TakenInv, Up, NEW q \in Ids, q = nextId + 1
  PROVE  /\ \A o \in Ids : opsLog[o].tag # "none" \/ records[o].tag # "none" => o < q
         /\ \A o \in landed : o < q
         /\ q \notin landed \cup pruned \cup dropped
         /\ opsLog[q].tag = "none" /\ records[q].tag = "none"
<1>1. nextId \in Nat /\ counter \in Nat /\ Ids \subseteq Nat BY DEF TypeOK, StoreTypeOK, Ids
<1>2. \A o \in Ids : opsLog[o].tag # "none" \/ records[o].tag # "none" => o < q
  BY <1>1 DEF IdInv
<1>3. ~Taken(q) BY <1>1, <1>2 DEF IdInv, Taken
<1>4. ASSUME NEW o \in landed PROVE o < q
  <2>1. o \in Nat /\ o \in Ids /\ Taken(o) BY <1>1 DEF TakenInv, TypeOK
  <2>2. o <= counter \/ o < q BY <1>2, <2>1 DEF Taken
  <2>3. counter <= nextId BY DEF IdInv
  <2>4. QED BY <1>1, <2>1, <2>2, <2>3
<1>5. q \notin landed \cup pruned \cup dropped BY <1>3 DEF TakenInv
<1>6. QED BY <1>1, <1>2, <1>4, <1>5

\* StampInv is inductive: every stamp is taken from the clock, which advances.
LEMMA StampNext ==
  ASSUME TypeOK, TypeOK', StampInv, HandlerInv, MarkInv, [Next]_vars
  PROVE  StampInv'
<1>0. /\ clock.at \in Nat /\ clock.wall \in Nat /\ clock.steps \in Nat
      /\ \A o \in Ids : opsLog[o].ts \in Nat /\ records[o].ts \in Nat /\ slot[o] \in Nat
      /\ Tick.at = clock.at + 1 /\ Tick.wall = clock.wall + 1 /\ Tick.steps = clock.steps
  BY StoreTypes
<1>1. CASE SameStore BY <1>0, <1>1, StoreTypes DEF SameStore, StampInv
<1>2. CASE PrepareStore
  <2>1. PICK t \in Handlers, q \in Ids, w \in AppendResults :
          /\ hs[t].req \in Requests /\ hs[t].before \in FileState
          /\ PrepareFsRecord(q, hs[t].req, hs[t].before, w)
    BY <1>2 DEF PrepareStore
  <2> DEFINE P == Stamped("prepared", hs[t].req, hs[t].before)
             A == Stamped("aborted", hs[t].req, hs[t].before)
  <2>2. /\ \A o \in Ids : o # q => /\ opsLog'[o] = opsLog[o] /\ records'[o] = records[o]
                                   /\ slot'[o] = slot[o]
        /\ opsLog'[q] \in {opsLog[q], P, A}
        /\ records'[q] \in {records[q], P} /\ slot'[q] \in {slot[q], clock.at + 1}
        /\ clock' = Tick
    BY <2>1, PreparedView
  <2>3. P.ts = clock.wall + 1 /\ A.ts = clock.wall + 1 BY LineFields
  <2> HIDE DEF P, A
  <2>4. QED BY <1>0, <2>2, <2>3 DEF StampInv
<1>3. ASSUME NEW q \in Ids, NEW rec, NEW w, AppendRecordTracked(q, rec, w),
             rec.ts = clock.wall + 1
      PROVE  StampInv'
  <2>1. /\ \A o \in Ids : o # q => /\ opsLog'[o] = opsLog[o] /\ records'[o] = records[o]
                                   /\ slot'[o] = slot[o]
        /\ opsLog'[q] \in {opsLog[q], rec} /\ records'[q] \in {records[q], NoRecord, rec}
        /\ slot'[q] \in {slot[q], clock.at + 1} /\ clock' = Tick
    BY <1>3, AppendView
  <2>2. QED BY <1>0, <1>3, <2>1, LineFields DEF StampInv
<1>4. CASE ResolveStore
  <2>1. PICK q \in Ids, tag \in {"fs", "aborted"}, w \in AppendResults :
          AppendRecordTracked(q, Stamped(tag, records[q].req, records[q].before), w)
    BY <1>4 DEF ResolveStore
  <2>2. QED BY <1>3, <2>1, LineFields
<1>5. CASE ExecStore
  <2>1. PICK q \in Ids, tag \in {"exec", "rejected"}, r \in Requests, w \in AppendResults :
          AppendRecordTracked(q, Stamped(tag, r, None), w)
    BY <1>5 DEF ExecStore
  <2>2. QED BY <1>3, <2>1, LineFields
<1>6. CASE PruneStore
  <2>1. /\ \A o \in Ids : records'[o] = records[o] \/ records'[o] = NoRecord
        /\ opsLog' = opsLog \/ opsLog' = records'
        /\ UNCHANGED <<slot, clock>>
    BY <1>6, PruneView DEF PruneStore
  <2>2. QED BY <1>0, <2>1, LineFields DEF StampInv
<1>7. CASE LoadStore
  <2>1. /\ \A o \in Ids : records'[o] = opsLog[o] \/ records'[o] = NoRecord
        /\ \A o \in Ids : slot'[o] = opsLog[o].ts
        /\ UNCHANGED <<opsLog, clock>>
    BY <1>7 DEF LoadStore, Load
  <2>2. QED BY <1>0, <2>1, LineFields DEF StampInv
<1>8. CASE UnloadStore
  <2>1. /\ \A o \in Ids : records'[o] = NoRecord /\ slot'[o] = 0
        /\ UNCHANGED <<opsLog, clock>>
    BY <1>8 DEF UnloadStore, Unload
  <2>2. QED BY <1>0, <2>1, LineFields DEF StampInv
<1>9. QED BY <1>1, <1>2, <1>4, <1>5, <1>6, <1>7, <1>8, StoreCases

\* OrderInv is inductive: a new marker is stamped after everything in the log.
LEMMA OrderNext ==
  ASSUME TypeOK, TypeOK', StampInv, OrderInv, HandlerInv, IdInv, TakenInv, MarkInv, [Next]_vars
  PROVE  OrderInv'
<1>0. /\ clock.at \in Nat /\ clock.wall \in Nat /\ clock.steps \in Nat /\ clock'.steps \in Nat
      /\ \A o \in Ids : opsLog[o].ts \in Nat /\ records[o].ts \in Nat /\ slot[o] \in Nat
      /\ Tick.at = clock.at + 1 /\ Tick.wall = clock.wall + 1 /\ Tick.steps = clock.steps
      /\ Ids \subseteq Nat
  BY StoreTypes DEF TypeOK, StoreTypeOK, Clock
<1>1. CASE SameStore BY <1>0, <1>1 DEF SameStore, OrderInv, InLog, InTable
<1>2. CASE PrepareStore
  <2>1. PICK t \in Handlers, q \in Ids, w \in AppendResults :
          /\ hs[t].req \in Requests /\ hs[t].before \in FileState
          /\ PrepareFsRecord(q, hs[t].req, hs[t].before, w) /\ Up
    BY <1>2 DEF PrepareStore
  <2> DEFINE P == Stamped("prepared", hs[t].req, hs[t].before)
             A == Stamped("aborted", hs[t].req, hs[t].before)
  <2>2. /\ \A o \in Ids : o # q => /\ opsLog'[o] = opsLog[o] /\ records'[o] = records[o]
                                   /\ slot'[o] = slot[o]
        /\ opsLog'[q] \in {opsLog[q], P, A}
        /\ \/ records'[q] = records[q]
           \/ records'[q] = P /\ slot'[q] = clock.at + 1
        /\ clock' = Tick /\ q = nextId + 1
    BY <2>1, PreparedView
  <2>3. P.ts = clock.wall + 1 /\ A.ts = clock.wall + 1 /\ P.tag = "prepared" /\ A.tag = "aborted"
    BY LineFields
  <2>4. /\ \A o \in Ids : opsLog[o].tag # "none" \/ records[o].tag # "none" => o < q
        /\ opsLog[q].tag = "none" /\ records[q].tag = "none"
    BY <2>1, <2>2, NewId
  <2> HIDE DEF P, A
  <2> SUFFICES ASSUME clock.steps = 0, NEW o \in Ids, NEW n \in Ids, o < n
               PROVE  /\ opsLog'[o].tag = "prepared" /\ InLog(n)' => opsLog'[o].ts < opsLog'[n].ts
                      /\ records'[o].tag = "prepared" /\ InTable(n)' =>
                            records'[o].ts < records'[n].ts /\ slot'[o] < slot'[n]
    BY <1>0, <2>2 DEF OrderInv
  <2>5. CASE n = q BY <1>0, <2>2, <2>3, <2>4, <2>5 DEF StampInv, InLog, InTable
  <2>6. CASE o = q BY <1>0, <2>2, <2>3, <2>4, <2>6 DEF InLog, InTable
  <2>7. CASE o # q /\ n # q BY <2>2, <2>7 DEF OrderInv, InLog, InTable
  <2>8. QED BY <2>5, <2>6, <2>7
<1>3. ASSUME NEW q \in Ids, NEW rec, NEW w, AppendRecordTracked(q, rec, w),
             rec.ts = clock.wall + 1, rec.tag # "prepared",
             rec.tag = "fs" => records[q].tag = "prepared"
      PROVE  OrderInv'
  <2>1. /\ \A o \in Ids : o # q => /\ opsLog'[o] = opsLog[o] /\ records'[o] = records[o]
                                   /\ slot'[o] = slot[o]
        /\ opsLog'[q] \in {opsLog[q], rec} /\ clock' = Tick
        /\ \/ records'[q] = records[q] /\ slot'[q] = slot[q]
           \/ records'[q] = NoRecord
           \/ records'[q] = rec /\ (records[q].tag = "prepared" => slot'[q] = slot[q])
    BY <1>3, AppendView
  <2> SUFFICES ASSUME clock.steps = 0, NEW o \in Ids, NEW n \in Ids, o < n
               PROVE  /\ opsLog'[o].tag = "prepared" /\ InLog(n)' => opsLog'[o].ts < opsLog'[n].ts
                      /\ records'[o].tag = "prepared" /\ InTable(n)' =>
                            records'[o].ts < records'[n].ts /\ slot'[o] < slot'[n]
    BY <1>0, <2>1 DEF OrderInv
  <2>2. CASE n = q
    BY <1>0, <1>3, <2>1, <2>2, LineFields DEF StampInv, OrderInv, InLog, InTable
  <2>3. CASE o = q BY <1>3, <2>1, <2>3, LineFields DEF OrderInv, InLog, InTable
  <2>4. CASE o # q /\ n # q BY <2>1, <2>4 DEF OrderInv, InLog, InTable
  <2>5. QED BY <2>2, <2>3, <2>4
<1>4. CASE ResolveStore
  <2>1. PICK q \in Ids, tag \in {"fs", "aborted"}, w \in AppendResults :
          /\ AppendRecordTracked(q, Stamped(tag, records[q].req, records[q].before), w)
          /\ records[q].tag = "prepared"
    BY <1>4 DEF ResolveStore
  <2>2. QED BY <1>3, <2>1, LineFields
<1>5. CASE ExecStore
  <2>1. PICK q \in Ids, tag \in {"exec", "rejected"}, r \in Requests, w \in AppendResults :
          AppendRecordTracked(q, Stamped(tag, r, None), w)
    BY <1>5 DEF ExecStore
  <2>2. QED BY <1>3, <2>1, LineFields
<1>6. CASE PruneStore
  <2>1. /\ \A o \in Ids : records'[o] = records[o] \/ records'[o] = NoRecord
        /\ opsLog' = opsLog \/ opsLog' = records'
        /\ UNCHANGED <<slot, clock>>
    BY <1>6, PruneView DEF PruneStore
  <2>2. QED BY <2>1, LineFields DEF OrderInv, InLog, InTable
<1>7. CASE LoadStore
  <2>1. /\ \A o \in Ids : records'[o] = opsLog[o] \/ records'[o] = NoRecord
        /\ \A o \in Ids : slot'[o] = opsLog[o].ts
        /\ UNCHANGED <<opsLog, clock>>
    BY <1>7 DEF LoadStore, Load
  <2>2. QED BY <2>1, LineFields DEF OrderInv, InLog, InTable
<1>8. CASE UnloadStore
  <2>1. /\ \A o \in Ids : records'[o] = NoRecord /\ slot'[o] = 0
        /\ UNCHANGED <<opsLog, clock>>
    BY <1>8 DEF UnloadStore, Unload
  <2>2. QED BY <2>1, LineFields DEF OrderInv, InLog, InTable
<1>9. QED BY <1>1, <1>2, <1>4, <1>5, <1>6, <1>7, <1>8, StoreCases

\* The table and the log name the same operations; what was pruned or dropped
\* has no marker.
TableMarks ==
  /\ \A o \in Ids : records[o].tag # "none" =>
       /\ opsLog[o].tag # "none" /\ opsLog[o].req = records[o].req
       /\ opsLog[o].before = records[o].before
  /\ \A o \in pruned : opsLog[o].tag # "prepared" /\ (Up => records[o].tag # "prepared")
  /\ \A o \in dropped : ~InLog(o) /\ (Up => ~InTable(o))

\* These parts of MarkInv are inductive.
LEMMA TableMarksNext ==
  ASSUME TypeOK, HandlerInv, IdInv, TakenInv, TableInv, MarkInv, [Next]_vars
  PROVE  TableMarks'
<1>0. TableMarks BY DEF MarkInv, TableMarks
<1>i. pruned \subseteq Ids /\ dropped \subseteq Ids BY DEF TypeOK, StoreTypeOK
<1>1. CASE SameStore BY <1>0, <1>1 DEF SameStore, TableMarks, InLog, InTable
<1>2. CASE PrepareStore
  <2>1. PICK t \in Handlers, q \in Ids, w \in AppendResults :
          /\ hs[t].req \in Requests /\ hs[t].before \in FileState
          /\ PrepareFsRecord(q, hs[t].req, hs[t].before, w) /\ Up /\ UNCHANGED <<dropped, pruned>>
    BY <1>2 DEF PrepareStore
  <2> DEFINE P == Stamped("prepared", hs[t].req, hs[t].before)
             A == Stamped("aborted", hs[t].req, hs[t].before)
  <2>2. /\ \A o \in Ids : o # q => opsLog'[o] = opsLog[o] /\ records'[o] = records[o]
        /\ opsLog'[q] \in {opsLog[q], P, A}
        /\ records'[q] = records[q] \/ (records'[q] = P /\ opsLog'[q] = P)
        /\ q = nextId + 1
    BY <2>1, PreparedView
  <2>3. P.tag = "prepared" BY LineFields
  <2>4. q \notin pruned \cup dropped /\ opsLog[q].tag = "none" /\ records[q].tag = "none"
    BY <2>1, <2>2, NewId
  <2> HIDE DEF P, A
  <2>5. QED BY <1>0, <1>i, <2>1, <2>2, <2>3, <2>4 DEF TableMarks, InLog, InTable
<1>3. CASE ResolveStore
  <2>1. PICK q \in Ids, tag \in {"fs", "aborted"}, w \in AppendResults :
          /\ AppendRecordTracked(q, Stamped(tag, records[q].req, records[q].before), w)
          /\ records[q].tag = "prepared" /\ Up /\ pruned' = pruned
          /\ \/ dropped' = dropped
             \/ /\ tag = "aborted" /\ OnDisk(w) /\ dropped' = dropped \cup {q}
                /\ w = "ok" \/ ~Up'
    BY <1>3 DEF ResolveStore
  <2> DEFINE rec == Stamped(tag, records[q].req, records[q].before)
  <2>2. /\ \A o \in Ids : o # q => opsLog'[o] = opsLog[o] /\ records'[o] = records[o]
        /\ opsLog'[q] = IF OnDisk(w) THEN rec ELSE opsLog[q]
        /\ records'[q] = IF w # "ok" THEN records[q]
                         ELSE IF rec.tag = "aborted" THEN NoRecord ELSE rec
        /\ w = "ok" => OnDisk(w)
    BY <2>1, AppendView
  <2>3. rec.tag = tag /\ rec.req = records[q].req /\ rec.before = records[q].before
    BY LineFields
  <2>4. q \notin pruned \cup dropped BY <1>0, <2>1 DEF TableMarks, InTable
  <2> HIDE DEF rec
  <2>5. \A o \in Ids : records'[o].tag # "none" =>
          /\ opsLog'[o].tag # "none" /\ opsLog'[o].req = records'[o].req
          /\ opsLog'[o].before = records'[o].before
    BY <1>0, <2>1, <2>2, <2>3, LineFields DEF TableMarks
  <2>6. \A o \in pruned' : opsLog'[o].tag # "prepared" /\ (Up' => records'[o].tag # "prepared")
    BY <1>0, <1>i, <2>1, <2>2, <2>4 DEF TableMarks
  <2>7. \A o \in dropped' : ~InLog(o)' /\ (Up' => ~InTable(o)')
    BY <1>0, <1>i, <2>1, <2>2, <2>3, <2>4, LineFields DEF TableMarks, InLog, InTable
  <2>8. QED BY <2>5, <2>6, <2>7 DEF TableMarks
<1>4. CASE ExecStore
  <2>1. PICK q \in Ids, tag \in {"exec", "rejected"}, r \in Requests, w \in AppendResults :
          /\ AppendRecordTracked(q, Stamped(tag, r, None), w) /\ Up /\ UNCHANGED <<dropped, pruned>>
          /\ opsLog[q].tag = "none" /\ records[q].tag = "none"
    BY <1>4 DEF ExecStore
  <2> DEFINE rec == Stamped(tag, r, None)
  <2>2. /\ \A o \in Ids : o # q => opsLog'[o] = opsLog[o] /\ records'[o] = records[o]
        /\ opsLog'[q] = IF OnDisk(w) THEN rec ELSE opsLog[q]
        /\ records'[q] = IF w # "ok" THEN records[q]
                         ELSE IF rec.tag = "aborted" THEN NoRecord ELSE rec
        /\ w = "ok" => OnDisk(w)
    BY <2>1, AppendView
  <2>3. rec.tag = tag BY LineFields
  <2> HIDE DEF rec
  <2>4. QED BY <1>0, <1>i, <2>1, <2>2, <2>3 DEF TableMarks, InLog, InTable
<1>5. CASE PruneStore
  <2>1. /\ \A o \in Ids : records'[o] = records[o] \/ records'[o] = NoRecord
        /\ opsLog' = opsLog \/ opsLog' = records'
        /\ \A o \in pruned' : o \in pruned \/ (o \in Ids /\ Committed(records[o]))
        /\ dropped' = dropped /\ Up
    BY <1>5, PruneView DEF PruneStore
  <2>2. \A o \in Ids : Committed(records[o]) => opsLog[o] = records[o] /\ records[o].tag # "prepared"
    BY <2>1 DEF TableInv, Committed
  <2>3. QED BY <1>0, <1>i, <2>1, <2>2, LineFields DEF TableMarks, InLog, InTable
<1>6. CASE LoadStore
  <2>1. /\ \A o \in Ids : records'[o] = opsLog[o] \/ records'[o] = NoRecord
        /\ UNCHANGED <<opsLog, dropped, pruned>>
    BY <1>6 DEF LoadStore, Load
  <2>2. QED BY <1>0, <1>i, <2>1, LineFields DEF TableMarks, InLog, InTable
<1>7. CASE UnloadStore
  <2>1. (\A o \in Ids : records'[o] = NoRecord) /\ UNCHANGED <<opsLog, dropped, pruned>> /\ ~Up'
    BY <1>7 DEF UnloadStore, Unload
  <2>2. QED BY <1>0, <1>i, <2>1, LineFields DEF TableMarks, InLog
<1>8. QED BY <1>1, <1>2, <1>3, <1>4, <1>5, <1>6, <1>7, StoreCases

\* MarkInv is inductive: by the guard, no other handler touches a marker.
LEMMA MarkNext ==
  ASSUME TypeOK, GuardInv, GuardInv', HandlerInv, IdInv, TakenInv, TableInv, MarkInv, [Next]_vars
  PROVE  MarkInv'
<1> USE DEF wsVars, histVars, budgetVars, UnchangedHist, UnchangedStore, storeVars,
            diskVars, tableVars, pruneHist
<1> DEFINE M(u) ==
      /\ hs[u].pc \in MarkedPcs =>
           /\ records[hs[u].id].req = hs[u].req /\ records[hs[u].id].before = hs[u].before
           /\ \A o \in Ids : InLog(o) \/ o \in landed => o <= hs[u].id
      /\ hs[u].pc \in {"sync", "commit"} => hs[u].id \in landed
<1>m. \A u \in Handlers : M(u) BY DEF MarkInv
<1>z. SUFFICES \A u \in Handlers : M(u)'
  BY <1>z, TableMarksNext DEF MarkInv, TableMarks
<1>f. ASSUME UNCHANGED <<hs, records, opsLog, landed>> PROVE \A u \in Handlers : M(u)'
  BY <1>f, <1>m DEF InLog
<1>d. ASSUME phase' # "serving" PROVE \A u \in Handlers : M(u)'
  BY <1>d DEF GuardInv, Idle, MarkedPcs
<1>g. \A t, u \in Handlers : hs[t].pc \in GuardedPcs /\ hs[u].pc \in MarkedPcs => t = u
  BY DEF GuardInv, GuardedPcs, MarkedPcs
<1>1. ASSUME NEW r \in Requests, Replay(r) PROVE \A u \in Handlers : M(u)' BY <1>1, <1>f DEF Replay
<1>2. ASSUME NEW t \in Handlers, NEW r \in Requests, Receive(t, r)
      PROVE  \A u \in Handlers : M(u)'
  <2>1. Others(t) /\ hs'[t].pc = "claim" /\ UNCHANGED <<records, opsLog, landed>>
    BY <1>2 DEF Receive, TypeOK, Others, Idle
  <2>2. QED BY <1>m, <2>1 DEF InLog, Others, MarkedPcs
<1>3. ASSUME NEW t \in Handlers, Handler(t) PROVE \A u \in Handlers : M(u)'
  <2> USE DEF At
  <2>0. hs[t] \in HandlerState /\ (hs[t].pc # "idle" => Req(t) \in Requests) /\ Req(t) = hs[t].req
    BY DEF TypeOK, Req
  <2>o. ASSUME Others(t), hs'[t].pc \notin MarkedPcs, UNCHANGED <<records, opsLog, landed>>
        PROVE  \A u \in Handlers : M(u)'
    BY <1>m, <2>o DEF InLog, Others, MarkedPcs
  <2>p. ASSUME Others(t), hs'[t].pc \notin MarkedPcs, hs[t].pc \in GuardedPcs
        PROVE  \A u \in Handlers : M(u)'
    BY <1>g, <2>p DEF Others, MarkedPcs
  <2>i. hs' = [hs EXCEPT ![t] = Idle] => Others(t) /\ hs'[t].pc = "idle"
    BY DEF TypeOK, Others, Idle
  <2>1. CASE Quiet(t)
    <3>1. /\ Others(t) /\ <<hs[t].pc, hs'[t].pc>> \in QuietMoves
          /\ hs'[t].req = hs[t].req /\ hs'[t].id = hs[t].id
          /\ hs[t].pc \notin {"check", "hash"} => hs'[t].before = hs[t].before
          /\ UNCHANGED <<records, opsLog, landed>>
      BY <2>1, QuietView
    <3>2. /\ hs'[t].pc \in MarkedPcs => hs[t].pc \in MarkedPcs
          /\ hs'[t].pc \in {"sync", "commit"} => hs[t].pc \in {"sync", "commit"}
          /\ hs[t].pc \in MarkedPcs => hs[t].pc \notin {"check", "hash"}
      BY <3>1 DEF QuietMoves, MarkedPcs
    <3>3. M(t)' BY <1>m, <3>1, <3>2 DEF InLog
    <3>4. \A u \in Handlers : u # t => M(u)' BY <1>m, <3>1 DEF InLog, Others
    <3>5. QED BY <3>3, <3>4
  <2>2. CASE Claim(t)
    <3>1. UNCHANGED <<records, opsLog, landed>> BY <2>2 DEF Claim
    <3>2. \/ hs' = [hs EXCEPT ![t] = Idle]
          \/ Goto(t, IF OpOf(t) = "exec" THEN "spawn" ELSE "guard")
      BY <2>2 DEF Claim
    <3>3. Others(t) /\ hs'[t].pc \in {"idle", "spawn", "guard"} BY <2>i, <3>2, GotoView
    <3>4. QED BY <2>o, <3>1, <3>3 DEF MarkedPcs
  <2>3. CASE Install(t)
    <3>1. /\ hs[t].pc = "install" /\ Others(t) /\ hs'[t].pc = "sync" /\ hs'[t].id = hs[t].id
          /\ hs'[t].req = hs[t].req /\ hs'[t].before = hs[t].before
          /\ landed' = landed \cup {hs[t].id} /\ UNCHANGED <<records, opsLog>>
      BY <2>3, GotoView DEF Install
    <3>2. hs[t].id \in Ids /\ hs[t].id <= hs[t].id BY <3>1, StoreTypes DEF TypeOK, MarkedPcs
    <3>3. M(t)' BY <1>m, <3>1, <3>2 DEF InLog, MarkedPcs
    <3>4. \A u \in Handlers : u # t => M(u)'
      BY <1>g, <3>1 DEF Others, GuardedPcs, MarkedPcs
    <3>5. QED BY <3>3, <3>4
  <2>4. CASE Spawn(t)
    <3>1. Others(t) /\ hs'[t].pc \in {"running", "record"}
      BY <2>0, <2>4 DEF Spawn, TypeOK, HandlerState, Others
    <3>2. QED BY <2>4, <2>o, <3>1 DEF Spawn, MarkedPcs
  <2>5. CASE Finish(t) BY <2>5, <2>i, <2>o DEF Finish, MarkedPcs
  <2>6. CASE Prepare(t)
    <3>1. PICK q \in Ids, w \in AppendResults :
            /\ PrepareFsRecord(q, Req(t), hs[t].before, w)
            /\ IF w = "ok"
               THEN hs' = [hs EXCEPT ![t].id = q,
                              ![t].pc = IF OpOf(t) = "edit" THEN "verify" ELSE "install"]
               ELSE DropGuard(t, FALSE)
      BY <2>6 DEF Prepare
    <3>2. hs[t].pc = "prepare" /\ Up /\ Req(t) \in Requests /\ hs[t].before \in FileState
      BY <2>0, <2>6 DEF Prepare, Up, HandlerState
    <3>3. hs[t].pc \in GuardedPcs BY <3>2 DEF GuardedPcs
    <3>4. CASE w # "ok"
      BY <2>p, <3>1, <3>3, <3>4, DropView DEF MarkedPcs
    <3>5. CASE w = "ok"
      <4>1. /\ Others(t) /\ hs'[t].id = q /\ hs'[t].pc \in {"verify", "install"}
            /\ hs'[t].req = Req(t) /\ hs'[t].before = hs[t].before
        BY <2>0, <3>1, <3>5 DEF TypeOK, HandlerState, Others
      <4> DEFINE P == Stamped("prepared", Req(t), hs[t].before)
      <4>2. /\ \A o \in Ids : o # q => opsLog'[o] = opsLog[o]
            /\ opsLog'[q] = P /\ records'[q] = P /\ q = nextId + 1
        BY <3>1, <3>2, <3>5, PreparedView
      <4>3. P.req = Req(t) /\ P.before = hs[t].before BY LineFields
      <4>4. /\ \A o \in Ids : opsLog[o].tag # "none" => o < q
            /\ \A o \in landed : o < q
        BY <3>2, <4>2, NewId
      <4> HIDE DEF P
      <4>5. \A o \in Ids : InLog(o)' \/ o \in landed' => o <= q
        BY <2>6, <4>2, <4>4, StoreTypes DEF InLog, Prepare, histVars
      <4>6. M(t)' BY <4>1, <4>2, <4>3, <4>5
      <4>7. \A u \in Handlers : u # t => M(u)'
        BY <1>g, <3>3, <4>1 DEF Others, MarkedPcs
      <4>8. QED BY <4>6, <4>7
    <3>6. QED BY <3>4, <3>5
  <2>7. CASE Commit(t) \/ Withdraw(t)
    <3>1. \E ok \in BOOLEAN : DropGuard(t, ok) BY <2>7 DEF Commit, Withdraw
    <3>2. Others(t) /\ hs'[t].pc = "finish" BY <3>1, DropView
    <3>3. hs[t].pc \in GuardedPcs BY <2>7 DEF Commit, Withdraw, GuardedPcs
    <3>4. QED BY <2>p, <3>2, <3>3 DEF MarkedPcs
  <2>8. CASE RecordExec(t)
    <3>1. Others(t) /\ hs'[t].pc = "finish" /\ hs[t].pc = "record" /\ landed' = landed
      BY <2>0, <2>8 DEF RecordExec, TypeOK, HandlerState, Others
    <3>2. hs[t].id \in Ids /\ opsLog[hs[t].id].tag = "none"
      BY <3>1 DEF TypeOK, HandlerInv, HandlerSound, ExecPcs
    <3>3. PICK tag \in {"exec", "rejected"}, w \in AppendResults :
             AppendRecordTracked(hs[t].id, Stamped(tag, Req(t), None), w)
      BY <2>8 DEF RecordExec, AppendExecRecord
    <3>4. /\ \A o \in Ids : o # hs[t].id => opsLog'[o] = opsLog[o] /\ records'[o] = records[o]
          /\ opsLog'[hs[t].id].tag \notin {"prepared", "fs"}
      BY <3>2, <3>3, AppendView, LineFields
    <3>5. \A u \in Handlers : hs[u].pc \in MarkedPcs => hs[u].id \in Ids /\ hs[u].id # hs[t].id
      BY <3>2 DEF TypeOK, HandlerInv, HandlerSound
    <3>6. \A u \in Handlers : u # t => M(u)'
      BY <1>m, <3>1, <3>4, <3>5 DEF InLog, Others, MarkedPcs
    <3>7. M(t)' BY <3>1 DEF MarkedPcs
    <3>8. QED BY <3>6, <3>7
  <2>9. CASE Gc(t) /\ \E keep, replaced : \E ok \in BOOLEAN :
                        Prune(keep, replaced, ok) /\ DropGuard(t, ok)
    <3>1. \E ok \in BOOLEAN : DropGuard(t, ok) BY <2>9
    <3>2. Others(t) /\ hs'[t].pc = "finish" BY <3>1, DropView
    <3>3. hs[t].pc \in GuardedPcs BY <2>9 DEF Gc, GuardedPcs
    <3>4. QED BY <2>p, <3>2, <3>3 DEF MarkedPcs
  <2>10. QED BY <1>3, <2>1, <2>2, <2>3, <2>4, <2>5, <2>6, <2>7, <2>8, <2>9, HandlerCases
<1>4. CASE StartUp
  <2>1. phase # "serving" /\ hs' = hs
    BY <1>4 DEF StartUp, Start, RecoverMarker, Recovering, RecoverRemember, ResolveStuck,
                StartupPrune, GiveUp
  <2>2. QED BY <2>1 DEF GuardInv, Idle, MarkedPcs
<1>5. CASE Die BY <1>5, <1>d DEF Die
<1>6. ASSUME NEW p \in Paths, NEW c \in FileState, ExternalWrite(p, c)
      PROVE  \A u \in Handlers : M(u)'
  BY <1>6, <1>f DEF ExternalWrite
<1>7. ASSUME NEW w \in 0 .. clock.wall, ClockSteps(w) PROVE \A u \in Handlers : M(u)'
  BY <1>7, <1>f DEF ClockSteps
<1>8. CASE UNCHANGED vars BY <1>8, <1>f DEF vars
<1>9. QED
  BY <1>1, <1>2, <1>3, <1>4, <1>5, <1>6, <1>7, <1>8 DEF Next, Crash, PowerLoss

\* A mutation in a state it asks for changes that state.
LEMMA PreconditionMoves ==
  ASSUME NEW r \in Requests, Body[r].op \in FsOps, NEW c, Precondition(r, c)
  PROVE  c # After(r)
BY DEF Precondition, After, FsOps

\* No step takes back a change by another writer, a clock step or a power loss.
LEMMA OutsideGrows ==
  ASSUME TypeOK, [Next]_vars
  PROVE  /\ externals <= externals' /\ clock.steps <= clock'.steps /\ losses <= losses'
         /\ externals' = externals \/ \E p \in Paths, c \in FileState : ExternalWrite(p, c)
<1> USE DEF wsVars, histVars, budgetVars, UnchangedHist, UnchangedStore, storeVars,
            diskVars, tableVars, pruneHist
<1>0. externals \in Nat /\ losses \in Nat BY DEF TypeOK
<1>t. clock.steps \in Nat /\ Tick.steps = clock.steps BY StoreTypes
<1> DEFINE Goal ==
      /\ externals <= externals' /\ clock.steps <= clock'.steps /\ losses <= losses'
      /\ externals' = externals \/ \E p \in Paths, c \in FileState : ExternalWrite(p, c)
<1>z. ASSUME UNCHANGED <<externals, losses>>, clock' = clock \/ clock' = Tick PROVE Goal
  BY <1>z, <1>0, <1>t
<1>1. ASSUME NEW r \in Requests, Replay(r) PROVE Goal BY <1>1, <1>z DEF Replay
<1>2. ASSUME NEW t \in Handlers, NEW r \in Requests, Receive(t, r) PROVE Goal
  BY <1>2, <1>z DEF Receive
<1>3. ASSUME NEW t \in Handlers, Handler(t) PROVE Goal
  <2>1. CASE Quiet(t) BY <1>z, <2>1, QuietView
  <2>2. CASE Prepare(t) BY <1>z, <2>2 DEF Prepare, PrepareFsRecord
  <2>3. CASE Commit(t) \/ Withdraw(t) \/ RecordExec(t)
    BY <1>z, <2>3 DEF Commit, Withdraw, RecordExec, CommitFsRecord, AbortPrepared,
                      AppendExecRecord, AppendRecordTracked
  <2>4. CASE Claim(t) \/ Install(t) \/ Spawn(t) \/ Finish(t)
    BY <1>z, <2>4 DEF Claim, Install, Spawn, Finish
  <2>5. ASSUME NEW keep, NEW replaced, NEW ok, Gc(t), Prune(keep, replaced, ok) PROVE Goal
    BY <1>z, <2>5 DEF Gc, Prune
  <2>6. QED BY <1>3, <2>1, <2>2, <2>3, <2>4, <2>5, HandlerCases
<1>4. CASE StartUp
  <2>1. UNCHANGED <<externals, losses>>
    BY <1>4 DEF StartUp, Start, RecoverMarker, RecoverRemember, ResolveStuck, StartupPrune, GiveUp
  <2>2. ASSUME NEW q \in Ids, RecoverMarker(q) PROVE clock' = Tick
    BY <2>2 DEF RecoverMarker, CommitFsRecord, AbortPrepared, AppendRecordTracked
  <2>3. CASE StartupPrune
    <3>1. ASSUME NEW keep, NEW replaced, NEW ok, Prune(keep, replaced, ok) PROVE clock' = clock
      BY <3>1 DEF Prune
    <3>2. clock' = clock BY <2>3, <3>1 DEF StartupPrune
    <3>3. QED BY <1>z, <2>1, <3>2
  <2>4. CASE Start \/ RecoverRemember \/ (\E r \in Requests : ResolveStuck(r)) \/ GiveUp
    BY <1>z, <2>1, <2>4 DEF Start, RecoverRemember, ResolveStuck, GiveUp
  <2>5. QED BY <1>4, <1>z, <2>1, <2>2, <2>3, <2>4 DEF StartUp
<1>5. CASE Crash BY <1>5, <1>z DEF Crash, Die
<1>6. ASSUME NEW k \in Ids, PowerLoss(k) PROVE Goal
  BY <1>6, <1>0, <1>t DEF PowerLoss, Die
<1>7. ASSUME NEW p \in Paths, NEW c \in FileState, ExternalWrite(p, c) PROVE Goal
  <2>1. UNCHANGED <<losses, clock>> /\ externals' = externals + 1 BY <1>7 DEF ExternalWrite
  <2>2. QED BY <1>7, <1>0, <1>t, <2>1
<1>8. ASSUME NEW w \in 0 .. clock.wall, ClockSteps(w) PROVE Goal
  BY <1>8, <1>0, <1>t DEF ClockSteps
<1>9. CASE UNCHANGED vars BY <1>9, <1>z DEF vars
<1>10. QED BY <1>1, <1>2, <1>3, <1>4, <1>5, <1>6, <1>7, <1>8, <1>9 DEF Next

\* BaseInv is inductive: only the holder of the guard changes a file.
LEMMA BaseNext ==
  ASSUME TypeOK, GuardInv, GuardInv', HandlerInv, IdInv, TakenInv, MarkInv, BaseInv, [Next]_vars
  PROVE  BaseInv'
<1> USE DEF wsVars, histVars, budgetVars, UnchangedHist, UnchangedStore, storeVars,
            diskVars, tableVars, pruneHist
<1> DEFINE Differ ==
      \A o \in Ids : /\ opsLog[o].tag = "prepared" => opsLog[o].before # After(opsLog[o].req)
                     /\ records[o].tag = "prepared" => records[o].before # After(records[o].req)
           B(u) == hs[u].pc \in BasedPcs =>
                     /\ Body[hs[u].req].op \in FsOps /\ Precondition(hs[u].req, hs[u].before)
                     /\ hs[u].before = file[PathOf(hs[u].req)]
<1>x. SUFFICES ASSUME externals' = 0 PROVE (\A u \in Handlers : B(u)') /\ Differ'
  BY DEF BaseInv, OpOf, PathAt, Req
<1>e. externals = 0 /\ \A p \in Paths, c \in FileState : ~ExternalWrite(p, c)
  <2>1. externals \in Nat /\ externals <= externals' BY OutsideGrows DEF TypeOK
  <2>2. QED BY <1>x, <2>1 DEF ExternalWrite
<1>b. Differ /\ \A u \in Handlers : B(u) BY <1>e DEF BaseInv, OpOf, PathAt, Req
<1>s. Differ'
  <2>1. CASE SameStore BY <1>b, <2>1 DEF SameStore
  <2>2. CASE PrepareStore
    <3>1. PICK t \in Handlers, q \in Ids, w \in AppendResults :
            /\ hs[t].req \in Requests /\ hs[t].before \in FileState /\ hs[t].pc = "prepare"
            /\ PrepareFsRecord(q, hs[t].req, hs[t].before, w) /\ Up
      BY <2>2 DEF PrepareStore
    <3> DEFINE P == Stamped("prepared", hs[t].req, hs[t].before)
               A == Stamped("aborted", hs[t].req, hs[t].before)
    <3>2. /\ \A o \in Ids : o # q => opsLog'[o] = opsLog[o] /\ records'[o] = records[o]
          /\ opsLog'[q] \in {opsLog[q], P, A} /\ records'[q] \in {records[q], P}
      BY <3>1, PreparedView
    <3>3. P.req = hs[t].req /\ P.before = hs[t].before /\ A.tag = "aborted" BY LineFields
    <3>4. hs[t].before # After(hs[t].req)
      BY <1>b, <3>1, PreconditionMoves DEF BasedPcs
    <3> HIDE DEF P, A
    <3>5. QED BY <1>b, <3>2, <3>3, <3>4
  <2>3. ASSUME NEW q \in Ids, NEW rec, NEW w, AppendRecordTracked(q, rec, w), rec.tag # "prepared"
        PROVE  Differ'
    <3>1. /\ \A o \in Ids : o # q => opsLog'[o] = opsLog[o] /\ records'[o] = records[o]
          /\ opsLog'[q] \in {opsLog[q], rec} /\ records'[q] \in {records[q], NoRecord, rec}
      BY <2>3, AppendView
    <3>2. QED BY <1>b, <2>3, <3>1, LineFields
  <2>4. CASE ResolveStore
    <3>1. PICK q \in Ids, tag \in {"fs", "aborted"}, w \in AppendResults :
            AppendRecordTracked(q, Stamped(tag, records[q].req, records[q].before), w)
      BY <2>4 DEF ResolveStore
    <3>2. QED BY <2>3, <3>1, LineFields
  <2>5. CASE ExecStore
    <3>1. PICK q \in Ids, tag \in {"exec", "rejected"}, r \in Requests, w \in AppendResults :
            AppendRecordTracked(q, Stamped(tag, r, None), w)
      BY <2>5 DEF ExecStore
    <3>2. QED BY <2>3, <3>1, LineFields
  <2>6. CASE PruneStore
    <3>1. /\ \A o \in Ids : records'[o] = records[o] \/ records'[o] = NoRecord
          /\ opsLog' = opsLog \/ opsLog' = records'
      BY <2>6, PruneView DEF PruneStore
    <3>2. QED BY <1>b, <3>1, LineFields
  <2>7. CASE LoadStore
    <3>1. (\A o \in Ids : records'[o] = opsLog[o] \/ records'[o] = NoRecord) /\ opsLog' = opsLog
      BY <2>7 DEF LoadStore, Load
    <3>2. QED BY <1>b, <3>1, LineFields
  <2>8. CASE UnloadStore
    <3>1. (\A o \in Ids : records'[o] = NoRecord) /\ opsLog' = opsLog
      BY <2>8 DEF UnloadStore, Unload
    <3>2. QED BY <1>b, <3>1, LineFields
  <2>9. QED BY <2>1, <2>2, <2>4, <2>5, <2>6, <2>7, <2>8, StoreCases
<1>f. ASSUME UNCHANGED <<hs, file>> PROVE \A u \in Handlers : B(u)' BY <1>b, <1>f
<1>d. ASSUME phase' # "serving" PROVE \A u \in Handlers : B(u)'
  BY <1>d DEF GuardInv, Idle, BasedPcs
<1>g. \A t, u \in Handlers : hs[t].pc \in GuardedPcs /\ hs[u].pc \in BasedPcs => t = u
  BY DEF GuardInv, GuardedPcs, BasedPcs
<1>1. ASSUME NEW r \in Requests, Replay(r) PROVE \A u \in Handlers : B(u)' BY <1>1, <1>f DEF Replay
<1>2. ASSUME NEW t \in Handlers, NEW r \in Requests, Receive(t, r) PROVE \A u \in Handlers : B(u)'
  <2>1. Others(t) /\ hs'[t].pc = "claim" /\ file' = file
    BY <1>2 DEF Receive, TypeOK, Others, Idle
  <2>2. QED BY <1>b, <2>1 DEF Others, BasedPcs
<1>3. ASSUME NEW t \in Handlers, Handler(t) PROVE \A u \in Handlers : B(u)'
  <2> USE DEF At
  <2>0. hs[t] \in HandlerState /\ Req(t) = hs[t].req BY DEF TypeOK, Req
  <2>i. hs' = [hs EXCEPT ![t] = Idle] => Others(t) /\ hs'[t].pc = "idle"
    BY DEF TypeOK, Others, Idle
  <2>o. ASSUME Others(t), file' = file, hs'[t].pc \notin BasedPcs PROVE \A u \in Handlers : B(u)'
    BY <1>b, <2>o DEF Others
  <2>1. CASE Quiet(t)
    <3>1. /\ Others(t) /\ <<hs[t].pc, hs'[t].pc>> \in QuietMoves
          /\ hs'[t].req = hs[t].req /\ file' = file
          /\ IF hs[t].pc \in {"check", "hash"} /\ hs'[t].pc # "finish"
             THEN /\ hs'[t].before = file[PathOf(hs[t].req)]
                  /\ hs[t].pc = "check" =>
                       /\ Body[hs[t].req].op \in FsOps
                       /\ Precondition(hs[t].req, file[PathOf(hs[t].req)])
             ELSE hs'[t].before = hs[t].before
      BY <2>1, QuietView DEF OpOf, PathAt, Req
    <3>2. hs'[t].pc \in BasedPcs => hs[t].pc \in {"check"} \cup BasedPcs /\ hs'[t].pc # "finish"
      BY <3>1 DEF QuietMoves, BasedPcs
    <3>3. B(t)' BY <1>b, <3>1, <3>2 DEF BasedPcs
    <3>4. \A u \in Handlers : u # t => B(u)' BY <1>b, <3>1 DEF Others
    <3>5. QED BY <3>3, <3>4
  <2>2. CASE Claim(t)
    <3>1. file' = file BY <2>2 DEF Claim
    <3>2. \/ hs' = [hs EXCEPT ![t] = Idle]
          \/ Goto(t, IF OpOf(t) = "exec" THEN "spawn" ELSE "guard")
      BY <2>2 DEF Claim
    <3>3. Others(t) /\ hs'[t].pc \in {"idle", "spawn", "guard"} BY <2>i, <3>2, GotoView
    <3>4. QED BY <2>o, <3>1, <3>3 DEF BasedPcs
  <2>3. CASE Install(t)
    <3>1. hs[t].pc \in GuardedPcs /\ Others(t) /\ hs'[t].pc = "sync"
      BY <2>3, GotoView DEF Install, GuardedPcs
    <3>2. QED BY <1>g, <3>1 DEF Others, BasedPcs
  <2>4. CASE Spawn(t)
    <3>1. Others(t) /\ hs'[t].pc \in {"running", "record"}
      BY <2>0, <2>4 DEF Spawn, TypeOK, HandlerState, Others
    <3>2. QED BY <2>4, <2>o, <3>1 DEF Spawn, BasedPcs
  <2>5. CASE Finish(t) BY <2>5, <2>i, <2>o DEF Finish, BasedPcs
  <2>6. CASE Prepare(t)
    <3>1. hs[t].pc = "prepare" /\ file' = file BY <2>6 DEF Prepare
    <3>2. Others(t) /\ hs'[t].req = hs[t].req /\ hs'[t].before = hs[t].before
      <4>1. PICK q \in Ids, w \in AppendResults :
              IF w = "ok"
              THEN hs' = [hs EXCEPT ![t].id = q,
                             ![t].pc = IF OpOf(t) = "edit" THEN "verify" ELSE "install"]
              ELSE DropGuard(t, FALSE)
        BY <2>6 DEF Prepare
      <4>2. CASE w = "ok" BY <2>0, <4>1, <4>2 DEF TypeOK, HandlerState, Others
      <4>3. CASE w # "ok" BY <4>1, <4>3, DropView
      <4>4. QED BY <4>2, <4>3
    <3>3. QED BY <1>b, <3>1, <3>2 DEF Others, BasedPcs
  <2>7. CASE Commit(t) \/ Withdraw(t)
    <3>1. \E ok \in BOOLEAN : DropGuard(t, ok) BY <2>7 DEF Commit, Withdraw
    <3>2. Others(t) /\ hs'[t].pc = "finish" BY <3>1, DropView
    <3>3. QED BY <2>7, <2>o, <3>2 DEF Commit, Withdraw, BasedPcs
  <2>8. CASE RecordExec(t)
    <3>1. Others(t) /\ hs'[t].pc = "finish"
      BY <2>0, <2>8 DEF RecordExec, TypeOK, HandlerState, Others
    <3>2. QED BY <2>8, <2>o, <3>1 DEF RecordExec, BasedPcs
  <2>9. CASE Gc(t) /\ \E keep, replaced : \E ok \in BOOLEAN :
                        Prune(keep, replaced, ok) /\ DropGuard(t, ok)
    <3>1. \E ok \in BOOLEAN : DropGuard(t, ok) BY <2>9
    <3>2. Others(t) /\ hs'[t].pc = "finish" BY <3>1, DropView
    <3>3. file' = file BY <2>9 DEF Gc
    <3>4. QED BY <2>o, <3>2, <3>3 DEF BasedPcs
  <2>10. QED BY <1>3, <2>1, <2>2, <2>3, <2>4, <2>5, <2>6, <2>7, <2>8, <2>9, HandlerCases
<1>4. CASE StartUp
  <2>1. phase # "serving" /\ hs' = hs
    BY <1>4 DEF StartUp, Start, RecoverMarker, Recovering, RecoverRemember, ResolveStuck,
                StartupPrune, GiveUp
  <2>2. QED BY <2>1, <1>s DEF GuardInv, Idle, BasedPcs
<1>5. CASE Die BY <1>5, <1>d, <1>s DEF Die
<1>6. ASSUME NEW w \in 0 .. clock.wall, ClockSteps(w) PROVE \A u \in Handlers : B(u)'
  BY <1>6, <1>f DEF ClockSteps
<1>7. CASE UNCHANGED vars BY <1>7, <1>f, <1>s DEF vars
<1> HIDE DEF B, Differ
<1>8. QED
  BY <1>e, <1>s, <1>1, <1>2, <1>3, <1>4, <1>5, <1>6, <1>7 DEF Next, Crash, PowerLoss

-----------------------------------------------------------------------------
(***************************************************************************)
(* What is in the workspace, and what is not yet durable.                  *)
(***************************************************************************)
\* The list of ways to change entries is complete.
LEMMA EntryCases ==
  ASSUME TypeOK, RequestInv, [Next]_vars
  PROVE  \/ SameEntries \/ WriteEntry \/ PruneStore \/ LoadEntries \/ UnloadEntries
         \/ \E r \in Requests : ResolveStuck(r)
<1> USE DEF wsVars, histVars, budgetVars, UnchangedHist, UnchangedStore, storeVars,
            diskVars, tableVars, pruneHist
<1>s. UNCHANGED <<reqLog, requests, forgets, phase>> => SameEntries BY DEF SameEntries, Up
<1>1. ASSUME NEW r \in Requests, Replay(r) PROVE SameEntries BY <1>1, <1>s DEF Replay
<1>2. ASSUME NEW t \in Handlers, NEW r \in Requests, Receive(t, r) PROVE SameEntries
  BY <1>2, <1>s DEF Receive
<1>3. ASSUME NEW t \in Handlers, Handler(t) PROVE SameEntries \/ WriteEntry \/ PruneStore
  <2> USE DEF At
  <2>0. hs[t] \in HandlerState /\ (hs[t].pc # "idle" => Req(t) \in Requests)
    BY DEF TypeOK, Req
  <2>1. CASE Quiet(t) BY <1>s, <2>1, QuietView
  <2>2. CASE Prepare(t) \/ Install(t) \/ Spawn(t) \/ Commit(t) \/ Withdraw(t) \/ RecordExec(t)
    BY <1>s, <2>2 DEF Prepare, Install, Spawn, Commit, Withdraw, RecordExec
  <2>3. CASE Claim(t)
    <3>1. CASE ~Claimable(Req(t)) BY <1>s, <2>3, <3>1 DEF Claim
    <3>2. CASE Claimable(Req(t))
      <4>1. \E w \in AppendResults : AppendRequestTracked(Req(t), InProgress, w)
        BY <2>3, <3>2 DEF Claim, ClaimRequest
      <4>2. UNCHANGED forgets /\ (Up' => Up) /\ Req(t) \in Requests
        BY <2>0, <2>3, <3>2 DEF Claim, Up
      <4>3. /\ InProgress \in Entry /\ InProgress.status # "unknown"
            /\ Up /\ requests[Req(t)].status = "unknown" /\ ~Success(InProgress)
        BY <2>3, <3>2, EntryType DEF InProgress, Claim, Claimable, Known, Up, Success
      <4>4. QED BY <4>1, <4>2, <4>3 DEF WriteEntry
    <3>3. QED BY <3>1, <3>2
  <2>4. CASE Finish(t)
    <3> DEFINE result == IF hs[t].ok THEN Done(hs[t].id) ELSE Failed
    <3>1. \E w \in AppendResults : AppendRequestTracked(Req(t), result, w) BY <2>4 DEF Finish
    <3>2. UNCHANGED forgets /\ (Up' => Up) /\ Req(t) \in Requests BY <2>0, <2>4 DEF Finish, Up
    <3>3. result \in Entry /\ result.status \in {"done", "error"}
      BY <2>0, EntryType DEF HandlerState, Done, Failed
    <3>4. Success(result) => hs[t].ok /\ hs[t].id # 0 BY DEF Success, Done, Failed
    <3> HIDE DEF result
    <3>5. QED BY <3>1, <3>2, <3>3, <3>4 DEF WriteEntry, Req
  <2>5. CASE Gc(t) /\ \E keep, replaced : \E ok \in BOOLEAN :
                        Prune(keep, replaced, ok) /\ DropGuard(t, ok)
    <3>1. Up /\ dropped' = dropped /\ hs[t].pc = "check" BY <2>5 DEF Gc, Up, At
    <3>2. QED BY <2>5, <3>1 DEF PruneStore
  <2>6. QED BY <1>3, <2>1, <2>2, <2>3, <2>4, <2>5, HandlerCases
<1>4. CASE StartUp
  <2>1. CASE Start BY <2>1 DEF Start, Load, LoadEntries, Up
  <2>2. ASSUME NEW q \in Ids, RecoverMarker(q) PROVE SameEntries
    BY <2>2 DEF RecoverMarker, Recovering, SameEntries, Up
  <2>3. CASE RecoverRemember
    <3>1. \E w \in AppendResults : AppendRequestTracked(owing.req, owing.entry, w)
      BY <2>3 DEF RecoverRemember
    <3>2. UNCHANGED forgets /\ (Up' => Up) /\ owing.req \in Requests /\ owing.entry \in Entry
      BY <2>3 DEF RecoverRemember, Up, TypeOK
    <3>3. owing.entry.status \in {"done", "error"} BY <2>3 DEF RecoverRemember, RequestInv, AgreeInv
    <3>4. QED BY <3>1, <3>2, <3>3 DEF WriteEntry
  <2>4. CASE StartupPrune
    <3>1. Up /\ dropped' = dropped BY <2>4 DEF StartupPrune, Recovering, Up
    <3>2. CASE HistoryLimit = None BY <2>4, <3>1, <3>2 DEF StartupPrune, SameEntries, Up
    <3>3. CASE HistoryLimit # None BY <2>4, <3>1, <3>3 DEF StartupPrune, PruneStore
    <3>4. QED BY <3>2, <3>3
  <2>5. CASE GiveUp BY <2>5 DEF GiveUp, UnloadEntries, Up
  <2>6. QED BY <1>4, <2>1, <2>2, <2>3, <2>4, <2>5 DEF StartUp
<1>5. CASE Die BY <1>5 DEF Die, UnloadEntries, Up
<1>6. ASSUME NEW p \in Paths, NEW c \in FileState, ExternalWrite(p, c) PROVE SameEntries
  BY <1>6, <1>s DEF ExternalWrite
<1>7. ASSUME NEW w \in 0 .. clock.wall, ClockSteps(w) PROVE SameEntries
  BY <1>7, <1>s DEF ClockSteps
<1>8. CASE UNCHANGED vars BY <1>8, <1>s DEF vars
<1>9. QED
  BY <1>1, <1>2, <1>3, <1>4, <1>5, <1>6, <1>7, <1>8 DEF Next, Crash, PowerLoss

\* In a running server the marker of a mutation that happened is in the table.
LEMMA MarkerUp ==
  ASSUME TypeOK, TableInv, LandedInv, MarkInv, NEW m \in landed, Marker(m)
  PROVE  /\ m \in Ids /\ m \notin pruned \cup dropped /\ InLog(m)
         /\ opsLog[m].req \in Requests
         /\ Up => records[m].tag = "prepared" /\ records[m].req = opsLog[m].req
<1>1. m \in Ids BY DEF TypeOK
<1>2. m \notin pruned \cup dropped BY DEF MarkInv, Marker, InLog, InTable
<1>3. InLog(m) /\ (Up => InTable(m)) BY <1>2 DEF LandedInv, InLog, InTable
<1>4. Up => records[m].tag = "prepared"
  BY <1>1, <1>3 DEF Marker, TableInv, Committed, InTable
<1>5. QED BY <1>1, <1>2, <1>3, <1>4 DEF MarkInv, InLog, TypeOK, StoreTypeOK

\* The log lines of mutations that happened change only from marker to record.
LEMMA LandedMoves ==
  ASSUME TypeOK, HandlerInv, IdInv, TakenInv, TableInv, LandedInv, MarkInv, [Next]_vars,
         NEW o \in landed
  PROVE  /\ InLog(o)' => /\ InLog(o) /\ opsLog'[o].req = opsLog[o].req
                         /\ opsLog'[o].before = opsLog[o].before
         /\ Marker(o)' => Marker(o) /\ opsLog'[o].req = opsLog[o].req
<1>0. o \in Ids BY DEF TypeOK
<1>u. ASSUME Up, records[o].tag = "prepared"
      PROVE  InLog(o) /\ opsLog[o].req = records[o].req /\ opsLog[o].before = records[o].before
  BY <1>0, <1>u, MarkerUp DEF Marker, MarkInv
<1>t. ASSUME Up, records[o].tag = "fs" PROVE opsLog[o] = records[o]
  BY <1>0, <1>t DEF TableInv, Committed
<1>1. CASE SameStore BY <1>1 DEF SameStore, InLog, Marker
<1>2. CASE PrepareStore
  <2>1. PICK t \in Handlers, q \in Ids, w \in AppendResults :
          /\ hs[t].req \in Requests /\ hs[t].before \in FileState
          /\ PrepareFsRecord(q, hs[t].req, hs[t].before, w) /\ Up
    BY <1>2 DEF PrepareStore
  <2>2. /\ \A x \in Ids : x # q => opsLog'[x] = opsLog[x] /\ records'[x] = records[x]
        /\ q = nextId + 1
    BY <2>1, PreparedView
  <2>3. o # q BY <2>1, <2>2, NewId
  <2>4. QED BY <1>0, <2>1, <2>2, <2>3 DEF InLog, Marker
<1>3. CASE ResolveStore
  <2>1. PICK q \in Ids, tag \in {"fs", "aborted"}, w \in AppendResults :
          /\ AppendRecordTracked(q, Stamped(tag, records[q].req, records[q].before), w)
          /\ records[q].tag = "prepared" /\ Up
    BY <1>3 DEF ResolveStore
  <2> DEFINE rec == Stamped(tag, records[q].req, records[q].before)
  <2>2. /\ \A x \in Ids : x # q => opsLog'[x] = opsLog[x] /\ records'[x] = records[x]
        /\ opsLog'[q] \in {opsLog[q], rec}
    BY <2>1, AppendView
  <2>3. rec.tag = tag /\ rec.req = records[q].req /\ rec.before = records[q].before
    BY LineFields
  <2> HIDE DEF rec
  <2>4. CASE o # q BY <1>0, <2>1, <2>2, <2>4 DEF InLog, Marker
  <2>5. CASE o = q BY <1>0, <1>u, <2>1, <2>2, <2>3, <2>5 DEF InLog, Marker
  <2>6. QED BY <2>4, <2>5
<1>4. CASE ExecStore
  <2>1. PICK q \in Ids, tag \in {"exec", "rejected"}, r \in Requests, w \in AppendResults :
          /\ AppendRecordTracked(q, Stamped(tag, r, None), w) /\ Up
          /\ opsLog[q].tag = "none" /\ records[q].tag = "none"
    BY <1>4 DEF ExecStore
  <2> DEFINE rec == Stamped(tag, r, None)
  <2>2. /\ \A x \in Ids : x # q => opsLog'[x] = opsLog[x] /\ records'[x] = records[x]
        /\ opsLog'[q] \in {opsLog[q], rec} /\ records'[q] \in {records[q], NoRecord, rec}
    BY <2>1, AppendView
  <2>3. rec.tag = tag BY LineFields
  <2> HIDE DEF rec
  <2>4. CASE o # q BY <1>0, <2>1, <2>2, <2>4 DEF InLog, Marker
  <2>5. CASE o = q BY <1>0, <2>1, <2>2, <2>3, <2>5, LineFields DEF InLog, Marker
  <2>6. QED BY <2>4, <2>5
<1>5. CASE PruneStore
  <2>1. /\ \A x \in Ids : records'[x] = records[x] \/ records'[x] = NoRecord
        /\ opsLog' = opsLog \/ opsLog' = records'
        /\ Up
    BY <1>5, PruneView DEF PruneStore
  <2>2. QED BY <1>0, <1>t, <1>u, <2>1, LineFields DEF InLog, Marker
<1>6. CASE LoadStore
  <2>1. /\ \A x \in Ids : records'[x] = opsLog[x] \/ records'[x] = NoRecord
        /\ opsLog' = opsLog
    BY <1>6 DEF LoadStore, Load
  <2>2. QED BY <1>0, <2>1, LineFields DEF InLog, Marker
<1>7. CASE UnloadStore BY <1>7 DEF UnloadStore, InLog, Marker
<1>8. QED BY <1>1, <1>2, <1>3, <1>4, <1>5, <1>6, <1>7, StoreCases

\* What is in the workspace grows by installs and falls by power losses only.
LEMMA LandedGrows ==
  ASSUME TypeOK, [Next]_vars
  PROVE  \/ UNCHANGED <<landed, file>> /\ \A p \in Paths : unsynced'[p] \in {unsynced[p], {}}
         \/ \E t \in Handlers : Install(t)
         \/ \E k \in Ids : PowerLoss(k)
         \/ externals' > 0 /\ UNCHANGED <<landed, unsynced>>
<1> USE DEF wsVars, histVars, budgetVars, UnchangedHist, UnchangedStore, storeVars,
            diskVars, tableVars, pruneHist
<1>1. ASSUME NEW r \in Requests, Replay(r) PROVE UNCHANGED <<landed, file, unsynced>> BY <1>1 DEF Replay
<1>2. ASSUME NEW t \in Handlers, NEW r \in Requests, Receive(t, r)
      PROVE  UNCHANGED <<landed, file, unsynced>>
  BY <1>2 DEF Receive
<1>3. ASSUME NEW t \in Handlers, Handler(t) 
      PROVE  \/ Install(t)
             \/ UNCHANGED <<landed, file>> /\ \A p \in Paths : unsynced'[p] \in {unsynced[p], {}}
  <2>1. CASE Quiet(t) BY <2>1, QuietView
  <2>2. CASE Claim(t) \/ Prepare(t) \/ Commit(t) \/ Withdraw(t) \/ RecordExec(t) \/ Spawn(t)
             \/ Finish(t) \/ Gc(t)
    BY <2>2 DEF Claim, Prepare, Commit, Withdraw, RecordExec, Spawn, Finish, Gc
  <2>3. QED BY <1>3, <2>1, <2>2, HandlerCases
<1>4. CASE StartUp
  BY <1>4 DEF StartUp, Start, RecoverMarker, RecoverRemember, ResolveStuck, StartupPrune, GiveUp
<1>5. CASE Crash BY <1>5 DEF Crash
<1>6. ASSUME NEW p \in Paths, NEW c \in FileState, ExternalWrite(p, c) 
      PROVE  externals' > 0 /\ UNCHANGED <<landed, unsynced>>
  BY <1>6 DEF ExternalWrite, TypeOK
<1>7. ASSUME NEW w \in 0 .. clock.wall, ClockSteps(w) PROVE UNCHANGED <<landed, file, unsynced>>
  BY <1>7 DEF ClockSteps
<1>8. CASE UNCHANGED vars BY <1>8 DEF vars
<1>9. QED BY <1>1, <1>2, <1>3, <1>4, <1>5, <1>6, <1>7, <1>8 DEF Next

\* KnownInv is inductive: prune keeps the entries of what it keeps markers of.
LEMMA KnownNext ==
  ASSUME TypeOK, TypeOK', HandlerInv, IdInv, TakenInv, TableInv, LandedInv, MarkInv, MarkInv',
         RequestInv, KnownInv, [Next]_vars
  PROVE  KnownInv'
<1> SUFFICES ASSUME NEW m \in landed', Marker(m)'
             PROVE  /\ reqLog'[opsLog'[m].req].status # "unknown"
                    /\ Up' => requests'[opsLog'[m].req].status # "unknown"
  BY DEF KnownInv
<1>1. CASE m \in landed
  <2>1. Marker(m) /\ opsLog'[m].req = opsLog[m].req BY <1>1, LandedMoves
  <2> DEFINE r == opsLog[m].req
  <2>2. /\ r \in Requests /\ m \in Ids
        /\ Up => records[m].tag = "prepared" /\ records[m].req = r
    BY <1>1, <2>1, MarkerUp
  <2>3. reqLog[r].status # "unknown" /\ (Up => requests[r].status # "unknown")
    BY <1>1, <2>1 DEF KnownInv
  <2> HIDE DEF r
  <2>4. reqLog'[r].status # "unknown" /\ (Up' => requests'[r].status # "unknown")
    <3>1. CASE SameEntries BY <2>3, <3>1 DEF SameEntries
    <3>2. CASE WriteEntry
      <4>1. PICK s \in Requests, e \in Entry, w \in AppendResults :
              AppendRequestTracked(s, e, w) /\ e.status # "unknown" /\ (Up' => Up)
        BY <3>2 DEF WriteEntry
      <4>2. /\ reqLog'[r] = reqLog[r] \/ reqLog'[r] = e
            /\ requests'[r] = requests[r] \/ requests'[r] = e
        BY <2>2, <4>1, RequestView
      <4>3. QED BY <2>3, <4>1, <4>2
    <3>3. CASE PruneStore
      <4>0. PICK keep, replaced, ok : Prune(keep, replaced, ok) /\ Up
        BY <3>3 DEF PruneStore
      <4>1. reqLog' = reqLog \/ reqLog' = requests' BY <4>0, PruneView
      <4>2. \A o \in Ids : \/ records'[o] = records[o]
                           \/ records'[o] = NoRecord /\ records[o].tag # "prepared"
        BY <4>0, PruneView
      <4>3. \/ requests'[r] = requests[r]
            \/ \A o \in Ids : records'[o].req # r \/ records'[o].tag = "none"
            \/ requests[r].status = "unknown"
        BY <2>2, <4>0, PruneView
      <4>4. records'[m] = records[m] BY <2>2, <4>0, <4>2
      <4>5. QED BY <2>2, <2>3, <4>0, <4>1, <4>3, <4>4
    <3>4. CASE LoadEntries BY <2>3, <3>4 DEF LoadEntries
    <3>5. CASE UnloadEntries BY <2>3, <3>5 DEF UnloadEntries
    <3>6. ASSUME NEW s \in Requests, ResolveStuck(s) PROVE FALSE
      BY <2>2, <3>6 DEF ResolveStuck, Recovering, Up, Pending, IsPending
    <3>7. QED BY <3>1, <3>2, <3>3, <3>4, <3>5, <3>6, EntryCases
  <2>5. QED BY <2>1, <2>4 DEF r
<1>2. CASE m \notin landed
  <2>1. PICK t \in Handlers : Install(t)
    BY <1>2, LandedGrows DEF PowerLoss
  <2>2. /\ m = hs[t].id /\ hs[t].pc = "install" /\ phase = "serving"
        /\ UNCHANGED <<opsLog, records, reqLog, requests, phase>>
    BY <1>2, <2>1 DEF Install, At, UnchangedStore, storeVars, diskVars, tableVars
  <2>3. m \in Ids /\ records[m].tag = "prepared" /\ records[m].req = hs[t].req
    BY <2>2 DEF TypeOK, HandlerInv, HandlerSound, MarkInv, MarkedPcs
  <2>4. opsLog[m].req = hs[t].req /\ hs[t].req \in Requests
    BY <2>2, <2>3 DEF MarkInv, TypeOK
  <2>5. requests[hs[t].req].status = "inprogress"
    BY <2>2 DEF RequestInv, ClaimInv, ActivePcs, Pcs
  <2>6. reqLog[hs[t].req].status # "unknown"
    BY <2>2, <2>4, <2>5 DEF RequestInv, AgreeInv, Up
  <2>7. QED BY <2>2, <2>4, <2>5, <2>6
<1>3. QED BY <1>1, <1>2

\* What a step leaves of the mutations of a file that the log knows of.
LEMMA OnMoves ==
  ASSUME TypeOK, HandlerInv, IdInv, TakenInv, TableInv, LandedInv, MarkInv, [Next]_vars,
         NEW p, NEW o \in landed, InLog(o)', PathOf(opsLog'[o].req) = p
  PROVE  o \in On(p)
<1>1. InLog(o) /\ opsLog'[o].req = opsLog[o].req BY LandedMoves
<1>2. QED BY <1>1 DEF On

\* What an install adds.
LEMMA InstallView ==
  ASSUME TypeOK, HandlerInv, MarkInv, BaseInv, NEW t \in Handlers, Install(t)
  PROVE  /\ hs[t].id \in Ids /\ hs[t].id \notin landed /\ landed' = landed \cup {hs[t].id}
         /\ hs[t].req \in Requests /\ PathAt(t) \in Paths
         /\ opsLog[hs[t].id].tag = "prepared" /\ records[hs[t].id].tag = "prepared"
         /\ opsLog[hs[t].id].req = hs[t].req
         /\ externals = 0 => opsLog[hs[t].id].before = file[PathAt(t)]
         /\ \A o \in Ids : InLog(o) \/ o \in landed => o <= hs[t].id
         /\ file'[PathAt(t)] = After(hs[t].req)
         /\ unsynced'[PathAt(t)] = unsynced[PathAt(t)] \cup
              {[id |-> hs[t].id, req |-> hs[t].req, old |-> file[PathAt(t)]]}
         /\ \A p \in Paths : p # PathAt(t) => file'[p] = file[p] /\ unsynced'[p] = unsynced[p]
         /\ UNCHANGED <<opsLog, reqLog, records, slot, requests, clock, phase, dropped, pruned,
                        forgets, orphaned, externals, losses, told, owing>>
         /\ runs' = [runs EXCEPT ![hs[t].req] = @ + 1]
<1> USE DEF UnchangedStore, storeVars, diskVars, tableVars, pruneHist, budgetVars
<1>1. hs[t].pc = "install" /\ hs[t].id \in Ids /\ hs[t].req \in Requests
  BY DEF Install, At, TypeOK, MarkedPcs
<1>2. PathAt(t) \in Paths BY <1>1, BodyAssumption DEF PathAt, PathOf, Req
<1>3. /\ hs[t].id \notin landed /\ opsLog[hs[t].id].tag = "prepared"
      /\ records[hs[t].id].tag = "prepared"
  BY <1>1 DEF HandlerInv, HandlerSound, MarkedPcs, UnlandedPcs
<1>4. /\ records[hs[t].id].req = hs[t].req /\ records[hs[t].id].before = hs[t].before
      /\ \A o \in Ids : InLog(o) \/ o \in landed => o <= hs[t].id
  BY <1>1 DEF MarkInv, MarkedPcs
<1>5. opsLog[hs[t].id].req = hs[t].req /\ opsLog[hs[t].id].before = hs[t].before
  BY <1>1, <1>3, <1>4 DEF MarkInv
<1>6. externals = 0 => hs[t].before = file[PathAt(t)] BY <1>1 DEF BaseInv, BasedPcs
<1>7. file \in [Paths -> FileState] /\ unsynced \in [Paths -> SUBSET Unsynced] BY DEF TypeOK
<1>8. /\ file' = [file EXCEPT ![PathAt(t)] = After(hs[t].req)]
      /\ unsynced' = [unsynced EXCEPT ![PathAt(t)] =
           @ \cup {[id |-> hs[t].id, req |-> hs[t].req, old |-> file[PathAt(t)]]}]
      /\ landed' = landed \cup {hs[t].id}
      /\ runs' = [runs EXCEPT ![hs[t].req] = @ + 1]
      /\ UNCHANGED <<opsLog, reqLog, records, slot, requests, clock, phase, dropped, pruned,
                     forgets, orphaned, externals, losses, told, owing>>
  BY DEF Install, Req
<1>9. QED BY <1>1, <1>2, <1>3, <1>4, <1>5, <1>6, <1>7, <1>8

\* SyncInv is inductive: an install joins what its sync takes away.
LEMMA SyncNext ==
  ASSUME TypeOK, TypeOK', HandlerInv, IdInv, TakenInv, TableInv, LandedInv, MarkInv, BaseInv,
         SyncInv, [Next]_vars
  PROVE  SyncInv'
<1> SUFFICES ASSUME NEW p \in Paths, NEW u \in unsynced'[p]
             PROVE  /\ u.id \in landed' /\ PathOf(u.req) = p
                    /\ InLog(u.id)' => /\ opsLog'[u.id].req = u.req
                                       /\ externals' = 0 => opsLog'[u.id].before = u.old
                    /\ \A o \in On(p)' : u.id < o => \E v \in unsynced'[p] : v.id = o
  BY DEF SyncInv
<1>1. u.id \in Ids /\ unsynced[p] \subseteq Unsynced
  BY DEF TypeOK, Unsynced
<1>2. externals' = 0 => externals = 0 BY OutsideGrows DEF TypeOK
<1>3. CASE u \in unsynced[p] /\ landed' = landed /\ unsynced'[p] = unsynced[p]
  <2>1. u.id \in landed /\ PathOf(u.req) = p BY <1>3 DEF SyncInv
  <2>2. InLog(u.id)' => /\ opsLog'[u.id].req = u.req
                        /\ externals' = 0 => opsLog'[u.id].before = u.old
    <3>1. InLog(u.id)' => /\ InLog(u.id) /\ opsLog'[u.id].req = opsLog[u.id].req
                          /\ opsLog'[u.id].before = opsLog[u.id].before
      BY <2>1, LandedMoves
    <3>2. QED BY <1>2, <1>3, <3>1 DEF SyncInv
  <2>3. ASSUME NEW o \in On(p)', u.id < o PROVE \E v \in unsynced'[p] : v.id = o
    <3>1. o \in landed /\ InLog(o)' /\ PathOf(opsLog'[o].req) = p BY <1>3, <2>3 DEF On
    <3>2. o \in On(p) BY <3>1, OnMoves
    <3>3. QED BY <1>3, <2>3, <3>2 DEF SyncInv
  <2>4. QED BY <1>3, <2>1, <2>2, <2>3
<1>4. ASSUME NEW t \in Handlers, Install(t)
      PROVE  /\ u.id \in landed' /\ PathOf(u.req) = p
             /\ InLog(u.id)' => /\ opsLog'[u.id].req = u.req
                                /\ externals' = 0 => opsLog'[u.id].before = u.old
             /\ \A o \in On(p)' : u.id < o => \E v \in unsynced'[p] : v.id = o
  <2> DEFINE q == hs[t].id
             new == [id |-> q, req |-> hs[t].req, old |-> file[PathAt(t)]]
  <2>1. /\ q \in Ids /\ landed' = landed \cup {q} /\ opsLog[q].tag = "prepared"
        /\ opsLog[q].req = hs[t].req /\ PathOf(hs[t].req) = PathAt(t) /\ PathAt(t) \in Paths
        /\ externals = 0 => opsLog[q].before = file[PathAt(t)]
        /\ \A o \in Ids : InLog(o) \/ o \in landed => o <= q
        /\ unsynced'[PathAt(t)] = unsynced[PathAt(t)] \cup {new}
        /\ \A x \in Paths : x # PathAt(t) => unsynced'[x] = unsynced[x]
        /\ opsLog' = opsLog
    BY <1>4, InstallView DEF PathAt, Req
  <2>2. new.id = q /\ new.req = hs[t].req /\ new.old = file[PathAt(t)] OBVIOUS
  <2> HIDE DEF new, q
  <2>3. \A o \in On(p)' : (o \in On(p) \/ (o = q /\ p = PathAt(t))) /\ o \in Ids /\ InLog(o)
    BY <2>1 DEF On, InLog, TypeOK
  <2>4. CASE u \in unsynced[p]
    <3>1. u.id \in landed' /\ PathOf(u.req) = p BY <2>1, <2>4 DEF SyncInv
    <3>2. InLog(u.id)' => /\ opsLog'[u.id].req = u.req
                          /\ externals' = 0 => opsLog'[u.id].before = u.old
      BY <1>2, <2>1, <2>4 DEF SyncInv, InLog
    <3>3. unsynced[p] \subseteq unsynced'[p] BY <2>1
    <3>4. ASSUME NEW o \in On(p)', u.id < o PROVE \E v \in unsynced'[p] : v.id = o
      <4>1. CASE o \in On(p) BY <2>4, <3>3, <3>4, <4>1 DEF SyncInv
      <4>2. CASE o = q /\ p = PathAt(t) BY <2>1, <2>2, <4>2
      <4>3. QED BY <2>3, <4>1, <4>2
    <3>5. QED BY <3>1, <3>2, <3>4
  <2>5. CASE u = new /\ p = PathAt(t)
    <3>1. \A o \in On(p)' : ~(u.id < o) BY <2>1, <2>2, <2>3, <2>5 DEF Ids
    <3>2. QED BY <1>2, <2>1, <2>2, <2>5, <3>1
  <2>6. QED BY <2>1, <2>4, <2>5
<1>5. ASSUME NEW k \in Ids, PowerLoss(k) PROVE FALSE
  BY <1>5 DEF PowerLoss
<1>6. QED BY <1>3, <1>4, <1>5, LandedGrows

-----------------------------------------------------------------------------
(***************************************************************************)
(* Recovery finds what happened.                                           *)
(***************************************************************************)
\* Recovery finds a mutation that happened and on which the next one was built,
\* or that the file still shows.
LEMMA RecoverKey ==
  ASSUME TypeOK, RequestInv, OrderInv, BaseInv, Calm, NEW q \in landed, RecoverMarker(q),
         Linked(q, PathOf(opsLog[q].req))
  PROVE  RecoveryOutcome(q, file[PathOf(records[q].req)]) = "committed"
<1> DEFINE p == PathOf(opsLog[q].req)
<1>1. /\ q \in Ids /\ phase = "recover" /\ records[q].tag = "prepared"
      /\ \A x \in Pending : ~Later(x, q)
  BY DEF RecoverMarker, Recovering, NewestMarker, IsPending, TypeOK
<1>2. \A x \in Ids : records[x] = IF opsLog[x].tag = "aborted" THEN NoRecord ELSE opsLog[x]
  BY <1>1 DEF RequestInv, AgreeInv
<1>3. records[q] = opsLog[q] BY <1>1, <1>2, LineFields
<1>4. records[q].before # After(records[q].req) BY <1>1 DEF BaseInv, Calm
<1>5. CASE file[p] = After(opsLog[q].req) BY <1>3, <1>4, <1>5 DEF RecoveryOutcome
<1>6. ASSUME NEW x \in On(p), q < x, opsLog[x].before = After(opsLog[q].req)
      PROVE  ContinuedFrom(q)
  <2>1. x \in Ids /\ InLog(x) /\ PathOf(opsLog[x].req) = p BY DEF On, TypeOK
  <2>2. records[x] = opsLog[x] /\ InTable(x) BY <1>2, <2>1 DEF InLog, InTable
  <2>3. slot[q] < slot[x] BY <1>1, <1>6, <2>1, <2>2 DEF OrderInv, Calm
  <2>4. Later(x, q) BY <2>1, <2>3, <1>1, StoreTypes DEF Later
  <2>5. records[x].tag = "fs" BY <1>1, <2>1, <2>2, <2>4 DEF Pending, IsPending, InTable
  <2>6. Follows(x, q) BY <1>3, <2>1, <2>2, <2>4, <2>5 DEF Follows
  <2>7. QED BY <1>3, <1>6, <2>1, <2>2, <2>6 DEF ContinuedFrom
<1>7. QED BY <1>5, <1>6 DEF Linked, RecoveryOutcome

\* A marker that an untouched request cannot have any more.
LEMMA MarkerUndecided ==
  ASSUME TypeOK, GuardInv, TableInv, LandedInv, MarkInv, RequestInv, KnownInv,
         NEW m \in landed, Marker(m), Untouched(opsLog[m].req)
  PROVE  Undecided(opsLog[m].req)
<1> DEFINE r == opsLog[m].req
<1>1. /\ reqLog[r].status # "unknown" /\ (Up => requests[r].status # "unknown")
  BY DEF KnownInv
<1>2. PICK t \in Handlers : hs[t].pc \in ClaimedPcs /\ hs[t].req = r
  BY <1>1 DEF Untouched
<1>3. phase = "serving" BY <1>2 DEF GuardInv, Idle, ClaimedPcs
<1>4. requests[r].status = "inprogress"
  BY <1>2 DEF RequestInv, ClaimInv, ActivePcs, ClaimedPcs, Pcs
<1>5. QED BY <1>3, <1>4 DEF Undecided, Up

\* What history lost stays lost.
LEMMA HistoryGrows ==
  ASSUME TypeOK, HandlerInv, MarkInv, [Next]_vars
  PROVE  pruned \subseteq pruned' /\ orphaned \subseteq orphaned'
<1>1. CASE PruneStore
  <2>1. PICK keep, replaced, ok : Prune(keep, replaced, ok) BY <1>1 DEF PruneStore
  <2>2. QED BY <2>1 DEF Prune
<1>2. QED
  BY <1>1, StoreCases DEF SameStore, PrepareStore, ResolveStore, ExecStore, LoadStore,
                          UnloadStore

\* Evidence that is intact after a step was intact before it.
LEMMA IntactBefore ==
  ASSUME TypeOK, TypeOK', GuardInv, HandlerInv, IdInv, TakenInv, TableInv, LandedInv, MarkInv,
         RequestInv, KnownInv, [Next]_vars, NEW m \in landed, Marker(m)', Intact(m)'
  PROVE  Intact(m)
<1>1. Marker(m) /\ opsLog'[m].req = opsLog[m].req BY LandedMoves
<1>2. PICK r \in Requests : r = opsLog[m].req BY <1>1, MarkerUp
<1>3. pruned \subseteq pruned' /\ orphaned \subseteq orphaned' BY HistoryGrows
<1>4. CASE pruned' = {} BY <1>3, <1>4 DEF Intact
<1>5. CASE r \notin orphaned' /\ Undecided(r)'
  <2>1. Undecided(r) \/ Untouched(r) BY <1>2, <1>5, NamedMoves DEF NamedMove
  <2>2. Undecided(r) BY <1>1, <1>2, <2>1, MarkerUndecided
  <2>3. QED BY <1>2, <1>3, <1>5, <2>2 DEF Intact
<1>6. QED BY <1>1, <1>2, <1>4, <1>5 DEF Intact

\* A chain stays when its file and its lines do.
LEMMA ChainKept ==
  ASSUME TypeOK, HandlerInv, IdInv, TakenInv, TableInv, LandedInv, MarkInv, SyncInv,
         [Next]_vars, NEW m \in Ids, NEW p \in Paths, Chain(m, p),
         landed' \subseteq landed, file'[p] = file[p], unsynced'[p] \subseteq unsynced[p],
         \A x \in On(p) : m <= x => x \in landed' /\ InLog(x)' /\ (Up' => InTable(x)')
  PROVE  Chain(m, p)'
<1>1. On(p)' \subseteq On(p) BY OnMoves DEF On
<1>2. \A x \in On(p) : x \in landed /\ x \in Ids /\ InLog(x) /\ PathOf(opsLog[x].req) = p
  BY DEF On, TypeOK
<1>3. \A x \in On(p) : InLog(x)' => /\ opsLog'[x].req = opsLog[x].req
                                    /\ opsLog'[x].before = opsLog[x].before
  BY <1>2, LandedMoves
<1>4. \A x \in On(p) : m <= x => x \in On(p)' BY <1>2, <1>3 DEF On
<1>5. ASSUME NEW o \in On(p)', m <= o PROVE Linked(o, p)' /\ (Up' => InTable(o)')
  <2>1. o \in On(p) /\ Linked(o, p) BY <1>1, <1>5 DEF Chain
  <2>2. (Up' => InTable(o)') /\ opsLog'[o].req = opsLog[o].req BY <1>3, <1>5, <2>1
  <2>3. CASE file[p] = After(opsLog[o].req) /\ \A q \in On(p) : q <= o
    BY <1>1, <2>2, <2>3 DEF Linked
  <2>4. ASSUME NEW q \in On(p), o < q, opsLog[q].before = After(opsLog[o].req),
               \A v \in On(p) : v <= o \/ q <= v
        PROVE  Linked(o, p)'
    <3>1. m <= q BY <1>2, <1>5, <2>1, <2>4, StoreTypes
    <3>2. q \in On(p)' /\ opsLog'[q].before = opsLog[q].before BY <1>3, <1>4, <3>1
    <3>3. QED BY <1>1, <2>2, <2>4, <3>2 DEF Linked
  <2>5. QED BY <2>1, <2>2, <2>3, <2>4 DEF Linked
<1>6. ASSUME NEW u \in unsynced'[p], m <= u.id PROVE InLog(u.id)'
  <2>1. u \in unsynced[p] /\ InLog(u.id) BY <1>6 DEF Chain
  <2>2. u.id \in On(p) BY <2>1 DEF SyncInv, On
  <2>3. QED BY <1>6, <2>2
<1>7. QED BY <1>5, <1>6 DEF Chain

\* Records and markers of a chain survive what happens to the store.
LEMMA ChainStore ==
  ASSUME TypeOK, TypeOK', GuardInv, HandlerInv, IdInv, TakenInv, TableInv, LandedInv, MarkInv,
         RequestInv, KnownInv, StampInv, OrderInv, BaseInv, SyncInv, [Next]_vars, Calm,
         NEW m \in landed, Marker(m), Marker(m)', Intact(m)', NEW p \in Paths,
         PathOf(opsLog[m].req) = p, Chain(m, p), NEW x \in On(p), m <= x
  PROVE  InLog(x)' /\ (Up' => InTable(x)')
<1>1. /\ x \in landed /\ x \in Ids /\ InLog(x) /\ PathOf(opsLog[x].req) = p
      /\ Linked(x, p) /\ (Up => InTable(x))
  BY DEF On, TypeOK, Chain
<1>2. CASE SameStore BY <1>1, <1>2 DEF SameStore, InLog, InTable
<1>3. CASE PrepareStore
  <2>1. PICK t \in Handlers, q \in Ids, w \in AppendResults :
          /\ hs[t].req \in Requests /\ hs[t].before \in FileState
          /\ PrepareFsRecord(q, hs[t].req, hs[t].before, w) /\ Up
    BY <1>3 DEF PrepareStore
  <2>2. /\ \A y \in Ids : y # q => opsLog'[y] = opsLog[y] /\ records'[y] = records[y]
        /\ q = nextId + 1
    BY <2>1, PreparedView
  <2>3. x # q BY <1>1, <2>1, <2>2, NewId
  <2>4. QED BY <1>1, <2>1, <2>2, <2>3 DEF InLog, InTable
<1>4. CASE ResolveStore
  <2>1. PICK q \in Ids, tag \in {"fs", "aborted"}, w \in AppendResults :
          /\ AppendRecordTracked(q, Stamped(tag, records[q].req, records[q].before), w)
          /\ records[q].tag = "prepared" /\ Up
          /\ tag = "aborted" => \/ q \notin landed
                                \/ /\ RecoverMarker(q)
                                   /\ RecoveryOutcome(q, file[PathOf(records[q].req)])
                                        # "committed"
    BY <1>4 DEF ResolveStore
  <2> DEFINE rec == Stamped(tag, records[q].req, records[q].before)
  <2>2. /\ \A y \in Ids : y # q => opsLog'[y] = opsLog[y] /\ records'[y] = records[y]
        /\ opsLog'[q] \in {opsLog[q], rec}
        /\ records'[q] \in {records[q], IF rec.tag = "aborted" THEN NoRecord ELSE rec}
    BY <2>1, AppendView
  <2>3. rec.tag = tag BY LineFields
  <2> HIDE DEF rec
  <2>4. CASE x # q BY <1>1, <2>1, <2>2, <2>4 DEF InLog, InTable
  <2>5. CASE x = q
    <3>1. tag = "fs" BY <1>1, <2>1, <2>5, RecoverKey
    <3>2. QED BY <1>1, <2>1, <2>2, <2>3, <2>5, <3>1 DEF InLog, InTable
  <2>6. QED BY <2>4, <2>5
<1>5. CASE ExecStore
  <2>1. PICK q \in Ids, tag \in {"exec", "rejected"}, r \in Requests, w \in AppendResults :
          /\ AppendRecordTracked(q, Stamped(tag, r, None), w) /\ Up
          /\ opsLog[q].tag = "none"
    BY <1>5 DEF ExecStore
  <2>2. \A y \in Ids : y # q => opsLog'[y] = opsLog[y] /\ records'[y] = records[y]
    BY <2>1, AppendView
  <2>3. QED BY <1>1, <2>1, <2>2 DEF InLog, InTable
<1>6. CASE PruneStore
  <2>1. PICK keep, replaced, ok : Prune(keep, replaced, ok) /\ Up BY <1>6 DEF PruneStore
  <2>2. records'[x] = records[x]
    <3>1. CASE records[x].tag = "prepared" BY <1>1, <2>1, <3>1, PruneView
    <3>2. CASE records[x].tag = "fs" /\ pruned' = {}
      BY <1>1, <2>1, <3>2, PruneView DEF Committed
    <3>3. CASE records[x].tag = "fs" /\ pruned' # {}
      <4>1. PICK r \in Requests : r = opsLog[m].req BY MarkerUp
      <4>2. opsLog'[m].req = r BY <4>1, LandedMoves
      <4>3. r \notin orphaned' /\ Undecided(r)' BY <3>3, <4>2 DEF Intact
      <4>4. requests[r].status = "inprogress"
        <5>1. requests[r].status # "unknown" BY <2>1, <4>1 DEF KnownInv
        <5>2. requests[r].status \in {"done", "error"} => reqLog[r] = requests[r]
          BY <2>1, <4>1 DEF RequestInv, AgreeInv
        <5>3. /\ requests'[r] = requests[r] \/ requests'[r] = NoEntry
              /\ reqLog'[r] = reqLog[r] \/ reqLog'[r] = requests'[r]
          BY <2>1, <4>1, PruneView
        <5>4. requests[r].status \in Status /\ NoEntry.status = "unknown"
          BY <4>1 DEF TypeOK, StoreTypeOK, Entry, NoEntry
        <5>5. QED BY <4>3, <5>1, <5>2, <5>3, <5>4 DEF Undecided, Status
      <4>5. m \in Pending /\ records[m].req = r /\ m \in Ids
        BY <2>1, <4>1, MarkerUp DEF Pending, IsPending
      <4>6. m # x BY <3>3, <4>5 DEF Pending, IsPending
      <4>7. Later(x, m)
        BY <1>1, <2>1, <3>3, <4>5, <4>6, StoreTypes
           DEF OrderInv, Calm, Later, InTable, Pending, IsPending
      <4>8. Follows(x, m)
        BY <1>1, <2>1, <3>3, <4>1, <4>5, <4>7 DEF Follows, TableInv, Committed
      <4>9. x \in Evidence(r) BY <1>1, <4>5, <4>8 DEF Evidence
      <4>10. QED BY <2>1, <4>3, <4>4, <4>9, PruneView
    <3>4. QED BY <1>1, <2>1, <3>1, <3>2, <3>3 DEF InTable
  <2>3. opsLog' = opsLog \/ opsLog' = records' BY <2>1, PruneView
  <2>4. QED BY <1>1, <2>1, <2>2, <2>3 DEF InLog, InTable
<1>7. CASE LoadStore BY <1>1, <1>7 DEF LoadStore, Load, InLog, InTable
<1>8. CASE UnloadStore BY <1>1, <1>8 DEF UnloadStore, InLog
<1>9. QED BY <1>2, <1>3, <1>4, <1>5, <1>6, <1>7, <1>8, StoreCases

\* An install is the next link of its file's chain.
LEMMA ChainInstall ==
  ASSUME TypeOK, TypeOK', HandlerInv, MarkInv, BaseInv, SyncInv, Calm, NEW t \in Handlers, Install(t),
         NEW m \in Ids, NEW p \in Paths, Chain(m, p) \/ (m = hs[t].id /\ p = PathAt(t))
  PROVE  Chain(m, p)'
<1>0. PICK i \in Ids : i = hs[t].id BY InstallView
<1>1. /\ i \in Ids /\ i \notin landed /\ landed' = landed \cup {i} /\ opsLog[i].tag = "prepared"
      /\ records[i].tag = "prepared" /\ opsLog[i].req = hs[t].req
      /\ PathOf(hs[t].req) = PathAt(t) /\ PathAt(t) \in Paths
      /\ opsLog[i].before = file[PathAt(t)]
      /\ \A o \in Ids : InLog(o) \/ o \in landed => o <= i
      /\ file'[PathAt(t)] = After(hs[t].req)
      /\ unsynced'[PathAt(t)] = unsynced[PathAt(t)] \cup
           {[id |-> i, req |-> hs[t].req, old |-> file[PathAt(t)]]}
      /\ \A x \in Paths : x # PathAt(t) => file'[x] = file[x] /\ unsynced'[x] = unsynced[x]
      /\ UNCHANGED <<opsLog, records, phase>>
  BY <1>0, InstallView DEF PathAt, Req, Calm
<1>2. \A x : (InLog(x)' <=> InLog(x)) /\ (InTable(x)' <=> InTable(x)) /\ (Up' <=> Up)
  BY <1>1 DEF InLog, InTable, Up
<1>3. InLog(i) /\ InTable(i) BY <1>1 DEF InLog, InTable
<1>4. ASSUME NEW x \in On(p) PROVE x \in Ids /\ x \in landed /\ InLog(x) /\ x < i
  <2>1. x \in Ids /\ x \in landed /\ InLog(x) BY DEF On, TypeOK
  <2>2. x <= i /\ x # i BY <1>1, <2>1
  <2>3. QED BY <2>1, <2>2, StoreTypes
<1>5. CASE p # PathAt(t)
  <2>1. On(p)' = On(p) BY <1>1, <1>2, <1>5 DEF On
  <2>2. \A o : Linked(o, p)' <=> Linked(o, p) BY <1>1, <1>5, <2>1 DEF Linked
  <2>3. QED BY <1>1, <1>2, <1>5, <2>1, <2>2 DEF Chain
<1>6. CASE p = PathAt(t)
  <2>1. On(p)' = On(p) \cup {i} BY <1>1, <1>2, <1>3, <1>6 DEF On
  <2>2. Linked(i, p)'
    <3>1. \A q \in On(p)' : q <= i BY <1>1, <1>4, <2>1, StoreTypes
    <3>2. QED BY <1>1, <1>6, <3>1 DEF Linked
  <2>3. ASSUME NEW o \in On(p), Linked(o, p) PROVE Linked(o, p)'
    <3>1. o < i BY <1>4
    <3>2. CASE file[p] = After(opsLog[o].req) /\ \A q \in On(p) : q <= o
      <4>1. \A v \in On(p)' : v <= o \/ i <= v BY <1>1, <2>1, <3>2, StoreTypes
      <4>2. opsLog'[i].before = After(opsLog'[o].req) BY <1>1, <1>6, <3>2
      <4>3. QED BY <2>1, <3>1, <4>1, <4>2 DEF Linked
    <3>3. ASSUME NEW q \in On(p), o < q, opsLog[q].before = After(opsLog[o].req),
                 \A v \in On(p) : v <= o \/ q <= v
          PROVE  Linked(o, p)'
      <4>1. q <= i BY <1>1, <1>4, StoreTypes
      <4>2. \A v \in On(p)' : v <= o \/ q <= v BY <2>1, <3>3, <4>1
      <4>3. QED BY <1>1, <2>1, <3>3, <4>2 DEF Linked
    <3>4. QED BY <2>3, <3>2, <3>3 DEF Linked
  <2>4. ASSUME NEW o \in On(p)', m <= o PROVE Linked(o, p)' /\ (Up' => InTable(o)')
    <3>1. CASE o = i BY <1>2, <1>3, <2>2, <3>1
    <3>2. CASE o # i
      <4>1. o \in On(p) BY <2>1, <3>2
      <4>2. m # i BY <1>1, <1>4, <2>4, <4>1, StoreTypes
      <4>3. Chain(m, p) BY <1>0, <4>2
      <4>4. Linked(o, p) /\ (Up => InTable(o)) BY <2>4, <4>1, <4>3 DEF Chain
      <4>5. QED BY <1>2, <2>3, <4>1, <4>4
    <3>3. QED BY <3>1, <3>2
  <2>5. ASSUME NEW u \in unsynced'[p], m <= u.id PROVE InLog(u.id)'
    <3>1. CASE u \in unsynced[p]
      <4>1. u.id \in landed /\ u.id \in Ids BY <3>1 DEF SyncInv, TypeOK
      <4>2. u.id < i
        <5>1. u.id <= i /\ u.id # i BY <1>1, <4>1
        <5>2. QED BY <4>1, <5>1, StoreTypes
      <4>3. m # i BY <1>1, <2>5, <4>1, <4>2, StoreTypes
      <4>4. Chain(m, p) BY <1>0, <4>3
      <4>5. QED BY <1>2, <2>5, <3>1, <4>4 DEF Chain
    <3>2. CASE u \notin unsynced[p]
      <4>1. u.id = i BY <1>1, <1>6, <3>2
      <4>2. QED BY <1>2, <1>3, <4>1
    <3>3. QED BY <3>1, <3>2
  <2>6. QED BY <2>4, <2>5 DEF Chain
<1>7. QED BY <1>5, <1>6

\* A power loss cuts the end off a chain, and gives the file back what the first
\* lost link replaced.
LEMMA ChainLoss ==
  ASSUME TypeOK, TypeOK', SyncInv, Calm, Calm', NEW k \in Ids, PowerLoss(k),
         NEW m \in landed', InLog(m), NEW p \in Paths, PathOf(opsLog[m].req) = p, Chain(m, p)
  PROVE  Chain(m, p)'
<1> DEFINE Lost(x) == {u \in unsynced[x] : u.id >= k}
<1>1. /\ opsLog' = opsLog /\ ~Up' /\ unsynced'[p] = {}
      /\ landed' = {o \in landed : \A u \in UNION {Lost(x) : x \in Paths} : u.id # o}
  BY DEF PowerLoss, Die, diskVars, Up
<1>2. IF Lost(p) = {} THEN file'[p] = file[p]
      ELSE \E u \in Lost(p) : (\A v \in Lost(p) : u.id <= v.id) /\ file'[p] = u.old
  BY DEF PowerLoss
<1>3. \A o \in landed : o \in landed' <=> \A x \in Paths : \A u \in Lost(x) : u.id # o
  BY <1>1
<1>4. \A u \in Lost(p) : u \in unsynced[p] /\ u.id >= k /\ u.id \in Ids
  BY DEF TypeOK, Unsynced
<1>5. \A u \in unsynced[p] : u.id >= k => u \in Lost(p) OBVIOUS
<1>6. \A x \in Paths : \A u \in Lost(x) : u \in unsynced[x] OBVIOUS
<1> HIDE DEF Lost
<1>7. \A o \in On(p) : o \in landed /\ o \in Ids /\ InLog(o) /\ PathOf(opsLog[o].req) = p
  BY DEF On, TypeOK
<1>8. \A o \in On(p) : o \in landed' <=> \A u \in Lost(p) : u.id # o
  <2>1. \A o \in On(p) : \A x \in Paths : \A u \in Lost(x) : u.id = o => x = p
    BY <1>6, <1>7 DEF SyncInv
  <2>2. QED BY <1>3, <1>7, <2>1
<1>9. On(p)' = {o \in On(p) : o \in landed'} BY <1>1 DEF On, InLog
<1>10. m \in On(p)' /\ m \in On(p) /\ m \in Ids
  <2>1. m \in landed BY <1>1
  <2>2. QED BY <1>7, <1>9, <2>1 DEF On
<1>11. ASSUME NEW o \in On(p)', NEW u \in Lost(p) PROVE o < u.id
  <2>1. o \in On(p) /\ o # u.id /\ o \in Ids /\ u.id \in Ids BY <1>4, <1>7, <1>8, <1>9
  <2>2. ASSUME u.id < o PROVE FALSE
    <3>1. PICK v \in unsynced[p] : v.id = o BY <1>4, <2>1, <2>2 DEF SyncInv
    <3>2. v.id >= k BY <1>4, <2>1, <2>2, <3>1, StoreTypes
    <3>3. QED BY <1>5, <1>8, <1>9, <2>1, <3>1, <3>2
  <2>3. QED BY <2>1, <2>2, StoreTypes
<1>12. ASSUME NEW o \in On(p)', m <= o PROVE Linked(o, p)'
  <2>1. o \in On(p) /\ Linked(o, p) /\ o \in Ids BY <1>7, <1>9, <1>12 DEF Chain
  <2>2. CASE Lost(p) = {}
    <3>1. On(p)' = On(p) /\ file'[p] = file[p] BY <1>2, <1>8, <1>9, <2>2
    <3>2. QED BY <1>1, <2>1, <3>1 DEF Linked
  <2>3. CASE Lost(p) # {}
    <3>1. PICK u \in Lost(p) : (\A v \in Lost(p) : u.id <= v.id) /\ file'[p] = u.old
      BY <1>2, <2>3
    <3>2. u \in unsynced[p] /\ u.id \in Ids /\ m < u.id /\ o < u.id
      BY <1>4, <1>10, <1>11
    <3>3. u.id \in On(p) /\ opsLog[u.id].before = u.old
      <4>1. InLog(u.id) BY <1>10, <3>2, StoreTypes DEF Chain
      <4>2. QED BY <3>2, <4>1 DEF SyncInv, On, Calm
    <3>4. ~\A q \in On(p) : q <= o BY <2>1, <3>2, <3>3, StoreTypes
    <3>5. PICK q \in On(p) : /\ o < q /\ opsLog[q].before = After(opsLog[o].req)
                             /\ \A v \in On(p) : v <= o \/ q <= v
      BY <2>1, <3>4 DEF Linked
    <3>6. CASE q \in landed' BY <1>1, <1>9, <3>5, <3>6 DEF Linked
    <3>7. CASE q \notin landed'
      <4>1. PICK v \in Lost(p) : v.id = q BY <1>8, <3>7
      <4>2. q = u.id BY <1>7, <2>1, <3>1, <3>2, <3>3, <3>5, <4>1, StoreTypes
      <4>3. file'[p] = After(opsLog'[o].req) BY <1>1, <3>1, <3>3, <3>5, <4>2
      <4>4. \A x \in On(p)' : x <= o BY <1>7, <1>9, <1>11, <3>2, <3>5, <4>2, StoreTypes
      <4>5. QED BY <4>3, <4>4 DEF Linked
    <3>8. QED BY <3>6, <3>7
  <2>4. QED BY <2>2, <2>3
<1>13. QED BY <1>1, <1>12 DEF Chain

\* ChainInv is inductive.
LEMMA ChainNext ==
  ASSUME TypeOK, TypeOK', GuardInv, HandlerInv, IdInv, TakenInv, TableInv, LandedInv, MarkInv,
         RequestInv, KnownInv, StampInv, OrderInv, BaseInv, SyncInv, ChainInv, [Next]_vars
  PROVE  ChainInv'
<1> SUFFICES ASSUME Calm', NEW m \in landed', Marker(m)', Intact(m)'
             PROVE  Chain(m, PathOf(opsLog[m].req))'
  BY DEF ChainInv
<1>1. Calm BY OutsideGrows, StoreTypes DEF Calm, TypeOK
<1>2. m \in Ids BY DEF TypeOK
<1>3. CASE m \notin landed
  <2>1. PICK t \in Handlers : Install(t) BY <1>1, <1>3, LandedGrows DEF PowerLoss, Calm
  <2>2. m = hs[t].id /\ opsLog'[m].req = hs[t].req /\ PathAt(t) \in Paths
    BY <1>3, <2>1, InstallView
  <2>3. PICK p \in Paths : p = PathAt(t) BY <2>2
  <2>4. Chain(m, p)' BY <1>1, <1>2, <2>1, <2>2, <2>3, ChainInstall
  <2>5. QED BY <2>2, <2>3, <2>4 DEF PathAt, Req
<1>4. CASE m \in landed
  <2>1. Marker(m) /\ opsLog'[m].req = opsLog[m].req BY <1>4, LandedMoves
  <2>2. InLog(m) /\ opsLog[m].req \in Requests BY <1>4, <2>1, MarkerUp
  <2>3. PICK p \in Paths : p = PathOf(opsLog[m].req) BY <2>2, BodyAssumption DEF PathOf
  <2>4. Chain(m, p) BY <1>1, <1>4, <2>1, <2>3, IntactBefore DEF ChainInv
  <2>5. CASE UNCHANGED <<landed, file>> /\ \A x \in Paths : unsynced'[x] \in {unsynced[x], {}}
    <3>1. \A x \in On(p) : m <= x => InLog(x)' /\ (Up' => InTable(x)')
      BY <1>1, <1>4, <2>1, <2>3, <2>4, ChainStore
    <3>2. \A x \in On(p) : x \in landed' BY <2>5 DEF On
    <3>3. Chain(m, p)' BY <1>2, <2>4, <2>5, <3>1, <3>2, ChainKept
    <3>4. QED BY <2>1, <2>3, <3>3
  <2>6. ASSUME NEW t \in Handlers, Install(t) PROVE Chain(m, p)'
    <3>1. Chain(m, p) \/ (m = hs[t].id /\ p = PathAt(t)) BY <2>4
    <3>2. QED BY <1>1, <1>2, <2>6, <3>1, ChainInstall
  <2>7. ASSUME NEW k \in Ids, PowerLoss(k) PROVE Chain(m, p)'
    BY <1>1, <2>2, <2>3, <2>4, <2>7, ChainLoss
  <2>8. CASE externals' > 0 BY <2>8 DEF Calm
  <2>9. QED BY <2>1, <2>3, <2>5, <2>6, <2>7, <2>8, LandedGrows
<1>5. QED BY <1>3, <1>4

\* DropInv is inductive: by RecoverKey, recovery commits what the chain shows.
LEMMA DropNext ==
  ASSUME TypeOK, TypeOK', GuardInv, HandlerInv, IdInv, TakenInv, TableInv, LandedInv, MarkInv,
         RequestInv, OrderInv, BaseInv, ChainInv, DropInv, [Next]_vars
  PROVE  DropInv'
<1> SUFFICES ASSUME externals' = 0, ~EvidenceLost' PROVE landed' \cap dropped' = {}
  BY DEF DropInv
<1>1. externals = 0 /\ clock.steps = 0 /\ clock'.steps = 0
  BY OutsideGrows, StoreTypes DEF EvidenceLost, TypeOK, StoreTypeOK, Clock
<1>2. pruned = {} BY HistoryGrows DEF EvidenceLost
<1>3. landed \cap dropped = {} BY <1>1, <1>2 DEF DropInv, EvidenceLost
<1>4. landed \cap dropped' = {}
  <2>1. CASE ResolveStore /\ dropped' # dropped
    <3>1. PICK q \in Ids : /\ records[q].tag = "prepared" /\ Up /\ dropped' = dropped \cup {q}
                           /\ \/ q \notin landed
                              \/ /\ RecoverMarker(q)
                                 /\ RecoveryOutcome(q, file[PathOf(records[q].req)])
                                      # "committed"
      BY <2>1 DEF ResolveStore
    <3>2. ASSUME q \in landed PROVE FALSE
      <4>1. Marker(q) /\ Intact(q) /\ Calm BY <1>1, <1>2, <3>1 DEF Marker, Intact, Calm
      <4>2. Chain(q, PathOf(opsLog[q].req)) BY <3>2, <4>1 DEF ChainInv
      <4>3. q \in On(PathOf(opsLog[q].req)) BY <3>2, <4>1, MarkerUp DEF On
      <4>4. q <= q BY StoreTypes
      <4>5. Linked(q, PathOf(opsLog[q].req)) BY <4>2, <4>3, <4>4 DEF Chain
      <4>6. QED BY <3>1, <3>2, <4>1, <4>5, RecoverKey
    <3>3. QED BY <1>3, <3>1, <3>2
  <2>2. dropped' = dropped \/ ResolveStore
    BY StoreCases DEF SameStore, PrepareStore, ExecStore, PruneStore, LoadStore, UnloadStore
  <2>3. QED BY <1>3, <2>1, <2>2
<1>5. CASE landed' \subseteq landed BY <1>4, <1>5
<1>6. ASSUME NEW t \in Handlers, Install(t) PROVE landed' \cap dropped' = {}
  <2>1. /\ landed' = landed \cup {hs[t].id} /\ dropped' = dropped /\ hs[t].id \in Ids
        /\ opsLog[hs[t].id].tag = "prepared"
    BY <1>6, InstallView
  <2>2. hs[t].id \notin dropped BY <2>1 DEF MarkInv, InLog
  <2>3. QED BY <1>3, <2>1, <2>2
<1>7. ASSUME NEW k \in Ids, PowerLoss(k) PROVE landed' \subseteq landed BY <1>7 DEF PowerLoss
<1>8. QED BY <1>5, <1>6, <1>7, LandedGrows

-----------------------------------------------------------------------------
(***************************************************************************)
(* No request is carried out twice.                                        *)
(***************************************************************************)
\* A handler comes before its request's effect from there, or by a claim.
RunStep(u) ==
  hs'[u].pc \in RunPcs =>
    /\ hs'[u].req = hs[u].req
    /\ \/ hs[u].pc \in RunPcs
       \/ Up /\ requests[hs[u].req].status = "unknown"
    /\ hs'[u].pc = "spawn" => hs[u].pc = "spawn" \/ OpOf(u) = "exec"

\* Every step moves every handler so.
LEMMA RunPcsMove ==
  ASSUME TypeOK, GuardInv', [Next]_vars, NEW u \in Handlers
  PROVE  RunStep(u)
<1> USE DEF RunPcs, ClaimedPcs, UnlandedPcs
<1>0. hs[u] \in HandlerState BY DEF TypeOK
<1>s. ASSUME hs'[u] = hs[u] PROVE RunStep(u) BY <1>s DEF RunStep
<1>d. ASSUME phase' # "serving" PROVE RunStep(u) BY <1>d DEF RunStep, GuardInv, Idle
<1>1. ASSUME NEW r \in Requests, Replay(r) PROVE RunStep(u) BY <1>1, <1>s DEF Replay
<1>2. ASSUME NEW t \in Handlers, NEW r \in Requests, Receive(t, r) PROVE RunStep(u)
  <2>1. Others(t) /\ hs'[t].pc = "claim" BY <1>2 DEF Receive, TypeOK, Others, Idle
  <2>2. QED BY <1>s, <2>1 DEF RunStep, Others
<1>3. ASSUME NEW t \in Handlers, Handler(t) PROVE RunStep(u)
  <2> USE DEF At
  <2>0. hs[t] \in HandlerState BY DEF TypeOK
  <2>o. ASSUME Others(t), hs'[t].pc \notin RunPcs PROVE RunStep(u)
    BY <1>s, <2>o DEF RunStep, Others
  <2>i. hs' = [hs EXCEPT ![t] = Idle] => Others(t) /\ hs'[t].pc = "idle"
    BY DEF TypeOK, Others, Idle
  <2>1. CASE Quiet(t)
    <3>1. /\ Others(t) /\ <<hs[t].pc, hs'[t].pc>> \in QuietMoves /\ hs'[t].req = hs[t].req
      BY <2>1, QuietView
    <3>2. hs'[t].pc \in RunPcs => hs[t].pc \in RunPcs /\ hs'[t].pc # "spawn"
      BY <3>1 DEF QuietMoves
    <3>3. QED BY <1>s, <3>1, <3>2 DEF RunStep, Others
  <2>2. CASE Claim(t)
    <3>1. CASE hs' = [hs EXCEPT ![t] = Idle] BY <2>i, <2>o, <3>1
    <3>2. CASE Goto(t, IF OpOf(t) = "exec" THEN "spawn" ELSE "guard") /\ Claimable(Req(t))
      <4>1. /\ Others(t) /\ hs'[t].req = hs[t].req
            /\ hs'[t].pc = IF OpOf(t) = "exec" THEN "spawn" ELSE "guard"
        BY <3>2, GotoView
      <4>2. Up /\ requests[hs[t].req].status = "unknown"
        BY <2>2, <3>2 DEF Claim, Claimable, Known, Up, Req
      <4>3. QED BY <1>s, <4>1, <4>2 DEF RunStep, Others
    <3>3. QED BY <2>2, <3>1, <3>2 DEF Claim
  <2>3. CASE Install(t)
    <3>1. Others(t) /\ hs'[t].pc = "sync" BY <2>3, GotoView DEF Install
    <3>2. QED BY <2>o, <3>1
  <2>4. CASE Spawn(t)
    <3>1. Others(t) /\ hs'[t].pc \in {"running", "record"}
      BY <2>0, <2>4 DEF Spawn, TypeOK, HandlerState, Others
    <3>2. QED BY <2>o, <3>1
  <2>5. CASE Finish(t) BY <2>5, <2>i, <2>o DEF Finish
  <2>6. CASE Prepare(t)
    <3>1. PICK q \in Ids, w \in AppendResults :
            IF w = "ok"
            THEN hs' = [hs EXCEPT ![t].id = q,
                           ![t].pc = IF OpOf(t) = "edit" THEN "verify" ELSE "install"]
            ELSE DropGuard(t, FALSE)
      BY <2>6 DEF Prepare
    <3>2. CASE w # "ok" BY <2>o, <3>1, <3>2, DropView
    <3>3. CASE w = "ok"
      <4>1. /\ Others(t) /\ hs'[t].pc \in {"verify", "install"} /\ hs'[t].req = hs[t].req
        BY <2>0, <3>1, <3>3 DEF TypeOK, HandlerState, Others
      <4>2. QED BY <1>s, <2>6, <4>1 DEF RunStep, Others, Prepare
    <3>4. QED BY <3>2, <3>3
  <2>7. CASE Commit(t) \/ Withdraw(t)
    <3>1. \E ok \in BOOLEAN : DropGuard(t, ok) BY <2>7 DEF Commit, Withdraw
    <3>2. QED BY <2>o, <3>1, DropView
  <2>8. CASE RecordExec(t)
    <3>1. Others(t) /\ hs'[t].pc = "finish"
      BY <2>0, <2>8 DEF RecordExec, TypeOK, HandlerState, Others
    <3>2. QED BY <2>o, <3>1
  <2>9. CASE Gc(t) /\ \E keep, replaced : \E ok \in BOOLEAN :
                        Prune(keep, replaced, ok) /\ DropGuard(t, ok)
    <3>1. \E ok \in BOOLEAN : DropGuard(t, ok) BY <2>9
    <3>2. QED BY <2>o, <3>1, DropView
  <2>10. QED BY <1>3, <2>1, <2>2, <2>3, <2>4, <2>5, <2>6, <2>7, <2>8, <2>9, HandlerCases
<1>4. CASE StartUp
  <2>1. hs' = hs
    BY <1>4 DEF StartUp, Start, RecoverMarker, RecoverRemember, ResolveStuck, StartupPrune,
                GiveUp
  <2>2. QED BY <1>s, <2>1
<1>5. CASE Die BY <1>5, <1>d DEF Die
<1>6. ASSUME NEW p \in Paths, NEW c \in FileState, ExternalWrite(p, c) PROVE RunStep(u)
  BY <1>6, <1>s DEF ExternalWrite
<1>7. ASSUME NEW w \in 0 .. clock.wall, ClockSteps(w) PROVE RunStep(u)
  BY <1>7, <1>s DEF ClockSteps
<1>8. CASE UNCHANGED vars BY <1>8, <1>s DEF vars
<1>9. QED
  BY <1>1, <1>2, <1>3, <1>4, <1>5, <1>6, <1>7, <1>8 DEF Next, Crash, PowerLoss

\* What carries requests out, or undoes it.
LEMMA RunsGrow ==
  ASSUME TypeOK, [Next]_vars
  PROVE  \/ \E t \in Handlers : Install(t) \/ Spawn(t)
         \/ \E k \in Ids : PowerLoss(k)
         \/ UNCHANGED <<runs, landed>>
<1> USE DEF wsVars, histVars, budgetVars, UnchangedHist, UnchangedStore
<1>1. ASSUME NEW t \in Handlers, Handler(t)
      PROVE  Install(t) \/ Spawn(t) \/ UNCHANGED <<runs, landed>>
  <2>1. CASE Quiet(t) BY <2>1, QuietView
  <2>2. CASE Claim(t) \/ Prepare(t) \/ Commit(t) \/ Withdraw(t) \/ RecordExec(t)
             \/ Finish(t) \/ Gc(t)
    BY <2>2 DEF Claim, Prepare, Commit, Withdraw, RecordExec, Finish, Gc
  <2>3. QED BY <1>1, <2>1, <2>2, HandlerCases
<1>2. CASE StartUp
  BY <1>2 DEF StartUp, Start, RecoverMarker, RecoverRemember, ResolveStuck, StartupPrune, GiveUp
<1>3. CASE Crash BY <1>3 DEF Crash
<1>4. CASE UNCHANGED vars BY <1>4 DEF vars
<1>5. ASSUME NEW r \in Requests, Replay(r) PROVE UNCHANGED <<runs, landed>> BY <1>5 DEF Replay
<1>6. ASSUME NEW t \in Handlers, NEW r \in Requests, Receive(t, r)
      PROVE UNCHANGED <<runs, landed>>
  BY <1>6 DEF Receive
<1>7. ASSUME NEW p \in Paths, NEW c \in FileState, ExternalWrite(p, c)
      PROVE  UNCHANGED <<runs, landed>>
  BY <1>7 DEF ExternalWrite
<1>8. ASSUME NEW w \in 0 .. clock.wall, ClockSteps(w) PROVE UNCHANGED <<runs, landed>>
  BY <1>8 DEF ClockSteps
<1>9. QED BY <1>1, <1>2, <1>3, <1>4, <1>5, <1>6, <1>7, <1>8 DEF Next

\* Recovery does not withdraw the marker of a request it would then have retried.
LEMMA NotWithdrawn ==
  ASSUME TypeOK, RequestInv, TableInv, LandedInv, MarkInv, OrderInv, BaseInv, ChainInv, Calm,
         NEW q \in landed, RecoverMarker(q),
         records[q].req \notin orphaned, Undecided(records[q].req)
  PROVE  RecoveryOutcome(q, file[PathOf(records[q].req)]) = "committed"
<1>1. q \in Ids /\ Up /\ records[q].tag = "prepared"
  BY DEF RecoverMarker, Recovering, NewestMarker, IsPending, Up, TypeOK
<1>2. Marker(q) BY <1>1 DEF Marker
<1>3. opsLog[q].req = records[q].req BY <1>1 DEF MarkInv
<1>4. Chain(q, PathOf(opsLog[q].req)) BY <1>2, <1>3 DEF ChainInv, Intact
<1>5. q \in On(PathOf(opsLog[q].req)) /\ q <= q BY <1>1, <1>2, MarkerUp, StoreTypes DEF On
<1>6. Linked(q, PathOf(opsLog[q].req)) BY <1>4, <1>5 DEF Chain
<1>7. QED BY <1>6, RecoverKey

\* What shows that a request was carried out stays, prune and power loss aside.
ShowsKept(o, r) ==
  /\ Shows(o, opsLog[o], r) => Shows(o, opsLog[o], r)'
  /\ Up /\ Up' /\ Shows(o, records[o], r) => Shows(o, records[o], r)'

\* By RecoverKey, what recovery withdraws showed nothing.
LEMMA ShowsStay ==
  ASSUME TypeOK, HandlerInv, IdInv, TakenInv, RequestInv, TableInv, LandedInv, MarkInv,
         OrderInv, BaseInv, ChainInv, Calm, [Next]_vars, ~PruneStore, landed \subseteq landed',
         NEW r \in Requests, r \notin orphaned, Undecided(r), NEW o \in Ids
  PROVE  ShowsKept(o, r)
<1>s. ASSUME opsLog'[o] = opsLog[o], records'[o] = records[o] PROVE ShowsKept(o, r)
  BY <1>s DEF ShowsKept, Shows, Committed
<1>n. ASSUME opsLog[o].tag = "none", records[o].tag = "none" PROVE ShowsKept(o, r)
  BY <1>n DEF ShowsKept, Shows, Committed
<1>1. CASE SameStore BY <1>1, <1>s DEF SameStore
<1>2. CASE PrepareStore
  <2>1. PICK t \in Handlers, q \in Ids, w \in AppendResults :
          /\ hs[t].req \in Requests /\ hs[t].before \in FileState
          /\ PrepareFsRecord(q, hs[t].req, hs[t].before, w) /\ Up
    BY <1>2 DEF PrepareStore
  <2>2. /\ \A x \in Ids : x # q => opsLog'[x] = opsLog[x] /\ records'[x] = records[x]
        /\ q = nextId + 1
    BY <2>1, PreparedView
  <2>3. opsLog[q].tag = "none" /\ records[q].tag = "none" BY <2>1, <2>2, NewId
  <2>4. QED BY <1>n, <1>s, <2>2, <2>3
<1>3. CASE ResolveStore
  <2>1. PICK q \in Ids, tag \in {"fs", "aborted"}, w \in AppendResults :
          /\ AppendRecordTracked(q, Stamped(tag, records[q].req, records[q].before), w)
          /\ records[q].tag = "prepared" /\ Up
          /\ tag = "aborted" => \/ q \notin landed /\ opsLog[q].tag = "prepared"
                                \/ /\ RecoverMarker(q)
                                   /\ RecoveryOutcome(q, file[PathOf(records[q].req)])
                                        # "committed"
    BY <1>3 DEF ResolveStore
  <2> DEFINE rec == Stamped(tag, records[q].req, records[q].before)
  <2>2. /\ \A x \in Ids : x # q => opsLog'[x] = opsLog[x] /\ records'[x] = records[x]
        /\ opsLog'[q] \in {opsLog[q], rec}
        /\ records'[q] \in {records[q], IF rec.tag = "aborted" THEN NoRecord ELSE rec}
    BY <2>1, AppendView
  <2>3. rec.tag = tag /\ rec.req = records[q].req BY LineFields
  <2> HIDE DEF rec
  <2>4. CASE o # q BY <1>s, <2>2, <2>4
  <2>5. CASE o = q /\ tag = "fs"
    <3>1. opsLog[q].req = records[q].req BY <2>1 DEF MarkInv
    <3>2. QED BY <2>2, <2>3, <2>5, <3>1 DEF ShowsKept, Shows, Committed
  <2>6. CASE o = q /\ tag = "aborted"
    <3>1. opsLog[q].req = records[q].req BY <2>1 DEF MarkInv
    <3>2. RecoverMarker(q) => opsLog[q].tag = "prepared"
      BY <2>1, LineFields DEF RecoverMarker, Recovering, RequestInv, AgreeInv
    <3>3. records[q].req = r => q \notin landed BY <2>1, <2>6, NotWithdrawn
    <3>4. ~Shows(q, opsLog[q], r) /\ ~Shows(q, records[q], r)
      BY <2>1, <2>6, <3>1, <3>2, <3>3 DEF Shows, Committed
    <3>5. QED BY <2>6, <3>4 DEF ShowsKept
  <2>7. QED BY <2>4, <2>5, <2>6
<1>4. CASE ExecStore
  <2>1. PICK q \in Ids, tag \in {"exec", "rejected"}, s \in Requests, w \in AppendResults :
          /\ AppendRecordTracked(q, Stamped(tag, s, None), w)
          /\ opsLog[q].tag = "none" /\ records[q].tag = "none"
    BY <1>4 DEF ExecStore
  <2>2. \A x \in Ids : x # q => opsLog'[x] = opsLog[x] /\ records'[x] = records[x]
    BY <2>1, AppendView
  <2>3. QED BY <1>n, <1>s, <2>1, <2>2
<1>5. CASE LoadStore BY <1>5 DEF LoadStore, ShowsKept, Shows, Committed
<1>6. CASE UnloadStore BY <1>6 DEF UnloadStore, ShowsKept, Shows, Committed
<1>7. QED BY <1>1, <1>2, <1>3, <1>4, <1>5, <1>6, StoreCases

\* A step that carries nothing out and keeps what shows what was.
LEMMA RunKept ==
  ASSUME NEW r, RunOf(r), runs[r] \in Int, runs'[r] \in Int, forgets[r] \in Nat,
         runs'[r] <= runs[r], forgets'[r] = forgets[r],
         Unrun(r)' => Unrun(r) \/ runs[r] <= forgets[r],
         reqLog'[r].status = "inprogress" =>
           \/ Unrun(r) \/ runs'[r] <= forgets[r]
           \/ /\ reqLog[r].status = "inprogress"
              /\ \A o \in Ids : Shows(o, opsLog[o], r) => Shows(o, opsLog[o], r)'
           \/ /\ Up /\ requests[r].status = "inprogress"
              /\ \A o \in Ids : Shows(o, records[o], r) => Shows(o, opsLog[o], r)',
         Up' /\ requests'[r].status = "inprogress" =>
           \/ Unrun(r) \/ runs'[r] <= forgets[r]
           \/ /\ reqLog[r].status = "inprogress"
              /\ \A o \in Ids : Shows(o, opsLog[o], r) => Shows(o, records[o], r)'
           \/ /\ Up /\ requests[r].status = "inprogress"
              /\ \A o \in Ids : Shows(o, records[o], r) => Shows(o, records[o], r)'
  PROVE  RunOf(r)'
<1>1. runs'[r] <= 1 + forgets'[r] BY DEF RunOf
<1>2. runs[r] <= forgets[r] => runs'[r] <= forgets'[r] OBVIOUS
<1>3. Unrun(r) => runs[r] <= forgets[r] BY DEF RunOf
<1>4. Unrun(r)' => runs'[r] <= forgets'[r] BY <1>2, <1>3
<1>5. ASSUME Body[r].op # "exec", reqLog'[r].status = "inprogress"
      PROVE  runs'[r] <= forgets'[r] \/ \E o \in Ids : Shows(o, opsLog[o], r)'
  BY <1>2, <1>3, <1>5 DEF RunOf
<1>6. ASSUME Body[r].op # "exec", Up', requests'[r].status = "inprogress"
      PROVE  runs'[r] <= forgets'[r] \/ \E o \in Ids : Shows(o, records[o], r)'
  BY <1>2, <1>3, <1>6 DEF RunOf
<1>7. QED BY <1>1, <1>4, <1>5, <1>6 DEF RunOf

\* The step of a handler that carries its request out.
LEMMA RunEffect ==
  ASSUME TypeOK, RequestInv, NEW t \in Handlers, Others(t), phase = "serving",
         hs[t].pc \in RunPcs, hs'[t].pc \notin RunPcs, hs[t].req \in Requests,
         runs' = [runs EXCEPT ![hs[t].req] = @ + 1],
         UNCHANGED <<opsLog, reqLog, records, requests, forgets, phase>>,
         landed \subseteq landed', NEW r \in Requests, RunOf(r),
         \/ Body[hs[t].req].op = "exec"
         \/ \E o \in Ids : /\ opsLog[o].req = hs[t].req /\ opsLog[o].tag = "prepared"
                           /\ records[o].req = hs[t].req /\ records[o].tag = "prepared"
                           /\ o \in landed'
  PROVE  RunOf(r)'
<1>0. runs \in [Requests -> Int] /\ forgets[r] \in Nat /\ runs[r] \in Int
  BY DEF TypeOK, StoreTypeOK
<1>u. Up' /\ Up BY DEF Up
<1>1. CASE r # hs[t].req
  <2>1. runs'[r] = runs[r] /\ forgets'[r] = forgets[r] BY <1>0, <1>1
  <2>2. Unrun(r)' => Unrun(r) BY <1>1, <1>u DEF Unrun, Others
  <2>3. \A o \in Ids : /\ Shows(o, opsLog[o], r) => Shows(o, opsLog[o], r)'
                       /\ Shows(o, records[o], r) => Shows(o, records[o], r)'
    BY DEF Shows, Committed
  <2>4. runs'[r] <= runs[r] /\ runs'[r] \in Int BY <1>0, <2>1
  <2>5. QED BY <1>0, <1>u, <2>1, <2>2, <2>3, <2>4, RunKept
<1>2. CASE r = hs[t].req
  <2>1. runs'[r] = runs[r] + 1 BY <1>0, <1>2
  <2>2. runs[r] <= forgets[r] BY <1>2 DEF RunOf, Unrun
  <2>3. runs'[r] <= 1 + forgets'[r] BY <1>0, <2>1, <2>2
  <2>4. /\ requests[r].status = "inprogress"
        /\ \A u \in Handlers \ {t} : hs[u].pc \in ActivePcs => hs[u].req # r
    BY <1>2 DEF RequestInv, ClaimInv, ActivePcs, RunPcs, ClaimedPcs, UnlandedPcs, Pcs
  <2>5. reqLog[r].status # "unknown" BY <1>u, <2>4 DEF RequestInv, AgreeInv
  <2>6. ~Unrun(r)'
    BY <2>4, <2>5 DEF Unrun, Others, ActivePcs, RunPcs, ClaimedPcs, UnlandedPcs, Pcs
  <2>7. Body[r].op # "exec" => \E o \in Ids : Shows(o, opsLog[o], r)' /\ Shows(o, records[o], r)'
    BY <1>2 DEF Shows
  <2>8. QED BY <2>3, <2>6, <2>7 DEF RunOf
<1>3. QED BY <1>1, <1>2

\* An install carries its request out, and its marker shows it.
LEMMA RunInstall ==
  ASSUME TypeOK, HandlerInv, MarkInv, BaseInv, RequestInv, NEW t \in Handlers, Install(t),
         NEW r \in Requests, RunOf(r)
  PROVE  RunOf(r)'
<1>1. hs[t].pc = "install" /\ Others(t) /\ hs'[t].pc = "sync" /\ phase = "serving"
  BY GotoView DEF Install, At
<1>2. /\ hs[t].id \in Ids /\ hs[t].req \in Requests /\ hs[t].id \in landed'
      /\ opsLog[hs[t].id].tag = "prepared" /\ records[hs[t].id].tag = "prepared"
      /\ opsLog[hs[t].id].req = hs[t].req /\ landed \subseteq landed'
      /\ runs' = [runs EXCEPT ![hs[t].req] = @ + 1]
      /\ UNCHANGED <<opsLog, reqLog, records, requests, forgets, phase>>
  BY InstallView
<1>3. records[hs[t].id].req = hs[t].req BY <1>1 DEF MarkInv, MarkedPcs
<1>4. hs[t].pc \in RunPcs /\ hs'[t].pc \notin RunPcs
  BY <1>1 DEF RunPcs, ClaimedPcs, UnlandedPcs
<1>5. QED BY <1>1, <1>2, <1>3, <1>4, RunEffect

\* A command that is started carries its request out.
LEMMA RunSpawn ==
  ASSUME TypeOK, RequestInv, RunInv, NEW t \in Handlers, Spawn(t), NEW r \in Requests, RunOf(r)
  PROVE  RunOf(r)'
<1> USE DEF diskVars, pruneHist, budgetVars, wsVars
<1>1. hs[t].pc = "spawn" /\ hs[t].req \in Requests /\ phase = "serving" /\ hs[t] \in HandlerState
  BY DEF Spawn, At, TypeOK
<1>2. Others(t) /\ hs'[t].pc \in {"running", "record"} 
  BY <1>1 DEF Spawn, TypeOK, HandlerState, Others
<1>3. UNCHANGED <<opsLog, reqLog, records, requests, forgets, phase, landed>>
  BY DEF Spawn
<1>4. Body[hs[t].req].op = "exec" BY <1>1 DEF RunInv, OpOf, Req
<1>5. hs[t].pc \in RunPcs /\ hs'[t].pc \notin RunPcs
  BY <1>1, <1>2 DEF RunPcs, ClaimedPcs, UnlandedPcs
<1>6. CASE runs' = [runs EXCEPT ![hs[t].req] = @ + 1]
  BY <1>1, <1>2, <1>3, <1>4, <1>5, <1>6, RunEffect
<1>7. CASE runs' = runs
  <2>1. runs[r] \in Int /\ forgets[r] \in Nat /\ runs[r] <= runs[r] BY DEF TypeOK, StoreTypeOK
  <2>2. Unrun(r)' => Unrun(r) BY <1>2, <1>3, <1>5 DEF Unrun, Others, Up
  <2>3. \A o \in Ids : /\ Shows(o, opsLog[o], r) => Shows(o, opsLog[o], r)'
                       /\ Shows(o, records[o], r) => Shows(o, records[o], r)'
    BY <1>3 DEF Shows, Committed
  <2>4. Up' => Up BY <1>3 DEF Up
  <2>5. QED BY <1>3, <1>7, <2>1, <2>2, <2>3, <2>4, RunKept
<1>8. QED BY <1>6, <1>7 DEF Spawn, Req

\* prune keeps what shows that a request in progress was carried out.
LEMMA RunPrune ==
  ASSUME TypeOK, RequestInv, PruneStore, UNCHANGED <<runs, landed>>,
         \A u \in Handlers : RunStep(u), NEW r \in Requests, r \notin orphaned', RunOf(r)
  PROVE  RunOf(r)'
<1>0. runs[r] \in Int /\ forgets[r] \in Nat /\ runs[r] <= runs[r] BY DEF TypeOK, StoreTypeOK
<1>1. PICK keep, replaced, ok : Prune(keep, replaced, ok) /\ Up BY DEF PruneStore
<1>2. /\ opsLog' = opsLog \/ opsLog' = records'
      /\ reqLog' = reqLog \/ (reqLog' = requests' /\ opsLog' = records')
  BY <1>1, PruneView
<1>3. CASE forgets'[r] = forgets[r] + 1 /\ requests'[r] = NoEntry
  <2>1. runs'[r] <= forgets'[r] /\ runs'[r] <= 1 + forgets'[r] BY <1>0, <1>3 DEF RunOf
  <2>2. QED BY <2>1 DEF RunOf
<1>4. CASE forgets'[r] = forgets[r] /\ (requests'[r] = requests[r] \/ Unrun(r))
  <2>1. Unrun(r)' => Unrun(r)
    <3>1. ASSUME NEW u \in Handlers, hs'[u].pc \in RunPcs, hs'[u].req = r PROVE Unrun(r)
      <4>1. hs[u].req = r /\ (hs[u].pc \in RunPcs \/ (Up /\ requests[r].status = "unknown"))
        BY <3>1 DEF RunStep
      <4>2. QED BY <4>1 DEF Unrun
    <3>2. reqLog'[r] = reqLog[r] \/ reqLog'[r] = requests'[r] BY <1>2
    <3>3. CASE Unrun(r) BY <3>3
    <3>4. CASE requests'[r] = requests[r] BY <1>1, <3>1, <3>2, <3>4 DEF Unrun
    <3>5. QED BY <1>4, <3>3, <3>4
  <2>2. CASE Unrun(r) BY <1>0, <1>4, <2>2, RunKept
  <2>3. CASE ~Unrun(r)
    <3>1. requests'[r] = requests[r] BY <1>4, <2>3
    <3>2. requests[r].status = "inprogress" =>
            \A o \in Ids : Shows(o, records[o], r) => records'[o] = records[o]
      <4> SUFFICES ASSUME requests[r].status = "inprogress", NEW o \in Ids,
                          Shows(o, records[o], r)
                   PROVE  records'[o] = records[o]
        OBVIOUS
      <4>1. CASE Committed(records[o])
        <5>1. o \in Evidence(r) BY <4>1 DEF Evidence, Shows
        <5>2. \A x \in Evidence(r) : records'[x] = records[x] BY <1>1, PruneView
        <5>3. QED BY <5>1, <5>2
      <4>2. CASE records[o].tag = "prepared"
        <5>1. \/ records'[o] = records[o]
              \/ records'[o] = NoRecord /\ records[o].tag # "prepared"
          BY <1>1, PruneView
        <5>2. QED BY <4>2, <5>1
      <4>3. QED BY <4>1, <4>2 DEF Shows
    <3>3. requests[r].status = "inprogress" =>
            \A o \in Ids : Shows(o, records[o], r) => Shows(o, records[o], r)'
      BY <3>2 DEF Shows, Committed
    <3>4. reqLog[r].status = "inprogress" => requests[r].status = "inprogress"
      <4>1. requests[r].status # "unknown" BY <1>1, <2>3 DEF Unrun
      <4>2. requests[r].status \in {"done", "error"} => reqLog[r] = requests[r]
        BY <1>1 DEF RequestInv, AgreeInv
      <4>3. requests[r].status \in Status BY DEF TypeOK, StoreTypeOK, Entry
      <4>4. QED BY <4>1, <4>2, <4>3 DEF Status
    <3>5. CASE opsLog' = opsLog
      <4>1. \A o \in Ids : Shows(o, opsLog[o], r) => Shows(o, opsLog[o], r)'
        BY <3>5 DEF Shows, Committed
      <4>2. CASE reqLog' = reqLog
        BY <1>0, <1>1, <1>4, <2>1, <3>1, <3>3, <4>1, <4>2, RunKept
      <4>3. CASE reqLog' = requests' /\ opsLog' = records'
        <5>1. requests[r].status = "inprogress" =>
                \A o \in Ids : Shows(o, records[o], r) => Shows(o, opsLog[o], r)'
          BY <3>3, <4>3
        <5>2. QED BY <1>0, <1>1, <1>4, <2>1, <3>1, <3>3, <4>3, <5>1, RunKept
      <4>4. QED BY <1>2, <4>2, <4>3
    <3>6. CASE opsLog' = records'
      <4>1. requests[r].status = "inprogress" =>
              \A o \in Ids : Shows(o, records[o], r) => Shows(o, opsLog[o], r)'
        BY <3>3, <3>6
      <4>2. reqLog'[r].status = "inprogress" => requests[r].status = "inprogress"
        BY <1>2, <3>1, <3>4
      <4>3. QED BY <1>0, <1>1, <1>4, <2>1, <3>1, <3>3, <4>1, <4>2, RunKept
    <3>7. QED BY <1>2, <3>5, <3>6
  <2>4. QED BY <2>2, <2>3
<1>5. QED
  <2>1. \/ requests'[r] = requests[r] /\ forgets'[r] = forgets[r]
        \/ requests'[r] = NoEntry /\ forgets'[r] = forgets[r] + 1
        \/ requests[r].status = "unknown" /\ forgets'[r] = forgets[r]
    BY <1>1, PruneView
  <2>2. requests[r].status = "unknown" => Unrun(r) BY <1>1 DEF Unrun
  <2>3. QED BY <1>3, <1>4, <2>1, <2>2

\* A power loss undoes the effects whose markers it makes untrue.
LEMMA RunLoss ==
  ASSUME TypeOK, TypeOK', GuardInv', SyncInv, NEW k \in Ids, PowerLoss(k), NEW r \in Requests, RunOf(r)
  PROVE  RunOf(r)'
<1> DEFINE lost == UNION {{u \in unsynced[p] : u.id >= k} : p \in Paths}
           L == {o \in Ids : \E u \in lost : u.id = o /\ u.req = r}
<1>0. runs[r] \in Int /\ runs'[r] \in Int /\ forgets[r] \in Nat BY DEF TypeOK, StoreTypeOK
<1>1. /\ runs'[r] = runs[r] - Cardinality(L)
      /\ landed' = {o \in landed : \A u \in lost : u.id # o}
      /\ ~Up' /\ UNCHANGED <<opsLog, reqLog, forgets>>
  BY DEF PowerLoss, Die, Up, diskVars, pruneHist
<1>2. IsFiniteSet(L)
  <2>1. IsFiniteSet(Ids) BY FS_Interval DEF Ids
  <2>2. QED BY <2>1, FS_Subset
<1>3. Cardinality(L) \in Nat BY <1>2, FS_CardinalityType
<1>4. Cardinality(L) = 0 => L = {} BY <1>2, FS_EmptySet
<1>5. \A u \in lost : \E p \in Paths : u \in unsynced[p] OBVIOUS
<1>6. \A o : o \in L <=> o \in Ids /\ \E u \in lost : u.id = o /\ u.req = r OBVIOUS
<1> HIDE DEF lost, L
<1>7. runs'[r] <= runs[r] BY <1>0, <1>1, <1>3
<1>8. phase' # "serving" BY <1>1 DEF Up
<1>9. Unrun(r)' => Unrun(r)
  BY <1>1, <1>8 DEF Unrun, GuardInv, Idle, RunPcs, ClaimedPcs, UnlandedPcs
<1>10. CASE L = {}
  <2>1. ASSUME NEW o \in Ids, Shows(o, opsLog[o], r) PROVE Shows(o, opsLog[o], r)'
    <3>1. CASE Committed(opsLog[o]) BY <1>1, <2>1, <3>1 DEF Shows, Committed
    <3>2. CASE opsLog[o].tag = "prepared" /\ o \in landed
      <4>1. ASSUME NEW u \in lost, u.id = o PROVE FALSE
        <5>1. PICK p \in Paths : u \in unsynced[p] BY <1>5
        <5>2. u.req = r BY <2>1, <3>2, <4>1, <5>1 DEF SyncInv, InLog, Shows
        <5>3. QED BY <1>6, <1>10, <4>1, <5>2
      <4>2. o \in landed' BY <1>1, <3>2, <4>1
      <4>3. QED BY <1>1, <2>1, <3>2, <4>2 DEF Shows
    <3>3. QED BY <2>1, <3>1, <3>2 DEF Shows
  <2>2. QED BY <1>0, <1>1, <1>7, <1>9, <2>1, RunKept
<1>11. CASE L # {}
  <2>1. Cardinality(L) >= 1 BY <1>3, <1>4, <1>11
  <2>2. runs'[r] <= forgets[r] BY <1>0, <1>1, <1>3, <2>1 DEF RunOf
  <2>3. QED BY <1>0, <1>1, <1>7, <1>9, <2>2, RunKept
<1>12. QED BY <1>10, <1>11

\* Every other step.
LEMMA RunOther ==
  ASSUME TypeOK, TypeOK', HandlerInv, IdInv, TakenInv, RequestInv, TableInv, LandedInv, MarkInv,
         OrderInv, BaseInv, ChainInv, Calm, [Next]_vars, ~PruneStore, UNCHANGED <<runs, landed>>,
         \A u \in Handlers : RunStep(u), NEW r \in Requests, r \notin orphaned, RunOf(r)
  PROVE  RunOf(r)'
<1>0. runs[r] \in Int /\ forgets[r] \in Nat /\ runs[r] <= runs[r] BY DEF TypeOK, StoreTypeOK
<1>1. \A u \in Handlers : hs'[u].pc \in RunPcs /\ hs'[u].req = r => Unrun(r)
  <2> SUFFICES ASSUME NEW u \in Handlers, hs'[u].pc \in RunPcs, hs'[u].req = r PROVE Unrun(r)
    OBVIOUS
  <2>1. hs[u].req = r /\ (hs[u].pc \in RunPcs \/ (Up /\ requests[r].status = "unknown"))
    BY DEF RunStep
  <2>2. QED BY <2>1 DEF Unrun
<1>2. ASSUME Undecided(r)
      PROVE  \A o \in Ids : /\ Shows(o, opsLog[o], r) => Shows(o, opsLog[o], r)'
                            /\ Up /\ Up' /\ Shows(o, records[o], r) => Shows(o, records[o], r)'
  <2>1. \A o \in Ids : ShowsKept(o, r) BY <1>2, ShowsStay
  <2>2. QED BY <2>1 DEF ShowsKept
<1>3. /\ reqLog[r].status = "inprogress" => Undecided(r)
      /\ Up /\ requests[r].status = "inprogress" => Undecided(r)
  BY DEF Undecided
<1>4. CASE SameEntries
  <2>1. UNCHANGED <<reqLog, requests, forgets>> /\ (Up' => Up) BY <1>4 DEF SameEntries
  <2>2. Unrun(r)' => Unrun(r) BY <1>1, <2>1 DEF Unrun
  <2>3. QED BY <1>0, <1>2, <1>3, <2>1, <2>2, RunKept
<1>5. CASE WriteEntry
  <2>1. PICK s \in Requests, e \in Entry, w \in AppendResults :
          /\ AppendRequestTracked(s, e, w) /\ e.status # "unknown"
          /\ e.status = "inprogress" => Up /\ requests[s].status = "unknown"
          /\ UNCHANGED forgets /\ (Up' => Up)
    BY <1>5 DEF WriteEntry
  <2>2. /\ reqLog'[r] = reqLog[r] \/ (r = s /\ reqLog'[r] = e)
        /\ requests'[r] = requests[r] \/ (r = s /\ requests'[r] = e)
    BY <2>1, RequestView
  <2>3. Unrun(r)' => Unrun(r) BY <1>1, <2>1, <2>2 DEF Unrun
  <2>4. e.status = "inprogress" /\ r = s => Unrun(r) BY <2>1 DEF Unrun
  <2>5. QED BY <1>0, <1>2, <1>3, <2>1, <2>2, <2>3, <2>4, RunKept
<1>6. CASE LoadEntries
  <2>1. ~Up /\ requests' = reqLog /\ UNCHANGED <<reqLog, forgets>> BY <1>6 DEF LoadEntries
  <2>2. Unrun(r)' => Unrun(r) BY <1>1, <2>1 DEF Unrun
  <2>3. \A o \in Ids : Up' /\ Shows(o, opsLog[o], r) => Shows(o, records[o], r)'
    <3>1. CASE LoadStore BY <3>1 DEF LoadStore, Load, Shows, Committed
    <3>2. ~Up' \/ LoadStore
      BY <2>1, StoreCases DEF SameStore, PrepareStore, ResolveStore, ExecStore, UnloadStore
    <3>3. QED BY <3>1, <3>2
  <2>4. QED BY <1>0, <1>2, <1>3, <2>1, <2>2, <2>3, RunKept
<1>7. CASE UnloadEntries
  <2>1. ~Up' /\ UNCHANGED <<reqLog, forgets>> BY <1>7 DEF UnloadEntries
  <2>2. Unrun(r)' => Unrun(r) BY <1>1, <2>1 DEF Unrun
  <2>3. QED BY <1>0, <1>2, <1>3, <2>1, <2>2, RunKept
<1>8. ASSUME NEW s \in Requests, ResolveStuck(s) PROVE RunOf(r)'
  <2>1. /\ UNCHANGED <<reqLog, forgets, opsLog, records>> /\ Up /\ Up' /\ Pending = {}
        /\ requests[s].status = "inprogress"
        /\ \/ requests' = requests
           \/ /\ CommittedFor(s) = {} /\ Body[s].op # "exec"
              /\ requests' = [requests EXCEPT ![s] = NoEntry]
    BY <1>8 DEF ResolveStuck, Recovering, Stuck, Up, diskVars, pruneHist
  <2>2. CASE requests'[r] = requests[r]
    <3>1. Unrun(r)' => Unrun(r) BY <1>1, <2>1, <2>2 DEF Unrun
    <3>2. QED BY <1>0, <1>2, <1>3, <2>1, <2>2, <3>1, RunKept
  <2>3. CASE r = s /\ CommittedFor(s) = {} /\ Body[s].op # "exec"
    <3>1. ASSUME NEW o \in Ids, Shows(o, records[o], r) PROVE FALSE
      <4>1. CASE Committed(records[o]) BY <2>3, <3>1, <4>1, FirstCommitted DEF Shows
      <4>2. CASE records[o].tag = "prepared" BY <2>1, <4>2 DEF Pending, IsPending
      <4>3. QED BY <3>1, <4>1, <4>2 DEF Shows
    <3>2. runs[r] <= forgets[r] BY <2>1, <2>3, <3>1 DEF RunOf
    <3>3. QED BY <1>0, <2>1, <3>2, RunKept
  <2>4. requests'[r] = requests[r] \/ r = s BY <2>1 DEF TypeOK, StoreTypeOK
  <2>5. QED BY <2>1, <2>2, <2>3, <2>4
<1>9. QED BY <1>4, <1>5, <1>6, <1>7, <1>8, EntryCases

\* RunInv is inductive.
LEMMA RunNext ==
  ASSUME TypeOK, TypeOK', GuardInv', HandlerInv, IdInv, TakenInv, RequestInv, TableInv,
         LandedInv, MarkInv, OrderInv, BaseInv, SyncInv, ChainInv, RunInv, [Next]_vars
  PROVE  RunInv'
<1>1. \A u \in Handlers : RunStep(u) BY RunPcsMove
<1>2. ASSUME NEW t \in Handlers, hs'[t].pc = "spawn" PROVE OpOf(t)' = "exec"
  <2>1. hs'[t].req = hs[t].req /\ (hs[t].pc = "spawn" \/ OpOf(t) = "exec")
    BY <1>1, <1>2 DEF RunStep, RunPcs, ClaimedPcs
  <2>2. OpOf(t) = "exec" BY <2>1 DEF RunInv
  <2>3. QED BY <2>1, <2>2 DEF OpOf, Req
<1>3. ASSUME Calm', NEW r \in Requests, r \notin orphaned' PROVE RunOf(r)'
  <2>1. Calm BY <1>3, OutsideGrows, StoreTypes DEF Calm, TypeOK
  <2>2. r \notin orphaned BY <1>3, HistoryGrows
  <2>3. RunOf(r) BY <2>1, <2>2 DEF RunInv
  <2>4. CASE UNCHANGED <<runs, landed>>
    <3>1. CASE PruneStore BY <1>1, <1>3, <2>3, <2>4, <3>1, RunPrune
    <3>2. CASE ~PruneStore BY <1>1, <2>1, <2>2, <2>3, <2>4, <3>2, RunOther
    <3>3. QED BY <3>1, <3>2
  <2>5. ASSUME NEW t \in Handlers, Install(t) PROVE RunOf(r)' BY <2>3, <2>5, RunInstall
  <2>6. ASSUME NEW t \in Handlers, Spawn(t) PROVE RunOf(r)' BY <2>3, <2>6, RunSpawn
  <2>7. ASSUME NEW k \in Ids, PowerLoss(k) PROVE RunOf(r)' BY <2>3, <2>7, RunLoss
  <2>8. QED BY <2>4, <2>5, <2>6, <2>7, RunsGrow
<1>4. QED BY <1>2, <1>3 DEF RunInv

-----------------------------------------------------------------------------
(***************************************************************************)
(* The invariants together, and what follows from them.                    *)
(***************************************************************************)
\* No server has run yet: logs, tables and histories are empty.
LEMMA InitOnce == Init => OnceInv
<1> SUFFICES ASSUME Init PROVE OnceInv OBVIOUS
<1>1. /\ phase = "down" /\ owing.req = None /\ ~Up
      /\ landed = {} /\ pruned = {} /\ dropped = {} /\ orphaned = {}
      /\ clock.at = MaxOps /\ clock.wall = MaxOps
  BY DEF Init, StoreInit, NothingOwed, Up
<1>2. \A t \in Handlers : hs[t].pc = "idle" /\ hs[t].id = 0
  BY DEF Init, Idle
<1>3. \A o \in Ids : /\ opsLog[o].tag = "none" /\ records[o].tag = "none" /\ slot[o] = 0
                     /\ opsLog[o].ts = 0 /\ records[o].ts = 0
  BY DEF Init, StoreInit, NoRecord
<1>4. \A r \in Requests :
        /\ told[r] = {} /\ runs[r] = 0 /\ forgets[r] = 0
        /\ requests[r].status = "unknown" /\ reqLog[r].status = "unknown"
  BY DEF Init, StoreInit, NoEntry
<1>5. "idle" \notin ActivePcs \cup ClaimedPcs \cup MarkedPcs \cup BasedPcs \cup RunPcs
                      \cup {"sync", "commit", "spawn"}
  BY DEF ActivePcs, ClaimedPcs, MarkedPcs, BasedPcs, RunPcs, UnlandedPcs
<1>6. AgreeInv BY <1>1, <1>4 DEF AgreeInv
<1>7. ClaimInv BY <1>2, <1>5 DEF ClaimInv
<1>8. NamedInv
  <2> SUFFICES ASSUME NEW r \in Requests
               PROVE  Cardinality(Named(r)) = 0 /\ Cardinality(told[r]) = 0
    BY <1>4 DEF NamedInv
  <2>1. \A o \in Ids : o # 0 BY DEF Ids
  <2>2. Named(r) = {} BY <1>1, <1>2, <1>3, <1>4, <2>1 DEF Named, Names, Keeps
  <2>3. QED BY <1>4, <2>2, FS_EmptySet
<1>9. StampInv BY <1>1, <1>3 DEF StampInv
<1>10. OrderInv BY <1>3 DEF OrderInv, InLog, InTable
<1>11. MarkInv BY <1>1, <1>2, <1>3, <1>5 DEF MarkInv
<1>12. BaseInv BY <1>2, <1>3, <1>5 DEF BaseInv
<1>13. KnownInv /\ ChainInv /\ DropInv BY <1>1 DEF KnownInv, ChainInv, DropInv
<1>14. SyncInv BY DEF Init, SyncInv
<1>15. RunInv BY <1>2, <1>4, <1>5 DEF RunInv, RunOf
<1>16. QED
  BY <1>6, <1>7, <1>8, <1>9, <1>10, <1>11, <1>12, <1>13, <1>14, <1>15 DEF OnceInv, RequestInv

\* Every step keeps all of it.
LEMMA OnceNext ==
  ASSUME IInv, IInv', OnceInv, [Next]_vars
  PROVE  OnceInv'
<1>1. /\ TypeOK /\ GuardInv /\ HandlerInv /\ IdInv /\ TakenInv /\ TableInv /\ LandedInv
      /\ TypeOK' /\ GuardInv'
  BY DEF IInv
<1>2. /\ RequestInv /\ NamedInv /\ StampInv /\ OrderInv /\ MarkInv /\ BaseInv
      /\ KnownInv /\ SyncInv /\ ChainInv /\ DropInv /\ RunInv
  BY DEF OnceInv
<1>3. RequestInv' /\ NamedInv' BY <1>1, <1>2, RequestNext, NamedNext
<1>4. StampInv' /\ OrderInv' BY <1>1, <1>2, StampNext, OrderNext
<1>5. MarkInv' BY <1>1, <1>2, MarkNext
<1>6. BaseInv' BY <1>1, <1>2, BaseNext
<1>7. KnownInv' BY <1>1, <1>2, <1>5, KnownNext
<1>8. SyncInv' BY <1>1, <1>2, SyncNext
<1>9. ChainInv' BY <1>1, <1>2, ChainNext
<1>10. DropInv' BY <1>1, <1>2, DropNext
<1>11. RunInv' BY <1>1, <1>2, RunNext
<1>12. QED BY <1>3, <1>4, <1>5, <1>6, <1>7, <1>8, <1>9, <1>10, <1>11 DEF OnceInv

\* The second inductive invariant holds in every reachable state, on top of the
\* first.
THEOREM OnceInductive == Spec => []OnceInv
<1>1. Init => OnceInv BY InitOnce
<1>2. IInv /\ IInv' /\ OnceInv /\ [Next]_vars => OnceInv' BY OnceNext
<1>3. QED BY <1>1, <1>2, Inductive, PTL DEF Spec

\* Whatever fails, crashes, loses power, writes to the workspace from outside or
\* sets the clock back, a client is never given two operations as the outcome of
\* one request, unless prune dropped the request's entry in between
\* (claim_request, finish, reconstruct_result).
THEOREM OneOutcome ==
  Spec => [](\A r \in Requests : Cardinality(told[r]) <= 1 + forgets[r])
<1>1. IInv /\ OnceInv => \A r \in Requests : Cardinality(told[r]) <= 1 + forgets[r]
  <2> SUFFICES ASSUME IInv, OnceInv, NEW r \in Requests
               PROVE  Cardinality(told[r]) <= 1 + forgets[r]
    OBVIOUS
  <2>1. Cardinality(Named(r)) <= 1 + forgets[r] BY DEF OnceInv, NamedInv
  <2>2. told[r] \subseteq Named(r) /\ Named(r) \subseteq Ids /\ forgets[r] \in Nat
    BY DEF Named, IInv, TypeOK, StoreTypeOK
  <2>3. IsFiniteSet(Ids) BY FS_Interval DEF Ids
  <2>4. IsFiniteSet(Named(r)) BY <2>2, <2>3, FS_Subset
  <2>5. /\ Cardinality(told[r]) <= Cardinality(Named(r)) /\ IsFiniteSet(told[r])
    BY <2>2, <2>4, FS_Subset
  <2>6. Cardinality(told[r]) \in Nat /\ Cardinality(Named(r)) \in Nat
    BY <2>4, <2>5, FS_CardinalityType
  <2>7. QED BY <2>1, <2>2, <2>5, <2>6
<1>2. QED BY <1>1, Inductive, OnceInductive, PTL

\* On a host where nobody else writes to the workspace and the clock never goes
\* back, a request's effect happens at most once for each time prune dropped its
\* entry, whatever crashes, power losses and failing writes come in between, as
\* long as prune left the evidence of it while it was in progress (Server::handle,
\* recover, continued_from).
THEOREM AtMostOnceHolds ==
  Spec => [](externals = 0 /\ clock.steps = 0 => AtMostOnce)
<1>1. /\ IInv /\ OnceInv
      /\ \A r \in Requests : Cardinality(told[r]) <= 1 + forgets[r]
      => (externals = 0 /\ clock.steps = 0 => AtMostOnce)
  <2> SUFFICES ASSUME IInv, OnceInv, externals = 0, clock.steps = 0,
                      NEW r \in Requests, r \notin orphaned
               PROVE  runs[r] <= 1 + forgets[r] + externals + clock.steps
    BY DEF AtMostOnce
  <2>1. runs[r] <= 1 + forgets[r] BY DEF OnceInv, RunInv, Calm, RunOf
  <2>2. runs[r] \in Int /\ forgets[r] \in Nat BY DEF IInv, TypeOK, StoreTypeOK
  <2>3. QED BY <2>1, <2>2
<1>2. QED BY <1>1, Inductive, OnceInductive, OneOutcome, PTL

\* Where nobody else writes to the workspace, recovery never drops the marker of
\* a mutation that is in the workspace or was built upon, while no record has
\* been pruned and the clock kept the order of the records (recover,
\* continued_from).
THEOREM LandedNotDroppedHolds == Spec => [](externals = 0 => LandedNotDropped)
<1>1. OnceInv => (externals = 0 => LandedNotDropped)
  BY DEF OnceInv, DropInv, LandedNotDropped
<1>2. QED BY <1>1, OnceInductive, PTL

\* The step with which the server begins to serve leaves no marker and no
\* request in progress, and every mutation in the workspace committed in log and
\* table (Server::new, recover).
LEMMA SettlesStep ==
  ASSUME IInv, OnceInv, externals = 0, [Next]_vars, phase # "serving", phase' = "serving"
  PROVE  /\ \A o \in landed : \/ o \in pruned'
                              \/ opsLog'[o].tag = "fs"
                              \/ o \in dropped /\ EvidenceLost
         /\ \A o \in Ids : opsLog'[o].tag \notin {"none", "aborted"}
                             => opsLog'[o] = records'[o]
         /\ Pending' = {} /\ Stuck' = {}
<1>1. StartupPrune
  BY DEF Next, vars, Replay, Receive, Handler, Claim, AcquireGuard, Check, HashBefore,
         Prepare, Verify, Install, InstallFails, Sync, SyncFails, Commit, Withdraw, Spawn,
         Exit, RecordExec, Gc, Finish, At, StartUp, Start, RecoverMarker, RecoverRemember,
         ResolveStuck, GiveUp, Crash, Die, PowerLoss, ExternalWrite, ClockSteps
<1>2. phase = "recover" /\ Up /\ Pending = {} /\ Stuck = {}
  BY <1>1 DEF StartupPrune, Recovering, Up
<1>3. /\ records = [o \in Ids |-> IF opsLog[o].tag = "aborted" THEN NoRecord ELSE opsLog[o]]
  BY <1>2 DEF OnceInv, RequestInv, AgreeInv
<1>4. \A o \in Ids : records[o].tag # "prepared" BY <1>2 DEF Pending, IsPending
<1>5. ASSUME NEW o \in landed, o \notin pruned, ~(o \in dropped /\ EvidenceLost)
      PROVE  o \in Ids /\ records[o].tag = "fs" /\ opsLog[o] = records[o]
  <2>1. o \in Ids BY DEF IInv, TypeOK
  <2>2. o \notin dropped BY <1>5 DEF OnceInv, DropInv
  <2>3. records[o].tag = "fs" BY <1>2, <1>4, <1>5, <2>1, <2>2 DEF IInv, LandedInv
  <2>4. QED BY <1>2, <2>1, <2>3 DEF IInv, TableInv, Committed
<1>6. CASE HistoryLimit = None
  <2>1. UNCHANGED <<opsLog, records, requests, pruned>>
    BY <1>1, <1>6 DEF StartupPrune, UnchangedStore, storeVars, diskVars, tableVars, pruneHist
  <2>2. Pending' = {} /\ Stuck' = {} BY <1>2, <2>1 DEF Pending, Stuck, IsPending
  <2>3. QED BY <1>3, <1>5, <2>1, <2>2
<1>7. CASE HistoryLimit # None
  <2>1. PICK replaced \in 0 .. 3, ok \in BOOLEAN :
          Prune(HistoryLimit, replaced, ok) /\ phase' = IF ok THEN "serving" ELSE "failed"
    BY <1>1, <1>7 DEF StartupPrune
  <2>2. ok BY <2>1
  <2>3. TypeOK BY DEF IInv
  <2>4. /\ \A o \in Ids : \/ records'[o] = records[o]
                          \/ records'[o] = NoRecord /\ records[o].tag # "prepared"
        /\ \A r \in Requests : requests'[r] = requests[r] \/ requests'[r] = NoEntry
    BY <2>1, <2>3, PruneView
  <2>5. opsLog' = records' BY <2>1, <2>2, <2>3, PruneView
  <2>6. /\ pruned \subseteq pruned'
        /\ \A o \in Ids : Committed(records[o]) /\ o \notin pruned' => records'[o] = records[o]
    BY <2>1, <2>3, PruneView
  <2>7. Pending' = {} BY <1>4, <2>4 DEF Pending, IsPending, NoRecord
  <2>8. Stuck' = {} BY <1>2, <2>4 DEF Stuck, NoEntry
  <2>9. QED BY <1>5, <2>5, <2>6, <2>7, <2>8 DEF Committed
<1>8. QED BY <1>6, <1>7

\* Where nobody else writes to the workspace, a server that begins to serve has
\* resolved every marker and every stuck request, and every mutation in the
\* workspace has its committed record in the log and in the table, unless prune
\* or a clock set back took the evidence (Server::new, recover).
THEOREM RecoverySettlesHolds == Spec /\ [](externals = 0) => RecoverySettles
<1>1. IInv /\ OnceInv /\ externals = 0 /\ [Next]_vars
        => [phase # "serving" /\ phase' = "serving" =>
              /\ \A o \in landed : \/ o \in pruned'
                                   \/ opsLog'[o].tag = "fs"
                                   \/ o \in dropped /\ EvidenceLost
              /\ \A o \in Ids : opsLog'[o].tag \notin {"none", "aborted"}
                                  => opsLog'[o] = records'[o]
              /\ Pending' = {} /\ Stuck' = {}]_vars
  BY SettlesStep
<1>2. QED BY <1>1, Inductive, OnceInductive, PTL DEF Spec, RecoverySettles

-----------------------------------------------------------------------------
(***************************************************************************)
(* No marker of a mutation that did not happen is committed.               *)
(***************************************************************************)
\* append_line: a failure is counted, and only a failure tears the log.
LEMMA AppendFaults ==
  ASSUME TypeOK, NEW w \in AppendResults, AppendLine(w)
  PROVE  /\ faults <= faults' /\ (torn => torn') /\ (torn' => torn \/ faults < faults')
         /\ faults' = faults \/ faults' = faults + 1
         /\ torn => w = "refused"
         /\ ~torn /\ w # "ok" => faults' = faults + 1
<1>1. faults \in Nat /\ torn \in BOOLEAN BY DEF TypeOK, StoreTypeOK
<1>2. Tears(w) => w \in AppendFailures
  BY DEF Tears, CutOff, Completed, AppendFailures
<1>3. faults' = (IF w \in AppendFailures THEN faults + 1 ELSE faults) /\ torn' = (torn \/ Tears(w))
  BY DEF AppendLine
<1>4. IF torn THEN w = "refused" ELSE w \in {"ok"} \cup AppendFailures BY DEF AppendLine
<1>5. faults < faults + 1 /\ faults <= faults BY <1>1
<1>6. CASE torn
  <2>1. w \notin AppendFailures BY <1>4, <1>6 DEF AppendFailures
  <2>2. QED BY <1>3, <1>4, <1>5, <1>6, <2>1
<1>7. CASE ~torn
  <2>1. CASE w = "ok"
    <3>1. w \notin AppendFailures BY <2>1 DEF AppendFailures
    <3>2. QED BY <1>2, <1>3, <1>5, <1>7, <2>1, <3>1
  <2>2. CASE w # "ok"
    <3>1. w \in AppendFailures BY <1>4, <1>7, <2>2
    <3>2. QED BY <1>1, <1>3, <1>5, <1>7, <2>2, <3>1
  <2>3. QED BY <2>1, <2>2
<1>8. QED BY <1>6, <1>7

\* prepare_fs_record, the same.
LEMMA PrepareFaults ==
  ASSUME TypeOK, NEW q \in Ids, NEW r \in Requests, NEW b \in FileState,
         NEW w \in AppendResults, PrepareFsRecord(q, r, b, w)
  PROVE  /\ faults <= faults' /\ (torn => torn') /\ (torn' => torn \/ faults < faults')
         /\ torn => w = "refused" /\ opsLog' = opsLog
         /\ ~torn /\ w # "ok" => faults < faults'
         /\ faults' <= 1 => \/ opsLog' = opsLog
                            \/ opsLog' = [opsLog EXCEPT ![q] = Stamped("aborted", r, b)]
                            \/ /\ opsLog' = [opsLog EXCEPT ![q] = Stamped("prepared", r, b)]
                               /\ w = "ok" \/ torn'
<1>0. faults \in Nat /\ torn \in BOOLEAN BY DEF TypeOK, StoreTypeOK
<1>1. CASE w # "unsynced"
  <2>1. AppendLine(w) /\ opsLog' = IF OnDisk(w)
                     THEN [opsLog EXCEPT ![q] = Stamped("prepared", r, b)] ELSE opsLog
    BY <1>1 DEF PrepareFsRecord
  <2>2. torn => opsLog' = opsLog
    <3>1. torn => ~OnDisk(w) BY <2>1, AppendFaults DEF OnDisk, Completed
    <3>2. QED BY <2>1, <3>1
  <2>3. OnDisk(w) => w = "ok" \/ torn' BY <1>1, <2>1 DEF OnDisk, AppendLine, Tears
  <2>4. /\ faults <= faults' /\ (torn => torn') /\ (torn' => torn \/ faults < faults')
        /\ torn => w = "refused"
        /\ ~torn /\ w # "ok" => faults < faults'
    BY <1>0, <2>1, AppendFaults
  <2>5. QED BY <2>1, <2>2, <2>3, <2>4
<1>2. CASE w = "unsynced"
  <2>1. PICK w2 \in {"ok"} \cup AppendFailures :
          /\ ~torn /\ faults' = IF w2 \in AppendFailures THEN faults + 2 ELSE faults + 1
          /\ torn' = Tears(w2) /\ opsLog' = PrepareFailureLine(q, r, b, w2)
    BY <1>2 DEF PrepareFsRecord, PrepareUnsynced
  <2>2. faults < faults' BY <1>0, <2>1
  <2>3. faults' <= 1 => w2 = "ok" BY <1>0, <2>1
  <2>4. faults' <= 1 => opsLog' = [opsLog EXCEPT ![q] = Stamped("aborted", r, b)]
    BY <2>1, <2>3 DEF PrepareFailureLine, OnDisk
  <2>5. faults <= faults' BY <1>0, <2>1
  <2>6. QED BY <1>2, <2>1, <2>2, <2>4, <2>5
<1>3. QED BY <1>1, <1>2

\* No step takes a failure back, and the log of a running server stays torn.
LEMMA FaultsGrow ==
  ASSUME TypeOK, TypeOK', [Next]_vars
  PROVE  /\ faults <= faults' /\ (torn' => torn \/ faults < faults')
         /\ Up /\ Up' => (torn => torn')
<1> USE DEF wsVars, histVars, budgetVars, UnchangedHist, UnchangedStore, storeVars,
            diskVars, tableVars, pruneHist
<1>0. faults \in Nat /\ torn \in BOOLEAN BY DEF TypeOK, StoreTypeOK
<1> DEFINE Goal == /\ faults <= faults' /\ (torn' => torn \/ faults < faults')
                   /\ Up /\ Up' => (torn => torn')
<1>s. ASSUME UNCHANGED <<faults, torn>> PROVE Goal BY <1>0, <1>s
<1>a. ASSUME NEW w \in AppendResults, AppendLine(w) PROVE Goal BY <1>a, AppendFaults
<1>p. ASSUME NEW keep, NEW replaced, NEW ok, Prune(keep, replaced, ok) PROVE Goal
  BY <1>0, <1>p DEF Prune
<1>1. ASSUME NEW r \in Requests, Replay(r) PROVE Goal BY <1>1, <1>s DEF Replay
<1>2. ASSUME NEW t \in Handlers, NEW r \in Requests, Receive(t, r) PROVE Goal
  BY <1>2, <1>s DEF Receive
<1>3. ASSUME NEW t \in Handlers, Handler(t) PROVE Goal
  <2>1. CASE Quiet(t)
    <3>1. faults' = faults \/ faults' = faults + 1
      BY <2>1 DEF Quiet, AcquireGuard, Check, HashBefore, Verify, InstallFails, Sync, SyncFails,
                  Exit, Fault
    <3>2. torn' = torn BY <2>1, QuietView
    <3>3. QED BY <1>0, <3>1, <3>2
  <2>2. CASE Prepare(t)
    <3>1. hs[t].req \in Requests /\ hs[t].before \in FileState
      BY <2>2 DEF Prepare, At, TypeOK, HandlerState
    <3>2. \E q \in Ids, w \in AppendResults : PrepareFsRecord(q, hs[t].req, hs[t].before, w)
      BY <2>2 DEF Prepare, Req
    <3>3. QED BY <3>1, <3>2, PrepareFaults
  <2>3. CASE Commit(t) \/ Withdraw(t) \/ RecordExec(t)
    <3>1. \E w \in AppendResults : AppendLine(w)
      BY <2>3 DEF Commit, Withdraw, RecordExec, CommitFsRecord, AbortPrepared,
                  AppendExecRecord, AppendRecordTracked
    <3>2. QED BY <1>a, <3>1
  <2>4. CASE Claim(t) \/ Finish(t)
    <3>1. UNCHANGED <<faults, torn>> \/ \E w \in AppendResults : AppendLine(w)
      BY <2>4 DEF Claim, Finish, ClaimRequest, AppendRequestTracked
    <3>2. QED BY <1>a, <1>s, <3>1
  <2>5. CASE Install(t) \/ Spawn(t) BY <1>s, <2>5 DEF Install, Spawn
  <2>6. QED BY <1>3, <1>p, <2>1, <2>2, <2>3, <2>4, <2>5, HandlerCases
<1>4. CASE StartUp
  <2>1. CASE Start
    <3>1. torn' = FALSE /\ faults' = faults /\ ~Up BY <2>1 DEF Start, Load, Up
    <3>2. QED BY <1>0, <3>1
  <2>2. CASE GiveUp
    <3>1. torn' = FALSE /\ faults' = faults /\ ~Up BY <2>2 DEF GiveUp, Unload, Up
    <3>2. QED BY <1>0, <3>1
  <2>3. ASSUME NEW q \in Ids, RecoverMarker(q) PROVE Goal
    <3>1. \E w \in AppendResults : AppendLine(w)
      BY <2>3 DEF RecoverMarker, CommitFsRecord, AbortPrepared, AppendRecordTracked
    <3>2. QED BY <1>a, <3>1
  <2>4. CASE RecoverRemember
    <3>1. \E w \in AppendResults : AppendLine(w)
      BY <2>4 DEF RecoverRemember, AppendRequestTracked
    <3>2. QED BY <1>a, <3>1
  <2>5. ASSUME NEW r \in Requests, ResolveStuck(r) PROVE Goal BY <2>5, <1>s DEF ResolveStuck
  <2>6. CASE StartupPrune
    <3>1. CASE HistoryLimit = None BY <1>s, <2>6, <3>1 DEF StartupPrune
    <3>2. CASE HistoryLimit # None BY <1>p, <2>6, <3>2 DEF StartupPrune
    <3>3. QED BY <3>1, <3>2
  <2>7. QED BY <1>4, <2>1, <2>2, <2>3, <2>4, <2>5, <2>6 DEF StartUp
<1>5. CASE Die
  <2>1. torn' = FALSE /\ faults' = faults /\ ~Up' BY <1>5 DEF Die, Unload, Up
  <2>2. QED BY <1>0, <2>1
<1>6. ASSUME NEW p \in Paths, NEW c \in FileState, ExternalWrite(p, c) PROVE Goal
  BY <1>6, <1>s DEF ExternalWrite
<1>7. ASSUME NEW w \in 0 .. clock.wall, ClockSteps(w) PROVE Goal
  BY <1>7, <1>s DEF ClockSteps
<1>8. CASE UNCHANGED vars BY <1>8, <1>s DEF vars
<1>9. QED
  BY <1>1, <1>2, <1>3, <1>4, <1>5, <1>6, <1>7, <1>8 DEF Next, Crash, PowerLoss

\* A handler comes to a withdrawal by a failure or by another writer's doing, leaves
\* its marker by an install or a withdrawal, and gets one only from an intact log.
HoldStep(u) ==
  /\ hs'[u].pc = "withdraw" =>
       \/ hs[u].pc = "withdraw" \/ externals # 0
       \/ faults' = faults + 1 /\ torn' = torn
  /\ phase' = "serving" /\ hs[u].pc \in UnlandedPcs =>
       \/ hs'[u].pc \in UnlandedPcs /\ hs'[u].id = hs[u].id
       \/ Install(u) \/ Withdraw(u)
  /\ hs'[u].pc \in MarkedPcs => hs[u].pc \in MarkedPcs \/ (hs[u].pc = "prepare" /\ ~torn)

\* Every step moves every handler so.
LEMMA HoldMove ==
  ASSUME TypeOK, GuardInv', BaseInv, [Next]_vars, NEW u \in Handlers
  PROVE  HoldStep(u)
<1> USE DEF MarkedPcs, UnlandedPcs
<1>0. hs[u] \in HandlerState BY DEF TypeOK
<1>s. ASSUME hs'[u] = hs[u] PROVE HoldStep(u) BY <1>s DEF HoldStep
<1>d. ASSUME phase' # "serving" PROVE HoldStep(u) BY <1>d DEF HoldStep, GuardInv, Idle
<1>1. ASSUME NEW r \in Requests, Replay(r) PROVE HoldStep(u) BY <1>1, <1>s DEF Replay
<1>2. ASSUME NEW t \in Handlers, NEW r \in Requests, Receive(t, r) PROVE HoldStep(u)
  <2>1. Others(t) /\ hs'[t].pc = "claim" /\ hs[t].pc = "idle"
    BY <1>2 DEF Receive, TypeOK, Others, Idle, At
  <2>2. QED BY <1>s, <2>1 DEF HoldStep, Others
<1>3. ASSUME NEW t \in Handlers, Handler(t) PROVE HoldStep(u)
  <2> USE DEF At
  <2>0. hs[t] \in HandlerState BY DEF TypeOK
  <2>o. ASSUME Others(t), hs'[t].pc \notin MarkedPcs, hs[t].pc \notin UnlandedPcs PROVE HoldStep(u)
    BY <1>s, <2>o DEF HoldStep, Others
  <2>i. hs' = [hs EXCEPT ![t] = Idle] => Others(t) /\ hs'[t].pc = "idle"
    BY DEF TypeOK, Others, Idle
  <2>1. CASE Quiet(t)
    <3>1. /\ Others(t) /\ <<hs[t].pc, hs'[t].pc>> \in QuietMoves /\ hs'[t].id = hs[t].id
          /\ torn' = torn
      BY <2>1, QuietView
    <3>2. CASE u # t BY <1>s, <3>1, <3>2 DEF Others
    <3>3. CASE u = t
      <4>1. /\ hs[t].pc \in UnlandedPcs => hs'[t].pc \in UnlandedPcs
            /\ hs'[t].pc \in MarkedPcs => hs[t].pc \in MarkedPcs
            /\ hs'[t].pc = "withdraw" => hs[t].pc \in {"verify", "install"}
        BY <3>1 DEF QuietMoves
      <4>2. ASSUME hs'[t].pc = "withdraw", externals = 0 PROVE faults' = faults + 1
        <5>1. /\ hs[t].before = file[PathAt(t)] /\ OpOf(t) \in FsOps
              /\ Precondition(hs[t].req, hs[t].before)
          BY <4>1, <4>2 DEF BaseInv, BasedPcs
        <5>2. Installable(t)
          BY <5>1 DEF Installable, Precondition, OpOf, Req, FsOps
        <5>3. CASE Verify(t)
          <6>1. hs'[t].pc = "install" BY <5>1, <5>3, GotoView DEF Verify
          <6>2. QED BY <4>2, <6>1
        <5>4. CASE InstallFails(t) BY <5>2, <5>4 DEF InstallFails, Fault
        <5>5. Verify(t) \/ InstallFails(t)
          BY <2>1, <4>1, <4>2 DEF Quiet, AcquireGuard, Check, HashBefore, Sync, SyncFails,
                                   Exit, Gc
        <5>6. QED BY <5>3, <5>4, <5>5
      <4>3. QED BY <3>1, <3>3, <4>1, <4>2 DEF HoldStep
    <3>4. QED BY <3>2, <3>3
  <2>2. CASE Claim(t)
    <3>1. CASE hs' = [hs EXCEPT ![t] = Idle] BY <2>2, <2>i, <2>o, <3>1 DEF Claim
    <3>2. CASE Goto(t, IF OpOf(t) = "exec" THEN "spawn" ELSE "guard")
      <4>1. /\ Others(t) /\ hs'[t].pc = IF OpOf(t) = "exec" THEN "spawn" ELSE "guard"
        BY <3>2, GotoView
      <4>2. QED BY <2>2, <2>o, <4>1 DEF Claim
    <3>3. QED BY <2>2, <3>1, <3>2 DEF Claim
  <2>3. CASE Install(t)
    <3>1. Others(t) /\ hs'[t].pc = "sync" /\ hs[t].pc = "install" BY <2>3, GotoView DEF Install
    <3>2. CASE u = t BY <2>3, <3>1, <3>2 DEF HoldStep
    <3>3. CASE u # t BY <1>s, <3>1, <3>3 DEF Others
    <3>4. QED BY <3>2, <3>3
  <2>4. CASE Spawn(t)
    <3>1. Others(t) /\ hs'[t].pc \in {"running", "record"} /\ hs[t].pc = "spawn"
      BY <2>0, <2>4 DEF Spawn, TypeOK, HandlerState, Others
    <3>2. QED BY <2>o, <3>1
  <2>5. CASE Finish(t) BY <2>5, <2>i, <2>o DEF Finish
  <2>6. CASE Prepare(t)
    <3>1. PICK q \in Ids, w \in AppendResults :
            /\ PrepareFsRecord(q, Req(t), hs[t].before, w)
            /\ IF w = "ok"
               THEN hs' = [hs EXCEPT ![t].id = q,
                              ![t].pc = IF OpOf(t) = "edit" THEN "verify" ELSE "install"]
               ELSE DropGuard(t, FALSE)
      BY <2>6 DEF Prepare
    <3>2. CASE w # "ok" BY <2>6, <2>o, <3>1, <3>2, DropView DEF Prepare
    <3>3. CASE w = "ok"
      <4>1. Others(t) /\ hs'[t].pc \in {"verify", "install"} /\ hs[t].pc = "prepare"
        BY <2>0, <2>6, <3>1, <3>3 DEF TypeOK, HandlerState, Others, Prepare
      <4>2. Req(t) \in Requests /\ hs[t].before \in FileState
        BY <2>0, <4>1 DEF TypeOK, Req, HandlerState
      <4>3. ~torn BY <3>1, <3>3, <4>2, PrepareFaults
      <4>4. QED BY <1>s, <4>1, <4>3 DEF HoldStep, Others
    <3>4. QED BY <3>2, <3>3
  <2>7. CASE Commit(t)
    <3>1. (\E ok \in BOOLEAN : DropGuard(t, ok)) /\ hs[t].pc = "commit" BY <2>7 DEF Commit
    <3>2. QED BY <2>o, <3>1, DropView
  <2>8. CASE Withdraw(t)
    <3>1. Others(t) /\ hs'[t].pc = "finish" BY <2>8, DropView DEF Withdraw
    <3>2. CASE u = t BY <2>8, <3>1, <3>2 DEF HoldStep
    <3>3. CASE u # t BY <1>s, <3>1, <3>3 DEF Others
    <3>4. QED BY <3>2, <3>3
  <2>9. CASE RecordExec(t)
    <3>1. Others(t) /\ hs'[t].pc = "finish" /\ hs[t].pc = "record"
      BY <2>0, <2>9 DEF RecordExec, TypeOK, HandlerState, Others
    <3>2. QED BY <2>o, <3>1
  <2>10. CASE Gc(t) /\ \E keep, replaced : \E ok \in BOOLEAN :
                        Prune(keep, replaced, ok) /\ DropGuard(t, ok)
    <3>1. (\E ok \in BOOLEAN : DropGuard(t, ok)) /\ hs[t].pc = "check" BY <2>10 DEF Gc
    <3>2. QED BY <2>o, <3>1, DropView
  <2>11. QED
    BY <1>3, <2>1, <2>2, <2>3, <2>4, <2>5, <2>6, <2>7, <2>8, <2>9, <2>10, HandlerCases
<1>4. CASE StartUp
  <2>1. hs' = hs
    BY <1>4 DEF StartUp, Start, RecoverMarker, RecoverRemember, ResolveStuck, StartupPrune,
                GiveUp
  <2>2. QED BY <1>s, <2>1
<1>5. CASE Die BY <1>5, <1>d DEF Die
<1>6. ASSUME NEW p \in Paths, NEW c \in FileState, ExternalWrite(p, c) PROVE HoldStep(u)
  BY <1>6, <1>s DEF ExternalWrite
<1>7. ASSUME NEW w \in 0 .. clock.wall, ClockSteps(w) PROVE HoldStep(u)
  BY <1>7, <1>s DEF ClockSteps
<1>8. CASE UNCHANGED vars BY <1>8, <1>s DEF vars
<1>9. QED
  BY <1>1, <1>2, <1>3, <1>4, <1>5, <1>6, <1>7, <1>8 DEF Next, Crash, PowerLoss

\* FaultInv is inductive.
LEMMA FaultNext ==
  ASSUME TypeOK, TypeOK', GuardInv', BaseInv, FaultInv, [Next]_vars
  PROVE  FaultInv'
<1>0. faults \in Nat /\ faults' \in Nat /\ externals \in Nat /\ externals' \in Nat
  BY DEF TypeOK, StoreTypeOK
<1>1. faults <= faults' /\ (torn' => torn \/ faults < faults') BY FaultsGrow
<1>2. torn' => faults' > 0 BY <1>0, <1>1 DEF FaultInv
<1>3. ASSUME externals' = 0, NEW t \in Handlers, hs'[t].pc = "withdraw"
      PROVE  faults' > 0 /\ (torn' => faults' > 1)
  <2>1. externals = 0 BY <1>0, <1>3, OutsideGrows
  <2>2. hs[t].pc = "withdraw" \/ (faults' = faults + 1 /\ torn' = torn)
    BY <1>3, <2>1, HoldMove DEF HoldStep
  <2>3. CASE hs[t].pc = "withdraw"
    <3>1. faults > 0 /\ (torn => faults > 1) BY <2>1, <2>3 DEF FaultInv
    <3>2. QED BY <1>0, <1>1, <3>1
  <2>4. CASE faults' = faults + 1 /\ torn' = torn
    <3>1. torn => faults > 0 BY DEF FaultInv
    <3>2. QED BY <1>0, <2>4, <3>1
  <2>5. QED BY <2>2, <2>3, <2>4
<1>4. QED BY <1>2, <1>3 DEF FaultInv

\* Nobody else wrote before either, no power was lost, nothing more had failed.
LEMMA AloneBefore ==
  ASSUME TypeOK, TypeOK', [Next]_vars, Alone'
  PROVE  /\ Alone
         /\ UNCHANGED <<landed, file>> \/ \E t \in Handlers : Install(t)
<1>0. /\ faults \in Nat /\ faults' \in Nat /\ externals \in Nat /\ losses \in Nat
      /\ losses' \in Nat /\ externals' \in Nat
  BY DEF TypeOK, StoreTypeOK
<1>1. clock.steps \in Nat /\ clock'.steps \in Nat BY StoreTypes DEF TypeOK, StoreTypeOK, Clock
<1>2. /\ externals <= externals' /\ clock.steps <= clock'.steps /\ losses <= losses'
      /\ faults <= faults'
  BY OutsideGrows, FaultsGrow
<1>3. Alone BY <1>0, <1>1, <1>2 DEF Alone, Calm
<1>4. ASSUME NEW k \in Ids, PowerLoss(k) PROVE FALSE
  BY <1>0, <1>4 DEF PowerLoss, Alone
<1>5. externals' = 0 BY DEF Alone, Calm
<1>6. QED BY <1>3, <1>4, <1>5, LandedGrows

\* Where a start-up goes.
LEMMA PhaseMoves ==
  ASSUME [Next]_vars
  PROVE  /\ phase' = "serving" => \/ phase = "serving"
                                  \/ phase = "recover" /\ Pending = {}
         /\ phase' = "recover" => phase = "recover" \/ phase = "down"
BY DEF Next, vars, Replay, Receive, Handler, Claim, AcquireGuard, Check, HashBefore,
       Prepare, Verify, Install, InstallFails, Sync, SyncFails, Commit, Withdraw, Spawn,
       Exit, RecordExec, Gc, Finish, At, StartUp, Start, RecoverMarker, RecoverRemember,
       ResolveStuck, StartupPrune, Recovering, GiveUp, Crash, Die, PowerLoss, ExternalWrite,
       ClockSteps

\* One failure at most: a withdrawal is recorded.
LEMMA WithdrawView ==
  ASSUME TypeOK, TypeOK', FaultInv, Alone, Alone', NEW t \in Handlers, Withdraw(t)
  PROVE  opsLog'[hs[t].id].tag = "aborted" /\ records'[hs[t].id] = NoRecord
<1>0. faults \in Nat /\ faults' \in Nat BY DEF TypeOK, StoreTypeOK
<1>1. hs[t].pc = "withdraw" /\ hs[t].id \in Ids BY DEF Withdraw, At, TypeOK, MarkedPcs
<1>2. faults = 1 /\ ~torn BY <1>0, <1>1 DEF FaultInv, Alone, Calm
<1>3. PICK w \in AppendResults :
        AppendRecordTracked(hs[t].id, Stamped("aborted", Req(t), hs[t].before), w)
  BY DEF Withdraw, AbortPrepared
<1>4. AppendLine(w) BY <1>3 DEF AppendRecordTracked
<1>5. w = "ok"
  <2>1. w # "ok" => faults' = faults + 1 BY <1>2, <1>4, AppendFaults
  <2>2. QED BY <1>0, <1>2, <2>1 DEF Alone
<1>6. QED BY <1>1, <1>3, <1>5, AppendView, LineFields

\* A handler lets go of its marker by installing it or by having it withdrawn.
LEMMA HeldStays ==
  ASSUME TypeOK, TypeOK', GuardInv', BaseInv, FaultInv, Alone, Alone', [Next]_vars,
         phase' = "serving", NEW o \in Ids, Held(o)
  PROVE  \/ Held(o)' \/ o \in landed'
         \/ opsLog'[o].tag = "aborted" /\ records'[o] = NoRecord
<1>1. PICK u \in Handlers : hs[u].pc \in UnlandedPcs /\ hs[u].id = o BY DEF Held
<1>2. HoldStep(u) BY HoldMove
<1>3. CASE hs'[u].pc \in UnlandedPcs /\ hs'[u].id = hs[u].id BY <1>1, <1>3 DEF Held
<1>4. CASE Install(u) BY <1>1, <1>4 DEF Install
<1>5. CASE Withdraw(u) BY <1>1, <1>5, WithdrawView
<1>6. QED BY <1>1, <1>2, <1>3, <1>4, <1>5 DEF HoldStep

\* A handler with the guard and a marker, or with an intact log, knows of no stray
\* marker but its own.
LEMMA NoOtherStray ==
  ASSUME TypeOK, GuardInv, StrayInv, Alone, NEW t \in Handlers, hs[t].pc \in GuardedPcs,
         ~torn \/ hs[t].pc \in MarkedPcs, NEW o \in Ids, Stray(o)
  PROVE  hs[t].pc \in UnlandedPcs /\ hs[t].id = o
<1>1. phase = "serving" BY DEF GuardInv, Idle, GuardedPcs
<1>2. Held(o) BY <1>1 DEF StrayInv, StraySound
<1>3. PICK u \in Handlers : hs[u].pc \in UnlandedPcs /\ hs[u].id = o BY <1>2 DEF Held
<1>4. u = t BY <1>3 DEF GuardInv, UnlandedPcs, GuardedPcs
<1>5. QED BY <1>3, <1>4

\* A server that begins to serve has none.
LEMMA NoneWhenSettled ==
  ASSUME TypeOK, RequestInv, phase = "recover", Pending = {}, NEW o \in Ids
  PROVE  opsLog[o].tag # "prepared" /\ records[o].tag # "prepared"
<1>1. records[o] = IF opsLog[o].tag = "aborted" THEN NoRecord ELSE opsLog[o]
  BY DEF RequestInv, AgreeInv
<1>2. records[o].tag # "prepared" BY DEF Pending, IsPending
<1>3. QED BY <1>1, <1>2

\* Recovery comes to a stray marker first, and withdraws it.
LEMMA StrayRecovery ==
  ASSUME TypeOK, RequestInv, StrayInv, Alone, NEW q \in Ids, RecoverMarker(q),
         NEW o \in Ids, Stray(o)
  PROVE  q = o /\ RecoveryOutcome(q, file[PathOf(records[q].req)]) = "noop"
<1>1. /\ phase = "recover" /\ records[q].tag = "prepared" /\ \A x \in Pending : ~Later(x, q)
  BY DEF RecoverMarker, Recovering, NewestMarker, IsPending
<1>2. \A x \in Ids : records[x] = IF opsLog[x].tag = "aborted" THEN NoRecord ELSE opsLog[x]
  BY <1>1 DEF RequestInv, AgreeInv
<1>3. records[o] = opsLog[o] /\ o \in Pending BY <1>2 DEF Stray, Pending, IsPending
<1>4. StraySound(o) BY DEF StrayInv
<1>5. \A x \in Ids : x # o /\ InTable(x) => slot[x] < slot[o] BY <1>1, <1>4 DEF StraySound
<1>6. q = o
  <2>1. q # o => slot[q] < slot[o] BY <1>1, <1>5 DEF InTable
  <2>2. q # o => Later(o, q) BY <2>1 DEF Later
  <2>3. QED BY <1>1, <1>3, <2>2
<1>7. ~ContinuedFrom(o)
  <2> SUFFICES ASSUME NEW x \in Ids, Later(x, o), records[x].tag = "fs" PROVE FALSE
    BY DEF ContinuedFrom, Follows
  <2>1. x # o BY <1>3 DEF Stray
  <2>2. slot[x] < slot[o] BY <1>5, <2>1 DEF InTable
  <2>3. slot[x] \in Nat /\ slot[o] \in Nat BY StoreTypes
  <2>4. QED BY <2>2, <2>3 DEF Later
<1>8. file[PathOf(records[o].req)] = records[o].before BY <1>3, <1>4 DEF StraySound
<1>9. QED BY <1>6, <1>7, <1>8 DEF RecoveryOutcome

\* Only what happened is recorded.
LEMMA PhantomNext ==
  ASSUME TypeOK, TypeOK', HandlerInv, TableInv, MarkInv, RequestInv, StrayInv, Alone, Alone',
         [Next]_vars
  PROVE  NoPhantomCommit'
<1> SUFFICES ASSUME NEW o \in Ids, opsLog'[o].tag = "fs" PROVE o \in landed'
  BY DEF NoPhantomCommit
<1>1. landed \subseteq landed' BY AloneBefore DEF Install
<1>2. opsLog[o].tag = "fs" => o \in landed' BY <1>1 DEF StrayInv, NoPhantomCommit
<1>3. CASE PrepareStore
  <2>1. PICK t \in Handlers, q \in Ids, w \in AppendResults :
          /\ hs[t].req \in Requests /\ hs[t].before \in FileState
          /\ PrepareFsRecord(q, hs[t].req, hs[t].before, w)
    BY <1>3 DEF PrepareStore
  <2>2. /\ o # q => opsLog'[o] = opsLog[o]
        /\ opsLog'[q] \in {opsLog[q], Stamped("prepared", hs[t].req, hs[t].before),
                                       Stamped("aborted", hs[t].req, hs[t].before)}
    BY <2>1, PreparedView
  <2>3. opsLog'[o] = opsLog[o] BY <2>2, LineFields
  <2>4. QED BY <1>2, <2>3
<1>4. CASE ResolveStore
  <2>1. PICK q \in Ids, tag \in {"fs", "aborted"}, w \in AppendResults :
          /\ records[q].tag = "prepared"
          /\ AppendRecordTracked(q, Stamped(tag, records[q].req, records[q].before), w)
          /\ tag = "fs" => \/ q \in landed
                           \/ /\ RecoverMarker(q)
                              /\ RecoveryOutcome(q, file[PathOf(records[q].req)]) = "committed"
    BY <1>4 DEF ResolveStore
  <2>2. /\ o # q => opsLog'[o] = opsLog[o]
        /\ opsLog'[q] = opsLog[q] \/ opsLog'[q].tag = tag
    BY <2>1, AppendView, LineFields
  <2>3. CASE opsLog'[o] = opsLog[o] BY <1>2, <2>3
  <2>4. CASE o = q /\ tag = "fs" /\ q \notin landed
    <3>1. RecoverMarker(q) /\ RecoveryOutcome(q, file[PathOf(records[q].req)]) = "committed"
      BY <2>1, <2>4
    <3>2. phase = "recover" BY <3>1 DEF RecoverMarker, Recovering
    <3>3. records[q] = IF opsLog[q].tag = "aborted" THEN NoRecord ELSE opsLog[q]
      BY <3>2 DEF RequestInv, AgreeInv
    <3>4. Stray(q) BY <2>1, <2>4, <3>3, LineFields DEF Stray
    <3>5. QED BY <3>1, <3>4, StrayRecovery
  <2>5. QED BY <1>1, <2>2, <2>3, <2>4
<1>5. CASE ExecStore
  <2>1. PICK q \in Ids, tag \in {"exec", "rejected"}, r \in Requests, w \in AppendResults :
          AppendRecordTracked(q, Stamped(tag, r, None), w)
    BY <1>5 DEF ExecStore
  <2>2. opsLog'[o] = opsLog[o] \/ opsLog'[o].tag = tag BY <2>1, AppendView, LineFields
  <2>3. QED BY <1>2, <2>2
<1>6. CASE PruneStore
  <2>1. PICK keep, replaced, ok : Prune(keep, replaced, ok) BY <1>6 DEF PruneStore
  <2>2. records'[o] = records[o] \/ records'[o] = NoRecord BY <2>1, PruneView
  <2>3. opsLog' = opsLog \/ opsLog' = records' BY <2>1, PruneView
  <2>4. records[o].tag = "fs" => opsLog[o] = records[o]
    BY <1>6 DEF TableInv, Committed, PruneStore
  <2>5. QED BY <1>2, <2>2, <2>3, <2>4, LineFields
<1>7. CASE opsLog' = opsLog BY <1>2, <1>7
<1>8. QED
  BY <1>3, <1>4, <1>5, <1>6, <1>7, StoreCases DEF SameStore, LoadStore, UnloadStore

\* A marker in the table of a serving server is some handler's, or of a mutation.
LEMMA HeldNext ==
  ASSUME TypeOK, TypeOK', GuardInv', HandlerInv, MarkInv, RequestInv, BaseInv, FaultInv,
         StrayInv, Alone, Alone', [Next]_vars, phase' = "serving",
         NEW o \in Ids, records'[o].tag = "prepared"
  PROVE  o \in landed' \/ Held(o)'
<1>1. landed \subseteq landed' BY AloneBefore DEF Install
<1>2. CASE records[o].tag = "prepared"
  <2>1. phase = "serving" BY <1>2, PhaseMoves DEF Pending, IsPending
  <2>2. o \in landed \/ Held(o) BY <1>2, <2>1 DEF StrayInv
  <2>3. QED BY <1>1, <2>2, HeldStays, LineFields
<1>3. CASE records[o].tag # "prepared"
  <2>1. CASE PrepareStore
    <3>1. PICK t \in Handlers, q \in Ids, w \in AppendResults :
            /\ hs[t].req \in Requests /\ hs[t].before \in FileState
            /\ PrepareFsRecord(q, hs[t].req, hs[t].before, w)
            /\ IF w = "ok" THEN hs'[t].pc \in UnlandedPcs /\ hs'[t].id = q
                           ELSE hs'[t].pc = "finish"
      BY <2>1 DEF PrepareStore
    <3>2. /\ o # q => records'[o] = records[o]
          /\ w # "ok" => records' = records
      BY <3>1, PreparedView
    <3>3. o = q /\ w = "ok" BY <1>3, <3>2
    <3>4. QED BY <3>1, <3>3 DEF Held
  <2>2. CASE ResolveStore
    <3>1. PICK q \in Ids, tag \in {"fs", "aborted"}, w \in AppendResults :
            AppendRecordTracked(q, Stamped(tag, records[q].req, records[q].before), w)
      BY <2>2 DEF ResolveStore
    <3>2. records'[o] = records[o] \/ records'[o] = NoRecord \/ records'[o].tag = tag
      BY <3>1, AppendView, LineFields
    <3>3. QED BY <1>3, <3>2, LineFields
  <2>3. CASE ExecStore
    <3>1. PICK q \in Ids, tag \in {"exec", "rejected"}, r \in Requests, w \in AppendResults :
            AppendRecordTracked(q, Stamped(tag, r, None), w)
      BY <2>3 DEF ExecStore
    <3>2. records'[o] = records[o] \/ records'[o] = NoRecord \/ records'[o].tag = tag
      BY <3>1, AppendView, LineFields
    <3>3. QED BY <1>3, <3>2, LineFields
  <2>4. CASE PruneStore
    <3>1. PICK keep, replaced, ok : Prune(keep, replaced, ok) BY <2>4 DEF PruneStore
    <3>2. records'[o] = records[o] \/ records'[o] = NoRecord BY <3>1, PruneView
    <3>3. QED BY <1>3, <3>2, LineFields
  <2>5. CASE records' = records BY <1>3, <2>5
  <2>6. ~LoadStore /\ ~UnloadStore BY PhaseMoves DEF LoadStore, UnloadStore, Up
  <2>7. QED BY <2>1, <2>2, <2>3, <2>4, <2>5, <2>6, StoreCases DEF SameStore
<1>4. QED BY <1>2, <1>3

\* A stray marker stays one, as long as no other line of a mutation is written.
LEMMA StrayKept ==
  ASSUME TypeOK, TypeOK', GuardInv', RequestInv, BaseInv, FaultInv, StrayInv, Alone, Alone',
         [Next]_vars, NEW o \in Ids, Stray(o), Stray(o)', file' = file,
         opsLog'[o] = opsLog[o],
         \A q \in Ids : InLog(q)' => InLog(q) /\ opsLog'[q] = opsLog[q],
         phase' = "recover" => \/ /\ phase = "recover" /\ slot' = slot
                                  /\ \A q \in Ids : InTable(q)' => InTable(q)
                               \/ /\ \A q \in Ids : InTable(q)' => InLog(q)
                                  /\ \A q \in Ids : slot'[q] = opsLog[q].ts
  PROVE  StraySound(o)'
<1>1. StraySound(o) BY DEF StrayInv
<1>2. file'[PathOf(opsLog'[o].req)] = opsLog'[o].before BY <1>1 DEF StraySound
<1>3. \A q \in Ids : q # o /\ InLog(q)' => opsLog'[q].ts < opsLog'[o].ts
  BY <1>1 DEF StraySound
<1>4. ASSUME phase' = "recover" PROVE \A q \in Ids : q # o /\ InTable(q)' => slot'[q] < slot'[o]
  BY <1>1, <1>4 DEF StraySound
<1>5. ASSUME phase' = "serving"
      PROVE  Held(o)' \/ (torn' /\ \A t \in Handlers : hs'[t].pc \notin MarkedPcs)
  <2>1. phase = "serving" BY <1>5, PhaseMoves, NoneWhenSettled DEF Stray
  <2>2. CASE Held(o) BY <1>5, <2>2, HeldStays DEF Stray
  <2>3. CASE torn /\ \A t \in Handlers : hs[t].pc \notin MarkedPcs
    <3>1. torn' BY <1>5, <2>1, <2>3, FaultsGrow DEF Up
    <3>2. \A t \in Handlers : hs'[t].pc \notin MarkedPcs BY <2>3, HoldMove DEF HoldStep
    <3>3. QED BY <3>1, <3>2
  <2>4. QED BY <1>1, <2>1, <2>2, <2>3 DEF StraySound
<1>6. QED BY <1>2, <1>3, <1>4, <1>5 DEF StraySound

\* What is true of stray markers stays true.
LEMMA StraySoundNext ==
  ASSUME TypeOK, TypeOK', GuardInv, GuardInv', HandlerInv, MarkInv, RequestInv, StampInv,
         BaseInv, FaultInv, StrayInv, Alone, Alone', [Next]_vars, NEW o \in Ids, Stray(o)'
  PROVE  StraySound(o)'
<1>0. MarkedPcs \subseteq GuardedPcs /\ "prepare" \in GuardedPcs /\ UnlandedPcs \subseteq MarkedPcs
  BY DEF MarkedPcs, GuardedPcs, UnlandedPcs
<1>1. ASSUME NEW t \in Handlers, Install(t) PROVE FALSE
  <2>1. opsLog' = opsLog /\ landed' = landed \cup {hs[t].id} /\ hs[t].pc = "install"
    BY <1>1 DEF Install, At, UnchangedStore, storeVars, diskVars
  <2>2. Stray(o) BY <2>1 DEF Stray
  <2>3. hs[t].pc \in MarkedPcs BY <2>1 DEF MarkedPcs
  <2>4. hs[t].id = o BY <1>0, <2>2, <2>3, NoOtherStray
  <2>5. QED BY <2>1, <2>4 DEF Stray
<1>2. UNCHANGED <<landed, file>> BY <1>1, AloneBefore
<1>3. opsLog'[o] = opsLog[o] => Stray(o) BY <1>2 DEF Stray
<1>4. phase = "serving" => phase' # "recover" BY PhaseMoves
<1>5. CASE SameStore
  <2>1. opsLog' = opsLog /\ records' = records /\ slot' = slot /\ (Up' => Up)
    BY <1>5 DEF SameStore
  <2>2. phase' = "recover" => phase = "recover" BY <2>1, PhaseMoves DEF Up
  <2>3. \A q \in Ids : /\ InLog(q)' => InLog(q) /\ opsLog'[q] = opsLog[q]
                       /\ InTable(q)' => InTable(q)
    BY <2>1 DEF InLog, InTable
  <2>4. QED BY <1>2, <1>3, <2>1, <2>2, <2>3, StrayKept
<1>6. CASE PrepareStore
  <2>1. PICK t \in Handlers, q \in Ids, w \in AppendResults :
          /\ hs[t].pc = "prepare" /\ hs[t].req \in Requests /\ hs[t].before \in FileState
          /\ PrepareFsRecord(q, hs[t].req, hs[t].before, w)
          /\ IF w = "ok" THEN hs'[t].pc \in UnlandedPcs /\ hs'[t].id = q
                         ELSE hs'[t].pc = "finish"
    BY <1>6 DEF PrepareStore
  <2>2. guard = t BY <1>0, <2>1 DEF GuardInv
  <2>3. phase = "serving" BY <2>1 DEF GuardInv, Idle
  <2>4. CASE torn
    <3>1. opsLog' = opsLog BY <2>1, <2>4, PrepareFaults
    <3>2. \A x \in Ids : InLog(x)' => InLog(x) /\ opsLog'[x] = opsLog[x] BY <3>1 DEF InLog
    <3>3. QED BY <1>2, <1>3, <1>4, <2>3, <3>1, <3>2, StrayKept
  <2>5. CASE ~torn
    <3>1. ~Stray(o) BY <1>0, <2>1, <2>5, NoOtherStray DEF UnlandedPcs
    <3>2. \A x \in Ids : x # q => opsLog'[x] = opsLog[x] BY <2>1, PreparedView
    <3>3. o = q BY <1>3, <3>1, <3>2
    <3>4. /\ opsLog'[q] \in {opsLog[q], Stamped("prepared", hs[t].req, hs[t].before),
                                         Stamped("aborted", hs[t].req, hs[t].before)}
      BY <2>1, PreparedView
    <3>5. opsLog'[q] = Stamped("prepared", hs[t].req, hs[t].before)
      BY <1>3, <3>1, <3>3, <3>4, LineFields DEF Stray
    <3>6. w = "ok" \/ torn'
      <4>1. faults' <= 1 BY DEF Alone
      <4>2. \/ opsLog' = opsLog
            \/ opsLog' = [opsLog EXCEPT ![q] = Stamped("aborted", hs[t].req, hs[t].before)]
            \/ w = "ok" \/ torn'
        BY <2>1, <4>1, PrepareFaults
      <4>3. opsLog' # opsLog BY <1>3, <3>1
      <4>4. opsLog' # [opsLog EXCEPT ![q] = Stamped("aborted", hs[t].req, hs[t].before)]
        <5>1. Stamped("aborted", hs[t].req, hs[t].before).tag = "aborted" BY LineFields
        <5>2. opsLog'[q].tag = "prepared" BY <3>5, LineFields
        <5>3. DOMAIN opsLog = Ids BY DEF TypeOK, StoreTypeOK
        <5>4. QED BY ONLY <5>1, <5>2, <5>3, q \in Ids
      <4>5. QED BY <4>2, <4>3, <4>4
    <3>7. file'[PathOf(opsLog'[o].req)] = opsLog'[o].before
      <4>1. hs[t].before = file[PathOf(hs[t].req)]
        BY <2>1 DEF BaseInv, BasedPcs, Alone, Calm, PathAt, Req
      <4>2. QED BY <1>2, <3>3, <3>5, <4>1, LineFields
    <3>8. ASSUME NEW x \in Ids, x # o PROVE opsLog'[x].ts < opsLog'[o].ts
      <4>1. opsLog[x].ts <= clock.wall BY DEF StampInv, Alone, Calm
      <4>2. opsLog'[x].ts = opsLog[x].ts /\ opsLog'[o].ts = clock.wall + 1
        BY <3>2, <3>3, <3>5, <3>8, LineFields
      <4>3. opsLog[x].ts \in Nat /\ clock.wall \in Nat BY StoreTypes
      <4>4. QED BY <4>1, <4>2, <4>3
    <3>9. Held(o)' \/ (torn' /\ \A u \in Handlers : hs'[u].pc \notin MarkedPcs)
      <4>1. CASE w = "ok" BY <2>1, <3>3, <4>1 DEF Held
      <4>2. CASE w # "ok"
        <5>1. ASSUME NEW u \in Handlers, hs'[u].pc \in MarkedPcs PROVE FALSE
          <6>1. hs[u].pc \in MarkedPcs \/ hs[u].pc = "prepare" BY <5>1, HoldMove DEF HoldStep
          <6>2. u = t BY <1>0, <2>2, <6>1 DEF GuardInv
          <6>3. QED BY <2>1, <4>2, <5>1, <6>2 DEF MarkedPcs
        <5>2. QED BY <3>6, <4>2, <5>1
      <4>3. QED BY <4>1, <4>2
    <3>10. QED BY <1>4, <2>3, <3>7, <3>8, <3>9 DEF StraySound
  <2>6. QED BY <2>4, <2>5
<1>7. CASE ResolveStore
  <2>1. PICK q \in Ids, tag \in {"fs", "aborted"}, w \in AppendResults :
          /\ records[q].tag = "prepared"
          /\ RecoverMarker(q) \/ \E t \in Handlers : hs[t].pc \in MarkedPcs /\ hs[t].id = q
          /\ AppendRecordTracked(q, Stamped(tag, records[q].req, records[q].before), w)
    BY <1>7 DEF ResolveStore
  <2>2. /\ \A x \in Ids : x # q => opsLog'[x] = opsLog[x]
        /\ opsLog'[q] = opsLog[q] \/ opsLog'[q].tag = tag
    BY <2>1, AppendView, LineFields
  <2>3. opsLog'[o] = opsLog[o] BY <2>2 DEF Stray
  <2>4. Stray(o) BY <1>3, <2>3
  <2>5. q = o
    <3>1. CASE RecoverMarker(q) BY <2>4, <3>1, StrayRecovery
    <3>2. ASSUME NEW t \in Handlers, hs[t].pc \in MarkedPcs, hs[t].id = q PROVE q = o
      BY <1>0, <2>4, <3>2, NoOtherStray
    <3>3. QED BY <2>1, <3>1, <3>2
  <2>6. \A x \in Ids : InLog(x)' => InLog(x) /\ opsLog'[x] = opsLog[x]
    BY <2>2, <2>3, <2>5 DEF InLog
  <2>7. phase' # "recover"
    <3>1. CASE RecoverMarker(q)
      <4>1. CASE RecoveryOutcome(q, file[PathOf(records[q].req)]) = "committed"
        <5>1. PICK v \in AppendResults :
              /\ CommitFsRecord(q, records[q].req, records[q].before, v)
              /\ phase' = IF v = "ok" THEN phase ELSE "failed"
          BY <3>1, <4>1 DEF RecoverMarker
        <5>2. AppendRecordTracked(q, Stamped("fs", records[q].req, records[q].before), v)
          BY <5>1 DEF CommitFsRecord
        <5>3. v # "ok" BY <2>5, <5>2, AppendView, LineFields DEF Stray
        <5>4. QED BY <5>1, <5>3
      <4>2. CASE RecoveryOutcome(q, file[PathOf(records[q].req)]) # "committed"
        <5>1. PICK v \in AppendResults :
              /\ AbortPrepared(q, records[q].req, records[q].before, v)
              /\ phase' = IF v = "ok" THEN phase ELSE "failed"
          BY <3>1, <4>2 DEF RecoverMarker
        <5>2. AppendRecordTracked(q, Stamped("aborted", records[q].req, records[q].before), v)
          BY <5>1 DEF AbortPrepared
        <5>3. v # "ok" BY <2>5, <5>2, AppendView, LineFields DEF Stray
        <5>4. QED BY <5>1, <5>3
      <4>3. QED BY <4>1, <4>2
    <3>2. ASSUME NEW t \in Handlers, hs[t].pc \in MarkedPcs PROVE phase' # "recover"
      BY <1>4, <3>2 DEF GuardInv, Idle, MarkedPcs
    <3>3. QED BY <2>1, <3>1, <3>2
  <2>8. QED BY <1>2, <2>3, <2>4, <2>6, <2>7, StrayKept
<1>8. CASE ExecStore
  <2>1. PICK q \in Ids, tag \in {"exec", "rejected"}, r \in Requests, w \in AppendResults :
          /\ AppendRecordTracked(q, Stamped(tag, r, None), w) /\ phase = "serving"
          /\ opsLog[q].tag = "none"
    BY <1>8 DEF ExecStore
  <2>2. /\ \A x \in Ids : x # q => opsLog'[x] = opsLog[x]
        /\ opsLog'[q] = opsLog[q] \/ opsLog'[q].tag = tag
    BY <2>1, AppendView, LineFields
  <2>3. opsLog'[o] = opsLog[o] BY <2>1, <2>2 DEF Stray
  <2>4. \A x \in Ids : InLog(x)' => InLog(x) /\ opsLog'[x] = opsLog[x]
    BY <2>1, <2>2 DEF InLog
  <2>5. QED BY <1>2, <1>3, <1>4, <2>1, <2>3, <2>4, StrayKept
<1>9. CASE PruneStore
  <2>1. PICK keep, replaced, ok : Prune(keep, replaced, ok) BY <1>9 DEF PruneStore
  <2>2. Up /\ (Pending = {} \/ \E t \in Handlers : hs[t].pc = "check") BY <1>9 DEF PruneStore
  <2>3. records'[o] = records[o] \/ records'[o] = NoRecord BY <2>1, PruneView
  <2>4. opsLog' = opsLog \/ opsLog' = records' BY <2>1, PruneView
  <2>5. phase = "serving"
    <3>1. SUFFICES ASSUME phase = "recover" PROVE FALSE BY <2>2 DEF Up
    <3>2. Pending = {} BY <2>2, <3>1 DEF GuardInv, Idle
    <3>3. opsLog[o].tag # "prepared" /\ records[o].tag # "prepared"
      BY <3>1, <3>2, NoneWhenSettled
    <3>4. QED BY <2>3, <2>4, <3>3, LineFields DEF Stray
  <2>6. CASE opsLog' = opsLog
    <3>1. \A x \in Ids : InLog(x)' => InLog(x) /\ opsLog'[x] = opsLog[x] BY <2>6 DEF InLog
    <3>2. QED BY <1>2, <1>3, <1>4, <2>5, <2>6, <3>1, StrayKept
  <2>7. CASE opsLog' = records'
    <3>1. records[o].tag = "prepared" BY <2>3, <2>7, LineFields DEF Stray
    <3>2. PICK t \in Handlers : hs[t].pc = "check" BY <2>2, <3>1 DEF Pending, IsPending
    <3>3. Held(o) BY <1>2, <2>5, <3>1 DEF StrayInv, Stray
    <3>4. PICK u \in Handlers : hs[u].pc \in UnlandedPcs BY <3>3 DEF Held
    <3>5. u = t BY <3>2, <3>4 DEF GuardInv, GuardedPcs, UnlandedPcs
    <3>6. QED BY <3>2, <3>4, <3>5 DEF UnlandedPcs
  <2>8. QED BY <2>4, <2>6, <2>7
<1>10. CASE LoadStore
  <2>1. /\ opsLog' = opsLog /\ slot' = [x \in Ids |-> opsLog[x].ts]
        /\ records' = [x \in Ids |-> IF opsLog[x].tag = "aborted" THEN NoRecord ELSE opsLog[x]]
    BY <1>10 DEF LoadStore, Load
  <2>2. \A x \in Ids : /\ InLog(x)' => InLog(x) /\ opsLog'[x] = opsLog[x]
                       /\ InTable(x)' => InLog(x)
                       /\ slot'[x] = opsLog[x].ts
    BY <2>1, LineFields DEF InLog, InTable
  <2>3. QED BY <1>2, <1>3, <2>1, <2>2, StrayKept
<1>11. CASE UnloadStore
  <2>1. opsLog' = opsLog /\ phase' # "recover" BY <1>11 DEF UnloadStore, Up
  <2>2. \A x \in Ids : InLog(x)' => InLog(x) /\ opsLog'[x] = opsLog[x] BY <2>1 DEF InLog
  <2>3. QED BY <1>2, <1>3, <2>1, <2>2, StrayKept
<1>12. QED BY <1>5, <1>6, <1>7, <1>8, <1>9, <1>10, <1>11, StoreCases

\* StrayInv is inductive.
LEMMA StrayNext ==
  ASSUME TypeOK, TypeOK', GuardInv, GuardInv', HandlerInv, TableInv, MarkInv, RequestInv,
         StampInv, BaseInv, FaultInv, StrayInv, [Next]_vars
  PROVE  StrayInv'
<1> SUFFICES ASSUME Alone'
             PROVE  /\ NoPhantomCommit'
                    /\ \A o \in Ids : phase' = "serving" /\ records'[o].tag = "prepared"
                                        => o \in landed' \/ Held(o)'
                    /\ \A o \in Ids : Stray(o)' => StraySound(o)'
  BY DEF StrayInv
<1>1. Alone BY AloneBefore
<1>2. NoPhantomCommit' BY <1>1, PhantomNext
<1>3. \A o \in Ids : phase' = "serving" /\ records'[o].tag = "prepared"
                       => o \in landed' \/ Held(o)'
  BY <1>1, HeldNext
<1>4. \A o \in Ids : Stray(o)' => StraySound(o)' BY <1>1, StraySoundNext
<1>5. QED BY <1>2, <1>3, <1>4

-----------------------------------------------------------------------------
(***************************************************************************)
(* What succeeded was carried out.                                         *)
(***************************************************************************)
\* A handler keeps its success, or comes to one by starting its command, by
\* committing its mutation, or by a prune, which has no operation.
OkStep(u) ==
  hs'[u].ok =>
    /\ hs'[u].pc \in ExecPcs \cup {"finish"}
    /\ hs'[u].id # 0 =>
         /\ hs'[u].req = hs[u].req
         /\ \/ hs[u].ok /\ hs[u].id # 0
            \/ hs[u].pc = "commit"
            \/ hs[u].req \in Requests /\ runs' = [runs EXCEPT ![hs[u].req] = @ + 1]

\* Every step moves every handler so.
LEMMA OkMove ==
  ASSUME TypeOK, GuardInv', HandlerInv, RanInv, [Next]_vars, NEW u \in Handlers
  PROVE  OkStep(u)
<1> USE DEF ExecPcs
<1>0. hs[u] \in HandlerState BY DEF TypeOK
<1>r. \A t \in Handlers : hs[t].ok => hs[t].pc \in {"running", "record", "finish"}
  BY DEF RanInv
<1>s. ASSUME hs'[u] = hs[u] PROVE OkStep(u) BY <1>r, <1>s DEF OkStep
<1>d. ASSUME phase' # "serving" PROVE OkStep(u) BY <1>d DEF OkStep, GuardInv, Idle
<1>1. ASSUME NEW r \in Requests, Replay(r) PROVE OkStep(u) BY <1>1, <1>s DEF Replay
<1>2. ASSUME NEW t \in Handlers, NEW r \in Requests, Receive(t, r) PROVE OkStep(u)
  <2>1. Others(t) /\ hs'[t].ok = FALSE BY <1>2 DEF Receive, TypeOK, Others, Idle
  <2>2. QED BY <1>s, <2>1 DEF OkStep, Others
<1>3. ASSUME NEW t \in Handlers, Handler(t) PROVE OkStep(u)
  <2> USE DEF At
  <2>0. hs[t] \in HandlerState /\ (hs[t].pc # "idle" => hs[t].req \in Requests) BY DEF TypeOK
  <2>o. ASSUME Others(t), OkStep(t) PROVE OkStep(u) BY <1>s, <2>o DEF Others
  <2>i. hs' = [hs EXCEPT ![t] = Idle] => Others(t) /\ hs'[t].ok = FALSE
    BY DEF TypeOK, Others, Idle
  <2>1. CASE Quiet(t)
    <3>1. /\ Others(t) /\ <<hs[t].pc, hs'[t].pc>> \in QuietMoves /\ hs'[t].id = hs[t].id
          /\ hs'[t].req = hs[t].req /\ (hs'[t].ok = hs[t].ok \/ hs'[t].ok = FALSE)
      BY <2>1, QuietView
    <3>2. hs'[t].ok => hs[t].ok /\ hs'[t].pc = "record" BY <1>r, <3>1 DEF QuietMoves
    <3>3. QED BY <2>o, <3>1, <3>2 DEF OkStep
  <2>2. CASE Claim(t)
    <3>1. CASE hs' = [hs EXCEPT ![t] = Idle] BY <2>i, <2>o, <3>1 DEF OkStep
    <3>2. CASE Goto(t, IF OpOf(t) = "exec" THEN "spawn" ELSE "guard")
      <4>1. Others(t) /\ hs'[t].ok = hs[t].ok BY <3>2, GotoView
      <4>2. ~hs[t].ok BY <1>r, <2>2 DEF Claim
      <4>3. QED BY <2>o, <4>1, <4>2 DEF OkStep
    <3>3. QED BY <2>2, <3>1, <3>2 DEF Claim
  <2>3. CASE Install(t)
    <3>1. Others(t) /\ hs'[t].ok = hs[t].ok /\ hs[t].pc = "install" BY <2>3, GotoView DEF Install
    <3>2. QED BY <1>r, <2>o, <3>1 DEF OkStep
  <2>4. CASE Spawn(t)
    <3>1. hs[t].pc = "spawn" /\ ~hs[t].ok BY <1>r, <2>4 DEF Spawn
    <3>2. PICK o \in Ids :
            \/ /\ hs' = [hs EXCEPT ![t].id = o, ![t].pc = "running", ![t].ok = TRUE]
               /\ runs' = [runs EXCEPT ![Req(t)] = @ + 1]
            \/ hs' = [hs EXCEPT ![t].id = o, ![t].pc = "record"]
      BY <2>4 DEF Spawn
    <3>3. Others(t) /\ hs'[t].req = hs[t].req BY <2>0, <3>2 DEF TypeOK, HandlerState, Others
    <3>4. CASE hs' = [hs EXCEPT ![t].id = o, ![t].pc = "record"]
      <4>1. hs'[t].ok = hs[t].ok BY <2>0, <3>4 DEF TypeOK, HandlerState
      <4>2. QED BY <2>o, <3>1, <3>3, <4>1 DEF OkStep
    <3>5. CASE /\ hs' = [hs EXCEPT ![t].id = o, ![t].pc = "running", ![t].ok = TRUE]
               /\ runs' = [runs EXCEPT ![Req(t)] = @ + 1]
      <4>1. hs'[t].pc = "running" BY <2>0, <3>5 DEF TypeOK, HandlerState
      <4>2. QED BY <2>0, <2>o, <3>1, <3>3, <3>5, <4>1 DEF OkStep, Req
    <3>6. QED BY <3>2, <3>4, <3>5
  <2>5. CASE Finish(t) BY <2>5, <2>i, <2>o DEF Finish, OkStep
  <2>6. CASE Prepare(t)
    <3>1. PICK q \in Ids, w \in AppendResults :
            IF w = "ok"
            THEN hs' = [hs EXCEPT ![t].id = q,
                           ![t].pc = IF OpOf(t) = "edit" THEN "verify" ELSE "install"]
            ELSE DropGuard(t, FALSE)
      BY <2>6 DEF Prepare
    <3>2. ~hs[t].ok BY <1>r, <2>6 DEF Prepare
    <3>3. CASE w # "ok" BY <2>o, <3>1, <3>3, DropView DEF OkStep
    <3>4. CASE w = "ok"
      <4>1. Others(t) /\ hs'[t].ok = hs[t].ok
        BY <2>0, <3>1, <3>4 DEF TypeOK, HandlerState, Others
      <4>2. QED BY <2>o, <3>2, <4>1 DEF OkStep
    <3>5. QED BY <3>3, <3>4
  <2>7. CASE Commit(t)
    <3>1. (\E ok \in BOOLEAN : DropGuard(t, ok)) /\ hs[t].pc = "commit" BY <2>7 DEF Commit
    <3>2. /\ Others(t) /\ hs'[t].pc = "finish" /\ hs'[t].req = hs[t].req
      BY <3>1, DropView
    <3>3. QED BY <2>o, <3>1, <3>2 DEF OkStep
  <2>8. CASE Withdraw(t)
    <3>1. Others(t) /\ hs'[t].ok = FALSE BY <2>8, DropView DEF Withdraw
    <3>2. QED BY <2>o, <3>1 DEF OkStep
  <2>9. CASE RecordExec(t)
    <3>1. /\ Others(t) /\ hs'[t].pc = "finish" /\ hs'[t].req = hs[t].req
          /\ hs'[t].id = hs[t].id /\ (hs'[t].ok => hs[t].ok) /\ hs[t].pc = "record"
      BY <2>0, <2>9 DEF RecordExec, TypeOK, HandlerState, Others
    <3>2. QED BY <2>o, <3>1 DEF OkStep
  <2>10. CASE Gc(t) /\ \E keep, replaced : \E ok \in BOOLEAN :
                        Prune(keep, replaced, ok) /\ DropGuard(t, ok)
    <3>1. (\E ok \in BOOLEAN : DropGuard(t, ok)) /\ hs[t].pc = "check" BY <2>10 DEF Gc
    <3>2. hs[t].id = 0 BY <3>1 DEF HandlerInv, HandlerSound, NoIdPcs
    <3>3. Others(t) /\ hs'[t].pc = "finish" /\ hs'[t].id = hs[t].id BY <3>1, DropView
    <3>4. QED BY <2>o, <3>2, <3>3 DEF OkStep
  <2>11. QED
    BY <1>3, <2>1, <2>2, <2>3, <2>4, <2>5, <2>6, <2>7, <2>8, <2>9, <2>10, HandlerCases
<1>4. CASE StartUp
  <2>1. hs' = hs
    BY <1>4 DEF StartUp, Start, RecoverMarker, RecoverRemember, ResolveStuck, StartupPrune,
                GiveUp
  <2>2. QED BY <1>s, <2>1
<1>5. CASE Die BY <1>5, <1>d DEF Die
<1>6. ASSUME NEW p \in Paths, NEW c \in FileState, ExternalWrite(p, c) PROVE OkStep(u)
  BY <1>6, <1>s DEF ExternalWrite
<1>7. ASSUME NEW w \in 0 .. clock.wall, ClockSteps(w) PROVE OkStep(u)
  BY <1>7, <1>s DEF ClockSteps
<1>8. CASE UNCHANGED vars BY <1>8, <1>s DEF vars
<1>9. QED
  BY <1>1, <1>2, <1>3, <1>4, <1>5, <1>6, <1>7, <1>8 DEF Next, Crash, PowerLoss

\* The lines of commands stay, or come from a handler whose command was started.
LEMMA ExecLines ==
  ASSUME TypeOK, HandlerInv, TableInv, MarkInv, [Next]_vars, NEW o \in Ids,
         opsLog'[o].tag = "exec"
  PROVE  \/ opsLog'[o] = opsLog[o]
         \/ \E t \in Handlers : hs[t].ok /\ hs[t].id # 0 /\ hs[t].req = opsLog'[o].req
<1>1. CASE SameStore BY <1>1 DEF SameStore
<1>2. CASE PrepareStore
  <2>1. PICK t \in Handlers, q \in Ids, w \in AppendResults :
          /\ hs[t].req \in Requests /\ hs[t].before \in FileState
          /\ PrepareFsRecord(q, hs[t].req, hs[t].before, w)
    BY <1>2 DEF PrepareStore
  <2>2. /\ \A x \in Ids : x # q => opsLog'[x] = opsLog[x]
        /\ opsLog'[q] \in {opsLog[q], Stamped("prepared", hs[t].req, hs[t].before),
                                      Stamped("aborted", hs[t].req, hs[t].before)}
    BY <2>1, PreparedView
  <2>3. QED BY <2>2, LineFields
<1>3. CASE ResolveStore
  <2>1. PICK q \in Ids, tag \in {"fs", "aborted"}, w \in AppendResults :
          AppendRecordTracked(q, Stamped(tag, records[q].req, records[q].before), w)
    BY <1>3 DEF ResolveStore
  <2>2. /\ \A x \in Ids : x # q => opsLog'[x] = opsLog[x]
        /\ opsLog'[q] = opsLog[q] \/ opsLog'[q].tag = tag
    BY <2>1, AppendView, LineFields
  <2>3. QED BY <2>2
<1>4. CASE ExecStore
  <2>1. PICK q \in Ids, tag \in {"exec", "rejected"}, r \in Requests, w \in AppendResults :
          /\ AppendRecordTracked(q, Stamped(tag, r, None), w)
          /\ tag = "exec" => \E t \in Handlers : hs[t].ok /\ hs[t].id # 0 /\ hs[t].req = r
    BY <1>4 DEF ExecStore
  <2>2. /\ \A x \in Ids : x # q => opsLog'[x] = opsLog[x]
        /\ opsLog'[q] = opsLog[q] \/ (opsLog'[q].tag = tag /\ opsLog'[q].req = r)
    BY <2>1, AppendView, LineFields
  <2>3. QED BY <2>1, <2>2
<1>5. CASE PruneStore
  <2>1. PICK keep, replaced, ok : Prune(keep, replaced, ok) /\ Up BY <1>5 DEF PruneStore
  <2>2. records'[o] = records[o] \/ records'[o] = NoRecord BY <2>1, PruneView
  <2>3. opsLog' = opsLog \/ opsLog' = records' BY <2>1, PruneView
  <2>4. QED BY <2>1, <2>2, <2>3, LineFields DEF TableInv, Committed
<1>6. CASE LoadStore \/ UnloadStore BY <1>6 DEF LoadStore, UnloadStore
<1>7. QED BY <1>1, <1>2, <1>3, <1>4, <1>5, <1>6, StoreCases

\* What recovery owes, it owes for what was carried out.
LEMMA OwingRan ==
  ASSUME TypeOK, RequestInv, TableInv, StrayInv, RanInv, Alone, [Next]_vars,
         owing'.req # None, Success(owing'.entry)
  PROVE  owing'.req \in Requests /\ runs[owing'.req] > 0
<1>0. \A o \in Ids : opsLog[o].tag = "exec" \/ (InLog(o) /\ o \in landed)
                       => runs[opsLog[o].req] > 0
  BY DEF RanInv
<1>1. CASE owing' = owing BY <1>1 DEF RanInv, TypeOK
<1>2. CASE owing' = NothingOwed BY <1>2 DEF NothingOwed
<1>3. ASSUME NEW q \in Ids, RecoverMarker(q) PROVE owing'.req \in Requests /\ runs[owing'.req] > 0
  <2> DEFINE outcome == RecoveryOutcome(q, file[PathOf(records[q].req)])
  <2>1. /\ phase = "recover" /\ records[q].tag = "prepared"
        /\ \/ owing' = NothingOwed
           \/ owing' = [req |-> records[q].req,
                        entry |-> IF outcome = "committed" THEN Done(q) ELSE Failed]
    BY <1>3 DEF RecoverMarker, Recovering, NewestMarker, IsPending
  <2>2. owing'.req = records[q].req /\ outcome = "committed"
    BY <2>1 DEF NothingOwed, Success, Failed
  <2>3. opsLog[q] = records[q] BY <2>1 DEF RequestInv, AgreeInv, NoRecord
  <2>4. ~Stray(q) BY <1>3, <2>2, StrayRecovery
  <2>5. InLog(q) /\ q \in landed BY <2>1, <2>3, <2>4 DEF Stray, InLog
  <2>6. records[q].req \in Requests BY <2>1 DEF TypeOK, StoreTypeOK
  <2>7. QED BY <1>0, <2>2, <2>3, <2>5, <2>6
<1>4. ASSUME NEW r \in Requests, ResolveStuck(r)
      PROVE  owing'.req \in Requests /\ runs[owing'.req] > 0
  <2>1. CASE owing' = [req |-> r, entry |-> Failed] BY <2>1 DEF Success, Failed
  <2>2. ASSUME NEW o \in CommittedFor(r), owing' = [req |-> r, entry |-> Reconstructed(o)]
        PROVE  runs[r] > 0
    <3>1. o \in Ids /\ Committed(records[o]) /\ records[o].req = r BY <2>2 DEF CommittedFor
    <3>2. records[o].tag # "rejected" BY <2>2 DEF Success, Reconstructed, Done
    <3>3. Up BY <1>4 DEF ResolveStuck, Recovering, Up
    <3>4. opsLog[o] = records[o] BY <3>1, <3>3 DEF TableInv
    <3>5. opsLog[o].tag = "fs" => InLog(o) /\ o \in landed
      BY <3>1 DEF StrayInv, NoPhantomCommit, InLog
    <3>6. QED BY <1>0, <3>1, <3>2, <3>4, <3>5 DEF Committed
  <2>3. QED BY <1>1, <1>4, <2>1, <2>2 DEF ResolveStuck
<1>5. ASSUME NEW t \in Handlers, Handler(t) PROVE owing' = owing
  <2>1. CASE Quiet(t) BY <2>1, QuietView
  <2>2. CASE Claim(t) \/ Prepare(t) \/ Install(t) \/ Commit(t) \/ Withdraw(t) \/ RecordExec(t)
             \/ Spawn(t) \/ Finish(t) \/ Gc(t)
    BY <2>2 DEF Claim, Prepare, Install, Commit, Withdraw, RecordExec, Spawn, Finish, Gc
  <2>3. QED BY <1>5, <2>1, <2>2, HandlerCases
<1>6. CASE StartUp
  BY <1>1, <1>2, <1>3, <1>4, <1>6
     DEF StartUp, Start, RecoverRemember, StartupPrune, GiveUp
<1>7. CASE Die BY <1>2, <1>7 DEF Die
<1>8. QED
  BY <1>1, <1>5, <1>6, <1>7
     DEF Next, vars, Replay, Receive, Crash, PowerLoss, ExternalWrite, ClockSteps

\* What was carried out stays so while no power is lost.
LEMMA RunsStay ==
  ASSUME TypeOK, TypeOK', [Next]_vars, Alone', NEW r \in Requests
  PROVE  runs[r] <= runs'[r] /\ runs[r] \in Int /\ runs'[r] \in Int
<1>0. runs \in [Requests -> Int] /\ runs[r] \in Int /\ runs'[r] \in Int BY DEF TypeOK
<1>1. ASSUME NEW k \in Ids, PowerLoss(k) PROVE FALSE
  BY <1>1 DEF PowerLoss, Alone, TypeOK
<1>2. ASSUME NEW t \in Handlers, Install(t) \/ Spawn(t) PROVE runs[r] <= runs'[r]
  <2>1. runs' = runs \/ runs' = [runs EXCEPT ![Req(t)] = @ + 1] BY <1>2 DEF Install, Spawn
  <2>2. QED BY <1>0, <2>1
<1>3. QED BY <1>0, <1>1, <1>2, RunsGrow

\* RanInv is inductive.
LEMMA RanNext ==
  ASSUME TypeOK, TypeOK', GuardInv', HandlerInv, IdInv, TakenInv, TableInv, LandedInv,
         RequestInv, MarkInv, BaseInv, StrayInv, RanInv, [Next]_vars
  PROVE  RanInv'
<1>1. \A u \in Handlers : OkStep(u) BY OkMove
<1>2. \A t \in Handlers : hs'[t].ok => hs'[t].pc \in ExecPcs \cup {"finish"}
  BY <1>1 DEF OkStep
<1> SUFFICES ASSUME Alone'
             PROVE  /\ \A r \in Requests :
                         /\ runs'[r] >= 0
                         /\ \/ Success(reqLog'[r])
                            \/ Up' /\ Success(requests'[r])
                            => runs'[r] > 0
                    /\ \A o \in Ids : opsLog'[o].tag = "exec" \/ (InLog(o)' /\ o \in landed')
                                        => runs'[opsLog'[o].req] > 0
                    /\ owing'.req # None /\ Success(owing'.entry) => runs'[owing'.req] > 0
                    /\ \A t \in Handlers : hs'[t].ok /\ hs'[t].id # 0 => runs'[hs'[t].req] > 0
  BY <1>2 DEF RanInv, Success
<1>3. Alone /\ (UNCHANGED <<landed, file>> \/ \E t \in Handlers : Install(t)) BY AloneBefore
<1>4. \A r \in Requests : runs[r] <= runs'[r] /\ runs[r] \in Int /\ runs'[r] \in Int
  BY RunsStay
<1>5. \A r \in Requests : runs[r] >= 0 /\ (Success(reqLog[r]) => runs[r] > 0)
                          /\ (Up /\ Success(requests[r]) => runs[r] > 0)
  BY <1>3 DEF RanInv
<1>6. \A t \in Handlers : hs[t].ok /\ hs[t].id # 0 => runs[hs[t].req] > 0 /\ hs[t].req \in Requests
  BY <1>3 DEF RanInv, TypeOK, ExecPcs
<1>7. \A o \in Ids : opsLog[o].tag = "exec" \/ (InLog(o) /\ o \in landed)
                       => runs[opsLog[o].req] > 0 /\ opsLog[o].req \in Requests
  BY <1>3 DEF RanInv, TypeOK, StoreTypeOK, InLog
<1>8. \A r \in Requests : runs'[r] >= 0 /\ (runs[r] > 0 => runs'[r] > 0) BY <1>4, <1>5
<1>9. ASSUME NEW r \in Requests, Success(reqLog'[r]) \/ (Up' /\ Success(requests'[r]))
      PROVE  runs[r] > 0
  <2>0. ~Success(NoEntry) BY DEF Success, NoEntry
  <2>1. CASE SameEntries BY <1>5, <1>9, <2>1 DEF SameEntries
  <2>2. CASE WriteEntry
    <3>1. PICK s \in Requests, e \in Entry, w \in AppendResults :
            /\ AppendRequestTracked(s, e, w) /\ (Up' => Up)
            /\ Success(e) => \/ \E t \in Handlers : hs[t].ok /\ hs[t].id # 0 /\ hs[t].req = s
                             \/ owing.req = s /\ owing.entry = e
      BY <2>2 DEF WriteEntry
    <3>2. /\ reqLog'[r] = reqLog[r] \/ (r = s /\ reqLog'[r] = e)
          /\ requests'[r] = requests[r] \/ (r = s /\ requests'[r] = e)
      BY <3>1, RequestView
    <3>3. Success(e) => runs[s] > 0 BY <1>3, <1>6, <3>1 DEF RanInv
    <3>4. QED BY <1>5, <1>9, <3>1, <3>2, <3>3
  <2>3. CASE PruneStore
    <3>1. PICK keep, replaced, ok : Prune(keep, replaced, ok) /\ Up BY <2>3 DEF PruneStore
    <3>2. requests'[r] = requests[r] \/ requests'[r] = NoEntry BY <3>1, PruneView
    <3>3. reqLog' = reqLog \/ reqLog' = requests' BY <3>1, PruneView
    <3>4. QED BY <1>5, <1>9, <2>0, <3>1, <3>2, <3>3
  <2>4. CASE LoadEntries BY <1>5, <1>9, <2>4 DEF LoadEntries
  <2>5. CASE UnloadEntries BY <1>5, <1>9, <2>5 DEF UnloadEntries
  <2>6. ASSUME NEW s \in Requests, ResolveStuck(s) PROVE runs[r] > 0
    <3>1. /\ reqLog' = reqLog /\ Up
          /\ requests' = requests \/ requests' = [requests EXCEPT ![s] = NoEntry]
      BY <2>6 DEF ResolveStuck, Recovering, Up, diskVars
    <3>2. requests'[r] = requests[r] \/ requests'[r] = NoEntry BY <3>1 DEF TypeOK, StoreTypeOK
    <3>3. QED BY <1>5, <1>9, <2>0, <3>1, <3>2
  <2>7. QED BY <2>1, <2>2, <2>3, <2>4, <2>5, <2>6, EntryCases
<1>10. ASSUME NEW o \in Ids, opsLog'[o].tag = "exec" PROVE runs'[opsLog'[o].req] > 0
  BY <1>6, <1>7, <1>8, <1>10, ExecLines
<1>11. ASSUME NEW o \in Ids, InLog(o)', o \in landed' PROVE runs'[opsLog'[o].req] > 0
  <2>1. CASE o \in landed
    <3>1. InLog(o) /\ opsLog'[o].req = opsLog[o].req BY <1>11, <2>1, LandedMoves
    <3>2. QED BY <1>7, <1>8, <2>1, <3>1
  <2>2. CASE o \notin landed
    <3>1. PICK t \in Handlers : Install(t) BY <1>3, <1>11, <2>2
    <3>2. /\ landed' = landed \cup {hs[t].id} /\ opsLog' = opsLog /\ hs[t].req \in Requests
          /\ opsLog[hs[t].id].req = hs[t].req /\ runs' = [runs EXCEPT ![hs[t].req] = @ + 1]
      BY <3>1, InstallView
    <3>3. o = hs[t].id BY <1>11, <2>2, <3>2
    <3>4. runs'[hs[t].req] = runs[hs[t].req] + 1 BY <3>2 DEF TypeOK
    <3>5. QED BY <1>4, <1>5, <3>2, <3>3, <3>4
  <2>3. QED BY <2>1, <2>2
<1>12. owing'.req # None /\ Success(owing'.entry) => runs'[owing'.req] > 0
  BY <1>3, <1>8, OwingRan
<1>13. ASSUME NEW t \in Handlers, hs'[t].ok, hs'[t].id # 0 PROVE runs'[hs'[t].req] > 0
  <2>1. hs'[t].req = hs[t].req BY <1>1, <1>13 DEF OkStep
  <2>2. CASE hs[t].ok /\ hs[t].id # 0 BY <1>6, <1>8, <2>1, <2>2
  <2>3. CASE hs[t].pc = "commit"
    <3>1. /\ hs[t].id \in landed /\ hs[t].id \in Ids /\ opsLog[hs[t].id].tag = "prepared"
          /\ records[hs[t].id].req = hs[t].req /\ records[hs[t].id].tag = "prepared"
      BY <2>3 DEF MarkInv, HandlerInv, HandlerSound, MarkedPcs, TypeOK
    <3>2. opsLog[hs[t].id].req = hs[t].req BY <3>1 DEF MarkInv
    <3>3. QED BY <1>7, <1>8, <2>1, <3>1, <3>2 DEF InLog
  <2>4. CASE hs[t].req \in Requests /\ runs' = [runs EXCEPT ![hs[t].req] = @ + 1]
    <3>1. runs'[hs[t].req] = runs[hs[t].req] + 1 BY <2>4 DEF TypeOK
    <3>2. QED BY <1>4, <1>5, <2>1, <2>4, <3>1
  <2>5. QED BY <1>1, <1>13, <2>2, <2>3, <2>4 DEF OkStep
<1>14. QED BY <1>8, <1>9, <1>10, <1>11, <1>12, <1>13

\* No server has run yet.
LEMMA InitTrue == Init => FaultInv /\ StrayInv /\ RanInv
<1> SUFFICES ASSUME Init PROVE FaultInv /\ StrayInv /\ RanInv OBVIOUS
<1>1. \A t \in Handlers : hs[t].pc = "idle" /\ hs[t].ok = FALSE BY DEF Init, Idle
<1>2. \A o \in Ids : opsLog[o].tag = "none" /\ records[o].tag = "none"
  BY DEF Init, StoreInit, NoRecord
<1>3. \A r \in Requests : runs[r] = 0 /\ ~Success(reqLog[r]) /\ ~Success(requests[r])
  BY DEF Init, StoreInit, NoEntry, Success
<1>4. torn = FALSE /\ owing.req = None BY DEF Init, StoreInit, NothingOwed
<1>5. FaultInv BY <1>1, <1>4 DEF FaultInv
<1>6. StrayInv BY <1>2 DEF StrayInv, NoPhantomCommit, Stray
<1>7. RanInv BY <1>1, <1>2, <1>3, <1>4 DEF RanInv, InLog
<1>8. QED BY <1>5, <1>6, <1>7

\* The third inductive invariant holds in every reachable state, on top of the
\* first two.
THEOREM TrueInductive == Spec => []TrueInv
<1>1. Init => TrueInv BY InitTrue DEF TrueInv
<1>2. IInv /\ IInv' /\ OnceInv /\ TrueInv /\ [Next]_vars => TrueInv'
  <2> SUFFICES ASSUME IInv, IInv', OnceInv, TrueInv, [Next]_vars PROVE TrueInv' OBVIOUS
  <2>1. /\ TypeOK /\ GuardInv /\ HandlerInv /\ IdInv /\ TakenInv /\ TableInv /\ LandedInv
        /\ TypeOK' /\ GuardInv'
    BY DEF IInv
  <2>2. /\ RequestInv /\ MarkInv /\ StampInv /\ BaseInv /\ FaultInv /\ StrayInv /\ RanInv
    BY DEF OnceInv, TrueInv
  <2>3. FaultInv' BY <2>1, <2>2, FaultNext
  <2>4. StrayInv' BY <2>1, <2>2, StrayNext
  <2>5. RanInv' BY <2>1, <2>2, RanNext
  <2>6. QED BY <2>3, <2>4, <2>5 DEF TrueInv
<1>3. QED BY <1>1, <1>2, Inductive, OnceInductive, PTL DEF Spec

\* While nobody else writes, the clock keeps time, no power is lost and one call to
\* the file system failed at most, every committed record in the log is of a
\* mutation that happened, whatever crashes come in between (recover,
\* abort_prepared, the aborted marker of a failed prepare).
THEOREM NoPhantomCommitHolds ==
  Spec => [](faults <= 1 /\ externals = 0 /\ clock.steps = 0 /\ losses = 0
               => NoPhantomCommit)
<1>1. TrueInv => (faults <= 1 /\ externals = 0 /\ clock.steps = 0 /\ losses = 0
                    => NoPhantomCommit)
  BY DEF TrueInv, StrayInv, Alone, Calm
<1>2. QED BY <1>1, TrueInductive, PTL

-----------------------------------------------------------------------------
(***************************************************************************)
(* The server implements AtomicWorkspace.                                  *)
(***************************************************************************)
\* What the promise is about.
Promised == <<file, runs, told, forgets, orphaned>>

\* An answer is a report of the promise, or tells no operation.
LEMMA TellRefines ==
  ASSUME TypeOK, NEW s \in Requests, NEW e \in Entry, Tell(s, e), Success(e) => runs[s] > 0,
         UNCHANGED <<file, runs, forgets, orphaned>>,
         Cardinality(told'[s]) <= 1 + forgets'[s]
  PROVE  Atomic!Next \/ UNCHANGED Promised
<1>0. told \in [Requests -> SUBSET Ids] BY DEF TypeOK
<1>1. CASE Success(e)
  <2>1. e.id \in Ids BY <1>1 DEF Success, Entry, Ids
  <2>2. told' = [told EXCEPT ![s] = @ \cup {e.id}] BY <1>1 DEF Tell, Success
  <2>3. told'[s] = told[s] \cup {e.id} BY <1>0, <2>2
  <2>4. runs[s] > 0 BY <1>1
  <2>5. Cardinality(told[s] \cup {e.id}) <= 1 + forgets[s]
    <3>1. Cardinality(told'[s]) = Cardinality(told[s] \cup {e.id}) BY <2>3, Zenon
    <3>2. forgets'[s] = forgets[s] OBVIOUS
    <3>3. QED BY <3>1, <3>2, Zenon
  <2>6. Atomic!Cardinality(told[s] \cup {e.id}) = Cardinality(told[s] \cup {e.id})
    BY DEF Cardinality, Atomic!Cardinality
  <2>7. Atomic!Report(s, e.id) BY <2>2, <2>4, <2>5, <2>6 DEF Atomic!Report
  <2>8. QED BY <2>1, <2>7 DEF Atomic!Next
<1>2. CASE ~Success(e)
  <2>1. told' = [told EXCEPT ![s] = @ \cup {}] BY <1>2 DEF Tell, Success
  <2>2. told' = told BY <1>0, <2>1
  <2>3. QED BY <2>2 DEF Promised
<1>3. QED BY <1>1, <1>2

\* A prune forgets.
LEMMA PruneRefines ==
  ASSUME TypeOK, TypeOK', NEW keep, NEW replaced, NEW ok, Prune(keep, replaced, ok),
         UNCHANGED <<file, runs, told>>
  PROVE  Atomic!Next
<1>1. ASSUME NEW r \in Requests PROVE forgets'[r] \in {forgets[r], forgets[r] + 1}
  <2>1. \/ requests'[r] = requests[r] /\ forgets'[r] = forgets[r]
        \/ /\ requests'[r] = NoEntry /\ requests[r].status # "inprogress"
           /\ forgets'[r] = forgets[r] + 1
        \/ /\ requests'[r] = NoEntry /\ requests[r].status = "unknown"
           /\ forgets'[r] = forgets[r]
    BY PruneView
  <2>2. QED BY <2>1
<1>2. orphaned \subseteq orphaned' /\ orphaned' \subseteq Requests
  BY DEF Prune, TypeOK, StoreTypeOK
<1>3. Atomic!Forget BY <1>1, <1>2 DEF Atomic!Forget
<1>4. QED BY <1>3 DEF Atomic!Next

\* A request is applied when its handler installs it, in the state it asked for.
LEMMA InstallRefines ==
  ASSUME TypeOK, HandlerInv, MarkInv, BaseInv, RunInv, Calm, NEW t \in Handlers, Install(t)
  PROVE  Atomic!Next
<1> DEFINE r == hs[t].req
<1>1. /\ r \in Requests /\ runs' = [runs EXCEPT ![r] = @ + 1]
      /\ UNCHANGED <<told, forgets, orphaned>>
  BY InstallView
<1>2. hs[t].pc = "install" /\ file' = [file EXCEPT ![Body[r].path] = After(r)]
  BY DEF Install, At, PathAt, PathOf, Req
<1>3. /\ Body[r].op \in FsOps /\ Precondition(r, hs[t].before)
      /\ hs[t].before = file[Body[r].path]
  BY <1>2 DEF BaseInv, BasedPcs, Calm, OpOf, Req, PathAt, PathOf
<1>4. r \in orphaned \/ runs[r] <= forgets[r]
  <2>1. Unrun(r) BY <1>2 DEF Unrun, RunPcs, UnlandedPcs
  <2>2. QED BY <1>1, <2>1 DEF RunInv, RunOf
<1>5. Atomic!Asked(r, file[Body[r].path])
  BY <1>3 DEF Atomic!Asked, Precondition, FsOps
<1>6. Atomic!Left(r, file[Body[r].path]) = After(r) BY <1>3 DEF Atomic!Left, After, FsOps
<1>7. Atomic!Apply(r)
  BY <1>1, <1>2, <1>4, <1>5, <1>6 DEF Atomic!Apply, Atomic!Fresh
<1>8. QED BY <1>1, <1>7 DEF Atomic!Next

\* A command is applied when it is started.
LEMMA SpawnRefines ==
  ASSUME TypeOK, RunInv, Calm, NEW t \in Handlers, Spawn(t)
  PROVE  Atomic!Next \/ UNCHANGED Promised
<1> DEFINE r == hs[t].req
<1>1. /\ UNCHANGED <<file, told, forgets, orphaned>> /\ hs[t].pc = "spawn"
      /\ runs' = runs \/ runs' = [runs EXCEPT ![r] = @ + 1]
  BY DEF Spawn, wsVars, pruneHist, At, Req
<1>2. r \in Requests /\ Body[r].op = "exec" BY <1>1 DEF TypeOK, RunInv, OpOf, Req
<1>3. CASE runs' = runs BY <1>1, <1>3 DEF Promised
<1>4. CASE runs' = [runs EXCEPT ![r] = @ + 1]
  <2>1. r \in orphaned \/ runs[r] <= forgets[r]
    <3>1. Unrun(r) BY <1>1 DEF Unrun, RunPcs, ClaimedPcs
    <3>2. QED BY <1>2, <3>1 DEF RunInv, RunOf
  <2>2. Atomic!Asked(r, file[Body[r].path]) BY <1>2 DEF Atomic!Asked
  <2>3. Atomic!Left(r, file[Body[r].path]) = file[Body[r].path] BY <1>2 DEF Atomic!Left
  <2>4. file' = [file EXCEPT ![Body[r].path] = Atomic!Left(r, @)]
    <3>1. file \in [Paths -> FileState] BY DEF TypeOK
    <3>2. QED BY <1>1, <2>3, <3>1
  <2>5. Atomic!Apply(r) BY <1>1, <1>4, <2>1, <2>2, <2>4 DEF Atomic!Apply, Atomic!Fresh
  <2>6. QED BY <1>2, <2>5 DEF Atomic!Next
<1>5. QED BY <1>1, <1>3, <1>4

\* Every step of the server is a step of the promise, or none.
LEMMA StepRefines ==
  ASSUME IInv, IInv', OnceInv, TrueInv, Alone, Alone', [Next]_vars,
         \A r \in Requests : Cardinality(told'[r]) <= 1 + forgets'[r]
  PROVE  Atomic!Next \/ UNCHANGED Promised
<1> USE DEF wsVars, histVars, budgetVars, UnchangedHist, UnchangedStore, storeVars,
            diskVars, tableVars, pruneHist
<1>0. TypeOK /\ TypeOK' /\ HandlerInv /\ MarkInv /\ BaseInv /\ RunInv /\ Calm /\ RanInv
  BY DEF IInv, OnceInv, TrueInv, Alone
<1>e. \A r \in Requests : /\ requests[r] \in Entry
                          /\ Up /\ Success(requests[r]) => runs[r] > 0
  BY <1>0 DEF RanInv, TypeOK, StoreTypeOK
<1>1. ASSUME NEW r \in Requests, Replay(r) PROVE Atomic!Next \/ UNCHANGED Promised
  <2>1. Tell(r, requests[r]) /\ Up /\ UNCHANGED <<file, runs, forgets, orphaned>>
    BY <1>1 DEF Replay, Up
  <2>2. QED BY <1>0, <1>e, <2>1, TellRefines
<1>2. ASSUME NEW t \in Handlers, NEW r \in Requests, Receive(t, r) PROVE UNCHANGED Promised
  BY <1>2 DEF Receive, Promised
<1>3. ASSUME NEW t \in Handlers, Handler(t) PROVE Atomic!Next \/ UNCHANGED Promised
  <2>0. hs[t] \in HandlerState /\ (hs[t].pc # "idle" => Req(t) \in Requests) /\ Req(t) = hs[t].req
    BY <1>0 DEF TypeOK, Req
  <2>1. CASE Quiet(t) BY <1>0, <2>1, QuietView DEF Promised
  <2>2. CASE Claim(t)
    <3>1. Req(t) \in Requests /\ Up /\ UNCHANGED <<file, runs, forgets, orphaned>>
      BY <2>0, <2>2 DEF Claim, At, Up
    <3>2. CASE Tell(Req(t), requests[Req(t)]) BY <1>0, <1>e, <3>1, <3>2, TellRefines
    <3>3. CASE UNCHANGED told BY <3>1, <3>3 DEF Promised
    <3>4. QED BY <2>2, <3>2, <3>3 DEF Claim
  <2>3. CASE Install(t) BY <1>0, <2>3, InstallRefines
  <2>4. CASE Spawn(t) BY <1>0, <2>4, SpawnRefines
  <2>5. CASE Finish(t)
    <3>1. Req(t) \in Requests /\ UNCHANGED <<file, runs, forgets, orphaned>>
      BY <2>0, <2>5 DEF Finish, At
    <3>2. PICK e \in {Done(hs[t].id), Failed} :
            Tell(Req(t), e) /\ (e = Done(hs[t].id) => hs[t].ok \/ e = Failed)
      BY <2>5 DEF Finish
    <3>3. e \in Entry BY <2>0, <3>2, EntryType DEF HandlerState
    <3>4. Success(e) => hs[t].ok /\ hs[t].id # 0 BY <3>2 DEF Success, Done, Failed
    <3>5. Success(e) => runs[Req(t)] > 0 BY <1>0, <2>0, <3>4 DEF RanInv
    <3>6. QED BY <1>0, <3>1, <3>2, <3>3, <3>5, TellRefines
  <2>6. CASE Prepare(t) \/ Commit(t) \/ Withdraw(t) \/ RecordExec(t)
    BY <2>6 DEF Prepare, Commit, Withdraw, RecordExec, Promised
  <2>7. CASE Gc(t) /\ \E keep, replaced : \E ok \in BOOLEAN :
                        Prune(keep, replaced, ok) /\ DropGuard(t, ok)
    <3>1. UNCHANGED <<file, runs, told>> BY <2>7 DEF Gc
    <3>2. QED BY <1>0, <2>7, <3>1, PruneRefines
  <2>8. QED BY <1>0, <1>3, <2>1, <2>2, <2>3, <2>4, <2>5, <2>6, <2>7, HandlerCases
<1>4. CASE StartUp
  <2>1. UNCHANGED <<file, runs, told>>
    BY <1>4 DEF StartUp, Start, RecoverMarker, RecoverRemember, ResolveStuck, StartupPrune,
                GiveUp
  <2>2. CASE StartupPrune
    <3>1. CASE HistoryLimit = None BY <2>1, <2>2, <3>1 DEF StartupPrune, Promised
    <3>2. CASE HistoryLimit # None
      <4>1. PICK replaced \in 0 .. 3, ok \in BOOLEAN : Prune(HistoryLimit, replaced, ok)
        BY <2>2, <3>2 DEF StartupPrune
      <4>2. QED BY <1>0, <2>1, <4>1, PruneRefines
    <3>3. QED BY <3>1, <3>2
  <2>3. CASE ~StartupPrune
    BY <1>4, <2>1, <2>3 DEF StartUp, Start, RecoverMarker, RecoverRemember, ResolveStuck,
                            GiveUp, Promised
  <2>4. QED BY <2>2, <2>3
<1>5. CASE Crash BY <1>5 DEF Crash, Die, Promised
<1>6. ASSUME NEW k \in Ids, PowerLoss(k) PROVE FALSE
  BY <1>0, <1>6 DEF PowerLoss, Alone, TypeOK
<1>7. ASSUME NEW p \in Paths, NEW c \in FileState, ExternalWrite(p, c) PROVE FALSE
  BY <1>0, <1>7 DEF ExternalWrite, Alone, Calm, TypeOK
<1>8. ASSUME NEW w \in 0 .. clock.wall, ClockSteps(w) PROVE UNCHANGED Promised
  BY <1>8 DEF ClockSteps, Promised
<1>9. CASE UNCHANGED vars BY <1>9 DEF vars, Promised
<1>10. QED BY <1>1, <1>2, <1>3, <1>4, <1>5, <1>6, <1>7, <1>8, <1>9 DEF Next

\* The server implements AtomicWorkspace: while nobody else writes, the clock keeps
\* time, no power is lost and one call to the file system fails at most, every
\* request is applied in one step, in the state it asked for, at most once until it
\* is forgotten, and only what was applied is reported (Server::handle, fs_ops,
\* recover, prune).
THEOREM ImplementsAtomicHolds ==
  Spec /\ [](faults <= 1 /\ externals = 0 /\ clock.steps = 0 /\ losses = 0)
    => ImplementsAtomic
<1> DEFINE Undisturbed == faults <= 1 /\ externals = 0 /\ clock.steps = 0 /\ losses = 0
           Once == \A r \in Requests : Cardinality(told[r]) <= 1 + forgets[r]
<1>1. Init => Atomic!Init
  BY DEF Init, StoreInit, Atomic!Init, FileState, Atomic!FileState
<1>2. /\ IInv /\ IInv' /\ OnceInv /\ TrueInv /\ Once'
      /\ Undisturbed /\ Undisturbed' /\ [Next]_vars
      => [Atomic!Next]_(Atomic!vars)
  <2> SUFFICES ASSUME IInv, IInv', OnceInv, TrueInv, Once', Undisturbed, Undisturbed',
                      [Next]_vars
               PROVE  [Atomic!Next]_(Atomic!vars)
    OBVIOUS
  <2>1. Alone /\ Alone' BY DEF Alone, Calm
  <2>2. Atomic!Next \/ UNCHANGED Promised BY <2>1, StepRefines
  <2>3. QED BY <2>2 DEF Promised, Atomic!vars
<1>3. Spec => []Once BY OneOutcome
<1> HIDE DEF Once
<1>4. QED
  BY <1>1, <1>2, <1>3, Inductive, OnceInductive, TrueInductive, PTL
     DEF Spec, ImplementsAtomic, Atomic!Spec
=============================================================================
