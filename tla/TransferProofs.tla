--------------------------- MODULE TransferProofs ---------------------------
(***************************************************************************)
(* IInv of Transfer is an invariant for any uploads, targets and bounds,    *)
(* and with it what Transfer promises of registrations, sweeps and aborts.  *)
(***************************************************************************)
EXTENDS Transfer, TLAPS

\* The state in which no upload was made satisfies the invariant.
LEMMA InitSound == Init => IInv
<1> SUFFICES ASSUME Init PROVE IInv OBVIOUS
<1> USE TransferAssumption DEF Init
<1>1. TypeOK BY DEF TypeOK, StagingState, PrepPcs, CommPcs, AbrtPcs, ClientPcs
<1>2. HandlerInv /\ PhaseInv BY DEF HandlerInv, PhaseInv
<1>3. StagingInv /\ CommitInv BY DEF StagingInv, CommitInv
<1>4. PreparedIsRegistered /\ AbortedStaysGone /\ OkIsSettled
  BY DEF PreparedIsRegistered, AbortedStaysGone, OkIsSettled
<1>5. QED BY <1>1, <1>2, <1>3, <1>4 DEF IInv

\* A prepare request keeps the invariant.
LEMMA PrepareKeeps ==
  ASSUME IInv, NEW u \in Uploads,
         SendPrepare(u) \/ PrepareCheck(u) \/ PrepareCreate(u) \/ PrepareInsert(u)
             \/ PreparePersist(u)
  PROVE  IInv'
<1> USE TransferAssumption DEF IInv, fileVars, diskVars, handlerVars, histVars,
    budgetVars, StagingState, PrepPcs, CommPcs, AbrtPcs, ClientPcs, Fault, NoFault,
    Answer, UnchangedBut, UnchangedHandlers, Delete, WithoutFiles
<1>1. CASE SendPrepare(u)
  <2>1. TypeOK' BY <1>1 DEF SendPrepare, TypeOK
  <2>2. HandlerInv' BY <1>1 DEF SendPrepare, TypeOK, HandlerInv
  <2>3. PhaseInv' BY <1>1 DEF SendPrepare, TypeOK, HandlerInv, PhaseInv
  <2>4. StagingInv' BY <1>1 DEF SendPrepare, TypeOK, HandlerInv, PhaseInv,
      StagingInv
  <2>5. CommitInv' BY <1>1 DEF SendPrepare, TypeOK, HandlerInv, PhaseInv,
      StagingInv, CommitInv, OkIsSettled
  <2>6. PreparedIsRegistered' BY <1>1 DEF SendPrepare, TypeOK, HandlerInv, PhaseInv,
      StagingInv, PreparedIsRegistered, Registered
  <2>7. (AbortedStaysGone /\ OkIsSettled)' BY <1>1 DEF SendPrepare, TypeOK,
      HandlerInv, PhaseInv, StagingInv, CommitInv, AbortedStaysGone, OkIsSettled
  <2>8. QED BY <2>1, <2>2, <2>3, <2>4, <2>5, <2>6, <2>7
<1>2. CASE PrepareCheck(u)
  <2>1. TypeOK' BY <1>2 DEF PrepareCheck, TypeOK
  <2>2. HandlerInv' BY <1>2 DEF PrepareCheck, TypeOK, HandlerInv
  <2>3. PhaseInv' BY <1>2 DEF PrepareCheck, TypeOK, HandlerInv, PhaseInv
  <2>4. StagingInv' BY <1>2 DEF PrepareCheck, TypeOK, HandlerInv, PhaseInv,
      StagingInv
  <2>5. CommitInv' BY <1>2 DEF PrepareCheck, TypeOK, HandlerInv, PhaseInv,
      StagingInv, CommitInv, OkIsSettled
  <2>6. PreparedIsRegistered' BY <1>2 DEF PrepareCheck, TypeOK, HandlerInv,
      PhaseInv, StagingInv, PreparedIsRegistered, Registered
  <2>7. (AbortedStaysGone /\ OkIsSettled)' BY <1>2 DEF PrepareCheck, TypeOK,
      HandlerInv, PhaseInv, StagingInv, CommitInv, AbortedStaysGone, OkIsSettled
  <2>8. QED BY <2>1, <2>2, <2>3, <2>4, <2>5, <2>6, <2>7
<1>3. CASE PrepareCreate(u)
  <2> DEFINE Swept == Stale(pending)
  <2>1. /\ prep[u] = "create" /\ Swept \subseteq old /\ Swept \cap pending = {}
        /\ old' = old \ Swept
        /\ staging' \in [Uploads -> StagingState]
        /\ \A v \in Uploads : v # u =>
             staging'[v] = IF v \in Swept THEN "none" ELSE staging[v]
        /\ UNCHANGED <<target, diskVars, up, pending, receiver, histVars, deaths, foreigns,
                       gcs, comm, abrt, gc, inFlight, guard>>
        /\ faults' \in Nat
    <3>1. Swept \subseteq old /\ Swept \cap pending = {} BY DEF Stale
    <3>2. WithoutFiles(Swept) \in [Uploads -> StagingState] BY DEF TypeOK
    <3>3. \A v \in Uploads :
            WithoutFiles(Swept)[v] = IF v \in Swept THEN "none" ELSE staging[v]
      OBVIOUS
    <3>4. staging' = WithoutFiles(Swept) \/ staging' = [WithoutFiles(Swept) EXCEPT ![u] = "empty"]
      BY <1>3 DEF PrepareCreate
    <3>5. /\ staging' \in [Uploads -> StagingState]
          /\ \A v \in Uploads : v # u => staging'[v] = WithoutFiles(Swept)[v]
      <4> HIDE DEF Swept, WithoutFiles
      <4> QED BY <3>2, <3>4
    <3> HIDE DEF WithoutFiles
    <3>6. QED BY <1>3, <3>1, <3>3, <3>5 DEF PrepareCreate, TypeOK
  <2>2. \/ /\ staging'[u] = "empty" /\ prep' = [prep EXCEPT ![u] = "insert"]
           /\ UNCHANGED client
        \/ /\ staging'[u] = "none" \/ staging'[u] = staging[u]
           /\ prep' = [prep EXCEPT ![u] = "idle"] /\ Answer(u, "preparing", "failed")
    BY <1>3 DEF PrepareCreate, TypeOK
  <2> HIDE DEF Swept
  <2>3. u \notin old
    BY <2>1 DEF StagingInv
  <2>4. TypeOK' BY <2>1, <2>2 DEF TypeOK
  <2>5. HandlerInv' BY <2>1, <2>2 DEF TypeOK, HandlerInv
  <2>6. PhaseInv' BY <2>1, <2>2 DEF TypeOK, PhaseInv
  <2>7. StagingInv' BY <2>1, <2>2, <2>3 DEF TypeOK, HandlerInv, PhaseInv, StagingInv
  <2>8. CommitInv' BY <2>1, <2>2 DEF TypeOK, PhaseInv, CommitInv, OkIsSettled
  <2>9. PreparedIsRegistered'
    BY <2>1, <2>2 DEF TypeOK, PhaseInv, PreparedIsRegistered, Registered
  <2>10. (AbortedStaysGone /\ OkIsSettled)'
    BY <2>1, <2>2 DEF TypeOK, PhaseInv, AbortedStaysGone, OkIsSettled
  <2>11. QED BY <2>4, <2>5, <2>6, <2>7, <2>8, <2>9, <2>10
<1>4. CASE PrepareInsert(u)
  <2>1. TypeOK' BY <1>4 DEF PrepareInsert, TypeOK
  <2>2. HandlerInv' BY <1>4 DEF PrepareInsert, TypeOK, HandlerInv
  <2>3. PhaseInv' BY <1>4 DEF PrepareInsert, TypeOK, HandlerInv, PhaseInv
  <2>4. StagingInv' BY <1>4 DEF PrepareInsert, TypeOK, HandlerInv, PhaseInv,
      StagingInv
  <2>5. CommitInv' BY <1>4 DEF PrepareInsert, TypeOK, HandlerInv, PhaseInv,
      StagingInv, CommitInv, OkIsSettled
  <2>6. PreparedIsRegistered' BY <1>4 DEF PrepareInsert, TypeOK, HandlerInv,
      PhaseInv, StagingInv, PreparedIsRegistered, Registered
  <2>7. (AbortedStaysGone /\ OkIsSettled)' BY <1>4 DEF PrepareInsert, TypeOK,
      HandlerInv, PhaseInv, StagingInv, CommitInv, AbortedStaysGone, OkIsSettled
  <2>8. QED BY <2>1, <2>2, <2>3, <2>4, <2>5, <2>6, <2>7
<1>5. CASE PreparePersist(u)
  <2>1. TypeOK' BY <1>5 DEF PreparePersist, TypeOK, Persist, PersistFails
  <2>2. HandlerInv' BY <1>5 DEF PreparePersist, TypeOK, HandlerInv, Persist,
      PersistFails
  <2>3. PhaseInv' BY <1>5 DEF PreparePersist, TypeOK, HandlerInv, PhaseInv, Persist,
      PersistFails
  <2>4. StagingInv' BY <1>5 DEF PreparePersist, TypeOK, HandlerInv, PhaseInv,
      StagingInv, Persist, PersistFails
  <2>5. CommitInv' BY <1>5 DEF PreparePersist, TypeOK, HandlerInv, PhaseInv,
      StagingInv, CommitInv, OkIsSettled, Persist, PersistFails
  <2>6. PreparedIsRegistered' BY <1>5 DEF PreparePersist, TypeOK, HandlerInv,
      PhaseInv, StagingInv, PreparedIsRegistered, Registered, Persist, PersistFails
  <2>7. (AbortedStaysGone /\ OkIsSettled)' BY <1>5 DEF PreparePersist, TypeOK,
      HandlerInv, PhaseInv, StagingInv, CommitInv, AbortedStaysGone, OkIsSettled,
      Persist, PersistFails
  <2>8. QED BY <2>1, <2>2, <2>3, <2>4, <2>5, <2>6, <2>7
<1>6. QED BY <1>1, <1>2, <1>3, <1>4, <1>5

\* What the receiver does keeps the invariant.
LEMMA ReceiverKeeps ==
  ASSUME IInv, NEW u \in Uploads,
         SpawnReceiver(u) \/ ReceiverOpen(u) \/ ReceiverFinish(u) \/
             ReceiverFails(u)
  PROVE  IInv'
<1> USE TransferAssumption DEF IInv, fileVars, diskVars, handlerVars, histVars,
    budgetVars, StagingState, PrepPcs, CommPcs, AbrtPcs, ClientPcs, Fault, NoFault,
    Answer, UnchangedBut, UnchangedHandlers, Delete, WithoutFiles
<1>1. CASE SpawnReceiver(u)
  <2>1. TypeOK' BY <1>1 DEF SpawnReceiver, TypeOK
  <2>2. HandlerInv' BY <1>1 DEF SpawnReceiver, TypeOK, HandlerInv
  <2>3. PhaseInv' BY <1>1 DEF SpawnReceiver, TypeOK, HandlerInv, PhaseInv
  <2>4. StagingInv' BY <1>1 DEF SpawnReceiver, TypeOK, HandlerInv, PhaseInv,
      StagingInv
  <2>5. CommitInv' BY <1>1 DEF SpawnReceiver, TypeOK, HandlerInv, PhaseInv,
      StagingInv, CommitInv, OkIsSettled
  <2>6. PreparedIsRegistered' BY <1>1 DEF SpawnReceiver, TypeOK, HandlerInv,
      PhaseInv, StagingInv, PreparedIsRegistered, Registered
  <2>7. (AbortedStaysGone /\ OkIsSettled)' BY <1>1 DEF SpawnReceiver, TypeOK,
      HandlerInv, PhaseInv, StagingInv, CommitInv, AbortedStaysGone, OkIsSettled
  <2>8. QED BY <2>1, <2>2, <2>3, <2>4, <2>5, <2>6, <2>7
<1>2. CASE ReceiverOpen(u)
  <2>1. TypeOK' BY <1>2 DEF ReceiverOpen, TypeOK, OpenSucceeds
  <2>2. HandlerInv' BY <1>2 DEF ReceiverOpen, TypeOK, HandlerInv, OpenSucceeds
  <2>3. PhaseInv' BY <1>2 DEF ReceiverOpen, TypeOK, HandlerInv, PhaseInv,
      OpenSucceeds
  <2>4. StagingInv' BY <1>2 DEF ReceiverOpen, TypeOK, HandlerInv, PhaseInv,
      StagingInv, OpenSucceeds
  <2>5. CommitInv' BY <1>2 DEF ReceiverOpen, TypeOK, HandlerInv, PhaseInv,
      StagingInv, CommitInv, OkIsSettled, OpenSucceeds
  <2>6. PreparedIsRegistered' BY <1>2 DEF ReceiverOpen, TypeOK, HandlerInv,
      PhaseInv, StagingInv, PreparedIsRegistered, Registered, OpenSucceeds
  <2>7. (AbortedStaysGone /\ OkIsSettled)' BY <1>2 DEF ReceiverOpen, TypeOK,
      HandlerInv, PhaseInv, StagingInv, CommitInv, AbortedStaysGone, OkIsSettled,
      OpenSucceeds
  <2>8. QED BY <2>1, <2>2, <2>3, <2>4, <2>5, <2>6, <2>7
<1>3. CASE ReceiverFinish(u)
  <2>1. TypeOK' BY <1>3 DEF ReceiverFinish, TypeOK
  <2>2. HandlerInv' BY <1>3 DEF ReceiverFinish, TypeOK, HandlerInv
  <2>3. PhaseInv' BY <1>3 DEF ReceiverFinish, TypeOK, HandlerInv, PhaseInv
  <2>4. StagingInv' BY <1>3 DEF ReceiverFinish, TypeOK, HandlerInv, PhaseInv,
      StagingInv
  <2>5. CommitInv' BY <1>3 DEF ReceiverFinish, TypeOK, HandlerInv, PhaseInv,
      StagingInv, CommitInv, OkIsSettled
  <2>6. PreparedIsRegistered' BY <1>3 DEF ReceiverFinish, TypeOK, HandlerInv,
      PhaseInv, StagingInv, PreparedIsRegistered, Registered
  <2>7. (AbortedStaysGone /\ OkIsSettled)' BY <1>3 DEF ReceiverFinish, TypeOK,
      HandlerInv, PhaseInv, StagingInv, CommitInv, AbortedStaysGone, OkIsSettled
  <2>8. QED BY <2>1, <2>2, <2>3, <2>4, <2>5, <2>6, <2>7
<1>4. CASE ReceiverFails(u)
  <2>1. TypeOK' BY <1>4 DEF ReceiverFails, TypeOK
  <2>2. HandlerInv' BY <1>4 DEF ReceiverFails, TypeOK, HandlerInv
  <2>3. PhaseInv' BY <1>4 DEF ReceiverFails, TypeOK, HandlerInv, PhaseInv
  <2>4. StagingInv' BY <1>4 DEF ReceiverFails, TypeOK, HandlerInv, PhaseInv,
      StagingInv
  <2>5. CommitInv' BY <1>4 DEF ReceiverFails, TypeOK, HandlerInv, PhaseInv,
      StagingInv, CommitInv, OkIsSettled
  <2>6. PreparedIsRegistered' BY <1>4 DEF ReceiverFails, TypeOK, HandlerInv,
      PhaseInv, StagingInv, PreparedIsRegistered, Registered
  <2>7. (AbortedStaysGone /\ OkIsSettled)' BY <1>4 DEF ReceiverFails, TypeOK,
      HandlerInv, PhaseInv, StagingInv, CommitInv, AbortedStaysGone, OkIsSettled
  <2>8. QED BY <2>1, <2>2, <2>3, <2>4, <2>5, <2>6, <2>7
<1>5. QED BY <1>1, <1>2, <1>3, <1>4

\* A commit request keeps the invariant.
LEMMA CommitKeeps ==
  ASSUME IInv, NEW u \in Uploads,
         SendCommit(u) \/ CommitGuard(u) \/ CommitCheck(u) \/ CommitInstall(u) \/
             CommitUnlink(u) \/ CommitSync(u) \/ CommitRecord(u) \/ CommitRemove(u)
  PROVE  IInv'
<1> USE TransferAssumption DEF IInv, fileVars, diskVars, handlerVars, histVars,
    budgetVars, StagingState, PrepPcs, CommPcs, AbrtPcs, ClientPcs, Fault, NoFault,
    Answer, UnchangedBut, UnchangedHandlers, Delete, WithoutFiles, CommitStep,
    CommitEnds, UnchangedInCommit
<1>1. CASE SendCommit(u)
  <2>1. TypeOK' BY <1>1 DEF SendCommit, TypeOK
  <2>2. HandlerInv' BY <1>1 DEF SendCommit, TypeOK, HandlerInv
  <2>3. PhaseInv' BY <1>1 DEF SendCommit, TypeOK, HandlerInv, PhaseInv
  <2>4. StagingInv' BY <1>1 DEF SendCommit, TypeOK, HandlerInv, PhaseInv, StagingInv
  <2>5. CommitInv' BY <1>1 DEF SendCommit, TypeOK, HandlerInv, PhaseInv, StagingInv,
      CommitInv, OkIsSettled
  <2>6. PreparedIsRegistered' BY <1>1 DEF SendCommit, TypeOK, HandlerInv, PhaseInv,
      StagingInv, PreparedIsRegistered, Registered
  <2>7. (AbortedStaysGone /\ OkIsSettled)' BY <1>1 DEF SendCommit, TypeOK,
      HandlerInv, PhaseInv, StagingInv, CommitInv, AbortedStaysGone, OkIsSettled
  <2>8. QED BY <2>1, <2>2, <2>3, <2>4, <2>5, <2>6, <2>7
<1>2. CASE CommitGuard(u)
  <2>1. TypeOK' BY <1>2 DEF CommitGuard, TypeOK
  <2>2. HandlerInv' BY <1>2 DEF CommitGuard, TypeOK, HandlerInv
  <2>3. PhaseInv' BY <1>2 DEF CommitGuard, TypeOK, HandlerInv, PhaseInv
  <2>4. StagingInv' BY <1>2 DEF CommitGuard, TypeOK, HandlerInv, PhaseInv,
      StagingInv
  <2>5. CommitInv' BY <1>2 DEF CommitGuard, TypeOK, HandlerInv, PhaseInv,
      StagingInv, CommitInv, OkIsSettled
  <2>6. PreparedIsRegistered' BY <1>2 DEF CommitGuard, TypeOK, HandlerInv, PhaseInv,
      StagingInv, PreparedIsRegistered, Registered
  <2>7. (AbortedStaysGone /\ OkIsSettled)' BY <1>2 DEF CommitGuard, TypeOK,
      HandlerInv, PhaseInv, StagingInv, CommitInv, AbortedStaysGone, OkIsSettled
  <2>8. QED BY <2>1, <2>2, <2>3, <2>4, <2>5, <2>6, <2>7
<1>3. CASE CommitCheck(u)
  <2>1. TypeOK' BY <1>3 DEF CommitCheck, TypeOK
  <2>2. HandlerInv' BY <1>3 DEF CommitCheck, TypeOK, HandlerInv
  <2>3. PhaseInv' BY <1>3 DEF CommitCheck, TypeOK, HandlerInv, PhaseInv
  <2>4. StagingInv' BY <1>3 DEF CommitCheck, TypeOK, HandlerInv, PhaseInv,
      StagingInv
  <2>5. CommitInv' BY <1>3 DEF CommitCheck, TypeOK, HandlerInv, PhaseInv,
      StagingInv, CommitInv, OkIsSettled
  <2>6. PreparedIsRegistered' BY <1>3 DEF CommitCheck, TypeOK, HandlerInv, PhaseInv,
      StagingInv, PreparedIsRegistered, Registered
  <2>7. (AbortedStaysGone /\ OkIsSettled)' BY <1>3 DEF CommitCheck, TypeOK,
      HandlerInv, PhaseInv, StagingInv, CommitInv, AbortedStaysGone, OkIsSettled
  <2>8. QED BY <2>1, <2>2, <2>3, <2>4, <2>5, <2>6, <2>7
<1>4. CASE CommitInstall(u)
  <2>1. TypeOK' BY <1>4 DEF CommitInstall, TypeOK, Linkable
  <2>2. HandlerInv' BY <1>4 DEF CommitInstall, TypeOK, HandlerInv, Linkable
  <2>3. PhaseInv' BY <1>4 DEF CommitInstall, TypeOK, HandlerInv, PhaseInv, Linkable
  <2>4. StagingInv' BY <1>4 DEF CommitInstall, TypeOK, HandlerInv, PhaseInv,
      StagingInv, Linkable
  <2>5. CommitInv' BY <1>4 DEF CommitInstall, TypeOK, HandlerInv, PhaseInv,
      StagingInv, CommitInv, OkIsSettled, Linkable
  <2>6. PreparedIsRegistered' BY <1>4 DEF CommitInstall, TypeOK, HandlerInv,
      PhaseInv, StagingInv, PreparedIsRegistered, Registered, Linkable
  <2>7. (AbortedStaysGone /\ OkIsSettled)' BY <1>4 DEF CommitInstall, TypeOK,
      HandlerInv, PhaseInv, StagingInv, CommitInv, AbortedStaysGone, OkIsSettled,
      Linkable
  <2>8. QED BY <2>1, <2>2, <2>3, <2>4, <2>5, <2>6, <2>7
<1>5. CASE CommitUnlink(u)
  <2>1. TypeOK' BY <1>5 DEF CommitUnlink, TypeOK
  <2>2. HandlerInv' BY <1>5 DEF CommitUnlink, TypeOK, HandlerInv
  <2>3. PhaseInv' BY <1>5 DEF CommitUnlink, TypeOK, HandlerInv, PhaseInv
  <2>4. StagingInv' BY <1>5 DEF CommitUnlink, TypeOK, HandlerInv, PhaseInv,
      StagingInv
  <2>5. CommitInv' BY <1>5 DEF CommitUnlink, TypeOK, HandlerInv, PhaseInv,
      StagingInv, CommitInv, OkIsSettled
  <2>6. PreparedIsRegistered' BY <1>5 DEF CommitUnlink, TypeOK, HandlerInv,
      PhaseInv, StagingInv, PreparedIsRegistered, Registered
  <2>7. (AbortedStaysGone /\ OkIsSettled)' BY <1>5 DEF CommitUnlink, TypeOK,
      HandlerInv, PhaseInv, StagingInv, CommitInv, AbortedStaysGone, OkIsSettled
  <2>8. QED BY <2>1, <2>2, <2>3, <2>4, <2>5, <2>6, <2>7
<1>6. CASE CommitSync(u)
  <2>1. TypeOK' BY <1>6 DEF CommitSync, TypeOK
  <2>2. HandlerInv' BY <1>6 DEF CommitSync, TypeOK, HandlerInv
  <2>3. PhaseInv' BY <1>6 DEF CommitSync, TypeOK, HandlerInv, PhaseInv
  <2>4. StagingInv' BY <1>6 DEF CommitSync, TypeOK, HandlerInv, PhaseInv, StagingInv
  <2>5. CommitInv' BY <1>6 DEF CommitSync, TypeOK, HandlerInv, PhaseInv, StagingInv,
      CommitInv, OkIsSettled
  <2>6. PreparedIsRegistered' BY <1>6 DEF CommitSync, TypeOK, HandlerInv, PhaseInv,
      StagingInv, PreparedIsRegistered, Registered
  <2>7. (AbortedStaysGone /\ OkIsSettled)' BY <1>6 DEF CommitSync, TypeOK,
      HandlerInv, PhaseInv, StagingInv, CommitInv, AbortedStaysGone, OkIsSettled
  <2>8. QED BY <2>1, <2>2, <2>3, <2>4, <2>5, <2>6, <2>7
<1>7. CASE CommitRecord(u)
  <2>1. TypeOK' BY <1>7 DEF CommitRecord, TypeOK, RecordFailure
  <2>2. HandlerInv' BY <1>7 DEF CommitRecord, TypeOK, HandlerInv, RecordFailure
  <2>3. PhaseInv' BY <1>7 DEF CommitRecord, TypeOK, HandlerInv, PhaseInv,
      RecordFailure
  <2>4. StagingInv' BY <1>7 DEF CommitRecord, TypeOK, HandlerInv, PhaseInv,
      StagingInv, RecordFailure
  <2>5. CommitInv' BY <1>7 DEF CommitRecord, TypeOK, HandlerInv, PhaseInv,
      StagingInv, CommitInv, OkIsSettled, RecordFailure
  <2>6. PreparedIsRegistered' BY <1>7 DEF CommitRecord, TypeOK, HandlerInv,
      PhaseInv, StagingInv, PreparedIsRegistered, Registered, RecordFailure
  <2>7. (AbortedStaysGone /\ OkIsSettled)' BY <1>7 DEF CommitRecord, TypeOK,
      HandlerInv, PhaseInv, StagingInv, CommitInv, AbortedStaysGone, OkIsSettled,
      RecordFailure
  <2>8. QED BY <2>1, <2>2, <2>3, <2>4, <2>5, <2>6, <2>7
<1>8. CASE CommitRemove(u)
  <2>1. TypeOK' BY <1>8 DEF CommitRemove, TypeOK, Persist, PersistFails
  <2>2. HandlerInv' BY <1>8 DEF CommitRemove, TypeOK, HandlerInv, Persist,
      PersistFails
  <2>3. PhaseInv' BY <1>8 DEF CommitRemove, TypeOK, HandlerInv, PhaseInv, Persist,
      PersistFails
  <2>4. StagingInv' BY <1>8 DEF CommitRemove, TypeOK, HandlerInv, PhaseInv,
      StagingInv, Persist, PersistFails
  <2>5. CommitInv' BY <1>8 DEF CommitRemove, TypeOK, HandlerInv, PhaseInv,
      StagingInv, CommitInv, OkIsSettled, Persist, PersistFails
  <2>6. PreparedIsRegistered' BY <1>8 DEF CommitRemove, TypeOK, HandlerInv,
      PhaseInv, StagingInv, PreparedIsRegistered, Registered, Persist, PersistFails
  <2>7. (AbortedStaysGone /\ OkIsSettled)' BY <1>8 DEF CommitRemove, TypeOK,
      HandlerInv, PhaseInv, StagingInv, CommitInv, AbortedStaysGone, OkIsSettled,
      Persist, PersistFails
  <2>8. QED BY <2>1, <2>2, <2>3, <2>4, <2>5, <2>6, <2>7
<1>9. QED BY <1>1, <1>2, <1>3, <1>4, <1>5, <1>6, <1>7, <1>8

\* An abort request, and a client that stops waiting, keep the invariant.
LEMMA AbortKeeps ==
  ASSUME IInv, NEW u \in Uploads,
         SendAbort(u) \/ AbortRegistry(u) \/ AbortFile(u) \/ ClientGivesUp(u) \/
             Age(u)
  PROVE  IInv'
<1> USE TransferAssumption DEF IInv, fileVars, diskVars, handlerVars, histVars,
    budgetVars, StagingState, PrepPcs, CommPcs, AbrtPcs, ClientPcs, Fault, NoFault,
    Answer, UnchangedBut, UnchangedHandlers, Delete, WithoutFiles
<1>1. CASE SendAbort(u)
  <2>1. TypeOK' BY <1>1 DEF SendAbort, TypeOK
  <2>2. HandlerInv' BY <1>1 DEF SendAbort, TypeOK, HandlerInv
  <2>3. PhaseInv' BY <1>1 DEF SendAbort, TypeOK, HandlerInv, PhaseInv
  <2>4. StagingInv' BY <1>1 DEF SendAbort, TypeOK, HandlerInv, PhaseInv, StagingInv
  <2>5. CommitInv' BY <1>1 DEF SendAbort, TypeOK, HandlerInv, PhaseInv, StagingInv,
      CommitInv, OkIsSettled
  <2>6. PreparedIsRegistered' BY <1>1 DEF SendAbort, TypeOK, HandlerInv, PhaseInv,
      StagingInv, PreparedIsRegistered, Registered
  <2>7. (AbortedStaysGone /\ OkIsSettled)' BY <1>1 DEF SendAbort, TypeOK,
      HandlerInv, PhaseInv, StagingInv, CommitInv, AbortedStaysGone, OkIsSettled
  <2>8. QED BY <2>1, <2>2, <2>3, <2>4, <2>5, <2>6, <2>7
<1>2. CASE AbortRegistry(u)
  <2>1. TypeOK' BY <1>2 DEF AbortRegistry, TypeOK, Persist, PersistFails
  <2>2. HandlerInv' BY <1>2 DEF AbortRegistry, TypeOK, HandlerInv, Persist,
      PersistFails
  <2>3. PhaseInv' BY <1>2 DEF AbortRegistry, TypeOK, HandlerInv, PhaseInv, Persist,
      PersistFails
  <2>4. StagingInv' BY <1>2 DEF AbortRegistry, TypeOK, HandlerInv, PhaseInv,
      StagingInv, Persist, PersistFails
  <2>5. CommitInv' BY <1>2 DEF AbortRegistry, TypeOK, HandlerInv, PhaseInv,
      StagingInv, CommitInv, OkIsSettled, Persist, PersistFails
  <2>6. PreparedIsRegistered' BY <1>2 DEF AbortRegistry, TypeOK, HandlerInv,
      PhaseInv, StagingInv, PreparedIsRegistered, Registered, Persist, PersistFails
  <2>7. (AbortedStaysGone /\ OkIsSettled)' BY <1>2 DEF AbortRegistry, TypeOK,
      HandlerInv, PhaseInv, StagingInv, CommitInv, AbortedStaysGone, OkIsSettled,
      Persist, PersistFails
  <2>8. QED BY <2>1, <2>2, <2>3, <2>4, <2>5, <2>6, <2>7
<1>3. CASE AbortFile(u)
  <2>1. TypeOK' BY <1>3 DEF AbortFile, TypeOK
  <2>2. HandlerInv' BY <1>3 DEF AbortFile, TypeOK, HandlerInv
  <2>3. PhaseInv' BY <1>3 DEF AbortFile, TypeOK, HandlerInv, PhaseInv
  <2>4. StagingInv' BY <1>3 DEF AbortFile, TypeOK, HandlerInv, PhaseInv, StagingInv
  <2>5. CommitInv' BY <1>3 DEF AbortFile, TypeOK, HandlerInv, PhaseInv, StagingInv,
      CommitInv, OkIsSettled
  <2>6. PreparedIsRegistered' BY <1>3 DEF AbortFile, TypeOK, HandlerInv, PhaseInv,
      StagingInv, PreparedIsRegistered, Registered
  <2>7. (AbortedStaysGone /\ OkIsSettled)' BY <1>3 DEF AbortFile, TypeOK,
      HandlerInv, PhaseInv, StagingInv, CommitInv, AbortedStaysGone, OkIsSettled
  <2>8. QED BY <2>1, <2>2, <2>3, <2>4, <2>5, <2>6, <2>7
<1>4. CASE ClientGivesUp(u)
  <2>1. TypeOK' BY <1>4 DEF ClientGivesUp, TypeOK
  <2>2. HandlerInv' BY <1>4 DEF ClientGivesUp, TypeOK, HandlerInv
  <2>3. PhaseInv' BY <1>4 DEF ClientGivesUp, TypeOK, HandlerInv, PhaseInv
  <2>4. StagingInv' BY <1>4 DEF ClientGivesUp, TypeOK, HandlerInv, PhaseInv,
      StagingInv
  <2>5. CommitInv' BY <1>4 DEF ClientGivesUp, TypeOK, HandlerInv, PhaseInv,
      StagingInv, CommitInv, OkIsSettled
  <2>6. PreparedIsRegistered' BY <1>4 DEF ClientGivesUp, TypeOK, HandlerInv,
      PhaseInv, StagingInv, PreparedIsRegistered, Registered
  <2>7. (AbortedStaysGone /\ OkIsSettled)' BY <1>4 DEF ClientGivesUp, TypeOK,
      HandlerInv, PhaseInv, StagingInv, CommitInv, AbortedStaysGone, OkIsSettled
  <2>8. QED BY <2>1, <2>2, <2>3, <2>4, <2>5, <2>6, <2>7
<1>5. CASE Age(u)
  <2>1. TypeOK' BY <1>5 DEF Age, TypeOK
  <2>2. HandlerInv' BY <1>5 DEF Age, TypeOK, HandlerInv
  <2>3. PhaseInv' BY <1>5 DEF Age, TypeOK, HandlerInv, PhaseInv
  <2>4. StagingInv' BY <1>5 DEF Age, TypeOK, HandlerInv, PhaseInv, StagingInv
  <2>5. CommitInv' BY <1>5 DEF Age, TypeOK, HandlerInv, PhaseInv, StagingInv,
      CommitInv, OkIsSettled
  <2>6. PreparedIsRegistered' BY <1>5 DEF Age, TypeOK, HandlerInv, PhaseInv,
      StagingInv, PreparedIsRegistered, Registered
  <2>7. (AbortedStaysGone /\ OkIsSettled)' BY <1>5 DEF Age, TypeOK, HandlerInv,
      PhaseInv, StagingInv, CommitInv, AbortedStaysGone, OkIsSettled
  <2>8. QED BY <2>1, <2>2, <2>3, <2>4, <2>5, <2>6, <2>7
<1>6. QED BY <1>1, <1>2, <1>3, <1>4, <1>5

\* The life of a server and its gc keep the invariant.
LEMMA ServerKeeps ==
  ASSUME IInv, 
         Start \/ Die \/ GcSnapshot \/ GcSweep \/ (\E p \in Paths : ForeignWrite(p))
  PROVE  IInv'
<1> USE TransferAssumption DEF IInv, fileVars, diskVars, handlerVars, histVars,
    budgetVars, StagingState, PrepPcs, CommPcs, AbrtPcs, ClientPcs, Fault, NoFault,
    Answer, UnchangedBut, UnchangedHandlers, Delete, WithoutFiles
<1>1. CASE Start
  <2>1. TypeOK'
    <3>1. Retained \subseteq Uploads BY DEF TypeOK, Retained
    <3>2. staging' \in [Uploads -> StagingState] /\ old' \subseteq Uploads
      BY <1>1 DEF Start, TypeOK
    <3>3. QED BY <1>1, <3>1, <3>2 DEF Start, TypeOK, Persist
  <2>2. HandlerInv' BY <1>1 DEF Start, TypeOK, HandlerInv, Evictable, Retained,
      Persist
  <2>3. PhaseInv' BY <1>1 DEF Start, TypeOK, HandlerInv, PhaseInv, Evictable,
      Retained, Persist
  <2>4. StagingInv' BY <1>1 DEF Start, TypeOK, HandlerInv, PhaseInv, StagingInv,
      Evictable, Retained, Persist
  <2>5. CommitInv' BY <1>1 DEF Start, TypeOK, HandlerInv, PhaseInv, StagingInv,
      CommitInv, OkIsSettled, Evictable, Retained, Persist
  <2>6. PreparedIsRegistered' BY <1>1 DEF Start, TypeOK, HandlerInv, PhaseInv,
      StagingInv, PreparedIsRegistered, Registered, Evictable, Retained, Persist
  <2>7. (AbortedStaysGone /\ OkIsSettled)' BY <1>1 DEF Start, TypeOK, HandlerInv,
      PhaseInv, StagingInv, CommitInv, AbortedStaysGone, OkIsSettled, Evictable,
      Retained, Persist
  <2>8. QED BY <2>1, <2>2, <2>3, <2>4, <2>5, <2>6, <2>7
<1>2. CASE Die
  <2>1. TypeOK'
    <3>1. client' \in [Uploads -> ClientPcs] BY <1>2 DEF Die, TypeOK
    <3>2. prep' \in [Uploads -> PrepPcs] /\ comm' \in [Uploads -> CommPcs]
          /\ abrt' \in [Uploads -> AbrtPcs]
      BY <1>2 DEF Die
    <3>3. /\ guard' = None /\ gc' = "idle" /\ deaths' \in Nat
          /\ pending' = {} /\ inFlight' = {} /\ up' = FALSE
      BY <1>2 DEF Die, TypeOK
    <3>4. UNCHANGED <<fileVars, diskVars, receiver, histVars, faults, foreigns, gcs>>
      BY <1>2 DEF Die
    <3>5. QED BY <3>1, <3>2, <3>3, <3>4 DEF TypeOK
  <2>2. HandlerInv' BY <1>2 DEF Die, TypeOK, HandlerInv
  <2>3. PhaseInv' BY <1>2 DEF Die, TypeOK, HandlerInv, PhaseInv
  <2>4. StagingInv' BY <1>2 DEF Die, TypeOK, HandlerInv, PhaseInv, StagingInv
  <2>5. CommitInv' BY <1>2 DEF Die, TypeOK, HandlerInv, PhaseInv, StagingInv,
      CommitInv, OkIsSettled
  <2>6. PreparedIsRegistered' BY <1>2 DEF Die, TypeOK, HandlerInv, PhaseInv,
      StagingInv, PreparedIsRegistered, Registered
  <2>7. (AbortedStaysGone /\ OkIsSettled)' BY <1>2 DEF Die, TypeOK, HandlerInv,
      PhaseInv, StagingInv, CommitInv, AbortedStaysGone, OkIsSettled
  <2>8. QED BY <2>1, <2>2, <2>3, <2>4, <2>5, <2>6, <2>7
<1>3. CASE GcSnapshot
  <2>1. TypeOK' BY <1>3 DEF GcSnapshot, TypeOK
  <2>2. HandlerInv' BY <1>3 DEF GcSnapshot, TypeOK, HandlerInv
  <2>3. PhaseInv' BY <1>3 DEF GcSnapshot, TypeOK, HandlerInv, PhaseInv
  <2>4. StagingInv' BY <1>3 DEF GcSnapshot, TypeOK, HandlerInv, PhaseInv, StagingInv
  <2>5. CommitInv' BY <1>3 DEF GcSnapshot, TypeOK, HandlerInv, PhaseInv, StagingInv,
      CommitInv, OkIsSettled
  <2>6. PreparedIsRegistered' BY <1>3 DEF GcSnapshot, TypeOK, HandlerInv, PhaseInv,
      StagingInv, PreparedIsRegistered, Registered
  <2>7. (AbortedStaysGone /\ OkIsSettled)' BY <1>3 DEF GcSnapshot, TypeOK,
      HandlerInv, PhaseInv, StagingInv, CommitInv, AbortedStaysGone, OkIsSettled
  <2>8. QED BY <2>1, <2>2, <2>3, <2>4, <2>5, <2>6, <2>7
<1>4. CASE GcSweep
  <2>1. TypeOK' BY <1>4 DEF GcSweep, TypeOK, Stale, Evictable
  <2>2. HandlerInv' BY <1>4 DEF GcSweep, TypeOK, HandlerInv, Stale, Evictable
  <2>3. PhaseInv' BY <1>4 DEF GcSweep, TypeOK, HandlerInv, PhaseInv, Stale,
      Evictable
  <2>4. StagingInv' BY <1>4 DEF GcSweep, TypeOK, HandlerInv, PhaseInv, StagingInv,
      Stale, Evictable
  <2>5. CommitInv' BY <1>4 DEF GcSweep, TypeOK, HandlerInv, PhaseInv, StagingInv,
      CommitInv, OkIsSettled, Stale, Evictable
  <2>6. PreparedIsRegistered' BY <1>4 DEF GcSweep, TypeOK, HandlerInv, PhaseInv,
      StagingInv, PreparedIsRegistered, Registered, Stale, Evictable
  <2>7. (AbortedStaysGone /\ OkIsSettled)' BY <1>4 DEF GcSweep, TypeOK, HandlerInv,
      PhaseInv, StagingInv, CommitInv, AbortedStaysGone, OkIsSettled, Stale,
      Evictable
  <2>8. QED BY <2>1, <2>2, <2>3, <2>4, <2>5, <2>6, <2>7
<1>5. CASE \E p \in Paths : ForeignWrite(p)
  <2>1. TypeOK' BY <1>5 DEF TypeOK, ForeignWrite
  <2>2. HandlerInv' BY <1>5 DEF TypeOK, HandlerInv, ForeignWrite
  <2>3. PhaseInv' BY <1>5 DEF TypeOK, HandlerInv, PhaseInv, ForeignWrite
  <2>4. StagingInv' BY <1>5 DEF TypeOK, HandlerInv, PhaseInv, StagingInv,
      ForeignWrite
  <2>5. CommitInv' BY <1>5 DEF TypeOK, HandlerInv, PhaseInv, StagingInv, CommitInv,
      OkIsSettled, ForeignWrite
  <2>6. PreparedIsRegistered' BY <1>5 DEF TypeOK, HandlerInv, PhaseInv, StagingInv,
      PreparedIsRegistered, Registered, ForeignWrite
  <2>7. (AbortedStaysGone /\ OkIsSettled)' BY <1>5 DEF TypeOK, HandlerInv, PhaseInv,
      StagingInv, CommitInv, AbortedStaysGone, OkIsSettled, ForeignWrite
  <2>8. QED BY <2>1, <2>2, <2>3, <2>4, <2>5, <2>6, <2>7
<1>6. QED BY <1>1, <1>2, <1>3, <1>4, <1>5
\* Every step of the system keeps the invariant.
LEMMA NextKeeps == IInv /\ [Next]_vars => IInv'
<1> SUFFICES ASSUME IInv, [Next]_vars PROVE IInv' OBVIOUS
<1>1. CASE UNCHANGED vars
  BY <1>1 DEF vars, fileVars, diskVars, handlerVars, histVars, budgetVars, IInv, TypeOK,
              HandlerInv, PhaseInv, StagingInv, CommitInv, PreparedIsRegistered,
              Registered, AbortedStaysGone, OkIsSettled
<1>2. CASE \E u \in Uploads : \/ Handlers(u) \/ Client(u) \/ Receiver(u)
                             \/ ClientGivesUp(u) \/ Age(u)
  <2> PICK u \in Uploads : \/ Handlers(u) \/ Client(u) \/ Receiver(u)
                          \/ ClientGivesUp(u) \/ Age(u)
    BY <1>2
  <2> QED BY PrepareKeeps, ReceiverKeeps, CommitKeeps, AbortKeeps
             DEF Handlers, Client, Receiver
<1>3. CASE Start \/ Die \/ GcSnapshot \/ GcSweep \/ \E p \in Paths : ForeignWrite(p)
  BY <1>3, ServerKeeps
<1>4. QED BY <1>1, <1>2, <1>3 DEF Next

\* The invariant holds of every behaviour.
THEOREM TransferInductive == Spec => []IInv
<1>1. QED BY InitSound, NextKeeps, PTL DEF Spec

\* However servers die and start, and whatever other uploads do, an upload with
\* a transfer id and a fresh staging file stays registered (UploadRegistry).
THEOREM PreparedIsRegisteredHolds == Spec => []PreparedIsRegistered
<1>1. IInv => PreparedIsRegistered BY DEF IInv
<1>2. QED BY <1>1, TransferInductive, PTL

\* No receiver brings an aborted upload's staging file back
\* (run_transfer_receive).
THEOREM AbortedStaysGoneHolds == Spec => []AbortedStaysGone
<1>1. IInv => AbortedStaysGone BY DEF IInv
<1>2. QED BY <1>1, TransferInductive, PTL

\* Success is reported of settled uploads only (upload_commit).
THEOREM OkIsSettledHolds == Spec => []OkIsSettled
<1>1. IInv => OkIsSettled BY DEF IInv
<1>2. QED BY <1>1, TransferInductive, PTL

\* The sweeps of the workspace leave registered uploads alone
\* (sweep_stale_staging_dir, sweep_stale_staging_tree).
THEOREM SweepSparesRegisteredHolds == Spec => SweepSparesRegistered
<1> DEFINE Spares == \A u \in Uploads : TargetOf[u] \notin Scratch => ~SweptAway(u)
<1>1. IInv /\ [Next]_vars => [Spares]_vars
  <2> SUFFICES ASSUME IInv, Next, NEW v \in Uploads, TargetOf[v] \notin Scratch, SweptAway(v)
               PROVE  FALSE
    OBVIOUS
  <2> USE TransferAssumption
          DEF IInv, TypeOK, SweptAway, fileVars, diskVars, handlerVars, histVars, budgetVars,
              UnchangedBut, UnchangedHandlers, UnchangedInCommit
  <2>1. /\ v \in Uploads /\ staging[v] # "none" /\ staging'[v] = "none"
        /\ v \in pending /\ v \in pending' /\ comm[v] \notin {"install", "unlink"}
    OBVIOUS
  <2>2. ASSUME NEW us, us \subseteq Uploads, Delete(us) PROVE v \in us
    BY <2>1, <2>2 DEF Delete, WithoutFiles
  <2>3. ASSUME NEW u \in Uploads, Handlers(u) PROVE FALSE
    <3>1. CASE PrepareCreate(u)
      <4>1. v \notin Stale(pending) BY <2>1 DEF Stale
      <4>2. staging'[v] # "none"
        BY <3>1, <4>1, <2>1 DEF PrepareCreate, WithoutFiles
      <4>3. QED BY <4>2, <2>1
    <3>2. CASE PreparePersist(u)
      BY <3>2, <2>1, <2>2 DEF PreparePersist
    <3>3. CASE CommitInstall(u) \/ CommitUnlink(u)
      BY <3>3, <2>1, <2>2 DEF CommitInstall, CommitUnlink
    <3>4. CASE AbortFile(u)
      BY <3>4, <2>1, <2>2 DEF AbortFile, StagingInv
    <3>5. CASE AbortRegistry(u) \/ PrepareCheck(u) \/ PrepareInsert(u)
      BY <3>5, <2>1 DEF AbortRegistry, PrepareCheck, PrepareInsert
    <3>6. CASE \/ CommitGuard(u) \/ CommitCheck(u) \/ CommitSync(u) \/ CommitRecord(u)
               \/ CommitRemove(u)
      BY <3>6, <2>1 DEF CommitGuard, CommitCheck, CommitSync, CommitRecord, CommitRemove
    <3>7. QED BY <2>3, <3>1, <3>2, <3>3, <3>4, <3>5, <3>6 DEF Handlers
  <2>4. ASSUME NEW u \in Uploads, Client(u) \/ Receiver(u) \/ ClientGivesUp(u) \/ Age(u)
        PROVE  FALSE
    BY <2>4, <2>1 DEF Client, SendPrepare, SpawnReceiver, SendCommit, SendAbort, Receiver,
                      ReceiverOpen, ReceiverFinish, ReceiverFails, ClientGivesUp, Age
  <2>5. CASE Start BY <2>5, <2>1 DEF Start, HandlerInv
  <2>6. CASE GcSweep
    <3>1. v \notin Stale(inFlight) /\ v \notin Evictable
      BY <2>6, <2>1 DEF GcSweep, StagingInv, Stale, Evictable
    <3>2. Stale(inFlight) \subseteq Uploads /\ Evictable \subseteq Uploads
      BY DEF Stale, Evictable
    <3>3. QED BY <2>6, <2>2, <3>1, <3>2 DEF GcSweep
  <2>7. CASE Die \/ GcSnapshot \/ \E p \in Paths : ForeignWrite(p)
    BY <2>7, <2>1 DEF Die, GcSnapshot, ForeignWrite
  <2>8. QED BY <2>3, <2>4, <2>5, <2>6, <2>7 DEF Next
<1>2. QED BY <1>1, TransferInductive, PTL DEF Spec, SweepSparesRegistered

\* Without overwrite no upload replaces a file: of all steps only an upload's
\* install puts that upload on its target, and it looks there again
\* (hard_link in upload_commit).
THEOREM NoClobberHolds == Spec => NoClobber
<1> DEFINE Spared == \A p \in Paths : target[p] # None /\ target'[p] # target[p]
                        => target'[p] \in Overwrite \cup {None, Foreign}
<1>1. IInv /\ [Next]_vars => [Spared]_vars
  <2> SUFFICES ASSUME IInv, Next, NEW p \in Paths,
                      target[p] # None, target'[p] # target[p]
               PROVE  target'[p] \in Overwrite \cup {None, Foreign}
    OBVIOUS
  <2> USE TransferAssumption DEF fileVars, UnchangedInCommit
  <2>1. target \in [Paths -> Uploads \cup {None, Foreign}] BY DEF IInv, TypeOK
  <2>2. ASSUME NEW u \in Uploads, Handlers(u)
        PROVE  target'[p] \in Overwrite \cup {None, Foreign}
    <3>1. CASE CommitInstall(u)
      <4>1. Linkable(u) /\ target' = [target EXCEPT ![TargetOf[u]] = u]
        BY <3>1 DEF CommitInstall
      <4>2. p = TargetOf[u] /\ target'[p] = u BY <4>1, <2>1
      <4>3. QED BY <4>1, <4>2 DEF Linkable
    <3>2. CASE \/ PrepareCheck(u) \/ PrepareCreate(u) \/ PrepareInsert(u)
               \/ PreparePersist(u) \/ AbortRegistry(u) \/ AbortFile(u)
      BY <3>2 DEF PrepareCheck, PrepareCreate, PrepareInsert, PreparePersist,
                  AbortRegistry, AbortFile
    <3>3. CASE \/ CommitGuard(u) \/ CommitCheck(u) \/ CommitUnlink(u) \/ CommitSync(u)
               \/ CommitRecord(u) \/ CommitRemove(u)
      BY <3>3 DEF CommitGuard, CommitCheck, CommitUnlink, CommitSync, CommitRecord,
                  CommitRemove
    <3>4. QED BY <2>2, <3>1, <3>2, <3>3 DEF Handlers
  <2>3. ASSUME NEW u \in Uploads, Client(u) \/ Receiver(u) \/ ClientGivesUp(u) \/ Age(u)
        PROVE  FALSE
    BY <2>3 DEF Client, SendPrepare, SpawnReceiver, SendCommit, SendAbort, Receiver,
                ReceiverOpen, ReceiverFinish, ReceiverFails, ClientGivesUp, Age
  <2>4. CASE Start \/ Die \/ GcSnapshot \/ GcSweep
    BY <2>4 DEF Start, Die, GcSnapshot, GcSweep
  <2>5. CASE \E q \in Paths : ForeignWrite(q)
    BY <2>5, <2>1 DEF ForeignWrite
  <2>6. QED BY <2>2, <2>3, <2>4, <2>5 DEF Next
<1>2. QED BY <1>1, TransferInductive, PTL DEF Spec, NoClobber

=============================================================================
