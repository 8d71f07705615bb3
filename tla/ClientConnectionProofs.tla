------------------------ MODULE ClientConnectionProofs ------------------------
(***************************************************************************)
(* IInv of ClientConnection is an invariant for any number of callers and   *)
(* calls, and with it SerialOneInFlight and AnsweredIsTold.                 *)
(***************************************************************************)
EXTENDS ClientConnection, TLAPS

\* The connection as `connect` leaves it satisfies the invariant.
LEMMA InitSound == Init => IInv
<1> SUFFICES ASSUME Init PROVE IInv OBVIOUS
<1> USE ConnectionAssumption DEF Init, Ids, IdOf, Idle
<1>1. TypeOK
  <2>1. caller \in [Callers -> [pc : Pcs, id : 0 .. MaxCalls]] BY DEF Pcs
  <2>2. chan \in [Ids -> Channels] /\ out \in [Ids -> Outcomes] /\ place \in [Ids -> Places]
    BY DEF Channels, Outcomes, Places
  <2>3. \A c \in Callers : caller[c].pc # "idle" => caller[c].id \in Ids OBVIOUS
  <2>4. reader \in Readers /\ closer \in Closers BY DEF Readers, Closers
  <2>5. calls \in 0 .. MaxCalls OBVIOUS
  <2> HIDE DEF Ids
  <2>6. QED BY <2>1, <2>2, <2>3, <2>4, <2>5 DEF TypeOK
<1>2. CallerInv BY DEF CallerInv, BeforeWrite
<1>3. SlotInv BY DEF SlotInv, UnderWay
<1>4. ReaderInv /\ AnsweredIsTold BY DEF ReaderInv, AnsweredIsTold, Answered, UnderWay
<1>5. QED BY <1>1, <1>2, <1>3, <1>4 DEF IInv

\* What a caller does inside `send` keeps the invariant.
LEMMA SenderKeeps ==
  ASSUME IInv, NEW c \in Callers, Sender(c)
  PROVE  IInv'
<1> USE ConnectionAssumption
        DEF IInv, IdOf, Idle, Ids, Pcs, Channels, Outcomes, At, Goto, Return,
            UnchangedFar, UnchangedClose, BeforeWrite, UnderWay, Answered, Places
<1>1. CASE AcquireSlot(c)
  <2>1. TypeOK' BY <1>1 DEF AcquireSlot, TypeOK
  <2>2. CallerInv' BY <1>1 DEF AcquireSlot, TypeOK, CallerInv
  <2>3. SlotInv' BY <1>1 DEF AcquireSlot, TypeOK, CallerInv, SlotInv, PermitFree
  <2>4. (ReaderInv /\ AnsweredIsTold)'
    BY <1>1 DEF AcquireSlot, ReaderInv, AnsweredIsTold
  <2>5. QED BY <2>1, <2>2, <2>3, <2>4
<1>2. CASE Insert(c)
  <2>1. TypeOK' BY <1>2 DEF Insert, TypeOK
  <2>2. CallerInv' BY <1>2 DEF Insert, TypeOK, CallerInv
  <2>3. SlotInv' BY <1>2 DEF Insert, TypeOK, CallerInv, SlotInv
  <2>4. (ReaderInv /\ AnsweredIsTold)'
    BY <1>2 DEF Insert, TypeOK, CallerInv, ReaderInv, AnsweredIsTold
  <2>5. QED BY <2>1, <2>2, <2>3, <2>4
<1>3. CASE LockStdin(c)
  <2>1. TypeOK' BY <1>3 DEF LockStdin, TypeOK
  <2>2. CallerInv' BY <1>3 DEF LockStdin, TypeOK, CallerInv
  <2>3. SlotInv' BY <1>3 DEF LockStdin, TypeOK, SlotInv
  <2>4. (ReaderInv /\ AnsweredIsTold)'
    BY <1>3 DEF LockStdin, ReaderInv, AnsweredIsTold
  <2>5. QED BY <2>1, <2>2, <2>3, <2>4
<1>4. CASE Write(c)
  <2>1. TypeOK' BY <1>4 DEF Write, TypeOK
  <2>2. CallerInv' BY <1>4 DEF Write, TypeOK, CallerInv
  <2>3. SlotInv' BY <1>4 DEF Write, TypeOK, CallerInv, SlotInv
  <2>4. (ReaderInv /\ AnsweredIsTold)'
    BY <1>4 DEF Write, TypeOK, CallerInv, ReaderInv, AnsweredIsTold
  <2>5. QED BY <2>1, <2>2, <2>3, <2>4
<1>5. CASE \/ WriteFails(c) \/ GotDropped(c) \/ SeesClose(c)
  <2> SUFFICES ASSUME Return(c, "closed"), ~At(c, "idle"), ~Answered(IdOf(c)),
                      closed \/ place[IdOf(c)] = "new" \/ chan[IdOf(c)] = "dropped",
                      writer' \in {writer, None},
                      UNCHANGED <<slot, replyMap, chan, closed, reader, calls, far,
                                  place, closer, shutdown, serial, stdin, strayed>>
               PROVE  IInv'
    <3>1. CASE WriteFails(c) BY <1>5, <3>1 DEF WriteFails, CallerInv, ReaderInv, TypeOK
    <3>2. CASE GotDropped(c) BY <1>5, <3>2 DEF GotDropped
    <3>3. CASE SeesClose(c) BY <1>5, <3>3 DEF SeesClose, ReportsClose
    <3>4. QED BY <1>5, <3>1, <3>2, <3>3
  <2>1. TypeOK' BY DEF TypeOK
  <2>2. CallerInv' BY DEF TypeOK, CallerInv
  <2>3. SlotInv' BY DEF TypeOK, SlotInv
  <2>4. (ReaderInv /\ AnsweredIsTold)' BY DEF TypeOK, ReaderInv, AnsweredIsTold
  <2>5. QED BY <2>1, <2>2, <2>3, <2>4
<1>6. CASE GotReply(c)
  <2>1. TypeOK' BY <1>6 DEF GotReply, TypeOK
  <2>2. CallerInv' BY <1>6 DEF GotReply, TypeOK, CallerInv
  <2>3. SlotInv' BY <1>6 DEF GotReply, TypeOK, SlotInv
  <2>4. (ReaderInv /\ AnsweredIsTold)'
    BY <1>6 DEF GotReply, TypeOK, ReaderInv, AnsweredIsTold
  <2>5. QED BY <2>1, <2>2, <2>3, <2>4
<1>7. QED BY <1>1, <1>2, <1>3, <1>4, <1>5, <1>6 DEF Sender

\* Starting a call and giving one up keep the invariant.
LEMMA CallKeeps ==
  ASSUME IInv, NEW c \in Callers, Call(c) \/ Timeout(c)
  PROVE  IInv'
<1> USE ConnectionAssumption
        DEF IInv, IdOf, Idle, Ids, Pcs, Channels, Outcomes, At, Return,
            UnchangedFar, UnchangedClose, BeforeWrite, UnderWay, Answered, Places
<1>1. CASE Call(c) /\ closed
  <2>0. /\ calls + 1 \in Ids /\ calls' = calls + 1
        /\ out' = [out EXCEPT ![calls + 1] = "closed"]
        /\ UNCHANGED <<caller, slot, replyMap, chan, writer, closed, reader, far, place,
                       closer, shutdown, serial, stdin, strayed>>
    BY <1>1 DEF Call, TypeOK
  <2>1. TypeOK' BY <2>0 DEF TypeOK
  <2>2. CallerInv' BY <1>1 DEF Call, TypeOK, CallerInv
  <2>3. SlotInv' BY <1>1 DEF Call, SlotInv
  <2>4. (ReaderInv /\ AnsweredIsTold)'
    BY <1>1 DEF Call, TypeOK, CallerInv, ReaderInv, AnsweredIsTold
  <2>5. QED BY <2>1, <2>2, <2>3, <2>4
<1>4. CASE Call(c) /\ ~closed
  <2> DEFINE pc == IF serial THEN "queued" ELSE "insert"
  <2>0. /\ pc \in BeforeWrite /\ pc \in Pcs /\ pc # "idle" /\ pc \notin {"lock", "write", "wait"}
        /\ serial => pc = "queued"
    BY DEF TypeOK
  <2>6. /\ calls + 1 \in Ids /\ calls' = calls + 1
        /\ caller' = [caller EXCEPT ![c] = [pc |-> pc, id |-> calls + 1]]
        /\ UNCHANGED <<out, slot, replyMap, chan, writer, closed, reader, far, place,
                       closer, shutdown, serial, stdin, strayed>>
    BY <1>4 DEF Call, TypeOK
  <2> HIDE DEF pc
  <2>1. TypeOK' BY <2>0, <2>6 DEF TypeOK
  <2>2. CallerInv' BY <2>0, <2>6 DEF TypeOK, CallerInv
  <2>3. SlotInv' BY <2>0, <2>6 DEF TypeOK, SlotInv
  <2>4. (ReaderInv /\ AnsweredIsTold)' BY <2>6 DEF ReaderInv, AnsweredIsTold
  <2>5. QED BY <2>1, <2>2, <2>3, <2>4
<1>2. CASE Timeout(c)
  <2> USE DEF TimedOutEntry, Release
  <2>0. slot' \in {slot, None} /\ replyMap' \subseteq replyMap
    BY <1>2 DEF Timeout
  <2>1. TypeOK' BY <1>2, <2>0 DEF Timeout, TypeOK
  <2>2. CallerInv' BY <1>2 DEF Timeout, TypeOK, CallerInv
  <2>3. SlotInv' BY <1>2 DEF Timeout, TypeOK, SlotInv
  <2>4. (ReaderInv /\ AnsweredIsTold)'
    BY <1>2 DEF Timeout, TypeOK, ReaderInv, AnsweredIsTold
  <2>5. QED BY <2>1, <2>2, <2>3, <2>4
<1>3. QED BY <1>1, <1>2, <1>4

\* What the reader task does keeps the invariant.
LEMMA ReaderKeeps ==
  ASSUME IInv, Reader
  PROVE  IInv'
<1> USE ConnectionAssumption
        DEF IInv, IdOf, Ids, Channels, Places, Readers, BeforeWrite, UnderWay,
            Answered, UnchangedFar, UnchangedClose, Release
<1>1. ASSUME NEW i \in Ids, NEW reply \in {"reply", "unreadable"}, Deliver(i, reply)
      PROVE  IInv'
  <2>1. TypeOK' BY <1>1 DEF Deliver, TypeOK
  <2>2. CallerInv' BY <1>1 DEF Deliver, TypeOK, CallerInv
  <2>3. SlotInv' BY <1>1 DEF Deliver, TypeOK, CallerInv, SlotInv
  <2>4. (ReaderInv /\ AnsweredIsTold)'
    BY <1>1 DEF Deliver, TypeOK, ReaderInv, AnsweredIsTold
  <2>5. QED BY <2>1, <2>2, <2>3, <2>4
<1>2. CASE Eof \/ ReadError \/ Shutdown
  <2> USE DEF Eof, ReadError, Shutdown, StartKill, Lost, EndReading
  <2>1. TypeOK' BY <1>2 DEF TypeOK
  <2>2. CallerInv' BY <1>2 DEF TypeOK, CallerInv
  <2>3. SlotInv' BY <1>2 DEF SlotInv
  <2>4. (ReaderInv /\ AnsweredIsTold)'
    BY <1>2 DEF TypeOK, ReaderInv, AnsweredIsTold
  <2>5. QED BY <2>1, <2>2, <2>3, <2>4
<1>3. CASE DrainWaiters \/ Reap
  <2> USE DEF DrainWaiters, Reap
  <2>1. TypeOK' BY <1>3 DEF TypeOK
  <2>2. CallerInv' BY <1>3 DEF TypeOK, CallerInv
  <2>3. SlotInv' BY <1>3 DEF SlotInv, ReaderInv
  <2>4. (ReaderInv /\ AnsweredIsTold)'
    BY <1>3 DEF TypeOK, ReaderInv, AnsweredIsTold
  <2>5. QED BY <2>1, <2>2, <2>3, <2>4
<1>4. QED BY <1>1, <1>2, <1>3 DEF Reader

\* Closing the client, and whatever the far end does, keep the invariant.
LEMMA OthersKeep ==
  ASSUME IInv,
         \/ Close \/ GraceEnds \/ CloseDone \/ Drop \/ FarDies
         \/ \E i \in Ids : FarRead(i) \/ FarAnswer(i)
  PROVE  IInv'
<1> USE DEF IInv, IdOf, Ids, Places, Closers, BeforeWrite, UnderWay, Answered,
            UnchangedFar, UnchangedClose, UnchangedConnection
<1>1. CASE Close \/ GraceEnds \/ CloseDone \/ Drop
  <2>1. TypeOK' BY <1>1 DEF Close, GraceEnds, CloseDone, Drop, TypeOK
  <2>2. (CallerInv /\ SlotInv /\ ReaderInv /\ AnsweredIsTold)'
    BY <1>1 DEF Close, GraceEnds, CloseDone, Drop, CallerInv, SlotInv, ReaderInv,
                AnsweredIsTold
  <2>3. QED BY <2>1, <2>2
<1>2. CASE FarDies
  <2> USE DEF FarDies, Lost
  <2>1. TypeOK' BY <1>2 DEF TypeOK
  <2>2. CallerInv' BY <1>2 DEF TypeOK, CallerInv
  <2>3. SlotInv' BY <1>2 DEF TypeOK, SlotInv
  <2>4. (ReaderInv /\ AnsweredIsTold)' BY <1>2 DEF TypeOK, ReaderInv, AnsweredIsTold
  <2>5. QED BY <2>1, <2>2, <2>3, <2>4
<1>4. ASSUME NEW i \in Ids, FarRead(i) \/ FarAnswer(i) PROVE IInv'
  <2>0. PICK q \in {"busy", "outbox"} : place' = [place EXCEPT ![i] = q]
    BY <1>4 DEF FarRead, FarAnswer
  <2>6. /\ i \in UnderWay /\ place[i] # "new" /\ i \in Ids
        /\ UNCHANGED <<caller, slot, replyMap, chan, out, writer, closed, reader, far,
                       closer, shutdown, calls, serial, stdin, strayed>>
    BY <1>4 DEF FarRead, FarAnswer
  <2>7. /\ UnderWay' = UnderWay /\ place \in [Ids -> Places]
        /\ \A j \in Ids : place'[j] = "new" <=> place[j] = "new"
    BY <2>0, <2>6 DEF TypeOK
  <2>1. TypeOK' BY <2>0, <2>6, <2>7 DEF TypeOK
  <2>2. CallerInv' BY <2>6, <2>7 DEF TypeOK, CallerInv
  <2>3. SlotInv' BY <2>6, <2>7 DEF SlotInv
  <2>4. (ReaderInv /\ AnsweredIsTold)' BY <2>6, <2>7 DEF ReaderInv, AnsweredIsTold
  <2>5. QED BY <2>1, <2>2, <2>3, <2>4
<1>3. QED BY <1>1, <1>2, <1>4

\* The inductive invariant of a connection: requests of callers are distinct,
\* the serial permit is with the one request that is being sent or is under
\* way, and the close flag says that nothing more is delivered (send,
\* reader_loop, drain_waiters).
THEOREM ConnectionInductive == Spec => []IInv
<1>1. IInv /\ [Next]_vars => IInv'
  <2> SUFFICES ASSUME IInv, [Next]_vars PROVE IInv' OBVIOUS
  <2>1. CASE UNCHANGED vars
    BY <2>1 DEF vars, IInv, TypeOK, CallerInv, SlotInv, ReaderInv, AnsweredIsTold,
                Answered, IdOf, UnderWay
  <2>2. CASE Next
    BY <2>2, SenderKeeps, CallKeeps, ReaderKeeps, OthersKeep DEF Next
  <2>3. QED BY <2>1, <2>2
<1>2. QED BY InitSound, <1>1, PTL DEF Spec

\* On an open serial connection never more than one request is under way,
\* however many callers there are and however many of them gave up.
THEOREM SerialOneInFlightHolds == Spec => []SerialOneInFlight
<1>1. IInv => SerialOneInFlight BY DEF IInv, SlotInv, SerialOneInFlight
<1>2. QED BY ConnectionInductive, <1>1, PTL

\* No call that was answered is told that the connection closed.
THEOREM AnsweredIsToldHolds == Spec => []AnsweredIsTold
<1>1. IInv => AnsweredIsTold BY DEF IInv
<1>2. QED BY ConnectionInductive, <1>1, PTL
=============================================================================
