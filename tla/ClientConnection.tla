-------------------------- MODULE ClientConnection --------------------------
(***************************************************************************)
(* One client connection (Client in the client crate's lib.rs): concurrent  *)
(* callers of `send`, the task that reads replies, and the close of the     *)
(* connection, against a far end (ssh and the server behind it) that may    *)
(* answer late, answer unreadably, stop reading, spoil its output or die at *)
(* any time.                                                                *)
(*                                                                         *)
(* On a serial transport one permit, the slot, lets one request at a time   *)
(* be under way; it lives in the request's entry of the reply map.          *)
(* `close` and `Drop` own the client, so no caller is inside `send` then,   *)
(* and the branch of `send` for a stdin already taken is never reached.     *)
(***************************************************************************)
EXTENDS Naturals, FiniteSets

CONSTANTS
  Callers,    \* tasks calling `send` on one shared client
  None,       \* nobody
  PipeSize,   \* bound: requests the pipe to the far end takes unread
  MaxCalls    \* bound: calls made, and so request ids used

ASSUME ConnectionAssumption ==
  /\ None \notin Callers \cup Nat
  /\ PipeSize \in Nat /\ MaxCalls \in Nat

Ids == 1 .. MaxCalls

VARIABLES
  serial,    \* whether the transport handles one request at a time
  caller,    \* where each caller is in `send`, and its request id
  slot,      \* the request holding the serial permit
  replyMap,  \* reply_map: requests with an entry
  chan,      \* the oneshot channel of each request
  out,       \* what each call returned
  writer,    \* holder of the stdin mutex
  stdin,     \* the transport's stdin
  closed,    \* the persistent close flag
  reader,    \* the reader task
  far,       \* the transport process
  place,     \* where each request is on its way through the far end
  closer,    \* close_with_grace, or Drop
  shutdown,  \* the shutdown channel has been used
  calls,     \* calls made
  strayed    \* history: the loop ended by itself and the process lived on

vars == <<caller, slot, replyMap, chan, out, writer, closed, reader, far, place,
          closer, shutdown, calls, serial, stdin, strayed>>

Pcs == {"idle", "queued", "insert", "lock", "write", "wait"}
Channels == {"none", "open", "reply", "unreadable", "dropped"}
Outcomes == {"none", "reply", "unreadable", "closed", "timeout"}
Places == {"new", "inbox", "busy", "outbox", "gone"}
Readers == {"reading", "drain", "reap", "done"}
Closers == {"none", "grace", "shutdown", "done", "dropped"}

Idle == [pc |-> "idle", id |-> 0]

TypeOK ==
  /\ serial \in BOOLEAN
  /\ caller \in [Callers -> [pc : Pcs, id : 0 .. MaxCalls]]
  /\ \A c \in Callers : caller[c].pc # "idle" => caller[c].id \in Ids
  /\ slot \in Ids \cup {None} /\ replyMap \subseteq Ids
  /\ chan \in [Ids -> Channels] /\ out \in [Ids -> Outcomes]
  /\ writer \in Callers \cup {None} /\ closed \in BOOLEAN
  /\ reader \in Readers /\ far \in {"up", "dead"}
  /\ place \in [Ids -> Places]
  /\ closer \in Closers /\ shutdown \in BOOLEAN /\ calls \in 0 .. MaxCalls
  /\ stdin \in {"open", "closed"} /\ strayed \in BOOLEAN

Init ==
  /\ serial \in BOOLEAN
  /\ caller = [c \in Callers |-> Idle]
  /\ slot = None /\ replyMap = {}
  /\ chan = [i \in Ids |-> "none"] /\ out = [i \in Ids |-> "none"]
  /\ writer = None /\ closed = FALSE /\ reader = "reading" /\ far = "up"
  /\ place = [i \in Ids |-> "new"]
  /\ closer = "none" /\ shutdown = FALSE /\ calls = 0
  /\ stdin = "open" /\ strayed = FALSE

-----------------------------------------------------------------------------
IdOf(c) == caller[c].id
At(c, pc) == caller[c].pc = pc
Goto(c, pc) == caller' = [caller EXCEPT ![c].pc = pc]
Return(c, o) ==
  /\ out' = [out EXCEPT ![IdOf(c)] = o]
  /\ caller' = [caller EXCEPT ![c] = Idle]

\* Entries that leave the reply map take their permit with them.
Release(gone) == IF slot \in gone THEN None ELSE slot

UnchangedFar == UNCHANGED <<far, place>>
UnchangedClose == UNCHANGED <<closer, shutdown, serial, stdin, strayed>>
-----------------------------------------------------------------------------
(***************************************************************************)
(* send.                                                                    *)
(***************************************************************************)
Call(c) ==
  /\ At(c, "idle") /\ closer = "none" /\ calls < MaxCalls
  /\ calls' = calls + 1
  /\ IF closed
     THEN /\ out' = [out EXCEPT ![calls + 1] = "closed"]
          /\ UNCHANGED caller
     ELSE /\ caller' = [caller EXCEPT ![c] =
                          [pc |-> IF serial THEN "queued" ELSE "insert",
                           id |-> calls + 1]]
          /\ UNCHANGED out
  /\ UNCHANGED <<slot, replyMap, chan, writer, closed, reader>>
  /\ UnchangedFar /\ UnchangedClose

PermitFree == slot = None

AcquireSlot(c) ==
  /\ At(c, "queued") /\ PermitFree
  /\ slot' = IdOf(c)
  /\ Goto(c, "insert")
  /\ UNCHANGED <<replyMap, chan, out, writer, closed, reader, calls>>
  /\ UnchangedFar /\ UnchangedClose

Insert(c) ==
  /\ At(c, "insert")
  /\ replyMap' = replyMap \cup {IdOf(c)}
  /\ chan' = [chan EXCEPT ![IdOf(c)] = "open"]
  /\ Goto(c, "lock")
  /\ UNCHANGED <<slot, out, writer, closed, reader, calls>>
  /\ UnchangedFar /\ UnchangedClose

LockStdin(c) ==
  /\ At(c, "lock") /\ writer = None
  /\ writer' = c
  /\ Goto(c, "write")
  /\ UNCHANGED <<slot, replyMap, chan, out, closed, reader, calls>>
  /\ UnchangedFar /\ UnchangedClose

Unread == {i \in Ids : place[i] = "inbox"}

\* The write waits, without a deadline, for room in the pipe.
Write(c) ==
  /\ At(c, "write") /\ far = "up" /\ Cardinality(Unread) < PipeSize
  /\ place' = [place EXCEPT ![IdOf(c)] = "inbox"]
  /\ writer' = None
  /\ Goto(c, "wait")
  /\ UNCHANGED <<slot, replyMap, chan, out, closed, reader, far, calls>>
  /\ UnchangedClose

\* A broken pipe: the call ends, its entry stays in the reply map.
WriteFails(c) ==
  /\ At(c, "write") /\ far = "dead"
  /\ writer' = None
  /\ Return(c, "closed")
  /\ UNCHANGED <<slot, replyMap, chan, closed, reader, calls>>
  /\ UnchangedFar /\ UnchangedClose

Answered(i) == chan[i] \in {"reply", "unreadable"}

GotReply(c) ==
  /\ At(c, "wait") /\ Answered(IdOf(c))
  /\ Return(c, chan[IdOf(c)])
  /\ UNCHANGED <<slot, replyMap, chan, writer, closed, reader, calls>>
  /\ UnchangedFar /\ UnchangedClose

GotDropped(c) ==
  /\ At(c, "wait") /\ chan[IdOf(c)] = "dropped"
  /\ Return(c, "closed")
  /\ UNCHANGED <<slot, replyMap, chan, writer, closed, reader, calls>>
  /\ UnchangedFar /\ UnchangedClose

\* Faulty variant: the close is reported without a last look at the channel.
ReportsCloseAtOnce(c) == At(c, "wait") /\ closed

\* wait_closed resolves and the channel holds no reply (try_recv).
ReportsClose(c) == At(c, "wait") /\ closed /\ chan[IdOf(c)] = "open"

SeesClose(c) ==
  /\ ReportsClose(c)
  /\ Return(c, "closed")
  /\ UNCHANGED <<slot, replyMap, chan, writer, closed, reader, calls>>
  /\ UnchangedFar /\ UnchangedClose

\* Faulty variant: a caller that gives up always takes its entry along.
GivesUpEntry(c) == {IdOf(c)}

\* On a serial connection the entry stays, and with it the slot, until the
\* late reply or a close arrives.
TimedOutEntry(c) == IF serial THEN {} ELSE {IdOf(c)}

\* Faulty variant: a request waiting for its turn has no deadline.
DeadlineOnReplyOnly == {"wait"}

DeadlineCovers == {"queued", "wait"}

Timeout(c) ==
  /\ caller[c].pc \in DeadlineCovers
  /\ \/ /\ At(c, "queued")
        /\ UNCHANGED <<replyMap, slot>>
     \/ /\ At(c, "wait") /\ chan[IdOf(c)] = "open"
        /\ replyMap' = replyMap \ TimedOutEntry(c)
        /\ slot' = Release(TimedOutEntry(c))
  /\ Return(c, "timeout")
  /\ UNCHANGED <<chan, writer, closed, reader, calls>>
  /\ UnchangedFar /\ UnchangedClose
-----------------------------------------------------------------------------
(***************************************************************************)
(* reader_loop and the end of the reader task.                              *)
(***************************************************************************)
\* A reply, parsable or not, is handed to the entry it names, if there is one.
Deliver(i, reply) ==
  /\ reader = "reading" /\ place[i] = "outbox"
  /\ place' = [place EXCEPT ![i] = "gone"]
  /\ IF i \in replyMap
     THEN /\ chan' = [chan EXCEPT ![i] = reply]
          /\ replyMap' = replyMap \ {i}
          /\ slot' = Release({i})
     ELSE UNCHANGED <<chan, replyMap, slot>>
  /\ UNCHANGED <<caller, out, writer, closed, reader, far, calls>>
  /\ UnchangedClose

\* Faulty variant: the task ends with the loop, nothing is marked or drained.
EndSilently == reader' = "reap" /\ UNCHANGED closed

EndReading == reader' = "drain" /\ closed' = TRUE

Eof ==
  /\ reader = "reading" /\ far = "dead"
  /\ \A i \in Ids : place[i] # "outbox"
  /\ EndReading
  /\ UNCHANGED <<caller, slot, replyMap, chan, out, writer, calls>>
  /\ UnchangedFar /\ UnchangedClose

\* A line that is no text, another read error, or a process that closes its
\* stdout and lives on: the loop ends, and with it the client's end of stdout
\* and the receiver of the shutdown channel.
ReadError ==
  /\ reader = "reading"
  /\ EndReading
  /\ strayed' = (far = "up")
  /\ UNCHANGED <<caller, slot, replyMap, chan, out, writer, calls, closer, shutdown,
                 serial, stdin>>
  /\ UnchangedFar

\* What is under way when the transport process ends is lost; replies already
\* written can still be read.
Lost == [i \in Ids |-> IF place[i] \in {"inbox", "busy"} THEN "gone" ELSE place[i]]

\* Faulty variant: the child is not killed.
KillNothing == UNCHANGED <<far, place>>

StartKill == far' = "dead" /\ place' = Lost

Shutdown ==
  /\ reader = "reading" /\ shutdown
  /\ StartKill
  /\ EndReading
  /\ UNCHANGED <<caller, slot, replyMap, chan, out, writer, calls>>
  /\ UnchangedClose

DrainWaiters ==
  /\ reader = "drain"
  /\ chan' = [i \in Ids |-> IF i \in replyMap /\ chan[i] = "open" THEN "dropped"
                                                                ELSE chan[i]]
  /\ slot' = Release(replyMap)
  /\ replyMap' = {}
  /\ reader' = "reap"
  /\ UNCHANGED <<caller, out, writer, closed, calls>>
  /\ UnchangedFar /\ UnchangedClose

Reap ==
  /\ reader = "reap" /\ far = "dead"
  /\ reader' = "done"
  /\ UNCHANGED <<caller, slot, replyMap, chan, out, writer, closed, calls>>
  /\ UnchangedFar /\ UnchangedClose
-----------------------------------------------------------------------------
(***************************************************************************)
(* close_with_grace and Drop.                                               *)
(***************************************************************************)
AllIdle == \A c \in Callers : At(c, "idle")

UnchangedConnection ==
  UNCHANGED <<caller, slot, replyMap, chan, out, writer, closed, reader, calls,
              serial, strayed>>

\* stdin is closed and the far end given time to end, unless the connection
\* closed before.
Close ==
  /\ closer = "none" /\ AllIdle
  /\ closer' = IF closed THEN "shutdown" ELSE "grace"
  /\ shutdown' = closed
  /\ stdin' = IF closed THEN stdin ELSE "closed"
  /\ UnchangedFar /\ UnchangedConnection

\* The connection closed, or the grace is over.
GraceEnds ==
  /\ closer = "grace"
  /\ closer' = "shutdown" /\ shutdown' = TRUE /\ UNCHANGED stdin
  /\ UnchangedFar /\ UnchangedConnection

\* The reader has ended; the fields of the client go.
CloseDone ==
  /\ closer = "shutdown" /\ reader = "done"
  /\ closer' = "done" /\ stdin' = "closed"
  /\ UNCHANGED shutdown /\ UnchangedFar /\ UnchangedConnection

Drop ==
  /\ closer = "none" /\ AllIdle
  /\ closer' = "dropped" /\ shutdown' = TRUE /\ stdin' = "closed"
  /\ UnchangedFar /\ UnchangedConnection
-----------------------------------------------------------------------------
(***************************************************************************)
(* The far end.  A serial one handles one request at a time.                *)
(***************************************************************************)
FarRead(i) ==
  /\ far = "up" /\ place[i] = "inbox"
  /\ serial => \A j \in Ids : place[j] # "busy"
  /\ place' = [place EXCEPT ![i] = "busy"]
  /\ UNCHANGED far /\ UnchangedClose /\ UnchangedConnection

FarAnswer(i) ==
  /\ far = "up" /\ place[i] = "busy"
  /\ place' = [place EXCEPT ![i] = "outbox"]
  /\ UNCHANGED far /\ UnchangedClose /\ UnchangedConnection

\* It crashes, loses its network, idles out, ends at the end of its input, or
\* writes to a client that no longer reads.
FarDies ==
  /\ far = "up"
  /\ far' = "dead" /\ place' = Lost
  /\ UnchangedClose /\ UnchangedConnection

Sender(c) ==
  \/ AcquireSlot(c) \/ Insert(c) \/ LockStdin(c) \/ Write(c) \/ WriteFails(c)
  \/ GotReply(c) \/ GotDropped(c) \/ SeesClose(c)

Reader ==
  \/ \E i \in Ids, reply \in {"reply", "unreadable"} : Deliver(i, reply)
  \/ Eof \/ ReadError \/ Shutdown \/ DrainWaiters \/ Reap

Next ==
  \/ \E c \in Callers : Call(c) \/ Sender(c) \/ Timeout(c)
  \/ Reader
  \/ Close \/ GraceEnds \/ CloseDone \/ Drop
  \/ \E i \in Ids : FarRead(i) \/ FarAnswer(i)
  \/ FarDies

Spec == Init /\ [][Next]_vars
-----------------------------------------------------------------------------
(***************************************************************************)
(* Safety.                                                                  *)
(***************************************************************************)
UnderWay == {i \in Ids : place[i] \in {"inbox", "busy", "outbox"}}

\* On an open serial connection at most one request is under way, those whose
\* callers gave up included, so no request waits at the far end for long after
\* its caller timed out (Pending::_slot, the timeout branch of send).
SerialOneInFlight ==
  serial /\ ~closed => \A i, j \in UnderWay : i = j

\* A call that is told the connection closed got no reply: a server that
\* answers and dies at once has still answered (the biased select of send).
AnsweredIsTold == \A i \in Ids : out[i] = "closed" => ~Answered(i)
-----------------------------------------------------------------------------
(***************************************************************************)
(* The inductive invariant.                                                 *)
(***************************************************************************)
BeforeWrite == {"queued", "insert", "lock", "write"}

\* Requests of callers are distinct, and not under way before the write.
CallerInv ==
  /\ \A c \in Callers : /\ IdOf(c) <= calls
                        /\ caller[c].pc \in BeforeWrite => place[IdOf(c)] = "new"
                        /\ caller[c].pc # "idle" => out[IdOf(c)] = "none"
  /\ \A c, d \in Callers : c # d /\ caller[c].pc # "idle" => IdOf(c) # IdOf(d)
  /\ \A i \in Ids : i > calls => place[i] = "new" /\ out[i] = "none"

\* The permit is with a request that is being sent or is under way.
SlotInv ==
  serial /\ ~closed =>
    /\ \A c \in Callers : caller[c].pc \in {"insert", "lock", "write"}
                            => slot = IdOf(c)
    /\ \A c \in Callers : caller[c].pc \in {"lock", "write"} => IdOf(c) \in replyMap
    /\ \A i \in UnderWay : slot = i /\ i \in replyMap

\* The flag says that the reader has stopped delivering.
ReaderInv ==
  /\ closed <=> reader # "reading"
  /\ ~closed => \A i \in UnderWay : out[i] # "closed"
  /\ ~closed => \A i \in Ids : chan[i] # "dropped"
  /\ \A i \in Ids : place[i] = "new" => ~Answered(i)

IInv == TypeOK /\ CallerInv /\ SlotInv /\ ReaderInv /\ AnsweredIsTold
-----------------------------------------------------------------------------
(***************************************************************************)
(* Liveness.  Callers, the reader and the closer are tasks the runtime      *)
(* runs; the far end owes nothing.                                          *)
(***************************************************************************)
TaskFairness ==
  /\ \A c \in Callers : WF_vars(Sender(c))
  /\ WF_vars(Eof \/ Shutdown) /\ WF_vars(DrainWaiters) /\ WF_vars(Reap)
  /\ \A i \in Ids : WF_vars(\E reply \in {"reply", "unreadable"} : Deliver(i, reply))
  /\ WF_vars(GraceEnds) /\ WF_vars(CloseDone)

\* No deadline is ever relied on.
FairSpec == Spec /\ TaskFairness

\* Deadlines pass, and the far end reads what it is sent.
Deadlines ==
  /\ \A c \in Callers : WF_vars(Timeout(c))
  /\ \A i \in Ids : WF_vars(FarRead(i))

\* Once the far end is dead every caller that is past the queue for the serial
\* slot returns without waiting for its deadline, even one that looked at the
\* close flag before it was set and entered the reply map after it was drained
\* (drain_waiters, wait_closed).  A caller still in the queue may wait its
\* deadline out: one that got the slot after the drain and then met a broken
\* pipe leaves its entry, and with it the slot, behind.
DeathWakesAll ==
  far = "dead" ~> \A c \in Callers : At(c, "idle") \/ (serial /\ At(c, "queued"))

\* A far end that ends once its input has ended, as a server does.
InputEnds == stdin = "closed" /\ FarDies
EndsWithInput == WF_vars(InputEnds)

Ended == far = "dead" /\ reader = "done"

\* Closing or dropping the client ends the transport process and the reader,
\* whatever the far end does, unless the reader stopped reading while the
\* process lived on: such a process still ends if it ends with its input and
\* the input was closed (close_with_grace, Drop, the reader task).
NoOrphan ==
  /\ closer # "none" ~> Ended \/ strayed
  /\ EndsWithInput => (stdin = "closed" ~> Ended)

\* "guarding against a server that stays connected but never responds"
\* (DEFAULT_REQUEST_TIMEOUT): where deadlines pass, every call returns.
CallsReturn ==
  Deadlines => \A c \in Callers : ~At(c, "idle") ~> At(c, "idle")
=============================================================================
