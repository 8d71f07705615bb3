---------------------------- MODULE ExecRunProofs ----------------------------
(***************************************************************************)
(* IInv of ExecRun is an invariant for any number of descendants and any    *)
(* capacities, and with it OutputComplete, GroupCleared and CompletedSpares. *)
(***************************************************************************)
EXTENDS ExecRun, TLAPS

\* Before anything is spawned the invariant holds.
LEMMA InitSound == Init => IInv
<1> SUFFICES ASSUME Init PROVE IInv OBVIOUS
<1>1. TypeOK BY ExecAssumption DEF Init, TypeOK, Tasks, Procs
<1>2. StageInv /\ GroupCleared BY DEF Init, StageInv, GroupCleared, Receiving
<1>3. Accounted /\ EndedIsEnded BY DEF Init, Accounted, EndedIsEnded, Receiving
<1>4. OutputComplete BY DEF Init, OutputComplete
<1>5. QED BY <1>1, <1>2, <1>3, <1>4 DEF IInv

\* What a process does keeps the invariant.
LEMMA ProcessKeeps ==
  ASSUME IInv, NEW p \in Procs, NEW k \in Procs, NEW s \in Streams,
         Write(p, s) \/ (k \in Kids /\ Fork(p, k)) \/ LeaveGroup(p) \/ Redirect(p,
             s) \/ Exit(p)
  PROVE  IInv'
<1> USE ExecAssumption DEF IInv, procVars, outVars, taskVars, Tasks, Procs, Streams,
    Receiving, Returned, Holders, Sending
<1>1. CASE Write(p, s)
  <2>1. TypeOK' BY <1>1 DEF Write, TypeOK
  <2>2. Accounted' BY <1>1 DEF Write, TypeOK, Accounted
  <2>3. EndedIsEnded' BY <1>1 DEF Write, TypeOK, EndedIsEnded, StageInv
  <2>4. (StageInv /\ GroupCleared)' BY <1>1 DEF Write, TypeOK, StageInv,
      GroupCleared
  <2>5. OutputComplete' BY <1>1 DEF Write, TypeOK, OutputComplete, StageInv
  <2>6. QED BY <2>1, <2>2, <2>3, <2>4, <2>5
<1>2. CASE k \in Kids /\ Fork(p, k)
  <2>1. TypeOK' BY <1>2 DEF TypeOK, Fork
  <2>2. Accounted' BY <1>2 DEF TypeOK, Accounted, Fork
  <2>3. \A t \in Streams : holds[t] \cap alive = {} => holds'[t] \cap alive' = {}
    BY <1>2 DEF TypeOK, Fork
  <2>4. EndedIsEnded' BY <1>2, <2>3 DEF TypeOK, EndedIsEnded, Fork
  <2>5. (StageInv /\ GroupCleared)' BY <1>2 DEF TypeOK, StageInv, GroupCleared, Fork
  <2>6. OutputComplete' BY <1>2, <2>3 DEF TypeOK, OutputComplete, Fork
  <2>7. QED BY <2>1, <2>2, <2>4, <2>5, <2>6
<1>3. CASE LeaveGroup(p)
  <2>1. TypeOK' BY <1>3 DEF LeaveGroup, TypeOK
  <2>2. Accounted' BY <1>3 DEF LeaveGroup, TypeOK, Accounted
  <2>3. EndedIsEnded' BY <1>3 DEF LeaveGroup, TypeOK, EndedIsEnded, StageInv
  <2>4. (StageInv /\ GroupCleared)' BY <1>3 DEF LeaveGroup, TypeOK, StageInv,
      GroupCleared
  <2>5. OutputComplete' BY <1>3 DEF LeaveGroup, TypeOK, OutputComplete, StageInv
  <2>6. QED BY <2>1, <2>2, <2>3, <2>4, <2>5
<1>4. CASE Redirect(p, s)
  <2>1. TypeOK' BY <1>4 DEF Redirect, TypeOK
  <2>2. Accounted' BY <1>4 DEF Redirect, TypeOK, Accounted
  <2>3. EndedIsEnded' BY <1>4 DEF Redirect, TypeOK, EndedIsEnded, StageInv
  <2>4. (StageInv /\ GroupCleared)' BY <1>4 DEF Redirect, TypeOK, StageInv,
      GroupCleared
  <2>5. OutputComplete' BY <1>4 DEF Redirect, TypeOK, OutputComplete, StageInv
  <2>6. QED BY <2>1, <2>2, <2>3, <2>4, <2>5
<1>5. CASE Exit(p)
  <2>1. TypeOK' BY <1>5 DEF Exit, TypeOK
  <2>2. Accounted' BY <1>5 DEF Exit, TypeOK, Accounted
  <2>3. EndedIsEnded' BY <1>5 DEF Exit, TypeOK, EndedIsEnded, StageInv
  <2>4. (StageInv /\ GroupCleared)' BY <1>5 DEF Exit, TypeOK, StageInv, GroupCleared
  <2>5. OutputComplete' BY <1>5 DEF Exit, TypeOK, OutputComplete, StageInv
  <2>6. QED BY <2>1, <2>2, <2>3, <2>4, <2>5
<1>6. QED BY <1>1, <1>2, <1>3, <1>4, <1>5

\* What a reader does keeps the invariant.
LEMMA ReaderKeeps ==
  ASSUME IInv, NEW s \in Streams,
         ReaderReads(s) \/ ReaderSends(s) \/ ReaderEnds(s)
  PROVE  IInv'
<1> USE ExecAssumption DEF IInv, procVars, outVars, taskVars, Tasks, Procs, Streams,
    Receiving, Returned, Holders, Sending
<1>1. CASE ReaderReads(s)
  <2>1. TypeOK' BY <1>1 DEF ReaderReads, TypeOK
  <2>2. Accounted' BY <1>1 DEF ReaderReads, TypeOK, Accounted
  <2>3. EndedIsEnded' BY <1>1 DEF ReaderReads, TypeOK, EndedIsEnded, StageInv
  <2>4. (StageInv /\ GroupCleared)' BY <1>1 DEF ReaderReads, TypeOK, StageInv,
      GroupCleared
  <2>5. OutputComplete' BY <1>1 DEF ReaderReads, TypeOK, OutputComplete, StageInv
  <2>6. QED BY <2>1, <2>2, <2>3, <2>4, <2>5
<1>2. CASE ReaderSends(s)
  <2>1. TypeOK' BY <1>2 DEF ReaderSends, TypeOK
  <2>2. Accounted' BY <1>2 DEF ReaderSends, TypeOK, Accounted
  <2>3. EndedIsEnded' BY <1>2 DEF ReaderSends, TypeOK, EndedIsEnded, StageInv
  <2>4. (StageInv /\ GroupCleared)' BY <1>2 DEF ReaderSends, TypeOK, StageInv,
      GroupCleared
  <2>5. OutputComplete' BY <1>2 DEF ReaderSends, TypeOK, OutputComplete, StageInv
  <2>6. QED BY <2>1, <2>2, <2>3, <2>4, <2>5
<1>3. CASE ReaderEnds(s)
  <2>1. TypeOK' BY <1>3 DEF ReaderEnds, TypeOK, PipeEnded
  <2>2. Accounted' BY <1>3 DEF ReaderEnds, TypeOK, Accounted, PipeEnded
  <2>3. EndedIsEnded' BY <1>3 DEF ReaderEnds, TypeOK, EndedIsEnded, StageInv,
      PipeEnded
  <2>4. (StageInv /\ GroupCleared)' BY <1>3 DEF ReaderEnds, TypeOK, StageInv,
      GroupCleared, PipeEnded
  <2>5. OutputComplete' BY <1>3 DEF ReaderEnds, TypeOK, OutputComplete, StageInv,
      PipeEnded
  <2>6. QED BY <2>1, <2>2, <2>3, <2>4, <2>5
<1>4. QED BY <1>1, <1>2, <1>3

\* What exec does keeps the invariant.
LEMMA ExecKeeps ==
  ASSUME IInv, NEW s \in Streams,
         Spawn \/ SpawnFails \/ Capture(s) \/ ChildExited \/ Deadline \/ Reap \/
             Drained \/ DrainDeadline \/ Abort
  PROVE  IInv'
<1> USE ExecAssumption DEF IInv, procVars, outVars, taskVars, Tasks, Procs, Streams,
    Receiving, Returned, Holders, Sending
<1>1. CASE Spawn
  <2>1. TypeOK' BY <1>1 DEF Spawn, TypeOK, StageInv
  <2>2. Accounted' BY <1>1 DEF Spawn, TypeOK, Accounted, StageInv
  <2>3. EndedIsEnded' BY <1>1 DEF Spawn, TypeOK, EndedIsEnded, StageInv
  <2>4. (StageInv /\ GroupCleared)' BY <1>1 DEF Spawn, TypeOK, StageInv,
      GroupCleared
  <2>5. OutputComplete' BY <1>1 DEF Spawn, TypeOK, OutputComplete, StageInv
  <2>6. QED BY <2>1, <2>2, <2>3, <2>4, <2>5
<1>2. CASE SpawnFails
  <2>1. TypeOK' BY <1>2 DEF SpawnFails, TypeOK
  <2>2. Accounted' BY <1>2 DEF SpawnFails, TypeOK, Accounted
  <2>3. EndedIsEnded' BY <1>2 DEF SpawnFails, TypeOK, EndedIsEnded, StageInv
  <2>4. (StageInv /\ GroupCleared)' BY <1>2 DEF SpawnFails, TypeOK, StageInv,
      GroupCleared
  <2>5. OutputComplete' BY <1>2 DEF SpawnFails, TypeOK, OutputComplete, StageInv
  <2>6. QED BY <2>1, <2>2, <2>3, <2>4, <2>5
<1>3. CASE Capture(s)
  <2>1. TypeOK' BY <1>3 DEF Capture, TypeOK
  <2>2. Accounted' BY <1>3 DEF Capture, TypeOK, Accounted
  <2>3. EndedIsEnded' BY <1>3 DEF Capture, TypeOK, EndedIsEnded, StageInv
  <2>4. (StageInv /\ GroupCleared)' BY <1>3 DEF Capture, TypeOK, StageInv,
      GroupCleared
  <2>5. OutputComplete' BY <1>3 DEF Capture, TypeOK, OutputComplete, StageInv
  <2>6. QED BY <2>1, <2>2, <2>3, <2>4, <2>5
<1>4. CASE ChildExited
  <2>1. TypeOK' BY <1>4 DEF ChildExited, TypeOK
  <2>2. Accounted' BY <1>4 DEF ChildExited, TypeOK, Accounted
  <2>3. EndedIsEnded' BY <1>4 DEF ChildExited, TypeOK, EndedIsEnded, StageInv
  <2>4. (StageInv /\ GroupCleared)' BY <1>4 DEF ChildExited, TypeOK, StageInv,
      GroupCleared
  <2>5. OutputComplete' BY <1>4 DEF ChildExited, TypeOK, OutputComplete, StageInv
  <2>6. QED BY <2>1, <2>2, <2>3, <2>4, <2>5
<1>5. CASE Deadline
  <2>1. TypeOK' BY <1>5 DEF Deadline, TypeOK, Kill, KillReaches
  <2>2. Accounted' BY <1>5 DEF Deadline, TypeOK, Accounted, Kill, KillReaches
  <2>3. EndedIsEnded' BY <1>5 DEF Deadline, TypeOK, EndedIsEnded, StageInv, Kill,
      KillReaches
  <2>4. (StageInv /\ GroupCleared)' BY <1>5 DEF Deadline, TypeOK, StageInv,
      GroupCleared, Kill, KillReaches
  <2>5. OutputComplete' BY <1>5 DEF Deadline, TypeOK, OutputComplete, StageInv,
      Kill, KillReaches
  <2>6. QED BY <2>1, <2>2, <2>3, <2>4, <2>5
<1>6. CASE Reap
  <2>1. TypeOK' BY <1>6 DEF Reap, TypeOK
  <2>2. Accounted' BY <1>6 DEF Reap, TypeOK, Accounted
  <2>3. EndedIsEnded' BY <1>6 DEF Reap, TypeOK, EndedIsEnded, StageInv
  <2>4. (StageInv /\ GroupCleared)' BY <1>6 DEF Reap, TypeOK, StageInv, GroupCleared
  <2>5. OutputComplete' BY <1>6 DEF Reap, TypeOK, OutputComplete, StageInv
  <2>6. QED BY <2>1, <2>2, <2>3, <2>4, <2>5
<1>7. CASE Drained
  <2>1. TypeOK' BY <1>7 DEF Drained, TypeOK, ChannelClosed, Release, Accounted,
      EndedIsEnded
  <2>2. Accounted' BY <1>7 DEF Drained, TypeOK, Accounted, ChannelClosed, Release,
      EndedIsEnded
  <2>3. EndedIsEnded' BY <1>7 DEF Drained, TypeOK, EndedIsEnded, StageInv,
      ChannelClosed, Release, Accounted
  <2>4. (StageInv /\ GroupCleared)' BY <1>7 DEF Drained, TypeOK, StageInv,
      GroupCleared, ChannelClosed, Release, Accounted, EndedIsEnded
  <2>5. OutputComplete' BY <1>7 DEF Drained, TypeOK, OutputComplete, StageInv,
      ChannelClosed, Release, Accounted, EndedIsEnded
  <2>6. QED BY <2>1, <2>2, <2>3, <2>4, <2>5
<1>8. CASE DrainDeadline
  <2>1. TypeOK' BY <1>8 DEF DrainDeadline, TypeOK, Kill, KillReaches
  <2>2. Accounted' BY <1>8 DEF DrainDeadline, TypeOK, Accounted, Kill, KillReaches
  <2>3. EndedIsEnded' BY <1>8 DEF DrainDeadline, TypeOK, EndedIsEnded, StageInv,
      Kill, KillReaches
  <2>4. (StageInv /\ GroupCleared)' BY <1>8 DEF DrainDeadline, TypeOK, StageInv,
      GroupCleared, Kill, KillReaches
  <2>5. OutputComplete' BY <1>8 DEF DrainDeadline, TypeOK, OutputComplete, StageInv,
      Kill, KillReaches
  <2>6. QED BY <2>1, <2>2, <2>3, <2>4, <2>5
<1>9. CASE Abort
  <2>1. TypeOK' BY <1>9 DEF Abort, TypeOK, Kill, KillReaches
  <2>2. Accounted' BY <1>9 DEF Abort, TypeOK, Accounted, Kill, KillReaches
  <2>3. EndedIsEnded' BY <1>9 DEF Abort, TypeOK, EndedIsEnded, StageInv, Kill,
      KillReaches
  <2>4. (StageInv /\ GroupCleared)' BY <1>9 DEF Abort, TypeOK, StageInv,
      GroupCleared, Kill, KillReaches
  <2>5. OutputComplete' BY <1>9 DEF Abort, TypeOK, OutputComplete, StageInv, Kill,
      KillReaches
  <2>6. QED BY <2>1, <2>2, <2>3, <2>4, <2>5
<1>10. QED BY <1>1, <1>2, <1>3, <1>4, <1>5, <1>6, <1>7, <1>8, <1>9

\* Every step keeps the invariant.
LEMMA NextKeeps == IInv /\ [Next]_vars => IInv'
<1> SUFFICES ASSUME IInv, [Next]_vars PROVE IInv' OBVIOUS
<1>1. CASE UNCHANGED vars
  BY <1>1 DEF vars, taskVars, procVars, outVars, IInv, TypeOK, Accounted, EndedIsEnded,
              StageInv, OutputComplete, GroupCleared, Receiving, Holders, Sending
<1>2. CASE Exec \/ Abort
  <2>1. "stdout" \in Streams BY DEF Streams
  <2>2. QED BY <1>2, <2>1, ExecKeeps DEF Exec
<1>3. CASE \E s \in Streams : Reader(s)
  BY <1>3, ReaderKeeps DEF Reader
<1>4. CASE \E p \in Procs : Process(p)
  <2> PICK p \in Procs : Process(p) BY <1>4
  <2>1. "stdout" \in Streams BY DEF Streams
  <2>2. CASE \E s \in Streams : Write(p, s) \/ Redirect(p, s)
    BY <2>2, ProcessKeeps
  <2>3. CASE \E k \in Kids : Fork(p, k)
    <3> PICK k \in Kids : Fork(p, k) BY <2>3
    <3>1. k \in Procs BY DEF Procs
    <3>2. QED BY <2>1, <3>1, ProcessKeeps
  <2>4. CASE LeaveGroup(p) \/ Exit(p)
    BY <2>1, <2>4, ProcessKeeps
  <2>5. QED BY <2>2, <2>3, <2>4 DEF Process
<1>5. QED BY <1>1, <1>2, <1>3, <1>4 DEF Next

\* The invariant holds of every run of a command.
THEOREM ExecInductive == Spec => []IInv
<1>1. QED BY InitSound, NextKeeps, PTL DEF Spec

\* No output is missing from a result that does not say so (exec's drain).
THEOREM OutputCompleteHolds == Spec => []OutputComplete
<1>1. IInv => OutputComplete BY DEF IInv
<1>2. QED BY <1>1, ExecInductive, PTL

\* Nothing of the command's process group survives a timeout, a forced drain or
\* a dropped task (ProcessGroup).
THEOREM GroupClearedHolds == Spec => []GroupCleared
<1>1. IInv => GroupCleared BY DEF IInv
<1>2. QED BY <1>1, ExecInductive, PTL

\* A completed command's leftovers are spared (ProcessGroup::release).
THEOREM CompletedSparesHolds == Spec => CompletedSpares
<1> DEFINE Spares == \A k \in Kids : k \in alive /\ k \notin alive' /\ task # task'
                     => termination' = "timedOut" \/ drainTimedOut' \/ task' = "dropped"
<1>1. IInv /\ [Next]_vars => [Spares]_vars
  <2> SUFFICES ASSUME IInv, Next, NEW k \in Kids, k \in alive, k \notin alive', task # task'
               PROVE  termination' = "timedOut" \/ drainTimedOut' \/ task' = "dropped"
    BY DEF vars, taskVars
  <2> USE DEF taskVars, procVars, outVars
  <2>1. CASE Exec
    <3>1. CASE Spawn BY <3>1 DEF Spawn, IInv, StageInv, TypeOK
    <3>2. QED
      BY <2>1, <3>1
         DEF Exec, SpawnFails, ChildExited, Deadline, Reap, Drained, Release,
             DrainDeadline, Capture
  <2>2. CASE Abort BY <2>2 DEF Abort
  <2>3. CASE \E s \in Streams : Reader(s)
    BY <2>3 DEF Reader, ReaderReads, ReaderSends, ReaderEnds
  <2>4. CASE \E p \in Procs : Process(p)
    BY <2>4 DEF Process, Write, Redirect, Fork, LeaveGroup, Exit
  <2>5. QED BY <2>1, <2>2, <2>3, <2>4 DEF Next
<1>2. QED BY <1>1, ExecInductive, PTL DEF Spec, CompletedSpares
=============================================================================
