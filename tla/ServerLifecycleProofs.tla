----------------------- MODULE ServerLifecycleProofs -----------------------
(***************************************************************************)
(* IInv of ServerLifecycle is an invariant for any number of servers and    *)
(* every choice of timeouts in which the lock's grace exceeds the shutdown,  *)
(* and with it HandOver and IdleIsIdle.                                     *)
(***************************************************************************)
EXTENDS ServerLifecycle, TLAPS

\* Before anybody connects the invariant holds.
LEMMA InitSound == Init => IInv
<1> SUFFICES ASSUME Init PROVE IInv OBVIOUS
<1>1. TypeOK BY LifecycleAssumption DEF Init, TypeOK, Zero, Stages
<1>2. LockInv BY LifecycleAssumption DEF Init, LockInv, Serving, Leaving
<1>3. TimerInv /\ IdleInv /\ GraceInv /\ HandOver
  BY DEF Init, TimerInv, IdleInv, GraceInv, HandOver, Serving
<1>4. QED BY <1>1, <1>2, <1>3 DEF IInv

\* What a shutdown still takes is a number of ticks.
LEMMA RemainingType ==
  ASSUME TypeOK, NEW s \in Servers
  PROVE  Remaining(s) \in Nat
BY LifecycleAssumption DEF TypeOK, Remaining

\* Steps that concern neither lock, stage, timer nor end of input keep the
\* invariant if they keep the types and the idle timer's part.
LEMMA Aside ==
  ASSUME IInv, TypeOK', IdleInv', UNCHANGED <<lock, srv, timer, input, contested>>
  PROVE  IInv'
<1>1. LockInv' /\ TimerInv' BY DEF IInv, LockInv, TimerInv
<1>2. GraceInv' BY DEF IInv, GraceInv, Waiting, InService, Remaining
<1>3. HandOver' BY DEF IInv, HandOver
<1>4. QED BY <1>1, <1>2, <1>3 DEF IInv

\* What a client, the link and a handler do keeps the invariant.
LEMMA OutsideKeeps ==
  ASSUME IInv, NEW s \in Servers,
         Arrive(s) \/ ClientReads(s) \/ LinkDies(s) \/ WorkDone(s) \/ Reply(s)
  PROVE  IInv'
<1> USE LifecycleAssumption DEF IInv, TypeOK, loopVars, clientVars, histVars
<1>1. CASE Arrive(s)
  <2>1. TypeOK' BY <1>1 DEF Arrive, Serving, Leaving
  <2>2. IdleInv' BY <1>1 DEF IdleInv, Arrive, Serving, Leaving
  <2>3. QED BY <1>1, <2>1, <2>2, Aside DEF Arrive
<1>2. CASE ClientReads(s)
  <2>1. TypeOK' BY <1>2 DEF ClientReads
  <2>2. IdleInv' BY <1>2 DEF IdleInv, ClientReads
  <2>3. QED BY <1>2, <2>1, <2>2, Aside DEF ClientReads
<1>3. CASE LinkDies(s)
  <2>1. TypeOK' BY <1>3 DEF LinkDies
  <2>2. IdleInv' BY <1>3 DEF IdleInv, LinkDies
  <2>3. QED BY <1>3, <2>1, <2>2, Aside DEF LinkDies
<1>4. CASE WorkDone(s)
  <2>1. TypeOK' BY <1>4 DEF WorkDone
  <2>2. IdleInv' BY <1>4 DEF IdleInv, WorkDone
  <2>3. QED BY <1>4, <2>1, <2>2, Aside DEF WorkDone
<1>5. CASE Reply(s)
  <2>1. TypeOK' BY <1>5 DEF Reply, WriteReply
  <2>2. IdleInv' BY <1>5 DEF IdleInv, Reply, WriteReply
  <2>3. QED BY <1>5, <2>1, <2>2, Aside DEF Reply
<1>6. QED BY <1>1, <1>2, <1>3, <1>4, <1>5

\* A start, and the end of a client's input, keep the invariant.
LEMMA StartKeeps ==
  ASSUME IInv, NEW s \in Servers,
         Connect(s) \/ TakeLock(s) \/ Refuse(s) \/ InputEnds(s)
  PROVE  IInv'
<1> USE LifecycleAssumption DEF IInv, loopVars, clientVars, histVars, Serving, Leaving
<1>1. CASE Connect(s)
  <2>1. contested' \subseteq Servers BY <1>1 DEF TypeOK, Connect, Waiting
  <2>2. TypeOK' BY <1>1, <2>1 DEF TypeOK, Stages, Connect, Enter
  <2>3. LockInv' /\ TimerInv' /\ IdleInv'
    BY <1>1 DEF TypeOK, LockInv, TimerInv, IdleInv, Connect, Enter
  <2>4. ASSUME NEW r \in Servers, srv'[r] = "locking", r \notin contested'
        PROVE  Waiting' = {r} /\ (lock' # None => ~InService(lock)' /\ timer'[r] > Remaining(lock)')
    <3>1. Waiting' = Waiting \cup {s} BY <1>1 DEF TypeOK, Connect, Enter, Waiting
    <3>2. Waiting = {} /\ ~\E u \in Servers : InService(u)
      BY <1>1, <2>4, <3>1 DEF Connect, Waiting
    <3>3. r = s BY <2>4, <3>1, <3>2 DEF Waiting
    <3>4. CASE lock # None
      <4>1. lock \in Servers /\ lock # s /\ lock' = lock
        BY <1>1, <3>4 DEF TypeOK, LockInv, Connect
      <4>2. srv[lock] \in Serving \cup Leaving BY <4>1 DEF LockInv
      <4>3. Remaining(lock) <= ShutdownDrain + 2 * AbortGrace
        BY <4>1, <4>2 DEF Remaining, TypeOK, TimerInv
      <4>4. Remaining(lock)' = Remaining(lock) /\ ~InService(lock)'
        BY <1>1, <3>2, <4>1 DEF Remaining, InService, Connect, Enter, TypeOK
      <4>5. timer'[s] = LockGrace BY <1>1 DEF Connect, Enter, TypeOK
      <4>6. QED BY <3>1, <3>2, <3>3, <4>1, <4>3, <4>4, <4>5, RemainingType
    <3>5. CASE lock = None BY <1>1, <3>1, <3>2, <3>3, <3>5 DEF Connect
    <3>6. QED BY <3>4, <3>5
  <2>5. GraceInv' BY <2>4 DEF GraceInv
  <2>6. HandOver' BY <1>1 DEF TypeOK, HandOver, Connect, Enter
  <2>7. QED BY <2>2, <2>3, <2>5, <2>6
<1>2. CASE TakeLock(s)
  <2>1. TypeOK' BY <1>2 DEF TypeOK, Stages, TakeLock, Enter
  <2>2. LockInv' /\ TimerInv' /\ IdleInv'
    BY <1>2 DEF TypeOK, LockInv, TimerInv, IdleInv, TakeLock, Enter
  <2>3. GraceInv'
    BY <1>2 DEF TypeOK, LockInv, GraceInv, Waiting, InService, Remaining, TakeLock, Enter
  <2>4. HandOver' BY <1>2 DEF TypeOK, GraceInv, HandOver, TakeLock, Enter
  <2>5. QED BY <2>1, <2>2, <2>3, <2>4
<1>3. CASE Refuse(s)
  <2>1. TypeOK' BY <1>3 DEF TypeOK, Stages, Refuse, Enter
  <2>2. LockInv' /\ TimerInv' /\ IdleInv'
    BY <1>3 DEF TypeOK, LockInv, TimerInv, IdleInv, Refuse, Enter
  <2>3. GraceInv'
    BY <1>3 DEF TypeOK, LockInv, GraceInv, Waiting, InService, Remaining, Refuse, Enter
  <2>4. s \in contested
    <3>1. lock \in Servers /\ timer[s] = 0 /\ srv[s] = "locking" BY <1>3 DEF Refuse, TypeOK
    <3>2. ~(timer[s] > Remaining(lock)) BY <3>1, RemainingType
    <3>3. QED BY <3>1, <3>2 DEF GraceInv
  <2>5. HandOver' BY <1>3, <2>4 DEF TypeOK, HandOver, Refuse, Enter
  <2>6. QED BY <2>1, <2>2, <2>3, <2>5
<1>4. CASE InputEnds(s)
  <2>1. TypeOK' BY <1>4 DEF TypeOK, Stages, InputEnds
  <2>2. LockInv' /\ TimerInv' /\ IdleInv'
    BY <1>4 DEF TypeOK, LockInv, TimerInv, IdleInv, InputEnds
  <2>3. GraceInv'
    BY <1>4 DEF TypeOK, LockInv, GraceInv, Waiting, InService, Remaining, InputEnds
  <2>4. HandOver' BY <1>4 DEF TypeOK, GraceInv, HandOver, InputEnds
  <2>5. QED BY <2>1, <2>2, <2>3, <2>4
<1>5. QED BY <1>1, <1>2, <1>3, <1>4

\* The loop of Server::run keeps the invariant.
LEMMA LoopKeeps ==
  ASSUME IInv, NEW s \in Servers,
         TakeLine(s) \/ TakeBadLine(s) \/ AnswerBadLine(s) \/ Collect(s)
  PROVE  IInv'
<1> USE LifecycleAssumption DEF IInv, loopVars, clientVars, histVars, Serving, Leaving
<1>1. CASE TakeLine(s)
  <2>1. TypeOK' BY <1>1 DEF TypeOK, Stages, TakeLine, Touch
  <2>2. LockInv' /\ TimerInv' /\ IdleInv'
    BY <1>1 DEF TypeOK, LockInv, TimerInv, IdleInv, TakeLine, Touch
  <2>3. GraceInv'
    BY <1>1 DEF TypeOK, LockInv, GraceInv, Waiting, InService, Remaining, TakeLine, Touch
  <2>4. HandOver' BY <1>1 DEF TypeOK, GraceInv, HandOver, TakeLine, Touch
  <2>5. QED BY <2>1, <2>2, <2>3, <2>4
<1>2. CASE TakeBadLine(s)
  <2>1. TypeOK' BY <1>2 DEF TypeOK, Stages, TakeBadLine, Enter
  <2>2. LockInv' /\ TimerInv' /\ IdleInv'
    BY <1>2 DEF TypeOK, LockInv, TimerInv, IdleInv, TakeBadLine, Enter
  <2>3. GraceInv'
    BY <1>2 DEF TypeOK, LockInv, GraceInv, Waiting, InService, Remaining, TakeBadLine, Enter
  <2>4. HandOver' BY <1>2 DEF TypeOK, GraceInv, HandOver, TakeBadLine, Enter
  <2>5. QED BY <2>1, <2>2, <2>3, <2>4
<1>3. CASE AnswerBadLine(s)
  <2>1. TypeOK' BY <1>3 DEF TypeOK, Stages, AnswerBadLine, WriteReply
  <2>2. LockInv' /\ TimerInv' /\ IdleInv'
    BY <1>3 DEF TypeOK, LockInv, TimerInv, IdleInv, AnswerBadLine, WriteReply
  <2>3. GraceInv'
    BY <1>3 DEF TypeOK, LockInv, GraceInv, Waiting, InService, Remaining, AnswerBadLine, WriteReply
  <2>4. HandOver' BY <1>3 DEF TypeOK, GraceInv, HandOver, AnswerBadLine, WriteReply
  <2>5. QED BY <2>1, <2>2, <2>3, <2>4
<1>4. CASE Collect(s)
  <2>1. TypeOK' BY <1>4 DEF TypeOK, Stages, Collect, CollectTouches, Touch, Collectable
  <2>2. LockInv' /\ TimerInv' /\ IdleInv'
    BY <1>4 DEF TypeOK, LockInv, TimerInv, IdleInv, Collect, CollectTouches, Touch, Collectable
  <2>3. GraceInv'
    BY <1>4 DEF TypeOK, LockInv, GraceInv, Waiting, InService, Remaining, Collect, CollectTouches, Touch, Collectable
  <2>4. HandOver' BY <1>4 DEF TypeOK, GraceInv, HandOver, Collect, CollectTouches, Touch, Collectable
  <2>5. QED BY <2>1, <2>2, <2>3, <2>4
<1>5. QED BY <1>1, <1>2, <1>3, <1>4

\* What ends the loop, and the shutdown, keep the invariant.
LEMMA StopKeeps ==
  ASSUME IInv, NEW s \in Servers,
         IdleFires(s) \/ EofSeen(s) \/ DrainEnds(s) \/ AbortEnds(s) \/ ExitProcess(s)
  PROVE  IInv'
<1> USE LifecycleAssumption DEF IInv, loopVars, clientVars, histVars, Serving, Leaving
<1>1. CASE IdleFires(s)
  <2>1. TypeOK'
    <3>1. CASE Empty(s) BY <1>1, <3>1 DEF TypeOK, Stages, IdleFires, Enter
    <3>2. CASE ~Empty(s) BY <1>1, <3>2 DEF TypeOK, Stages, IdleFires, Touch
    <3>3. QED BY <3>1, <3>2
  <2>2. LockInv' /\ TimerInv' /\ IdleInv'
    BY <1>1 DEF TypeOK, LockInv, TimerInv, IdleInv, IdleFires, Enter, Touch, Empty
  <2>3. GraceInv'
    BY <1>1 DEF TypeOK, LockInv, GraceInv, Waiting, InService, Remaining, IdleFires, Enter, Touch, Empty
  <2>4. HandOver' BY <1>1 DEF TypeOK, GraceInv, HandOver, IdleFires, Enter, Touch, Empty
  <2>5. QED BY <2>1, <2>2, <2>3, <2>4
<1>2. CASE EofSeen(s)
  <2>1. TypeOK' BY <1>2 DEF TypeOK, Stages, EofSeen, Enter
  <2>2. LockInv' /\ TimerInv' /\ IdleInv'
    BY <1>2 DEF TypeOK, LockInv, TimerInv, IdleInv, EofSeen, Enter
  <2>3. GraceInv'
    BY <1>2 DEF TypeOK, LockInv, GraceInv, Waiting, InService, Remaining, EofSeen, Enter
  <2>4. HandOver' BY <1>2 DEF TypeOK, GraceInv, HandOver, EofSeen, Enter
  <2>5. QED BY <2>1, <2>2, <2>3, <2>4
<1>3. CASE DrainEnds(s)
  <2>1. TypeOK' BY <1>3 DEF TypeOK, Stages, DrainEnds, Enter, DrainOver
  <2>2. LockInv' /\ TimerInv' /\ IdleInv'
    BY <1>3 DEF TypeOK, LockInv, TimerInv, IdleInv, DrainEnds, Enter, DrainOver
  <2>3. GraceInv'
    BY <1>3 DEF TypeOK, LockInv, GraceInv, Waiting, InService, Remaining, DrainEnds, Enter, DrainOver
  <2>4. HandOver' BY <1>3 DEF TypeOK, GraceInv, HandOver, DrainEnds, Enter, DrainOver
  <2>5. QED BY <2>1, <2>2, <2>3, <2>4
<1>4. CASE AbortEnds(s)
  <2>1. TypeOK' BY <1>4 DEF TypeOK, Stages, AbortEnds, Enter
  <2>2. LockInv' /\ TimerInv' /\ IdleInv'
    BY <1>4 DEF TypeOK, LockInv, TimerInv, IdleInv, AbortEnds, Enter
  <2>3. GraceInv'
    BY <1>4 DEF TypeOK, LockInv, GraceInv, Waiting, InService, Remaining, AbortEnds, Enter
  <2>4. HandOver' BY <1>4 DEF TypeOK, GraceInv, HandOver, AbortEnds, Enter
  <2>5. QED BY <2>1, <2>2, <2>3, <2>4
<1>5. CASE ExitProcess(s)
  <2>1. TypeOK' BY <1>5 DEF TypeOK, Stages, ExitProcess, Enter
  <2>2. LockInv' /\ TimerInv' /\ IdleInv'
    BY <1>5 DEF TypeOK, LockInv, TimerInv, IdleInv, ExitProcess, Enter
  <2>3. GraceInv'
    BY <1>5 DEF TypeOK, LockInv, GraceInv, Waiting, InService, Remaining, ExitProcess, Enter
  <2>4. HandOver' BY <1>5 DEF TypeOK, GraceInv, HandOver, ExitProcess, Enter
  <2>5. QED BY <2>1, <2>2, <2>3, <2>4
<1>6. QED BY <1>1, <1>2, <1>3, <1>4, <1>5

\* Time keeps the invariant: whoever is waited for uses up its own time too.
LEMMA TickKeeps == ASSUME IInv, Tick PROVE IInv'
<1> USE LifecycleAssumption DEF IInv
<1>1. TypeOK' BY DEF TypeOK, Tick, Less, loopVars, clientVars
<1>2. LockInv' /\ TimerInv' /\ HandOver'
  BY DEF TypeOK, LockInv, TimerInv, HandOver, Tick, Less
<1>3. ASSUME NEW s \in Servers, srv[s] = "locking", s \notin contested, lock # None
      PROVE  timer'[s] > Remaining(lock)'
  <2>1. lock \in Servers /\ ~InService(lock) /\ timer[s] > Remaining(lock)
    BY <1>3 DEF GraceInv, TypeOK
  <2>2. srv[lock] \in Serving \cup Leaving BY <2>1 DEF LockInv
  <2>3. srv[lock] \in Leaving /\ timer[lock] > 0
    BY <2>1, <2>2
       DEF Tick, Pressing, InService, Writable, DrainOver, TypeOK, Serving, Leaving
  <2>4. timer'[lock] = timer[lock] - 1 /\ lock' = lock /\ srv' = srv
    BY <2>1, <2>3 DEF Tick, Less, TypeOK
  <2>5. timer'[s] = timer[s] - 1
    BY <2>1, RemainingType DEF Tick, Less, TypeOK
  <2>6. QED BY <2>1, <2>3, <2>4, <2>5 DEF Remaining, Leaving, TypeOK
<1>4. GraceInv' BY <1>3 DEF GraceInv, Tick, Waiting, InService, clientVars
<1>5. IdleInv' BY DEF TypeOK, IdleInv, Tick, Less, loopVars
<1>6. QED BY <1>1, <1>2, <1>4, <1>5

\* Every step keeps the invariant.
LEMMA NextKeeps == IInv /\ [Next]_vars => IInv'
<1> SUFFICES ASSUME IInv, [Next]_vars PROVE IInv' OBVIOUS
<1>1. CASE UNCHANGED vars
  <2>1. TypeOK' BY <1>1 DEF IInv, TypeOK, vars, loopVars, clientVars, histVars
  <2>2. IdleInv' BY <1>1 DEF IInv, IdleInv, vars, loopVars, histVars
  <2>3. QED BY <1>1, <2>1, <2>2, Aside DEF vars, clientVars, histVars
<1>2. CASE Tick BY <1>2, TickKeeps
<1>3. ASSUME NEW s \in Servers,
             Client(s) \/ ClientReads(s) \/ WorkDone(s) \/ Reply(s) \/ Loop(s)
      PROVE  IInv'
  BY <1>3, OutsideKeeps, StartKeeps, LoopKeeps, StopKeeps DEF Client, Loop
<1>4. QED BY <1>1, <1>2, <1>3 DEF Next

\* The invariant holds of every behaviour.
THEOREM LifecycleInductive == Spec => []IInv
<1>1. QED BY InitSound, NextKeeps, PTL DEF Spec

\* A client that connects again after closing its connection is let in, for
\* any number of servers (SHUTDOWN_DRAIN, ABORT_GRACE, acquire_dir_lock).
THEOREM HandOverHolds == Spec => []HandOver
<1>1. IInv => HandOver BY DEF IInv
<1>2. QED BY <1>1, LifecycleInductive, PTL

\* The idle timeout ends a server only when nothing runs and nothing happened
\* for that long (idle_since of Server::run).
THEOREM IdleIsIdleHolds == Spec => IdleIsIdle
<1> DEFINE Idle == \A s \in Servers :
      srv[s] = "serving" /\ srv'[s] = "drain" /\ input[s] = "open" =>
        running[s] + replying[s] + lines[s] = 0 /\ quiet[s] >= IdleTimeout
<1>1. IInv /\ [Next]_vars => [Idle]_vars
  <2> SUFFICES ASSUME IInv, Next, NEW s \in Servers,
                      srv[s] = "serving", srv'[s] = "drain", input[s] = "open"
               PROVE  running[s] + replying[s] + lines[s] = 0 /\ quiet[s] >= IdleTimeout
    BY DEF vars
  <2> USE DEF loopVars, clientVars, histVars
  <2>1. PICK r \in Servers :
          Client(r) \/ ClientReads(r) \/ WorkDone(r) \/ Reply(r) \/ Loop(r)
    BY DEF Next, Tick
  <2>2. Loop(r)
    BY <2>1
       DEF Client, Connect, Enter, Arrive, InputEnds, LinkDies, ClientReads, WorkDone,
           Reply, IInv, TypeOK
  <2>3. IdleFires(s)
    BY <2>2
       DEF Loop, TakeLock, Refuse, TakeLine, TakeBadLine, AnswerBadLine, Collect,
           IdleFires, EofSeen, DrainEnds, AbortEnds, ExitProcess, Enter, IInv, TypeOK
  <2>4. Empty(s) /\ lines[s] = 0 /\ timer[s] = 0
    BY <2>3 DEF IdleFires
  <2>5. running[s] = 0 /\ replying[s] = 0 /\ finished[s] = 0
    BY <2>4 DEF Empty, IInv, TypeOK
  <2>6. QED BY <2>4, <2>5 DEF IInv, IdleInv, TypeOK, Serving
<1>2. QED BY <1>1, LifecycleInductive, PTL DEF Spec, IdleIsIdle
=============================================================================
