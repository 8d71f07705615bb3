--------------------------- MODULE ServerLifecycle ---------------------------
(***************************************************************************)
(* Servers of one workspace from start to exit: the wait for the state      *)
(* directory's lock (acquire_dir_lock in store.rs), the loop of Server::run *)
(* with its idle timeout, and the bounded shutdown (server.rs), for clients *)
(* that close their end, connect again, or vanish without a trace.          *)
(*                                                                         *)
(* Time is counted in ticks.  What a task can do at once it does before the *)
(* next tick; how long a request runs is open.  Requests are counted, not   *)
(* told apart.  Loading and recovery are part of taking the lock.           *)
(***************************************************************************)
EXTENDS Naturals

CONSTANTS
  Servers,       \* server processes, each started once
  None,          \* nobody
  IdleTimeout,   \* --idle-timeout-secs
  ShutdownDrain, \* SHUTDOWN_DRAIN
  AbortGrace,    \* ABORT_GRACE
  LockGrace,     \* how long a start waits for the lock
  Room,          \* replies the pipe to a client takes without its reading
  MaxRequests    \* bound: lines a client sends

\* The values in the code, in ticks of half a second: 1800, 4, 1, 10.
ASSUME LifecycleAssumption ==
  /\ None \notin Servers
  /\ IdleTimeout \in Nat \ {0} /\ ShutdownDrain \in Nat /\ AbortGrace \in Nat
  /\ LockGrace \in Nat /\ ShutdownDrain + 2 * AbortGrace < LockGrace
  /\ Room \in Nat \ {0} /\ MaxRequests \in Nat

VARIABLES
  lock,       \* holder of the state directory's lock
  srv,        \* stage of each server
  timer,      \* ticks until its stage's deadline
  input,      \* its stdin: open, or at its end
  link,       \* the connection behind it
  lines,      \* lines read and not taken, one at most
  running,    \* requests being worked on
  replying,   \* handlers that write their reply
  finished,   \* handlers not collected from the JoinSet
  room,       \* replies its stdout still takes
  sent,       \* lines its client sent
  quiet,      \* history: ticks since a line arrived or a handler wrote its reply
  contested   \* history: servers that met one in service, or a rival

loopVars == <<lines, running, replying, finished, room>>
clientVars == <<input, link, sent>>
histVars == <<quiet, contested>>
vars == <<lock, srv, timer, loopVars, clientVars, histVars>>

Serving == {"serving", "answering"}
Leaving == {"drain", "abort", "unread"}
Stages == {"off", "locking", "exited", "refused"} \cup Serving \cup Leaving

TypeOK ==
  /\ lock \in Servers \cup {None} /\ srv \in [Servers -> Stages]
  /\ timer \in [Servers -> Nat] /\ input \in [Servers -> {"open", "eof"}]
  /\ link \in [Servers -> {"up", "dead"}]
  /\ lines \in [Servers -> 0 .. 1] /\ running \in [Servers -> Nat]
  /\ replying \in [Servers -> Nat] /\ finished \in [Servers -> Nat]
  /\ room \in [Servers -> 0 .. Room] /\ sent \in [Servers -> Nat]
  /\ quiet \in [Servers -> Nat] /\ contested \subseteq Servers

Zero == [s \in Servers |-> 0]

Init ==
  /\ lock = None /\ srv = [s \in Servers |-> "off"] /\ timer = Zero
  /\ input = [s \in Servers |-> "open"] /\ link = [s \in Servers |-> "up"]
  /\ lines = Zero /\ running = Zero /\ replying = Zero /\ finished = Zero
  /\ room = [s \in Servers |-> Room] /\ sent = Zero /\ quiet = Zero /\ contested = {}

-----------------------------------------------------------------------------
(***************************************************************************)
(* The start.                                                               *)
(***************************************************************************)
Waiting == {s \in Servers : srv[s] = "locking"}

InService(s) == lock = s /\ srv[s] \in Serving /\ input[s] = "open"

Enter(s, stage, ticks) ==
  srv' = [srv EXCEPT ![s] = stage] /\ timer' = [timer EXCEPT ![s] = ticks]

Connect(s) ==
  /\ srv[s] = "off"
  /\ Enter(s, "locking", LockGrace)
  /\ contested' = IF Waiting # {} \/ \E t \in Servers : InService(t)
                  THEN contested \cup Waiting \cup {s} ELSE contested
  /\ UNCHANGED <<lock, loopVars, clientVars, quiet>>

TakeLock(s) ==
  /\ srv[s] = "locking" /\ lock = None
  /\ lock' = s /\ Enter(s, "serving", IdleTimeout)
  /\ quiet' = [quiet EXCEPT ![s] = 0]
  /\ UNCHANGED <<loopVars, clientVars, contested>>

Refuse(s) ==
  /\ srv[s] = "locking" /\ timer[s] = 0 /\ lock # None
  /\ Enter(s, "refused", 0)
  /\ UNCHANGED <<lock, loopVars, clientVars, histVars>>
-----------------------------------------------------------------------------
(***************************************************************************)
(* The client, and the ssh session between.                                 *)
(***************************************************************************)
Arrive(s) ==
  /\ srv[s] \in Serving /\ link[s] = "up" /\ input[s] = "open" /\ lines[s] = 0
  /\ sent[s] < MaxRequests
  /\ sent' = [sent EXCEPT ![s] = @ + 1] /\ lines' = [lines EXCEPT ![s] = 1]
  /\ quiet' = [quiet EXCEPT ![s] = 0]
  /\ UNCHANGED <<lock, srv, timer, running, replying, finished, room, input, link,
                 contested>>

ClientReads(s) ==
  /\ link[s] = "up" /\ room[s] < Room
  /\ room' = [room EXCEPT ![s] = @ + 1]
  /\ UNCHANGED <<lock, srv, timer, lines, running, replying, finished, clientVars,
                 histVars>>

\* The client closes its end, or its end is found to be gone.
InputEnds(s) ==
  /\ srv[s] # "off" /\ input[s] = "open"
  /\ input' = [input EXCEPT ![s] = "eof"]
  /\ UNCHANGED <<lock, srv, timer, loopVars, link, sent, histVars>>

LinkDies(s) ==
  /\ srv[s] # "off" /\ link[s] = "up"
  /\ link' = [link EXCEPT ![s] = "dead"]
  /\ UNCHANGED <<lock, srv, timer, loopVars, input, sent, histVars>>
-----------------------------------------------------------------------------
(***************************************************************************)
(* Handlers, and write_line.                                                *)
(***************************************************************************)
\* A client that closed its end still reads, and writing to one that is gone
\* fails, which write_line ignores.
Writable(s) == room[s] > 0 \/ input[s] = "eof"

WriteReply(s) == room' = [room EXCEPT ![s] = IF @ > 0 THEN @ - 1 ELSE 0]

WorkDone(s) ==
  /\ running[s] > 0
  /\ running' = [running EXCEPT ![s] = @ - 1]
  /\ replying' = [replying EXCEPT ![s] = @ + 1]
  /\ UNCHANGED <<lock, srv, timer, lines, finished, room, clientVars, histVars>>

Reply(s) ==
  /\ replying[s] > 0 /\ Writable(s)
  /\ WriteReply(s)
  /\ replying' = [replying EXCEPT ![s] = @ - 1]
  /\ finished' = [finished EXCEPT ![s] = @ + 1]
  /\ quiet' = [quiet EXCEPT ![s] = 0]
  /\ UNCHANGED <<lock, srv, timer, lines, running, clientVars, contested>>
-----------------------------------------------------------------------------
(***************************************************************************)
(* The loop of Server::run; its select is biased to lines, then handlers.   *)
(***************************************************************************)
\* idle_since = now
Touch(s) == timer' = [timer EXCEPT ![s] = IdleTimeout]

\* A request gets a handler, on the way finished ones are reaped; a blank line
\* is passed over.
TakeLine(s) ==
  /\ srv[s] = "serving" /\ lines[s] > 0
  /\ lines' = [lines EXCEPT ![s] = 0] /\ Touch(s)
  /\ \/ running' = [running EXCEPT ![s] = @ + 1] /\ finished' = [finished EXCEPT ![s] = 0]
     \/ UNCHANGED <<running, finished>>
  /\ UNCHANGED <<lock, srv, replying, room, clientVars, histVars>>

\* An unreadable request is answered by the loop itself.
TakeBadLine(s) ==
  /\ srv[s] = "serving" /\ lines[s] > 0
  /\ lines' = [lines EXCEPT ![s] = 0] /\ Enter(s, "answering", IdleTimeout)
  /\ UNCHANGED <<lock, running, replying, finished, room, clientVars, histVars>>

\* idle_since stays that of the line.
AnswerBadLine(s) ==
  /\ srv[s] = "answering" /\ Writable(s)
  /\ WriteReply(s)
  /\ srv' = [srv EXCEPT ![s] = "serving"]
  /\ UNCHANGED <<lock, timer, lines, running, replying, finished, clientVars, histVars>>

\* Faulty variant: finished handlers are left in the set.
NeverCollected(s) == FALSE

\* join_next, armed while the set is not empty.
Collectable(s) == finished[s] > 0

\* Faulty variant: idleness is counted from the last line alone.
KeepTimer(s) == UNCHANGED timer

\* A handler that finished counts as something that happened.
CollectTouches(s) == Touch(s)

Collect(s) ==
  /\ srv[s] = "serving" /\ lines[s] = 0 /\ input[s] = "open" /\ Collectable(s)
  /\ finished' = [finished EXCEPT ![s] = @ - 1] /\ CollectTouches(s)
  /\ UNCHANGED <<lock, srv, lines, running, replying, room, clientVars, histVars>>

\* handlers.is_empty(); finished ones count until they are collected.
Empty(s) == running[s] + replying[s] + finished[s] = 0

IdleFires(s) ==
  /\ srv[s] = "serving" /\ lines[s] = 0 /\ input[s] = "open" /\ ~Collectable(s)
  /\ timer[s] = 0
  /\ IF Empty(s) THEN Enter(s, "drain", ShutdownDrain) ELSE Touch(s) /\ UNCHANGED srv
  /\ UNCHANGED <<lock, loopVars, clientVars, histVars>>

EofSeen(s) ==
  /\ srv[s] = "serving" /\ lines[s] = 0 /\ input[s] = "eof"
  /\ Enter(s, "drain", ShutdownDrain)
  /\ UNCHANGED <<lock, loopVars, clientVars, histVars>>
-----------------------------------------------------------------------------
(***************************************************************************)
(* Shutdown.                                                                *)
(***************************************************************************)
\* Faulty variant: the drain waits for every handler.
DrainWaits(s) == running[s] + replying[s] = 0

\* All handlers done, or the time is up.
DrainOver(s) == running[s] + replying[s] = 0 \/ timer[s] = 0

\* abort_all, then a wait for what does not stop at once.
DrainEnds(s) ==
  /\ srv[s] = "drain" /\ DrainOver(s)
  /\ Enter(s, "abort", AbortGrace)
  /\ UNCHANGED <<lock, loopVars, clientVars, histVars>>

\* Handlers that were cut off write no reply.
AbortEnds(s) ==
  /\ srv[s] = "abort"
  /\ \/ running' = [running EXCEPT ![s] = 0] /\ replying' = [replying EXCEPT ![s] = 0]
     \/ timer[s] = 0 /\ UNCHANGED <<running, replying>>
  /\ Enter(s, "unread", AbortGrace)
  /\ UNCHANGED <<lock, lines, finished, room, clientVars, histVars>>

\* The reader has stopped, or its time is up; exit takes everything along.
ExitProcess(s) ==
  /\ srv[s] = "unread"
  /\ Enter(s, "exited", 0)
  /\ lock' = None
  /\ running' = [running EXCEPT ![s] = 0] /\ replying' = [replying EXCEPT ![s] = 0]
  /\ finished' = [finished EXCEPT ![s] = 0] /\ lines' = [lines EXCEPT ![s] = 0]
  /\ UNCHANGED <<room, clientVars, histVars>>
-----------------------------------------------------------------------------
(***************************************************************************)
(* Time.                                                                    *)
(***************************************************************************)
\* Something a task of s does before time goes on.
Pressing(s) ==
  \/ srv[s] = "locking" /\ (lock = None \/ timer[s] = 0)
  \/ srv[s] = "serving" /\ (lines[s] > 0 \/ input[s] = "eof" \/ timer[s] = 0 \/ Collectable(s))
  \/ srv[s] = "answering" /\ Writable(s)
  \/ srv[s] \in Serving \cup Leaving /\ replying[s] > 0 /\ Writable(s)
  \/ srv[s] = "drain" /\ DrainOver(s)
  \/ srv[s] \in {"abort", "unread"} /\ timer[s] = 0

Less(n) == IF n > 0 THEN n - 1 ELSE 0

Tick ==
  /\ \A s \in Servers : ~Pressing(s)
  /\ \E s \in Servers : srv[s] \in {"locking"} \cup Serving \cup Leaving
  /\ timer' = [s \in Servers |-> Less(timer[s])]
  /\ quiet' = [s \in Servers |-> IF quiet[s] < IdleTimeout THEN quiet[s] + 1 ELSE quiet[s]]
  /\ UNCHANGED <<lock, srv, loopVars, clientVars, contested>>

Client(s) == Connect(s) \/ Arrive(s) \/ InputEnds(s) \/ LinkDies(s)

Loop(s) ==
  \/ TakeLock(s) \/ Refuse(s)
  \/ TakeLine(s) \/ TakeBadLine(s) \/ AnswerBadLine(s) \/ Collect(s) \/ IdleFires(s)
  \/ EofSeen(s) \/ DrainEnds(s) \/ AbortEnds(s) \/ ExitProcess(s)

Next ==
  \/ \E s \in Servers : Client(s) \/ ClientReads(s) \/ WorkDone(s) \/ Reply(s) \/ Loop(s)
  \/ Tick

Spec == Init /\ [][Next]_vars

\* tokio runs what can run, time passes, and requests end: commands have their
\* timeouts (Returns of ExecRun), the rest is bounded work.
FairSpec ==
  /\ Spec
  /\ WF_vars(Tick)
  /\ \A s \in Servers : WF_vars(Loop(s)) /\ WF_vars(WorkDone(s)) /\ WF_vars(Reply(s))
-----------------------------------------------------------------------------
(***************************************************************************)
(* Properties.                                                              *)
(***************************************************************************)
\* A client that connects again after closing its connection is let in: only
\* a server that met one in service, or a rival, is refused (SHUTDOWN_DRAIN and
\* ABORT_GRACE against the grace of acquire_dir_lock).
HandOver == \A s \in Servers : srv[s] = "refused" => s \in contested

\* The idle timeout ends a server only when nothing runs and nothing happened
\* for that long: not right after a reply its client just got (idle_since).
IdleIsIdle ==
  [][\A s \in Servers :
       srv[s] = "serving" /\ srv'[s] = "drain" /\ input[s] = "open" =>
         running[s] + replying[s] + lines[s] = 0 /\ quiet[s] >= IdleTimeout]_vars

\* A reply waits for a client that does not read, and nobody has told the server
\* that it is gone: write_line has no time limit (server.rs:942).
ReplyBlocked(s) ==
  /\ input[s] = "open" /\ room[s] = 0
  /\ replying[s] > 0 \/ srv[s] = "answering"

\* A server whose link died lets go of the workspace by itself, by the idle
\* timeout, unless a reply of it fills the pipe; and as soon as its input ends
\* the shutdown frees the lock whatever is blocked (Server::run).
DeadLinkFrees ==
  \A s \in Servers :
    lock = s /\ (link[s] = "dead" \/ input[s] = "eof") ~>
      lock # s \/ (link[s] = "dead" /\ ReplyBlocked(s))
-----------------------------------------------------------------------------
(***************************************************************************)
(* The inductive invariant.                                                 *)
(***************************************************************************)
\* Whoever serves or is leaving holds the lock.
LockInv == \A s \in Servers : srv[s] \in Serving \cup Leaving <=> lock = s

\* No stage of a shutdown has more than its own time left.
TimerInv ==
  \A s \in Servers :
    /\ srv[s] = "drain" => timer[s] <= ShutdownDrain
    /\ srv[s] \in {"abort", "unread"} => timer[s] <= AbortGrace

\* The longest a leaving server can still take.
Remaining(s) ==
  CASE srv[s] = "drain"  -> timer[s] + 2 * AbortGrace
    [] srv[s] = "abort"  -> timer[s] + AbortGrace
    [] srv[s] = "unread" -> timer[s]
    [] OTHER             -> ShutdownDrain + 2 * AbortGrace

\* A waiting server nobody contests the lock with outlasts the one it waits for.
GraceInv ==
  \A s \in Servers :
    srv[s] = "locking" /\ s \notin contested =>
      /\ Waiting = {s}
      /\ lock # None => ~InService(lock) /\ timer[s] > Remaining(lock)

\* The idle timer never runs ahead of what has happened.
IdleInv ==
  \A s \in Servers :
    srv[s] \in Serving /\ lines[s] = 0 /\ finished[s] = 0 =>
      timer[s] + quiet[s] >= IdleTimeout

IInv == TypeOK /\ LockInv /\ TimerInv /\ IdleInv /\ GraceInv /\ HandOver
=============================================================================
