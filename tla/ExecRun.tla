------------------------------- MODULE ExecRun -------------------------------
(***************************************************************************)
(* One command run by the server (exec in exec.rs, ProcessGroup in          *)
(* process_group.rs, POSIX): the task that waits for the child, the two     *)
(* readers that move its output into a bounded channel, and the processes   *)
(* the command starts, which may outlive it, keep its pipes open, redirect  *)
(* their output or leave the process group.                                 *)
(*                                                                         *)
(* Output is counted in the pieces a reader reads at once.  A process that  *)
(* left the command's process group, by setsid or by setpgid as the jobs of *)
(* an interactive shell do, is in no group the server knows of, and none    *)
(* that left comes back.                                                    *)
(***************************************************************************)
EXTENDS Naturals

CONSTANTS
  Child,       \* the process the server spawns
  Kids,        \* processes it and its descendants may fork
  PipeCap,     \* pieces a pipe holds
  ChanCap,     \* capacity of the channel, both streams together
  MaxWrites    \* bound: pieces written to each stream

ASSUME ExecAssumption ==
  /\ Child \notin Kids
  /\ PipeCap \in Nat \ {0} /\ ChanCap \in Nat \ {0} /\ MaxWrites \in Nat

Procs == Kids \cup {Child}
Streams == {"stdout", "stderr"}

VARIABLES
  task,          \* where exec is
  termination,   \* how the child ended
  drainTimedOut, \* collection stopped before the pipes' end
  armed,         \* ProcessGroup::armed
  born,          \* processes that were started
  alive,         \* processes that run
  group,         \* processes of the process group the child leads
  holds,         \* processes with the write end of each stream's pipe
  pipe,          \* pieces in each pipe
  reader,        \* the reader task of each stream
  chan,          \* pieces of each stream in the channel
  written,       \* pieces written to each stream
  captured       \* pieces that reached OutputCapture

procVars == <<born, alive, group, holds>>
outVars == <<pipe, reader, chan, written, captured>>
taskVars == <<task, termination, drainTimedOut, armed>>
vars == <<taskVars, procVars, outVars>>

Tasks == {"spawn", "run", "reap", "drain", "done", "dropped", "failed"}

TypeOK ==
  /\ task \in Tasks /\ termination \in {"none", "exited", "timedOut"}
  /\ drainTimedOut \in BOOLEAN /\ armed \in BOOLEAN
  /\ born \subseteq Procs /\ alive \subseteq born /\ group \subseteq born
  /\ holds \in [Streams -> SUBSET Procs] /\ \A s \in Streams : holds[s] \subseteq born
  /\ pipe \in [Streams -> Nat] /\ chan \in [Streams -> Nat]
  /\ reader \in [Streams -> {"none", "reading", "sending", "ended"}]
  /\ written \in [Streams -> Nat] /\ captured \in [Streams -> Nat]

Init ==
  /\ task = "spawn" /\ termination = "none" /\ drainTimedOut = FALSE /\ armed = FALSE
  /\ born = {} /\ alive = {} /\ group = {}
  /\ holds = [s \in Streams |-> {}]
  /\ pipe = [s \in Streams |-> 0] /\ chan = [s \in Streams |-> 0]
  /\ reader = [s \in Streams |-> "none"]
  /\ written = [s \in Streams |-> 0] /\ captured = [s \in Streams |-> 0]

\* exec still has the receiving half of the channel.
Receiving == task \in {"run", "reap", "drain"}
Returned == task \in {"done", "dropped", "failed"}
Holders(s) == holds[s] \cap alive
-----------------------------------------------------------------------------
(***************************************************************************)
(* The processes.                                                           *)
(***************************************************************************)
Write(p, s) ==
  /\ p \in Holders(s) /\ pipe[s] < PipeCap /\ written[s] < MaxWrites
  /\ pipe' = [pipe EXCEPT ![s] = @ + 1]
  /\ written' = [written EXCEPT ![s] = @ + 1]
  /\ UNCHANGED <<taskVars, procVars, reader, chan, captured>>

\* A fork has its parent's pipes and process group.
Fork(p, k) ==
  /\ p \in alive /\ k \in Kids \ born
  /\ born' = born \cup {k} /\ alive' = alive \cup {k}
  /\ group' = IF p \in group THEN group \cup {k} ELSE group
  /\ holds' = [s \in Streams |-> IF p \in holds[s] THEN holds[s] \cup {k} ELSE holds[s]]
  /\ UNCHANGED <<taskVars, outVars>>

\* setsid or setpgid, neither of which moves the leader of the session.
LeaveGroup(k) ==
  /\ k \in alive \cap Kids \cap group
  /\ group' = group \ {k}
  /\ UNCHANGED <<taskVars, born, alive, holds, outVars>>

Redirect(p, s) ==
  /\ p \in Holders(s)
  /\ holds' = [holds EXCEPT ![s] = @ \ {p}]
  /\ UNCHANGED <<taskVars, born, alive, group, outVars>>

Exit(p) ==
  /\ p \in alive
  /\ alive' = alive \ {p}
  /\ UNCHANGED <<taskVars, born, group, holds, outVars>>
-----------------------------------------------------------------------------
(***************************************************************************)
(* The readers (spawn_reader).                                              *)
(***************************************************************************)
ReaderReads(s) ==
  /\ reader[s] = "reading" /\ pipe[s] > 0
  /\ pipe' = [pipe EXCEPT ![s] = @ - 1]
  /\ reader' = [reader EXCEPT ![s] = "sending"]
  /\ UNCHANGED <<taskVars, procVars, chan, written, captured>>

ReaderSends(s) ==
  /\ reader[s] = "sending" /\ Receiving
  /\ chan["stdout"] + chan["stderr"] < ChanCap
  /\ chan' = [chan EXCEPT ![s] = @ + 1]
  /\ reader' = [reader EXCEPT ![s] = "reading"]
  /\ UNCHANGED <<taskVars, procVars, pipe, written, captured>>

\* End of file: nothing left to read and nobody left who could write.
PipeEnded(s) == pipe[s] = 0 /\ Holders(s) = {}

\* The reader also ends when exec has dropped the channel.
ReaderEnds(s) ==
  /\ \/ reader[s] = "reading" /\ PipeEnded(s)
     \/ reader[s] = "sending" /\ Returned
  /\ reader' = [reader EXCEPT ![s] = "ended"]
  /\ UNCHANGED <<taskVars, procVars, pipe, chan, written, captured>>
-----------------------------------------------------------------------------
(***************************************************************************)
(* exec.                                                                    *)
(***************************************************************************)
Spawn ==
  /\ task = "spawn"
  /\ task' = "run" /\ armed' = TRUE
  /\ born' = {Child} /\ alive' = {Child} /\ group' = {Child}
  /\ holds' = [s \in Streams |-> {Child}]
  /\ reader' = [s \in Streams |-> "reading"]
  /\ UNCHANGED <<termination, drainTimedOut, pipe, chan, written, captured>>

\* An argument, the profile or the directory is refused, or spawn fails.
SpawnFails ==
  /\ task = "spawn"
  /\ task' = "failed"
  /\ UNCHANGED <<termination, drainTimedOut, armed, procVars, outVars>>

\* Faulty variant: the signal goes to the child alone.
ChildOnly == {Child}

\* killpg reaches the processes of the process group the child leads, whose
\* number is the child's, and no other group of its session.
KillReaches == group

Kill == alive' = alive \ KillReaches

Capture(s) ==
  /\ task \in {"run", "drain"} /\ chan[s] > 0
  /\ chan' = [chan EXCEPT ![s] = @ - 1]
  /\ captured' = [captured EXCEPT ![s] = @ + 1]
  /\ UNCHANGED <<taskVars, procVars, pipe, reader, written>>

\* child.wait() returns; what is in the channel waits for the drain.
ChildExited ==
  /\ task = "run" /\ Child \notin alive
  /\ task' = "drain" /\ termination' = "exited"
  /\ UNCHANGED <<drainTimedOut, armed, procVars, outVars>>

Deadline ==
  /\ task = "run"
  /\ Kill
  /\ task' = "reap" /\ termination' = "timedOut"
  /\ UNCHANGED <<drainTimedOut, armed, born, group, holds, outVars>>

Reap ==
  /\ task = "reap" /\ Child \notin alive
  /\ task' = "drain"
  /\ UNCHANGED <<termination, drainTimedOut, armed, procVars, outVars>>

\* Faulty variant: the channel is taken for closed once it is empty.
ChannelEmpty == \A s \in Streams : chan[s] = 0

\* recv returns None: empty, and both senders gone.
ChannelClosed == \A s \in Streams : chan[s] = 0 /\ reader[s] = "ended"

\* Faulty variant: the group is dropped armed.
ReleaseForgotten == armed' = FALSE /\ Kill

\* release disarms the group before it is dropped.
Release == armed' = FALSE /\ UNCHANGED alive

Drained ==
  /\ task = "drain" /\ ChannelClosed
  /\ task' = "done" /\ Release
  /\ UNCHANGED <<termination, drainTimedOut, born, group, holds, outVars>>

\* Faulty variant: the drain waits for the end of the pipes.
DrainUnbounded == FALSE

\* sleep_until(drain_deadline) fires whatever the pipes do.
DrainBounded == TRUE

DrainDeadline ==
  /\ task = "drain" /\ DrainBounded
  /\ Kill
  /\ task' = "done" /\ drainTimedOut' = TRUE /\ armed' = FALSE
  /\ UNCHANGED <<termination, born, group, holds, outVars>>

\* The server shuts down and the task is dropped at an await, or the wait for
\* the child fails: the drop of the group kills it.
Abort ==
  /\ Receiving
  /\ IF armed THEN Kill ELSE UNCHANGED alive
  /\ task' = "dropped" /\ armed' = FALSE
  /\ UNCHANGED <<termination, drainTimedOut, born, group, holds, outVars>>

Exec ==
  \/ Spawn \/ SpawnFails \/ ChildExited \/ Deadline \/ Reap \/ Drained \/ DrainDeadline
  \/ \E s \in Streams : Capture(s)

Reader(s) == ReaderReads(s) \/ ReaderSends(s) \/ ReaderEnds(s)

Process(p) ==
  \/ \E s \in Streams : Write(p, s) \/ Redirect(p, s)
  \/ \E k \in Kids : Fork(p, k)
  \/ LeaveGroup(p) \/ Exit(p)

Next ==
  \/ Exec \/ Abort
  \/ \E s \in Streams : Reader(s)
  \/ \E p \in Procs : Process(p)

Spec == Init /\ [][Next]_vars

\* tokio runs tasks that can go on, and its timers fire.  Nothing is assumed
\* of the processes: they may run, write and keep their pipes for ever.
FairSpec ==
  /\ Spec
  /\ WF_vars(Spawn \/ SpawnFails) /\ WF_vars(Deadline) /\ WF_vars(Reap)
  /\ WF_vars(DrainDeadline)
-----------------------------------------------------------------------------
(***************************************************************************)
(* Properties.                                                              *)
(***************************************************************************)
\* A result that does not say drain_timed_out holds all output there was or
\* will be, of descendants too (the drain loop of exec).
OutputComplete ==
  task = "done" /\ ~drainTimedOut =>
    \A s \in Streams : captured[s] = written[s] /\ Holders(s) = {}

\* A command that timed out, was drained by force or was dropped leaves no
\* process of its process group behind: nothing but what had moved to a session
\* or a group of its own (ProcessGroup::kill and its drop).
GroupCleared ==
  \/ task = "done" /\ (termination = "timedOut" \/ drainTimedOut)
  \/ task = "dropped"
  => alive \cap group = {}

\* What a completed command left running with its output redirected survives
\* the server's return (ProcessGroup::release): a process dies by its own exit
\* or because the command timed out, held its pipes too long or was dropped.
CompletedSpares ==
  [][\A k \in Kids : k \in alive /\ k \notin alive' /\ task # task'
       => termination' = "timedOut" \/ drainTimedOut' \/ task' = "dropped"]_vars

\* Every command reaches a response, whatever its processes do (the deadline
\* and the drain grace of exec).
Returns == []<>Returned
-----------------------------------------------------------------------------
(***************************************************************************)
(* The inductive invariant.                                                 *)
(***************************************************************************)
Sending(s) == IF reader[s] = "sending" THEN 1 ELSE 0

\* No piece is lost on its way while exec receives.
Accounted ==
  Receiving => \A s \in Streams : written[s] = captured[s] + chan[s] + Sending(s) + pipe[s]

\* A reader that ended while exec receives has seen the end of its pipe.
EndedIsEnded ==
  Receiving => \A s \in Streams :
                 /\ reader[s] # "none"
                 /\ reader[s] = "ended" => pipe[s] = 0 /\ Holders(s) = {}

StageInv ==
  /\ task = "spawn" =>
       /\ born = {} /\ termination = "none" /\ ~drainTimedOut
       /\ \A s \in Streams :
            written[s] = 0 /\ captured[s] = 0 /\ chan[s] = 0 /\ pipe[s] = 0
  /\ Receiving => armed /\ ~drainTimedOut
  /\ termination = "timedOut" => task \in {"reap", "drain", "done", "dropped"}
  /\ task \in {"reap", "drain"} /\ termination = "timedOut" => alive \cap group = {}
  /\ task = "reap" => termination = "timedOut"
  /\ task = "failed" => born = {}

IInv ==
  TypeOK /\ Accounted /\ EndedIsEnded /\ StageInv /\ OutputComplete /\ GroupCleared
=============================================================================
