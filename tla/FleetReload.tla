----------------------------- MODULE FleetReload -----------------------------
(***************************************************************************)
(* The MCP server between the fleet file and its connections (lib.rs of     *)
(* remote-workspace-mcp): load, refresh_fleet_if_changed, build_snapshot    *)
(* and client, called by tool calls that run concurrently while others edit *)
(* the file.                                                               *)
(*                                                                         *)
(* A stamp is the number of the write that made the file; that two writes   *)
(* leave different modification times or lengths is assumed.  A missing     *)
(* file has stamp 0 each time.  What a call does with its connection is in  *)
(* ClientConnection.                                                        *)
(***************************************************************************)
EXTENDS Naturals

CONSTANTS
  Calls,       \* tool calls, each made once
  Workspaces,  \* names of workspaces
  Endpoints,   \* host, shell, binary, root, state base and config of one
  Target,      \* target[c]: the workspace call c names
  Attempts,    \* CONNECT_ATTEMPTS
  MaxWrites,   \* bound: edits of the file
  Bad,         \* a file that does not parse
  None         \* nothing

ASSUME ReloadAssumption ==
  /\ Target \in [Calls -> Workspaces] /\ None \notin Calls /\ None \notin Endpoints
  /\ Attempts \in Nat \ {0} /\ MaxWrites \in Nat
  /\ Bad \notin [Workspaces -> Endpoints \cup {None}]

Fleets == [Workspaces -> Endpoints \cup {None}]
NoFleet == [w \in Workspaces |-> None]
Stamps == 0 .. MaxWrites

\* WorkspaceHandle, known by the call whose reload made it (None: the start).
Handles == [ws : Workspaces, ep : Endpoints, made : Calls \cup {None}]
Snapshots == [Workspaces -> Handles \cup {None}]

ASSUME HandleAssumption == None \notin Handles

VARIABLES
  fleet,      \* what the fleet file says
  stamp,      \* its stamp
  writes,     \* number of writes so far
  up,         \* the server: starting, loading or serving
  seen,       \* last_seen: the stamp of the snapshot
  mutex,      \* holder of last_seen's mutex
  snapshot,   \* the current snapshot
  slot,       \* the client in each handle's slot
  locked,     \* holder of each slot's mutex
  checked,    \* handles with protocol_checked
  pc,         \* where a call is
  now,        \* the stamp it took
  got,        \* the fleet that the holder of the mutex has read
  handle,     \* the handle it picked
  tries,      \* attempts it has left
  named,      \* history: endpoints the file gave its workspace while it asked
  missed      \* history: calls that saw the file missing

fileVars == <<fleet, stamp, writes>>
loadVars == <<up, seen, mutex, snapshot, got>>
slotVars == <<slot, locked, checked>>
histVars == <<named, missed>>
vars == <<fileVars, loadVars, slotVars, pc, now, handle, tries, histVars>>

Pcs == {"idle", "refresh", "stat", "load", "swap", "pick", "wait", "look", "try",
        "check", "probe", "done", "failed"}
Ended == {"done", "failed"}

TypeOK ==
  /\ fleet \in Fleets \cup {Bad} /\ stamp \in Stamps /\ writes \in Stamps
  /\ up \in {"start", "load", "serving"} /\ seen \in Stamps
  /\ mutex \in Calls \cup {None} /\ snapshot \in Snapshots
  /\ slot \in [Handles -> {"none", "live", "closed"}]
  /\ locked \in [Handles -> Calls \cup {None}] /\ checked \subseteq Handles
  /\ pc \in [Calls -> Pcs] /\ now \in [Calls -> Stamps] /\ got \in Fleets
  /\ handle \in [Calls -> Handles \cup {None}] /\ tries \in [Calls -> 0 .. Attempts]
  /\ named \in [Calls -> SUBSET Endpoints] /\ missed \subseteq Calls

Init ==
  /\ fleet = NoFleet /\ stamp = 0 /\ writes = 0
  /\ up = "start" /\ seen = 0 /\ mutex = None /\ snapshot = NoFleet /\ got = NoFleet
  /\ slot = [h \in Handles |-> "none"] /\ locked = [h \in Handles |-> None]
  /\ checked = {}
  /\ pc = [c \in Calls |-> "idle"] /\ now = [c \in Calls |-> 0]
  /\ handle = [c \in Calls |-> None] /\ tries = [c \in Calls |-> 0]
  /\ named = [c \in Calls |-> {}] /\ missed = {}

Goto(c, p) == pc' = [pc EXCEPT ![c] = p]

-----------------------------------------------------------------------------
(* The file, changed by `workspace add`, an editor or a checkout.           *)

\* Calls that have not picked their handle yet.
Asking == {c \in Calls : pc[c] \in {"refresh", "stat", "load", "swap", "pick"}}

\* What file f with stamp s tells the calls under way.
Witness(f, s) ==
  /\ named' = [c \in Calls |-> IF c \notin Asking \/ f = Bad THEN named[c]
                               ELSE named[c] \cup ({f[Target[c]]} \ {None})]
  /\ missed' = IF s = 0 THEN missed \cup Asking ELSE missed

Write(f) ==
  /\ writes < MaxWrites
  /\ fleet' = f /\ writes' = writes + 1 /\ stamp' = writes + 1
  /\ Witness(f, writes + 1)
  /\ UNCHANGED <<loadVars, slotVars, pc, now, handle, tries>>

Delete ==
  /\ stamp # 0
  /\ fleet' = NoFleet /\ stamp' = 0
  /\ Witness(NoFleet, 0)
  /\ UNCHANGED <<writes, loadVars, slotVars, pc, now, handle, tries>>

-----------------------------------------------------------------------------
(* Loading: load, stamp_of, load_fleet, build_snapshot.                     *)

\* A workspace whose endpoint is unchanged keeps its handle and connection.
BuildSnapshot(old, f, c) ==
  [w \in Workspaces |->
     IF f[w] = None THEN None
     ELSE IF old[w] # None /\ old[w].ep = f[w] THEN old[w]
     ELSE [ws |-> w, ep |-> f[w], made |-> c]]

\* load: the stamp first, then the file it describes; a file that is invalid
\* or cannot be read ends the start, and the user tries again.
BootStamp ==
  /\ up = "start" /\ up' = "load" /\ seen' = stamp
  /\ UNCHANGED <<fileVars, mutex, snapshot, got, slotVars, pc, now, handle, tries, histVars>>

BootLoad ==
  /\ up = "load"
  /\ \/ up' = "start" /\ UNCHANGED snapshot
     \/ /\ fleet # Bad /\ up' = "serving"
        /\ snapshot' = BuildSnapshot(NoFleet, fleet, None)
  /\ UNCHANGED <<fileVars, seen, mutex, got, slotVars, pc, now, handle, tries, histVars>>

\* A tool call, or list_workspaces, which goes as far as the snapshot.
Call(c) ==
  /\ up = "serving" /\ pc[c] = "idle"
  /\ Goto(c, "refresh")
  /\ named' = [named EXCEPT ![c] = IF fleet = Bad THEN {} ELSE {fleet[Target[c]]} \ {None}]
  /\ missed' = IF stamp = 0 THEN missed \cup {c} ELSE missed
  /\ UNCHANGED <<fileVars, loadVars, slotVars, now, handle, tries>>

Lock(c) ==
  /\ pc[c] = "refresh" /\ mutex = None /\ mutex' = c
  /\ Goto(c, "stat")
  /\ UNCHANGED <<fileVars, up, seen, snapshot, got, slotVars, now, handle, tries, histVars>>

\* stamp_of: an unchanged file needs no reload, and one that cannot be looked
\* at fails the call.
Stat(c) ==
  /\ pc[c] = "stat"
  /\ \/ /\ stamp = seen
        /\ mutex' = None /\ Goto(c, "pick") /\ UNCHANGED now
     \/ /\ stamp # seen
        /\ now' = [now EXCEPT ![c] = stamp] /\ Goto(c, "load") /\ UNCHANGED mutex
     \/ mutex' = None /\ Goto(c, "failed") /\ UNCHANGED now
  /\ UNCHANGED <<fileVars, up, seen, snapshot, got, slotVars, handle, tries, histVars>>

\* load_fleet: an invalid or unreadable file changes neither the snapshot nor
\* what was seen.
Load(c) ==
  /\ pc[c] = "load"
  /\ \/ /\ mutex' = None /\ Goto(c, "failed") /\ UNCHANGED got
        /\ now' = [now EXCEPT ![c] = 0]
     \/ /\ fleet # Bad /\ got' = fleet /\ Goto(c, "swap")
        /\ UNCHANGED <<mutex, now>>
  /\ UNCHANGED <<fileVars, up, seen, snapshot, slotVars, handle, tries, histVars>>

\* Faulty variant of StampOf: the file's stamp when it has been read.
StampAfter(c) == stamp

\* The stamp a reload remembers: the one taken before the file was read.
StampOf(c) == now[c]

Swap(c) ==
  /\ pc[c] = "swap" /\ mutex' = None
  /\ snapshot' = BuildSnapshot(snapshot, got, c)
  /\ seen' = StampOf(c)
  /\ Goto(c, "pick")
  /\ now' = [now EXCEPT ![c] = 0] /\ got' = NoFleet
  /\ UNCHANGED <<fileVars, up, slotVars, handle, tries, histVars>>

\* snapshot() and handle(): after the mutex was released.
Pick(c) ==
  /\ pc[c] = "pick"
  /\ handle' = [handle EXCEPT ![c] = snapshot[Target[c]]]
  /\ Goto(c, IF snapshot[Target[c]] = None THEN "failed" ELSE "wait")
  /\ UNCHANGED <<fileVars, loadVars, slotVars, now, tries, histVars>>

-----------------------------------------------------------------------------
(* Connecting: client.                                                      *)

\* Faulty variant of SlotFree: callers of one workspace connect side by side.
SlotShared(h) == TRUE

\* slot.lock().
SlotFree(h) == locked[h] = None

LockSlot(c) ==
  /\ pc[c] = "wait" /\ SlotFree(handle[c])
  /\ locked' = [locked EXCEPT ![handle[c]] = c]
  /\ Goto(c, "look")
  /\ UNCHANGED <<fileVars, loadVars, slot, checked, now, handle, tries, histVars>>

\* The call is over, or has its client; the guard of the slot is dropped.
Leave(c, p) ==
  /\ Goto(c, p) /\ locked' = [locked EXCEPT ![handle[c]] = None]
  /\ tries' = [tries EXCEPT ![c] = 0]

\* A live connection is shared; otherwise the log is opened, which may fail,
\* and the attempts begin.
Look(c) ==
  /\ pc[c] = "look"
  /\ \/ slot[handle[c]] = "live" /\ Leave(c, "done")
     \/ slot[handle[c]] # "live" /\ Leave(c, "failed")
     \/ /\ slot[handle[c]] # "live" /\ Goto(c, "try") /\ UNCHANGED locked
        /\ tries' = [tries EXCEPT ![c] = Attempts]
  /\ UNCHANGED <<fileVars, loadVars, slot, checked, now, handle, histVars>>

\* check_protocol runs in a thread of its own until it has passed for the handle.
BeginCheck(c) ==
  /\ pc[c] = "try" /\ handle[c] \notin checked
  /\ Goto(c, "check")
  /\ UNCHANGED <<fileVars, loadVars, slotVars, now, handle, tries, histVars>>

\* It passes, or ends the call for good; where ssh could not connect, the
\* attempt failed (AttemptFails).
CheckEnds(c) ==
  /\ pc[c] = "check"
  /\ \/ checked' = checked \cup {handle[c]} /\ Goto(c, "try") /\ UNCHANGED <<locked, tries>>
     \/ Leave(c, "failed") /\ UNCHANGED checked
  /\ UNCHANGED <<fileVars, loadVars, slot, now, handle, histVars>>

\* The transport is spawned.
Connect(c) ==
  /\ pc[c] = "try" /\ handle[c] \in checked
  /\ Goto(c, "probe")
  /\ UNCHANGED <<fileVars, loadVars, slotVars, now, handle, tries, histVars>>

\* Faulty variant of Fewer: a failed attempt is not counted.
SameAgain(c) == tries[c]

Fewer(c) == tries[c] - 1

\* ssh could not connect for the check, or the spawn or the probe failed; a
\* client whose probe failed is dropped.  The last attempt ends the call.
AttemptFails(c) ==
  /\ pc[c] \in {"check", "probe"} \/ (pc[c] = "try" /\ handle[c] \in checked)
  /\ \/ /\ Fewer(c) > 0 /\ Goto(c, "try")
        /\ tries' = [tries EXCEPT ![c] = Fewer(c)] /\ UNCHANGED locked
     \/ Fewer(c) = 0 /\ Leave(c, "failed")
  /\ UNCHANGED <<fileVars, loadVars, slot, checked, now, handle, histVars>>

\* The probe came back: the client goes into the slot.
Probed(c) ==
  /\ pc[c] = "probe"
  /\ slot' = [slot EXCEPT ![handle[c]] = "live"]
  /\ Leave(c, "done")
  /\ UNCHANGED <<fileVars, loadVars, checked, now, handle, histVars>>

\* A connection ends.
Closes(h) ==
  /\ slot[h] = "live"
  /\ slot' = [slot EXCEPT ![h] = "closed"]
  /\ UNCHANGED <<fileVars, loadVars, locked, checked, pc, now, handle, tries, histVars>>

-----------------------------------------------------------------------------
\* The steps that come by themselves: look-ups, waits, backoffs, and the probe,
\* whose line fits into a new pipe and whose reply has a deadline.
Timed(c) ==
  \/ Lock(c) \/ Stat(c) \/ Load(c) \/ Swap(c) \/ Pick(c) \/ LockSlot(c)
  \/ Look(c) \/ BeginCheck(c) \/ Connect(c) \/ Probed(c)
  \/ pc[c] # "check" /\ AttemptFails(c)

\* The end of a check, which has no time limit: it waits for ssh and the server's
\* --version-json as long as they run (probe_installed, check_protocol).
Checking(c) == CheckEnds(c) \/ (pc[c] = "check" /\ AttemptFails(c))

Step(c) == Timed(c) \/ Checking(c)

Next ==
  \/ \E f \in Fleets \cup {Bad} : Write(f)
  \/ Delete \/ BootStamp \/ BootLoad
  \/ \E c \in Calls : Call(c) \/ Step(c)
  \/ \E h \in Handles : Closes(h)

Spec == Init /\ [][Next]_vars

\* The runtime runs every call.  That a check ends is not assumed.
FairSpec == Spec /\ \A c \in Calls : WF_vars(Timed(c))

-----------------------------------------------------------------------------
(***************************************************************************)
(* Properties.                                                              *)
(***************************************************************************)
\* A call works on an endpoint that the file gave its workspace at some moment
\* from its beginning to its choice, never on an older one nor past a file that
\* does not parse; only a file that was missing meanwhile makes an exception
\* (refresh_fleet_if_changed stamps before it reads).
FreshEnough ==
  \A c \in Calls : handle[c] # None => handle[c].ep \in named[c] \/ c \in missed

\* A handle has one server at a time: none is started while one is connected
\* or being tried, since it would be refused by the state lock of the first
\* (the slot's mutex is held across the attempts).
Trying(h) == {c \in Calls : pc[c] = "probe" /\ handle[c] = h}

OneServer ==
  \A c \in Calls : pc[c] = "probe" =>
    slot[handle[c]] # "live" /\ Trying(handle[c]) = {c}

\* A check of c's handle is under way, c's own or that of the slot's holder.
BeingChecked(c) ==
  handle[c] # None /\ \E d \in Calls : pc[d] = "check" /\ handle[d] = handle[c]

\* Every call ends unless a check of its own handle hangs: attempts are counted,
\* who waits for a slot gets it, and what blocks one handle, under the slot's
\* mutex, holds up no call of another one (client).
CallsEnd ==
  \A c \in Calls : []<>~BeingChecked(c) => (pc[c] # "idle" ~> pc[c] \in Ended)

-----------------------------------------------------------------------------
(***************************************************************************)
(* The inductive invariant.                                                 *)
(***************************************************************************)
\* The stamp is that of the last write or of a missing file, and stamps that
\* were taken are not ahead of it.
StampInv ==
  /\ stamp \in {0, writes} /\ seen <= writes
  /\ \A c \in Calls : now[c] <= writes
  /\ stamp = 0 => fleet = NoFleet

\* The endpoints of a snapshot.
Names(s, f) ==
  \A w \in Workspaces : IF s[w] = None THEN f[w] = None ELSE s[w].ep = f[w]

\* A snapshot whose stamp is the file's has what is in the file.
SeenInv ==
  /\ up # "serving" => \A c \in Calls : pc[c] = "idle"
  /\ (up = "serving" /\ stamp = seen /\ stamp # 0) => fleet # Bad /\ Names(snapshot, fleet)
  /\ \A c \in Calls : pc[c] = "idle" => handle[c] = None

\* A call under way knows what the file says, and will pick only such a handle;
\* what a reload has read is known to whoever can see its snapshot.
CallInv ==
  /\ \A c \in Asking :
       /\ fleet # Bad /\ fleet[Target[c]] # None => fleet[Target[c]] \in named[c]
       /\ stamp = 0 => c \in missed
       /\ (pc[c] = "pick" /\ snapshot[Target[c]] # None)
            => snapshot[Target[c]].ep \in named[c] \/ c \in missed
  /\ \A d \in Calls : pc[d] = "swap" =>
       /\ (stamp = now[d] /\ stamp # 0) => got = fleet /\ fleet # Bad
       /\ \A c \in Calls : (pc[c] \in {"swap", "pick"} /\ got[Target[c]] # None)
            => got[Target[c]] \in named[c]

\* Locks are held by who is between taking and leaving them.
LockInv ==
  \A c \in Calls :
    /\ pc[c] \in {"stat", "load", "swap"} => mutex = c
    /\ pc[c] \in {"wait", "look", "try", "check", "probe"} => handle[c] # None
    /\ pc[c] \in {"look", "try", "check", "probe"} => locked[handle[c]] = c
    /\ pc[c] \in {"try", "check", "probe"} => slot[handle[c]] # "live" /\ tries[c] > 0

IInv == TypeOK /\ StampInv /\ SeenInv /\ CallInv /\ LockInv /\ FreshEnough
=============================================================================
