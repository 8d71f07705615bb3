------------------------------ MODULE Onboarding ------------------------------
(***************************************************************************)
(* Clients that run `workspace add` and `workspace upgrade` at the same     *)
(* time (main.rs), each of its own release: the probe of the managed server *)
(* on the host, the artifact cache they share, the upload, the installer    *)
(* that the uploaded binary runs on the host under the install lock         *)
(* (deploy.rs, install.rs, version.rs), and the fleet file with its lock    *)
(* (fleet.rs).                                                              *)
(*                                                                         *)
(* A pass of `workspace upgrade` over one host is a client of its own.  An  *)
(* installer runs on when its client is gone.  The grace of a lock is the   *)
(* possibility of giving up while another holds it.                         *)
(***************************************************************************)
EXTENDS Naturals

CONSTANTS
  Clients,       \* runs of the command
  Adders,        \* those that add; the others upgrade
  Hosts, Names, Roots,
  Protocols, Softwares,   \* version numbers
  Release,       \* release[c]: the version client c deploys
  Want,          \* want[c]: the entry it adds, or the one it upgrades
  Typed,         \* typed[c]: the root as the user wrote it
  Custom,        \* custom[h]: what the user-managed server on h answers
  Found,         \* found[h]: what may be in the managed place at the start
  Fleet0,        \* the fleet file at the start
  Absent, Legacy, Garbled,   \* see Odd
  None           \* nothing

\* VersionInfo; software 0 stands for one that is not MAJOR.MINOR.PATCH.
Versions == [protocol : Protocols, software : Softwares]

\* What a path on a host holds: no file, a server that does not know
\* --version-json, one whose answer does not parse, or a server.
Odd == {Absent, Legacy, Garbled}
Binaries == Versions \cup Odd

\* InstallOutcome.
Outcomes == [installed : BOOLEAN, previous : Versions \cup {None}, current : Versions]

Entries == [name : Names, host : Hosts, root : Roots,
            shell : {"posix", "powershell"}, bin : {"managed", "custom"}]

\* parse_fleet: no two workspaces on one root of a host, one shell per host.
ParseFleet(f) ==
  \A m, n \in Names : (m # n /\ f[m] # None /\ f[n] # None /\ f[m].host = f[n].host)
    => f[m].root # f[n].root /\ f[m].shell = f[n].shell

ASSUME OnboardingAssumption ==
  /\ Protocols \subseteq Nat /\ Softwares \subseteq Nat
  /\ Adders \subseteq Clients /\ None \notin Clients /\ None \notin Entries
  /\ None \notin Binaries /\ None \notin Outcomes /\ Odd \cap Versions = {}
  /\ Release \in [Clients -> Versions] /\ Want \in [Clients -> Entries]
  /\ Typed \in [Clients -> Roots] /\ Custom \in [Hosts -> Binaries]
  /\ Found \in [Hosts -> SUBSET Binaries]
  /\ Fleet0 \in [Names -> Entries \cup {None}] /\ ParseFleet(Fleet0)
  /\ \A n \in Names : Fleet0[n] # None => Fleet0[n].name = n

VARIABLES
  managed,    \* the managed server of each host
  ilock,      \* holder of each host's install.lock
  cache,      \* the artifact in the local cache
  up,         \* each client's upload: the bytes at its temporary path or run from it
  inst,       \* where its installer is
  prev,       \* InstallOutcome.previous: what the installer found
  outcome,    \* the outcome it printed
  pc,         \* where the client is
  fleet,      \* the fleet file, by name
  flock,      \* holder of .workspaces.toml.lock
  text,       \* the fleet file as the holder read it
  wrote       \* history: clients whose entry was renamed into place

hostVars == <<managed, ilock, up, inst, prev, outcome>>
fleetVars == <<fleet, flock, text, wrote>>
vars == <<hostVars, cache, pc, fleetVars>>

Pcs == {"start", "probe", "resolve", "read", "verify", "installing", "check",
        "fleet", "locked", "writing", "ready", "failed"}
Ended == {"ready", "failed"}
Holding == {"probing", "deciding", "swapped", "kept"}
Stages == Holding \cup {"off", "locking", "done", "dead"}

Fleets == [Names -> Entries \cup {None}]

TypeOK ==
  /\ managed \in [Hosts -> Binaries] /\ ilock \in [Hosts -> Clients \cup {None}]
  /\ cache \in Versions \cup {None}
  /\ up \in [Clients -> Binaries \cup {None}]
  /\ inst \in [Clients -> Stages] /\ prev \in [Clients -> Versions \cup {None}]
  /\ outcome \in [Clients -> Outcomes \cup {None}]
  /\ pc \in [Clients -> Pcs] /\ fleet \in Fleets
  /\ flock \in Clients \cup {None} /\ text \in [Clients -> Fleets]
  /\ wrote \subseteq Clients

Init ==
  /\ managed \in {m \in [Hosts -> Binaries] : \A h \in Hosts : m[h] \in Found[h]}
  /\ ilock = [h \in Hosts |-> None]
  /\ cache = None /\ up = [c \in Clients |-> None]
  /\ inst = [c \in Clients |-> "off"] /\ prev = [c \in Clients |-> None]
  /\ outcome = [c \in Clients |-> None] /\ pc = [c \in Clients |-> "start"]
  /\ fleet = Fleet0 /\ flock = None /\ text = [c \in Clients |-> Fleet0]
  /\ wrote = {}

Host(c) == Want[c].host
Goto(c, p) == pc' = [pc EXCEPT ![c] = p]

-----------------------------------------------------------------------------
(* Versions: version.rs.                                                    *)

\* The protocol decides; then the software, where both sides parse.
Older(a, b) ==
  \/ a.protocol < b.protocol
  \/ /\ a.protocol = b.protocol
     /\ a.software # 0 /\ b.software # 0 /\ a.software < b.software

\* Faulty variant of Preflight: any release of the same protocol will do.
PreflightByProtocol(cur, want) ==
  IF cur = None \/ cur.protocol < want.protocol THEN "NeedInstall"
  ELSE IF cur.protocol > want.protocol THEN "ClientTooOld" ELSE "Connect"

Preflight(cur, want) ==
  IF cur = None \/ Older(cur, want) THEN "NeedInstall"
  ELSE IF cur.protocol > want.protocol THEN "ClientTooOld" ELSE "Connect"

ShouldReplace(cur, want) == cur # None => Older(cur, want)

\* The answer to --version-json, None when there is none to compare with.
Answer(bin) == IF bin \in Versions THEN bin ELSE None

-----------------------------------------------------------------------------
(* The client up to the check of the workspace: main.rs and deploy.rs.      *)

\* check_addable: neither the name nor the target is taken.
CheckAddable(f, e) ==
  /\ f[e.name] = None
  /\ \A n \in Names : f[n] # None => f[n].host # e.host \/ f[n].root # e.root

\* workspace_add: the look at the fleet file that spares a vain deployment.
\* It takes the root as typed; validate_root finds the canonical one later.
Preview(c) ==
  /\ c \in Adders /\ pc[c] = "start"
  /\ Goto(c, IF CheckAddable(fleet, [Want[c] EXCEPT !.root = Typed[c]])
             THEN "probe" ELSE "failed")
  /\ UNCHANGED <<hostVars, cache, fleetVars>>

\* workspace_upgrade: an entry of the fleet file names the host.
Upgrade(c) ==
  /\ c \notin Adders /\ pc[c] = "start" /\ fleet[Want[c].name] = Want[c]
  /\ Goto(c, "probe")
  /\ UNCHANGED <<hostVars, cache, fleetVars>>

\* Where a client goes on that has a server to work with.
Deployed(c) == IF c \in Adders THEN "check" ELSE "ready"

\* check_custom_bin: a user-managed server must speak the same protocol.
CheckCustomBin(c) ==
  /\ pc[c] = "probe" /\ Want[c].bin = "custom"
  /\ LET cur == Answer(Custom[Host(c)]) IN
       Goto(c, IF cur # None /\ cur.protocol = Release[c].protocol
               THEN Deployed(c) ELSE "failed")
  /\ UNCHANGED <<hostVars, cache, fleetVars>>

\* deploy_managed: the probe and the decision made before anything is sent.
Probe(c) ==
  /\ pc[c] = "probe" /\ Want[c].bin = "managed"
  /\ LET verdict == Preflight(Answer(managed[Host(c)]), Release[c]) IN
       Goto(c, IF managed[Host(c)] = Garbled \/ verdict = "ClientTooOld" THEN "failed"
               ELSE IF verdict = "Connect" THEN Deployed(c)
               ELSE IF Want[c].shell = "posix" THEN "resolve" ELSE "failed")
  /\ UNCHANGED <<hostVars, cache, fleetVars>>

\* resolve_artifact: the cache has one place for all releases of a platform.
ResolveArtifact(c) ==
  /\ pc[c] = "resolve"
  /\ cache' = Release[c]
  /\ Goto(c, "read")
  /\ UNCHANGED <<hostVars, fleetVars>>

\* upload_and_install reads the cached file again and sends what it holds.
Upload(c) ==
  /\ pc[c] = "read" /\ cache # None
  /\ up' = [up EXCEPT ![c] = cache]
  /\ Goto(c, "verify")
  /\ UNCHANGED <<managed, ilock, inst, prev, outcome, cache, fleetVars>>

\* The upload breaks off and leaves what arrived.
UploadFails(c) ==
  /\ pc[c] = "read"
  /\ up' = [up EXCEPT ![c] = Garbled]
  /\ Goto(c, "failed")
  /\ UNCHANGED <<managed, ilock, inst, prev, outcome, cache, fleetVars>>

\* Faulty variant of Expected: the upload is not looked at before it is run.
AnyUpload(c) == TRUE

\* Is the upload what this client means to install?  Its answer to
\* --version-json, and the checksum the installer takes of itself, say so.
Expected(c) == up[c] = Release[c]

\* The upload is run once for its version, then to install itself.
Verify(c) ==
  /\ pc[c] = "verify"
  /\ IF Expected(c)
     THEN /\ inst' = [inst EXCEPT ![c] = "locking"]
          /\ Goto(c, "installing") /\ UNCHANGED up
     ELSE /\ up' = [up EXCEPT ![c] = None]
          /\ Goto(c, "failed") /\ UNCHANGED inst
  /\ UNCHANGED <<managed, ilock, prev, outcome, cache, fleetVars>>

\* The outcome arrives, or the end of an installer that printed none.
Installed(c) ==
  /\ pc[c] = "installing" /\ inst[c] \in {"done", "dead"}
  /\ Goto(c, IF inst[c] = "done" THEN Deployed(c) ELSE "failed")
  /\ UNCHANGED <<hostVars, cache, fleetVars>>

\* check_workspace: a round trip with the server the entry will name.
CheckWorkspace(c) ==
  /\ pc[c] = "check"
  /\ Want[c].bin = "managed" => Answer(managed[Host(c)]) # None
  /\ Goto(c, "fleet")
  /\ UNCHANGED <<hostVars, cache, fleetVars>>

-----------------------------------------------------------------------------
(* The installer on the host: run_install_to of install.rs.                 *)

\* The release that runs: the uploaded binary compares with its own version.
Self(c) == up[c]

\* Faulty variant of InstallLockFree: nobody waits.
InstallLockIgnored(h) == TRUE

InstallLockFree(h) == ilock[h] = None

\* acquire_install_lock.
TakeInstallLock(c) ==
  /\ inst[c] = "locking" /\ InstallLockFree(Host(c))
  /\ ilock' = [ilock EXCEPT ![Host(c)] = c]
  /\ inst' = [inst EXCEPT ![c] = "probing"]
  /\ UNCHANGED <<managed, up, prev, outcome, cache, pc, fleetVars>>

\* The probe that counts: under the lock.
ProbeInstalled(c) ==
  /\ inst[c] = "probing"
  /\ prev' = [prev EXCEPT ![c] = Answer(managed[Host(c)])]
  /\ inst' = [inst EXCEPT ![c] = "deciding"]
  /\ UNCHANGED <<managed, ilock, up, outcome, cache, pc, fleetVars>>

\* The rename of the upload over the managed server.
Swap(c) ==
  /\ inst[c] = "deciding" /\ ShouldReplace(prev[c], Self(c))
  /\ managed' = [managed EXCEPT ![Host(c)] = up[c]]
  /\ inst' = [inst EXCEPT ![c] = "swapped"]
  /\ UNCHANGED <<ilock, up, prev, outcome, cache, pc, fleetVars>>

\* An equal or newer server stays and the upload goes; an error is ignored.
Keep(c) ==
  /\ inst[c] = "deciding" /\ ~ShouldReplace(prev[c], Self(c))
  /\ inst' = [inst EXCEPT ![c] = "kept"]
  /\ UNCHANGED <<managed, ilock, up, prev, outcome, cache, pc, fleetVars>>

\* The kernel frees the locks of a process that ends.
FreeInstallLock(c) ==
  ilock' = [h \in Hosts |-> IF ilock[h] = c THEN None ELSE ilock[h]]

\* The second probe, the outcome on stdout and the end of the process.
Report(c) ==
  /\ inst[c] \in {"swapped", "kept"}
  /\ LET cur == Answer(managed[Host(c)]) IN
       /\ outcome' = [outcome EXCEPT ![c] =
            IF cur = None THEN None
            ELSE [installed |-> inst[c] = "swapped", previous |-> prev[c], current |-> cur]]
       /\ inst' = [inst EXCEPT ![c] = IF cur = None THEN "dead" ELSE "done"]
  /\ FreeInstallLock(c)
  /\ UNCHANGED <<managed, up, prev, cache, pc, fleetVars>>

\* The grace for the lock is over, a step fails, or the process is killed.
InstallerDies(c) ==
  /\ inst[c] \in Holding \cup {"locking"}
  /\ inst' = [inst EXCEPT ![c] = "dead"]
  /\ FreeInstallLock(c)
  /\ UNCHANGED <<managed, up, prev, outcome, cache, pc, fleetVars>>

-----------------------------------------------------------------------------
(* The fleet file: add_workspace_entry of fleet.rs.                         *)

\* Faulty variant of FleetLockFree: writers do not wait for one another.
FleetLockIgnored == TRUE

FleetLockFree == flock = None

\* acquire_fleet_lock.
TakeFleetLock(c) ==
  /\ pc[c] = "fleet" /\ FleetLockFree
  /\ flock' = c
  /\ Goto(c, "locked")
  /\ UNCHANGED <<hostVars, cache, fleet, text, wrote>>

Added(f, e) == [f EXCEPT ![e.name] = e]

\* Faulty variant of Valid: only collisions are looked for.
ValidUnchecked(f, e) == TRUE

\* The document that would be written passes parse_fleet.
Valid(f, e) == ParseFleet(Added(f, e))

\* Read, check again, and validate what will be written.
ReadFleet(c) ==
  /\ pc[c] = "locked"
  /\ text' = [text EXCEPT ![c] = fleet]
  /\ IF CheckAddable(fleet, Want[c]) /\ Valid(fleet, Want[c])
     THEN Goto(c, "writing") /\ UNCHANGED flock
     ELSE Goto(c, "failed") /\ flock' = None
  /\ UNCHANGED <<hostVars, cache, fleet, wrote>>

\* write_atomic: the rename, after which the sync of the directory may fail.
WriteFleet(c) ==
  /\ pc[c] = "writing"
  /\ fleet' = Added(text[c], Want[c])
  /\ wrote' = wrote \cup {c}
  /\ flock' = None
  /\ \E end \in Ended : Goto(c, end)
  /\ UNCHANGED <<hostVars, cache, text>>

\* An error, a lost connection, a lock that stays taken, or a kill.
GivesUp(c) ==
  /\ pc[c] \notin Ended
  /\ Goto(c, "failed")
  /\ flock' = IF flock = c THEN None ELSE flock
  /\ UNCHANGED <<hostVars, cache, fleet, text, wrote>>

-----------------------------------------------------------------------------
Client(c) ==
  \/ Preview(c) \/ Upgrade(c) \/ CheckCustomBin(c) \/ Probe(c) \/ ResolveArtifact(c)
  \/ Upload(c) \/ UploadFails(c) \/ Verify(c) \/ Installed(c) \/ CheckWorkspace(c)
  \/ TakeFleetLock(c) \/ ReadFleet(c) \/ WriteFleet(c) \/ GivesUp(c)

Installer(c) ==
  \/ TakeInstallLock(c) \/ ProbeInstalled(c) \/ Swap(c) \/ Keep(c) \/ Report(c)
  \/ InstallerDies(c)

Next == \E c \in Clients : Client(c) \/ Installer(c)

Spec == Init /\ [][Next]_vars
-----------------------------------------------------------------------------
(***************************************************************************)
(* Properties.                                                              *)
(***************************************************************************)
\* A managed server that answers is only ever replaced by a newer one, however
\* many installers of different releases race (should_replace under the lock).
NoDowngrade ==
  [][\A h \in Hosts : managed'[h] # managed[h] =>
       Answer(managed[h]) = None \/ Older(managed[h], managed'[h])]_vars

\* What an installer reports is what happened: it installed its own release, or
\* kept one that is not older; and the host never falls behind the report
\* (run_install_to holds the lock through the second probe).
OutcomeTrue ==
  \A c \in Clients : outcome[c] # None =>
    LET o == outcome[c] IN
      /\ o.installed = ShouldReplace(o.previous, Release[c])
      /\ o.current = IF o.installed THEN Release[c] ELSE o.previous
      /\ managed[Host(c)] \in Versions
      /\ managed[Host(c)] = o.current \/ Older(o.current, managed[Host(c)])

\* Host h has a server that answers and is not older than v.
AtLeast(h, v) == managed[h] \in Versions /\ ~Older(managed[h], v)

\* A workspace on the managed server is in the fleet file only with a server on
\* its host that answers and is at least the release of the client that added
\* it (workspace_add_inner writes the entry last).
RegisteredIsServed ==
  \A c \in wrote : Want[c].bin = "managed" => AtLeast(Host(c), Release[c])

\* No addition is lost: an entry that was renamed into place stays in the file
\* as written, whoever adds another (the lock around read, check and rename).
NoLostEntry == \A c \in wrote : fleet[Want[c].name] = Want[c]

\* The file is one that every reader accepts: no two workspaces contend for a
\* root and no host has two shells (parse_fleet before write_atomic).
FleetIsValid == ParseFleet(fleet)

-----------------------------------------------------------------------------
(***************************************************************************)
(* The inductive invariant.                                                 *)
(***************************************************************************)
\* Who is between taking and freeing a lock holds it.
LockInv ==
  /\ \A c \in Clients : inst[c] \in Holding => ilock[Host(c)] = c
  /\ \A c \in Clients : pc[c] \in {"locked", "writing"} => flock = c

\* The installer is started last, and for the managed server only.
OrderInv ==
  \A c \in Clients :
    /\ pc[c] \in {"start", "probe", "resolve", "read", "verify"} => inst[c] = "off"
    /\ pc[c] \in {"resolve", "read", "verify"} => Want[c].bin = "managed"

\* An installer is the release its client deploys, and under the lock it knows
\* what is installed.
InstallerInv ==
  \A c \in Clients :
    /\ inst[c] # "off" => up[c] = Release[c] /\ Want[c].bin = "managed"
    /\ inst[c] = "deciding" => prev[c] = Answer(managed[Host(c)])
    /\ inst[c] = "swapped" => /\ ShouldReplace(prev[c], Release[c])
                              /\ managed[Host(c)] = Release[c]
    /\ inst[c] = "kept" => /\ ~ShouldReplace(prev[c], Release[c])
                           /\ managed[Host(c)] = prev[c]
    /\ inst[c] = "done" => outcome[c] # None

\* Past the deployment, the host has a server that is recent enough.
ServedInv ==
  \A c \in Clients :
    (pc[c] \in {"check", "fleet", "locked", "writing"} \/ c \in wrote)
      => /\ c \in Adders
         /\ Want[c].bin = "managed" => AtLeast(Host(c), Release[c])

\* The holder of the fleet lock writes to the file it read.
WriterInv ==
  \A c \in Clients : pc[c] = "writing" =>
    /\ text[c] = fleet /\ fleet[Want[c].name] = None
    /\ Valid(fleet, Want[c])

IInv == TypeOK /\ LockInv /\ OrderInv /\ InstallerInv /\ ServedInv /\ WriterInv
        /\ OutcomeTrue /\ NoLostEntry /\ FleetIsValid
=============================================================================
