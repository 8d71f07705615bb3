-------------------------- MODULE OnboardingProofs --------------------------
(***************************************************************************)
(* IInv of Onboarding is an invariant for any number of clients, releases,  *)
(* hosts and workspaces, and with it no host is downgraded, installers      *)
(* report the truth, and the fleet file loses nothing and stays valid.      *)
(***************************************************************************)
EXTENDS Onboarding, TLAPS

\* Being older is transitive, although not every two versions can be compared (software_cmp).
LEMMA OlderTransitive ==
  ASSUME NEW a \in Versions, NEW b \in Versions, NEW c \in Versions,
         Older(a, b), Older(b, c)
  PROVE  Older(a, c)
<1>1. \A v \in Versions : v.protocol \in Nat /\ v.software \in Nat
  BY OnboardingAssumption DEF Versions
<1>2. QED BY <1>1 DEF Older

\* Nothing is older than itself.
LEMMA OlderIrreflexive == ASSUME NEW a \in Versions PROVE ~Older(a, a)
<1>1. a.protocol \in Nat /\ a.software \in Nat BY OnboardingAssumption DEF Versions
<1>2. QED BY <1>1 DEF Older

\* The parts of the entry a client is about.
LEMMA WantType ==
  ASSUME NEW c \in Clients
  PROVE  /\ Host(c) \in Hosts /\ Want[c].name \in Names /\ Want[c] \in Entries
         /\ Want[c] # None /\ Release[c] \in Versions
BY OnboardingAssumption DEF Host, Entries

\* None is not the answer of a server.
LEMMA AnswerType ==
  ASSUME NEW b \in Binaries
  PROVE  /\ Answer(b) \in Versions \cup {None}
         /\ Answer(b) # None => b \in Versions /\ Answer(b) = b
         /\ b \in Versions => Answer(b) = b /\ b # None
BY OnboardingAssumption DEF Answer, Binaries

\* A host changes hands: whatever was at least v still is.
LEMMA StaysAtLeast ==
  ASSUME NEW h \in Hosts, NEW v \in Versions, AtLeast(h, v), managed'[h] \in Versions,
         managed'[h] = managed[h] \/ Older(managed[h], managed'[h])
  PROVE  AtLeast(h, v)'
BY OlderTransitive DEF AtLeast

\* At the start the invariant holds.
LEMMA InitSound == Init => IInv
<1> SUFFICES ASSUME Init PROVE IInv OBVIOUS
<1> USE OnboardingAssumption DEF Init
<1>1. TypeOK BY DEF TypeOK, Fleets, Stages, Pcs
<1>2. LockInv /\ OrderInv BY DEF LockInv, OrderInv, Holding
<1>3. InstallerInv /\ ServedInv /\ WriterInv BY DEF InstallerInv, ServedInv, WriterInv
<1>4. OutcomeTrue /\ NoLostEntry /\ FleetIsValid BY DEF OutcomeTrue, NoLostEntry, FleetIsValid
<1>5. QED BY <1>1, <1>2, <1>3, <1>4 DEF IInv

\* A step that changes nothing on the hosts keeps what is said of them.
LEMMA HostsAside ==
  ASSUME IInv, UNCHANGED hostVars
  PROVE  InstallerInv' /\ OutcomeTrue'
BY DEF IInv, hostVars, InstallerInv, OutcomeTrue, Host

\* A step that leaves the fleet file alone keeps what is said of it.
LEMMA FleetAside ==
  ASSUME IInv, UNCHANGED <<fleet, wrote>>
  PROVE  NoLostEntry' /\ FleetIsValid'
BY DEF IInv, NoLostEntry, FleetIsValid, ParseFleet

\* The client's looks at file and host, and its giving up, keep the invariant.
LEMMA LookingKeeps ==
  ASSUME IInv, NEW c \in Clients,
         Preview(c) \/ Upgrade(c) \/ CheckCustomBin(c) \/ Probe(c) \/ CheckWorkspace(c) \/ GivesUp(c)
  PROVE  IInv'
<1> USE OnboardingAssumption DEF IInv, hostVars, fleetVars, Goto, Host, Ended, Holding
<1>1. CASE Preview(c)
  <2>1. TypeOK' BY <1>1 DEF Preview, TypeOK, Pcs, Stages
  <2>2. LockInv' /\ OrderInv' BY <1>1, WantType DEF Preview, TypeOK, LockInv, OrderInv
  <2>3. InstallerInv' /\ OutcomeTrue' BY <1>1, HostsAside DEF Preview
  <2>4. ServedInv' BY <1>1, WantType, AnswerType DEF Preview, ServedInv, AtLeast, TypeOK
  <2>5. WriterInv' BY <1>1 DEF Preview, WriterInv, LockInv, TypeOK, Valid
  <2>6. NoLostEntry' /\ FleetIsValid' BY <1>1, FleetAside DEF Preview
  <2>7. QED BY <2>1, <2>2, <2>3, <2>4, <2>5, <2>6
<1>2. CASE Upgrade(c)
  <2>1. TypeOK' BY <1>2 DEF Upgrade, TypeOK, Pcs, Stages
  <2>2. LockInv' /\ OrderInv' BY <1>2, WantType DEF Upgrade, TypeOK, LockInv, OrderInv
  <2>3. InstallerInv' /\ OutcomeTrue' BY <1>2, HostsAside DEF Upgrade
  <2>4. ServedInv' BY <1>2, WantType, AnswerType DEF Upgrade, ServedInv, AtLeast, TypeOK
  <2>5. WriterInv' BY <1>2 DEF Upgrade, WriterInv, LockInv, TypeOK, Valid
  <2>6. NoLostEntry' /\ FleetIsValid' BY <1>2, FleetAside DEF Upgrade
  <2>7. QED BY <2>1, <2>2, <2>3, <2>4, <2>5, <2>6
<1>3. CASE CheckCustomBin(c)
  <2>1. TypeOK' BY <1>3 DEF CheckCustomBin, TypeOK, Pcs, Stages, Deployed
  <2>2. LockInv' /\ OrderInv' BY <1>3, WantType DEF CheckCustomBin, TypeOK, LockInv, OrderInv, Deployed
  <2>3. InstallerInv' /\ OutcomeTrue' BY <1>3, HostsAside DEF CheckCustomBin
  <2>4. ServedInv' BY <1>3, WantType, AnswerType DEF CheckCustomBin, ServedInv, AtLeast, TypeOK, Deployed
  <2>5. WriterInv' BY <1>3 DEF CheckCustomBin, WriterInv, LockInv, TypeOK, Valid, Deployed
  <2>6. NoLostEntry' /\ FleetIsValid' BY <1>3, FleetAside DEF CheckCustomBin
  <2>7. QED BY <2>1, <2>2, <2>3, <2>4, <2>5, <2>6
<1>4. CASE Probe(c)
  <2>1. TypeOK' BY <1>4 DEF Probe, TypeOK, Pcs, Stages, Deployed, Preflight
  <2>2. LockInv' /\ OrderInv' BY <1>4, WantType DEF Probe, TypeOK, LockInv, OrderInv, Deployed, Preflight
  <2>3. InstallerInv' /\ OutcomeTrue' BY <1>4, HostsAside DEF Probe
  <2>4. ServedInv' BY <1>4, WantType, AnswerType DEF Probe, ServedInv, AtLeast, TypeOK, Deployed, Preflight
  <2>5. WriterInv' BY <1>4 DEF Probe, WriterInv, LockInv, TypeOK, Valid, Deployed, Preflight
  <2>6. NoLostEntry' /\ FleetIsValid' BY <1>4, FleetAside DEF Probe
  <2>7. QED BY <2>1, <2>2, <2>3, <2>4, <2>5, <2>6
<1>5. CASE CheckWorkspace(c)
  <2>1. TypeOK' BY <1>5 DEF CheckWorkspace, TypeOK, Pcs, Stages
  <2>2. LockInv' /\ OrderInv' BY <1>5, WantType DEF CheckWorkspace, TypeOK, LockInv, OrderInv
  <2>3. InstallerInv' /\ OutcomeTrue' BY <1>5, HostsAside DEF CheckWorkspace
  <2>4. ServedInv' BY <1>5, WantType, AnswerType DEF CheckWorkspace, ServedInv, AtLeast, TypeOK
  <2>5. WriterInv' BY <1>5 DEF CheckWorkspace, WriterInv, LockInv, TypeOK, Valid
  <2>6. NoLostEntry' /\ FleetIsValid' BY <1>5, FleetAside DEF CheckWorkspace
  <2>7. QED BY <2>1, <2>2, <2>3, <2>4, <2>5, <2>6
<1>6. CASE GivesUp(c)
  <2>1. TypeOK' BY <1>6 DEF GivesUp, TypeOK, Pcs, Stages
  <2>2. LockInv' /\ OrderInv' BY <1>6, WantType DEF GivesUp, TypeOK, LockInv, OrderInv
  <2>3. InstallerInv' /\ OutcomeTrue' BY <1>6, HostsAside DEF GivesUp
  <2>4. ServedInv' BY <1>6, WantType, AnswerType DEF GivesUp, ServedInv, AtLeast, TypeOK
  <2>5. WriterInv' BY <1>6 DEF GivesUp, WriterInv, LockInv, TypeOK, Valid
  <2>6. NoLostEntry' /\ FleetIsValid' BY <1>6, FleetAside DEF GivesUp
  <2>7. QED BY <2>1, <2>2, <2>3, <2>4, <2>5, <2>6
<1>7. QED BY <1>1, <1>2, <1>3, <1>4, <1>5, <1>6

\* The steps under the fleet file's lock keep the invariant.
LEMMA FleetKeeps ==
  ASSUME IInv, NEW c \in Clients,
         TakeFleetLock(c) \/ ReadFleet(c) \/ WriteFleet(c)
  PROVE  IInv'
<1> USE OnboardingAssumption DEF IInv, hostVars, fleetVars, Goto, Host, Ended, Holding
<1>1. CASE TakeFleetLock(c)
  <2>1. TypeOK' BY <1>1 DEF TakeFleetLock, TypeOK, Pcs, Stages, FleetLockFree
  <2>2. LockInv' /\ OrderInv' BY <1>1, WantType DEF TakeFleetLock, TypeOK, LockInv, OrderInv, FleetLockFree
  <2>3. InstallerInv' /\ OutcomeTrue' BY <1>1, HostsAside DEF TakeFleetLock
  <2>4. ServedInv' BY <1>1, WantType, AnswerType DEF TakeFleetLock, ServedInv, AtLeast, TypeOK, FleetLockFree
  <2>5. WriterInv' BY <1>1 DEF TakeFleetLock, WriterInv, LockInv, TypeOK, Valid, FleetLockFree
  <2>6. NoLostEntry' /\ FleetIsValid' BY <1>1, FleetAside DEF TakeFleetLock
  <2>7. QED BY <2>1, <2>2, <2>3, <2>4, <2>5, <2>6
<1>2. CASE ReadFleet(c)
  <2>1. TypeOK' BY <1>2 DEF ReadFleet, TypeOK, Pcs, Stages, CheckAddable
  <2>2. LockInv' /\ OrderInv' BY <1>2, WantType DEF ReadFleet, TypeOK, LockInv, OrderInv, CheckAddable
  <2>3. InstallerInv' /\ OutcomeTrue' BY <1>2, HostsAside DEF ReadFleet
  <2>4. ServedInv' BY <1>2, WantType, AnswerType DEF ReadFleet, ServedInv, AtLeast, TypeOK, CheckAddable
  <2>5. WriterInv' BY <1>2 DEF ReadFleet, WriterInv, LockInv, TypeOK, Valid, CheckAddable
  <2>6. NoLostEntry' /\ FleetIsValid' BY <1>2, FleetAside DEF ReadFleet
  <2>7. QED BY <2>1, <2>2, <2>3, <2>4, <2>5, <2>6
<1>3. CASE WriteFleet(c)
  <2>1. /\ text[c] = fleet /\ fleet[Want[c].name] = None /\ Valid(fleet, Want[c])
        /\ fleet' = [fleet EXCEPT ![Want[c].name] = Want[c]] /\ flock = c
    BY <1>3 DEF WriteFleet, WriterInv, LockInv, Added
  <2>2. TypeOK'
    <3>1. Want[c] \in Entries /\ Want[c].name \in Names BY WantType
    <3>2. fleet' \in Fleets BY <3>1, <2>1 DEF TypeOK, Fleets
    <3>3. QED BY <1>3, <3>2 DEF WriteFleet, TypeOK, Pcs
  <2>3. LockInv' /\ OrderInv' BY <1>3, <2>1 DEF WriteFleet, TypeOK, LockInv, OrderInv
  <2>4. InstallerInv' /\ OutcomeTrue' BY <1>3, HostsAside DEF WriteFleet
  <2>5. ServedInv' BY <1>3 DEF WriteFleet, ServedInv, AtLeast, TypeOK
  <2>6. WriterInv' BY <1>3, <2>1 DEF WriteFleet, WriterInv, LockInv, TypeOK
  <2>7. NoLostEntry'
    <3>1. \A d \in Clients : Want[d] # None /\ Want[d].name \in Names BY WantType
    <3>2. fleet \in [Names -> Entries \cup {None}] /\ wrote \subseteq Clients
      BY DEF TypeOK, Fleets
    <3>3. ASSUME NEW d \in wrote, d # c PROVE fleet'[Want[d].name] = Want[d]
      <4>1. fleet[Want[d].name] = Want[d] BY DEF NoLostEntry
      <4>2. Want[d].name # Want[c].name BY <2>1, <3>1, <3>2, <4>1
      <4>3. QED BY <2>1, <3>1, <3>2, <4>1, <4>2
    <3>4. fleet'[Want[c].name] = Want[c] BY <2>1, <3>1, <3>2
    <3>5. QED BY <1>3, <3>3, <3>4 DEF WriteFleet, NoLostEntry
  <2>8. FleetIsValid' BY <2>1 DEF FleetIsValid, Valid, Added
  <2>9. QED BY <2>2, <2>3, <2>4, <2>5, <2>6, <2>7, <2>8
<1>4. QED BY <1>1, <1>2, <1>3

\* From the artifact to the outcome the client keeps the invariant.
LEMMA DeployingKeeps ==
  ASSUME IInv, NEW c \in Clients,
         ResolveArtifact(c) \/ Upload(c) \/ UploadFails(c) \/ Verify(c) \/ Installed(c)
  PROVE  IInv'
<1> USE OnboardingAssumption DEF IInv, hostVars, fleetVars, Goto, Host, Ended, Holding
<1>1. CASE ResolveArtifact(c)
  <2>1. TypeOK' BY <1>1 DEF ResolveArtifact, TypeOK, Pcs, Stages, Binaries, Odd
  <2>2. LockInv' /\ OrderInv' BY <1>1, WantType DEF ResolveArtifact, TypeOK, LockInv, OrderInv
  <2>3. InstallerInv' BY <1>1 DEF ResolveArtifact, TypeOK, InstallerInv, OrderInv
  <2>4. OutcomeTrue' BY <1>1 DEF ResolveArtifact, OutcomeTrue
  <2>5. ServedInv' BY <1>1 DEF ResolveArtifact, ServedInv, AtLeast, TypeOK
  <2>6. WriterInv' BY <1>1 DEF ResolveArtifact, WriterInv, TypeOK
  <2>7. NoLostEntry' /\ FleetIsValid' BY <1>1, FleetAside DEF ResolveArtifact
  <2>8. QED BY <2>1, <2>2, <2>3, <2>4, <2>5, <2>6, <2>7
<1>2. CASE Upload(c)
  <2>1. TypeOK' BY <1>2 DEF Upload, TypeOK, Pcs, Stages, Binaries, Odd
  <2>2. LockInv' /\ OrderInv' BY <1>2, WantType DEF Upload, TypeOK, LockInv, OrderInv
  <2>3. InstallerInv' BY <1>2 DEF Upload, TypeOK, InstallerInv, OrderInv
  <2>4. OutcomeTrue' BY <1>2 DEF Upload, OutcomeTrue
  <2>5. ServedInv' BY <1>2 DEF Upload, ServedInv, AtLeast, TypeOK
  <2>6. WriterInv' BY <1>2 DEF Upload, WriterInv, TypeOK
  <2>7. NoLostEntry' /\ FleetIsValid' BY <1>2, FleetAside DEF Upload
  <2>8. QED BY <2>1, <2>2, <2>3, <2>4, <2>5, <2>6, <2>7
<1>3. CASE UploadFails(c)
  <2>1. TypeOK' BY <1>3 DEF UploadFails, TypeOK, Pcs, Stages, Binaries, Odd
  <2>2. LockInv' /\ OrderInv' BY <1>3, WantType DEF UploadFails, TypeOK, LockInv, OrderInv
  <2>3. InstallerInv' BY <1>3 DEF UploadFails, TypeOK, InstallerInv, OrderInv
  <2>4. OutcomeTrue' BY <1>3 DEF UploadFails, OutcomeTrue
  <2>5. ServedInv' BY <1>3 DEF UploadFails, ServedInv, AtLeast, TypeOK
  <2>6. WriterInv' BY <1>3 DEF UploadFails, WriterInv, TypeOK
  <2>7. NoLostEntry' /\ FleetIsValid' BY <1>3, FleetAside DEF UploadFails
  <2>8. QED BY <2>1, <2>2, <2>3, <2>4, <2>5, <2>6, <2>7
<1>4. CASE Verify(c)
  <2>1. TypeOK' BY <1>4 DEF Verify, TypeOK, Pcs, Stages, Binaries, Odd, Expected
  <2>2. LockInv' /\ OrderInv' BY <1>4, WantType DEF Verify, TypeOK, LockInv, OrderInv, Expected
  <2>3. InstallerInv' BY <1>4 DEF Verify, TypeOK, InstallerInv, OrderInv, Expected
  <2>4. OutcomeTrue' BY <1>4 DEF Verify, OutcomeTrue, Expected
  <2>5. ServedInv' BY <1>4 DEF Verify, ServedInv, AtLeast, TypeOK, Expected
  <2>6. WriterInv' BY <1>4 DEF Verify, WriterInv, TypeOK, Expected
  <2>7. NoLostEntry' /\ FleetIsValid' BY <1>4, FleetAside DEF Verify
  <2>8. QED BY <2>1, <2>2, <2>3, <2>4, <2>5, <2>6, <2>7
<1>5. CASE Installed(c)
  <2>1. TypeOK' BY <1>5 DEF Installed, Deployed, TypeOK, Pcs
  <2>2. LockInv' /\ OrderInv' BY <1>5 DEF Installed, Deployed, TypeOK, LockInv, OrderInv
  <2>3. InstallerInv' /\ OutcomeTrue' BY <1>5, HostsAside DEF Installed
  <2>4. inst[c] = "done" => AtLeast(Host(c), Release[c])
    <3> SUFFICES ASSUME inst[c] = "done" PROVE AtLeast(Host(c), Release[c]) OBVIOUS
    <3>1. outcome[c] \in Outcomes BY DEF InstallerInv, TypeOK
    <3> DEFINE o == outcome[c]
    <3>2. /\ o.installed = ShouldReplace(o.previous, Release[c])
          /\ o.current = IF o.installed THEN Release[c] ELSE o.previous
          /\ managed[Host(c)] \in Versions
          /\ managed[Host(c)] = o.current \/ Older(o.current, managed[Host(c)])
      BY DEF InstallerInv, OutcomeTrue
    <3>3. o.current \in Versions /\ Release[c] \in Versions BY <3>1 DEF Outcomes
    <3>4. ~Older(o.current, Release[c])
      <4>1. CASE o.installed BY <4>1, <3>2, <3>3, OlderIrreflexive
      <4>2. CASE ~o.installed BY <4>2, <3>2 DEF ShouldReplace
      <4>3. QED BY <4>1, <4>2
    <3>5. QED BY <3>2, <3>3, <3>4, OlderTransitive DEF AtLeast
  <2>5. ServedInv' BY <1>5, <2>4 DEF Installed, Deployed, ServedInv, AtLeast, TypeOK
  <2>6. WriterInv' BY <1>5 DEF Installed, Deployed, WriterInv, TypeOK
  <2>7. NoLostEntry' /\ FleetIsValid' BY <1>5, FleetAside DEF Installed
  <2>8. QED BY <2>1, <2>2, <2>3, <2>5, <2>6, <2>7
<1>6. QED BY <1>1, <1>2, <1>3, <1>4, <1>5

\* The installer keeps the invariant.
LEMMA InstallerKeeps ==
  ASSUME IInv, NEW c \in Clients,
         TakeInstallLock(c) \/ ProbeInstalled(c) \/ Keep(c) \/ InstallerDies(c) \/ Swap(c) \/ Report(c)
  PROVE  IInv'
<1> USE OnboardingAssumption DEF IInv, hostVars, fleetVars, Goto, Host, Ended, Holding
<1>1. CASE TakeInstallLock(c)
  <2>1. TypeOK' BY <1>1 DEF TakeInstallLock, TypeOK, Pcs, Stages, Binaries, Odd, InstallLockFree
  <2>2. LockInv' /\ OrderInv' BY <1>1, WantType DEF TakeInstallLock, TypeOK, LockInv, OrderInv, InstallLockFree
  <2>3. InstallerInv' BY <1>1 DEF TakeInstallLock, TypeOK, InstallerInv, OrderInv, InstallLockFree
  <2>4. OutcomeTrue' BY <1>1 DEF TakeInstallLock, OutcomeTrue, InstallLockFree
  <2>5. ServedInv' BY <1>1 DEF TakeInstallLock, ServedInv, AtLeast, TypeOK, InstallLockFree
  <2>6. WriterInv' BY <1>1 DEF TakeInstallLock, WriterInv, TypeOK, InstallLockFree
  <2>7. NoLostEntry' /\ FleetIsValid' BY <1>1, FleetAside DEF TakeInstallLock
  <2>8. QED BY <2>1, <2>2, <2>3, <2>4, <2>5, <2>6, <2>7
<1>2. CASE ProbeInstalled(c)
  <2>1. TypeOK' BY <1>2 DEF ProbeInstalled, TypeOK, Pcs, Stages, Binaries, Odd, Answer
  <2>2. LockInv' /\ OrderInv' BY <1>2, WantType DEF ProbeInstalled, TypeOK, LockInv, OrderInv, Answer
  <2>3. InstallerInv' BY <1>2 DEF ProbeInstalled, TypeOK, InstallerInv, OrderInv, Answer
  <2>4. OutcomeTrue' BY <1>2 DEF ProbeInstalled, OutcomeTrue, Answer
  <2>5. ServedInv' BY <1>2 DEF ProbeInstalled, ServedInv, AtLeast, TypeOK, Answer
  <2>6. WriterInv' BY <1>2 DEF ProbeInstalled, WriterInv, TypeOK, Answer
  <2>7. NoLostEntry' /\ FleetIsValid' BY <1>2, FleetAside DEF ProbeInstalled
  <2>8. QED BY <2>1, <2>2, <2>3, <2>4, <2>5, <2>6, <2>7
<1>3. CASE Keep(c)
  <2>1. TypeOK' BY <1>3 DEF Keep, TypeOK, Pcs, Stages, Binaries, Odd, Self, Answer, ShouldReplace
  <2>2. LockInv' /\ OrderInv' BY <1>3, WantType DEF Keep, TypeOK, LockInv, OrderInv, Self, Answer, ShouldReplace
  <2>3. InstallerInv' BY <1>3 DEF Keep, TypeOK, InstallerInv, OrderInv, Self, Answer, ShouldReplace
  <2>4. OutcomeTrue' BY <1>3 DEF Keep, OutcomeTrue, Self, Answer, ShouldReplace
  <2>5. ServedInv' BY <1>3 DEF Keep, ServedInv, AtLeast, TypeOK, Self, Answer, ShouldReplace
  <2>6. WriterInv' BY <1>3 DEF Keep, WriterInv, TypeOK, Self, Answer, ShouldReplace
  <2>7. NoLostEntry' /\ FleetIsValid' BY <1>3, FleetAside DEF Keep
  <2>8. QED BY <2>1, <2>2, <2>3, <2>4, <2>5, <2>6, <2>7
<1>4. CASE InstallerDies(c)
  <2>1. TypeOK' BY <1>4 DEF InstallerDies, TypeOK, Pcs, Stages, Binaries, Odd, FreeInstallLock
  <2>2. LockInv' /\ OrderInv' BY <1>4, WantType DEF InstallerDies, TypeOK, LockInv, OrderInv, FreeInstallLock
  <2>3. InstallerInv' BY <1>4 DEF InstallerDies, TypeOK, InstallerInv, OrderInv, FreeInstallLock
  <2>4. OutcomeTrue' BY <1>4 DEF InstallerDies, OutcomeTrue, FreeInstallLock
  <2>5. ServedInv' BY <1>4 DEF InstallerDies, ServedInv, AtLeast, TypeOK, FreeInstallLock
  <2>6. WriterInv' BY <1>4 DEF InstallerDies, WriterInv, TypeOK, FreeInstallLock
  <2>7. NoLostEntry' /\ FleetIsValid' BY <1>4, FleetAside DEF InstallerDies
  <2>8. QED BY <2>1, <2>2, <2>3, <2>4, <2>5, <2>6, <2>7
<1>5. CASE Swap(c)
  <2>1. /\ up[c] = Release[c] /\ prev[c] = Answer(managed[Host(c)])
        /\ managed' = [managed EXCEPT ![Host(c)] = Release[c]]
        /\ Release[c] \in Versions /\ Host(c) \in Hosts /\ managed[Host(c)] \in Binaries
        /\ ilock[Host(c)] = c
    BY <1>5, WantType DEF Swap, InstallerInv, LockInv, TypeOK
  <2>2. managed[Host(c)] \in Versions => Older(managed[Host(c)], Release[c])
    BY <1>5, <2>1, AnswerType DEF Swap, Self, ShouldReplace
  <2>3. TypeOK' BY <1>5, <2>1 DEF Swap, TypeOK, Stages, Binaries
  <2>4. LockInv' /\ OrderInv' BY <1>5 DEF Swap, TypeOK, LockInv, OrderInv
  <2>5. InstallerInv'
    BY <1>5, <2>1 DEF Swap, Self, InstallerInv, LockInv, TypeOK
  <2>6. OutcomeTrue'
    <3> SUFFICES ASSUME NEW d \in Clients, outcome[d] # None, Host(d) = Host(c)
                 PROVE  LET p == outcome[d].current IN
                          managed'[Host(d)] = p \/ Older(p, managed'[Host(d)])
      BY <1>5, <2>1 DEF Swap, OutcomeTrue, TypeOK, Entries
    <3>1. outcome[d].current \in Versions BY DEF TypeOK, Outcomes
    <3>2. /\ managed[Host(c)] \in Versions
          /\ managed[Host(c)] = outcome[d].current \/ Older(outcome[d].current, managed[Host(c)])
      BY DEF OutcomeTrue
    <3>3. managed'[Host(c)] = Release[c] BY <2>1 DEF TypeOK
    <3>4. QED BY <2>1, <2>2, <3>1, <3>2, <3>3, OlderTransitive
  <2>7. ServedInv'
    <3>1. ASSUME NEW h \in Hosts, NEW v \in Versions, AtLeast(h, v) PROVE AtLeast(h, v)'
      <4>1. managed'[h] \in Versions BY <3>1, <2>1 DEF AtLeast, TypeOK
      <4>2. managed'[h] = managed[h] \/ Older(managed[h], managed'[h])
        BY <3>1, <2>1, <2>2 DEF AtLeast, TypeOK
      <4>3. QED BY <3>1, <4>1, <4>2, StaysAtLeast
    <3>2. QED BY <1>5, <3>1 DEF Swap, ServedInv, Entries
  <2>8. WriterInv' BY <1>5 DEF Swap, WriterInv
  <2>9. NoLostEntry' /\ FleetIsValid' BY <1>5, FleetAside DEF Swap
  <2>10. QED BY <2>3, <2>4, <2>5, <2>6, <2>7, <2>8, <2>9
<1>6. CASE Report(c)
  <2>1. /\ managed[Host(c)] \in Versions /\ Answer(managed[Host(c)]) = managed[Host(c)]
        /\ managed[Host(c)] # None
    BY <1>6, WantType, AnswerType DEF Report, InstallerInv, ShouldReplace, TypeOK
  <2> DEFINE o == [installed |-> inst[c] = "swapped", previous |-> prev[c],
                   current |-> managed[Host(c)]]
  <2>2. /\ outcome' = [outcome EXCEPT ![c] = o] /\ inst' = [inst EXCEPT ![c] = "done"]
        /\ o \in Outcomes
    BY <1>6, <2>1 DEF Report, TypeOK, Outcomes
  <2>3. TypeOK' BY <1>6, <2>2 DEF Report, FreeInstallLock, TypeOK, Stages
  <2>4. LockInv' /\ OrderInv'
    BY <1>6, <2>2, WantType DEF Report, FreeInstallLock, TypeOK, LockInv, OrderInv
  <2>5. o # None BY <2>2
  <2>6. InstallerInv' BY <1>6, <2>2, <2>5 DEF Report, InstallerInv, TypeOK
  <2>7. OutcomeTrue'
    <3>1. o.installed = ShouldReplace(o.previous, Release[c])
      BY <1>6 DEF Report, InstallerInv, ShouldReplace
    <3>2. o.current = IF o.installed THEN Release[c] ELSE o.previous
      BY <1>6 DEF Report, InstallerInv
    <3>3. QED BY <1>6, <2>1, <2>2, <3>1, <3>2 DEF Report, OutcomeTrue, TypeOK
  <2>8. ServedInv' BY <1>6 DEF Report, ServedInv, AtLeast
  <2>9. WriterInv' BY <1>6 DEF Report, WriterInv
  <2>10. NoLostEntry' /\ FleetIsValid' BY <1>6, FleetAside DEF Report
  <2>11. QED BY <2>3, <2>4, <2>6, <2>7, <2>8, <2>9, <2>10
<1>7. QED BY <1>1, <1>2, <1>3, <1>4, <1>5, <1>6

\* The invariant holds of every step of every client and installer.
THEOREM OnboardingInductive == Spec => []IInv
<1>1. Init => IInv BY InitSound
<1>2. IInv /\ [Next]_vars => IInv'
  <2> SUFFICES ASSUME IInv, [Next]_vars PROVE IInv' OBVIOUS
  <2>1. ASSUME NEW c \in Clients, Client(c) PROVE IInv'
    BY <2>1, LookingKeeps, FleetKeeps, DeployingKeeps DEF Client
  <2>2. ASSUME NEW c \in Clients, Installer(c) PROVE IInv'
    BY <2>2, InstallerKeeps DEF Installer
  <2>3. CASE UNCHANGED vars
    <3>1. InstallerInv' /\ OutcomeTrue' BY <2>3, HostsAside DEF vars
    <3>2. NoLostEntry' /\ FleetIsValid' BY <2>3, FleetAside DEF vars, fleetVars
    <3>3. TypeOK' /\ LockInv' /\ OrderInv'
      BY <2>3 DEF IInv, vars, hostVars, fleetVars, TypeOK, LockInv, OrderInv
    <3>4. ServedInv' /\ WriterInv'
      BY <2>3 DEF IInv, vars, hostVars, fleetVars, ServedInv, WriterInv, AtLeast
    <3>5. QED BY <3>1, <3>2, <3>3, <3>4 DEF IInv
  <2>4. QED BY <2>1, <2>2, <2>3 DEF Next
<1>3. QED BY <1>1, <1>2, PTL DEF Spec

\* Racing installers never put an older server in a newer one's place
\* (should_replace under the install lock).
THEOREM NoDowngradeHolds == Spec => NoDowngrade
<1> DEFINE Up == \A h \in Hosts : managed'[h] # managed[h] =>
                   Answer(managed[h]) = None \/ Older(managed[h], managed'[h])
<1>1. IInv /\ [Next]_vars => [Up]_vars
  <2> SUFFICES ASSUME IInv, Next, NEW h \in Hosts, managed'[h] # managed[h]
               PROVE  Answer(managed[h]) = None \/ Older(managed[h], managed'[h])
    OBVIOUS
  <2>1. PICK c \in Clients : Swap(c)
    BY DEF Next, Client, Installer, Preview, Upgrade, CheckCustomBin, Probe, ResolveArtifact,
           Upload, UploadFails, Verify, Installed, CheckWorkspace, TakeFleetLock, ReadFleet,
           WriteFleet, GivesUp, TakeInstallLock, ProbeInstalled, Keep, Report, InstallerDies,
           hostVars
  <2>2. h = Host(c) /\ managed'[h] = up[c] BY <2>1 DEF Swap, IInv, TypeOK
  <2>3. prev[c] = Answer(managed[h]) /\ (prev[c] # None => Older(prev[c], up[c]))
    BY <2>1, <2>2 DEF Swap, IInv, InstallerInv, ShouldReplace, Self
  <2>4. managed[h] \in Binaries BY DEF IInv, TypeOK
  <2>5. QED BY <2>2, <2>3, <2>4, AnswerType
<1>2. QED BY <1>1, OnboardingInductive, PTL DEF Spec, NoDowngrade

\* Installers report what happened (run_install_to).
THEOREM OutcomeTrueHolds == Spec => []OutcomeTrue
<1>1. IInv => OutcomeTrue BY DEF IInv
<1>2. QED BY <1>1, OnboardingInductive, PTL

\* Registered workspaces have a server recent enough (workspace_add_inner).
THEOREM RegisteredIsServedHolds == Spec => []RegisteredIsServed
<1>1. IInv => RegisteredIsServed BY DEF IInv, TypeOK, ServedInv, RegisteredIsServed
<1>2. QED BY <1>1, OnboardingInductive, PTL

\* Additions are not lost (add_workspace_entry).
THEOREM NoLostEntryHolds == Spec => []NoLostEntry
<1>1. IInv => NoLostEntry BY DEF IInv
<1>2. QED BY <1>1, OnboardingInductive, PTL

\* The file stays one that parse_fleet accepts (add_workspace_entry).
THEOREM FleetIsValidHolds == Spec => []FleetIsValid
<1>1. IInv => FleetIsValid BY DEF IInv
<1>2. QED BY <1>1, OnboardingInductive, PTL
=============================================================================
