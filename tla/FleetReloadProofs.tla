------------------------- MODULE FleetReloadProofs -------------------------
(***************************************************************************)
(* IInv of FleetReload is an invariant for any number of calls, workspaces, *)
(* endpoints and attempts, and with it no call works on an endpoint that    *)
(* the file did not give it, and no handle has two servers.                 *)
(***************************************************************************)
EXTENDS FleetReload, TLAPS

\* A handle knows one of the endpoints.
LEMMA HandleType ==
  /\ None \notin Handles
  /\ \A h \in Handles : h.ep \in Endpoints
  /\ \A w \in Workspaces, e \in Endpoints, c \in Calls \cup {None} :
       [ws |-> w, ep |-> e, made |-> c] \in Handles
BY HandleAssumption DEF Handles

\* A snapshot built from a fleet is typed and has the fleet's endpoints, with
\* handles kept or made (build_snapshot).
LEMMA BuiltSnapshot ==
  ASSUME NEW old \in Snapshots, NEW f \in Fleets, NEW c \in Calls \cup {None}
  PROVE  BuildSnapshot(old, f, c) \in Snapshots /\ Names(BuildSnapshot(old, f, c), f)
<1> DEFINE new == BuildSnapshot(old, f, c)
<1>1. ASSUME NEW w \in Workspaces
      PROVE  /\ new[w] \in Handles \cup {None}
             /\ IF new[w] = None THEN f[w] = None ELSE new[w].ep = f[w]
  <2>1. f[w] \in Endpoints \cup {None} /\ old[w] \in Handles \cup {None}
    BY DEF Fleets, Snapshots
  <2>2. CASE f[w] = None BY <2>2 DEF BuildSnapshot
  <2>3. CASE f[w] # None /\ old[w] # None /\ old[w].ep = f[w]
    BY <2>1, <2>3 DEF BuildSnapshot
  <2>4. CASE f[w] # None /\ ~(old[w] # None /\ old[w].ep = f[w])
    <3>1. new[w] = [ws |-> w, ep |-> f[w], made |-> c] BY <2>4 DEF BuildSnapshot
    <3>2. new[w] \in Handles BY <2>1, <2>4, <3>1, HandleType
    <3>3. new[w] # None BY <3>2, HandleType
    <3>4. new[w].ep = f[w] BY <3>1
    <3>5. QED BY <3>2, <3>3, <3>4
  <2>5. QED BY <2>2, <2>3, <2>4
<1>2. new = [w \in Workspaces |-> new[w]] BY DEF BuildSnapshot
<1>3. QED BY <1>1, <1>2 DEF Snapshots, Names

\* The empty fleet is a fleet and parses.
LEMMA NoFleetType == NoFleet \in Fleets /\ NoFleet \in Snapshots /\ NoFleet # Bad
BY ReloadAssumption DEF NoFleet, Fleets, Snapshots

\* At the start the invariant holds.
LEMMA InitSound == Init => IInv
<1> SUFFICES ASSUME Init PROVE IInv OBVIOUS
<1> USE ReloadAssumption, NoFleetType DEF Init
<1>1. TypeOK BY DEF TypeOK, Stamps, Pcs
<1>2. StampInv /\ SeenInv /\ LockInv /\ FreshEnough
  BY DEF StampInv, SeenInv, LockInv, FreshEnough
<1>3. CallInv BY DEF CallInv, Asking
<1>4. QED BY <1>1, <1>2, <1>3 DEF IInv

\* What a change of the file tells the calls under way is added to what they
\* know.
LEMMA Witnessed ==
  ASSUME TypeOK, NEW f \in Fleets \cup {Bad}, NEW s \in Stamps, Witness(f, s)
  PROVE  /\ named' \in [Calls -> SUBSET Endpoints] /\ missed' \subseteq Calls
         /\ \A c \in Calls : named[c] \subseteq named'[c]
         /\ missed \subseteq missed'
         /\ \A c \in Asking : f # Bad /\ f[Target[c]] # None => f[Target[c]] \in named'[c]
         /\ s = 0 => Asking \subseteq missed'
<1> USE ReloadAssumption DEF TypeOK, Witness, Asking, Fleets
<1>1. \A c \in Calls : named'[c] \in SUBSET Endpoints OBVIOUS
<1>2. QED BY <1>1

\* Steps of connecting change nothing that loading is about.
LEMMA ConnectingAside ==
  ASSUME IInv, UNCHANGED <<fileVars, loadVars, now, handle, histVars>>,
         \A d \in Calls : pc'[d] = pc[d]
           \/ {pc[d], pc'[d]} \subseteq {"wait", "look", "try", "check", "probe", "done", "failed"}
  PROVE  StampInv' /\ SeenInv' /\ CallInv' /\ FreshEnough'
<1> USE DEF IInv, fileVars, loadVars, histVars
<1>1. StampInv' BY DEF StampInv
<1>2. SeenInv' BY DEF SeenInv, Names
<1>3. Asking' = Asking BY DEF Asking
<1>4. CallInv'
  <2>1. \A d \in Calls : pc'[d] \in {"swap", "pick"} => pc[d] = pc'[d] OBVIOUS
  <2>2. QED BY <1>3, <2>1 DEF CallInv, Asking
<1>5. FreshEnough' BY DEF FreshEnough
<1>6. QED BY <1>1, <1>2, <1>4, <1>5

\* Edits of the file keep the invariant: their stamp is new to everybody.
LEMMA EditKeeps ==
  ASSUME IInv, (\E f \in Fleets \cup {Bad} : Write(f)) \/ Delete
  PROVE  IInv'
<1> USE ReloadAssumption DEF IInv, loadVars, slotVars
<1>1. CASE \E f \in Fleets \cup {Bad} : Write(f)
  <2>1. PICK f \in Fleets \cup {Bad} : Write(f) BY <1>1
  <2>2. writes + 1 \in Stamps /\ writes \in Nat BY <2>1 DEF Write, TypeOK, Stamps
  <2>3. Witness(f, writes + 1) /\ fleet' = f /\ stamp' = writes + 1 /\ writes' = writes + 1
    BY <2>1 DEF Write
  <2>4. UNCHANGED <<up, seen, mutex, snapshot, got, slot, locked, checked, pc, now, handle, tries>>
    BY <2>1 DEF Write
  <2>5. TypeOK' BY <2>2, <2>3, <2>4, Witnessed DEF TypeOK
  <2>6. StampInv' BY <2>2, <2>3, <2>4 DEF StampInv, TypeOK, Stamps
  <2>7. SeenInv' BY <2>2, <2>3, <2>4 DEF SeenInv, StampInv, TypeOK, Stamps
  <2>8. Asking' = Asking BY <2>4 DEF Asking
  <2>9. CallInv'
    <3>1. \A d \in Calls : now[d] # writes + 1 BY <2>2 DEF StampInv, TypeOK, Stamps
    <3>2. stamp' # 0 BY <2>2, <2>3
    <3>3. \A c \in Asking : /\ fleet' # Bad /\ fleet'[Target[c]] # None => fleet'[Target[c]] \in named'[c]
                            /\ named[c] \subseteq named'[c]
      BY <2>2, <2>3, Witnessed DEF Asking
    <3>4. missed \subseteq missed' BY <2>2, <2>3, Witnessed
    <3>5. \A c \in Calls : named[c] \subseteq named'[c] BY <2>2, <2>3, Witnessed
    <3>6. QED BY <2>3, <2>4, <2>8, <3>1, <3>2, <3>3, <3>4, <3>5 DEF CallInv
  <2>10. LockInv' BY <2>4 DEF LockInv
  <2>11. FreshEnough' BY <2>2, <2>3, <2>4, Witnessed DEF FreshEnough
  <2>12. QED BY <2>5, <2>6, <2>7, <2>9, <2>10, <2>11
<1>2. CASE Delete
  <2>2. 0 \in Stamps BY DEF Stamps
  <2>3. Witness(NoFleet, 0) /\ fleet' = NoFleet /\ stamp' = 0 /\ writes' = writes
    BY <1>2 DEF Delete
  <2>4. UNCHANGED <<up, seen, mutex, snapshot, got, slot, locked, checked, pc, now, handle, tries>>
    BY <1>2 DEF Delete
  <2>5. TypeOK' BY <2>2, <2>3, <2>4, Witnessed, NoFleetType DEF TypeOK
  <2>6. StampInv' BY <2>3, <2>4 DEF StampInv
  <2>7. SeenInv' BY <2>3, <2>4 DEF SeenInv
  <2>8. Asking' = Asking /\ Asking \subseteq Calls BY <2>4 DEF Asking
  <2>9. CallInv'
    <3>1. missed \subseteq missed' /\ Asking \subseteq missed' BY <2>2, <2>3, Witnessed, NoFleetType
    <3>2. \A c \in Calls : named[c] \subseteq named'[c] BY <2>2, <2>3, Witnessed, NoFleetType
    <3>3. \A c \in Calls : fleet'[Target[c]] = None BY <2>3 DEF NoFleet
    <3>4. QED BY <2>3, <2>4, <2>8, <3>1, <3>2, <3>3 DEF CallInv
  <2>10. LockInv' BY <2>4 DEF LockInv
  <2>11. FreshEnough' BY <2>2, <2>3, <2>4, Witnessed, NoFleetType DEF FreshEnough
  <2>12. QED BY <2>5, <2>6, <2>7, <2>9, <2>10, <2>11
<1>3. QED BY <1>1, <1>2

\* The start of the server keeps the invariant.
LEMMA BootKeeps ==
  ASSUME IInv, BootStamp \/ BootLoad
  PROVE  IInv'
<1> USE ReloadAssumption DEF IInv, fileVars, slotVars, histVars
<1>1. up # "serving" /\ \A c \in Calls : pc[c] = "idle" BY DEF BootStamp, BootLoad, SeenInv
<1>2. UNCHANGED <<fleet, stamp, writes, mutex, got, slot, locked, checked, pc, now, handle, tries, named, missed>>
  BY DEF BootStamp, BootLoad
<1>3. seen' \in {seen, stamp} BY DEF BootStamp, BootLoad
<1>4. StampInv' BY <1>2, <1>3 DEF StampInv, TypeOK, Stamps
<1>5. Asking' = {} BY <1>1, <1>2 DEF Asking
<1>6. CallInv' BY <1>1, <1>2, <1>5 DEF CallInv
<1>7. LockInv' /\ FreshEnough' BY <1>2 DEF LockInv, FreshEnough
<1>8. CASE BootStamp
  <2>1. TypeOK' BY <1>2, <1>8 DEF BootStamp, TypeOK
  <2>2. SeenInv' BY <1>2, <1>8 DEF BootStamp, SeenInv
  <2>3. QED BY <2>1, <2>2, <1>4, <1>6, <1>7
<1>9. CASE BootLoad
  <2>1. fleet # Bad => /\ BuildSnapshot(NoFleet, fleet, None) \in Snapshots
                       /\ Names(BuildSnapshot(NoFleet, fleet, None), fleet)
    BY BuiltSnapshot, NoFleetType DEF TypeOK
  <2>2. TypeOK' BY <1>2, <1>9, <2>1 DEF BootLoad, TypeOK
  <2>3. SeenInv' BY <1>1, <1>2, <1>9, <2>1 DEF BootLoad, SeenInv
  <2>4. QED BY <2>2, <2>3, <1>4, <1>6, <1>7
<1>10. QED BY <1>8, <1>9

\* A call that begins knows what the file says.
LEMMA CallKeeps == ASSUME IInv, NEW c \in Calls, Call(c) PROVE IInv'
<1> USE ReloadAssumption DEF IInv, fileVars, loadVars, slotVars, Goto
<1>1. UNCHANGED <<fleet, stamp, writes, up, seen, mutex, snapshot, got, slot, locked, checked, now, handle, tries>>
  BY DEF Call
<1>2. up = "serving" /\ pc[c] = "idle" /\ pc' = [pc EXCEPT ![c] = "refresh"] BY DEF Call
<1>3. /\ named'[c] = IF fleet = Bad THEN {} ELSE {fleet[Target[c]]} \ {None}
      /\ \A d \in Calls \ {c} : named'[d] = named[d]
      /\ named' \in [Calls -> SUBSET Endpoints]
      /\ missed \subseteq missed' /\ missed' \subseteq Calls
      /\ stamp = 0 => c \in missed'
  <2>1. (IF fleet = Bad THEN {} ELSE {fleet[Target[c]]} \ {None}) \in SUBSET Endpoints
    BY DEF TypeOK, Fleets
  <2>2. QED BY <2>1 DEF Call, TypeOK
<1>4. TypeOK' BY <1>1, <1>2, <1>3 DEF TypeOK, Pcs
<1>5. StampInv' BY <1>1 DEF StampInv
<1>6. SeenInv' BY <1>1, <1>2 DEF SeenInv, TypeOK, Names
<1>7. Asking' = Asking \cup {c} BY <1>2 DEF Asking, TypeOK
<1>8. \A d \in Calls : pc'[d] \in {"swap", "pick"} => pc[d] = pc'[d] /\ d # c BY <1>2 DEF TypeOK
<1>9. Asking \subseteq Calls \ {c} BY <1>2 DEF Asking
<1>10. CallInv' BY <1>1, <1>2, <1>3, <1>7, <1>8, <1>9 DEF CallInv
<1>11. LockInv' BY <1>1, <1>2 DEF LockInv, TypeOK
<1>12. FreshEnough' BY <1>1, <1>2, <1>3 DEF FreshEnough, SeenInv
<1>13. QED BY <1>4, <1>5, <1>6, <1>10, <1>11, <1>12

\* Steps of refresh_fleet_if_changed keep the invariant: what a call will pick
\* is what it, or the reload it looked at, found in the file.
LEMMA RefreshKeeps ==
  ASSUME IInv, NEW c \in Calls, Lock(c) \/ Stat(c) \/ Load(c) \/ Swap(c)
  PROVE  IInv'
<1> USE ReloadAssumption DEF IInv, fileVars, slotVars, histVars, Goto
<1>1. UNCHANGED <<fleet, stamp, writes, up, slot, locked, checked, handle, tries, named, missed>>
  BY DEF Lock, Stat, Load, Swap
<1>2. up = "serving" BY DEF Lock, Stat, Load, Swap, SeenInv, TypeOK
<1>3. FreshEnough' BY <1>1 DEF FreshEnough
<1>4. CASE Lock(c)
  <2>1. mutex = None /\ pc[c] = "refresh" /\ pc' = [pc EXCEPT ![c] = "stat"] /\ mutex' = c
        /\ UNCHANGED <<seen, snapshot, got, now>>
    BY <1>4 DEF Lock
  <2>2. TypeOK' BY <1>1, <2>1 DEF TypeOK, Pcs
  <2>3. StampInv' /\ SeenInv' BY <1>1, <2>1 DEF StampInv, SeenInv, TypeOK, Names
  <2>4. Asking' = Asking BY <2>1 DEF Asking, TypeOK
  <2>5. CallInv' BY <1>1, <2>1, <2>4 DEF CallInv, TypeOK, Asking
  <2>6. LockInv' BY <1>1, <2>1 DEF LockInv, TypeOK
  <2>7. QED BY <1>3, <2>2, <2>3, <2>5, <2>6
<1>5. CASE Stat(c)
  <2>1. mutex = c /\ pc[c] = "stat" /\ c \in Asking BY <1>5 DEF Stat, LockInv, Asking
  <2>2. UNCHANGED <<seen, snapshot, got>> BY <1>5 DEF Stat
  <2>3. CASE stamp = seen /\ mutex' = None /\ pc' = [pc EXCEPT ![c] = "pick"] /\ UNCHANGED now
    <3>1. TypeOK' BY <1>1, <2>2, <2>3 DEF TypeOK, Pcs
    <3>2. StampInv' /\ SeenInv' BY <1>1, <2>1, <2>2, <2>3 DEF StampInv, SeenInv, TypeOK, Names
    <3>3. Asking' = Asking BY <2>1, <2>3 DEF Asking, TypeOK
    <3>4. snapshot[Target[c]] # None => snapshot[Target[c]].ep \in named[c] \/ c \in missed
      <4>1. CASE stamp = 0 BY <2>1, <4>1 DEF CallInv
      <4>2. CASE stamp # 0
        <5>1. fleet # Bad /\ Names(snapshot, fleet) BY <1>2, <2>3, <4>2 DEF SeenInv
        <5>2. fleet[Target[c]] # None => fleet[Target[c]] \in named[c] BY <2>1, <5>1 DEF CallInv
        <5>3. fleet \in Fleets /\ snapshot \in Snapshots BY <5>1 DEF TypeOK
        <5>4. fleet[Target[c]] = None => snapshot[Target[c]] = None \/ snapshot[Target[c]].ep = None
          BY <5>1 DEF Names
        <5>5. snapshot[Target[c]] # None => snapshot[Target[c]].ep # None
          BY <5>3, HandleType DEF Snapshots
        <5>6. QED BY <5>1, <5>2, <5>4, <5>5 DEF Names
      <4>3. QED BY <4>1, <4>2
    <3>5. \A d \in Calls : pc'[d] # "swap" BY <2>1, <2>3 DEF LockInv, TypeOK
    <3>6. CallInv' BY <1>1, <2>2, <2>3, <3>3, <3>4, <3>5 DEF CallInv, TypeOK, Asking
    <3>7. LockInv' BY <1>1, <2>1, <2>3 DEF LockInv, TypeOK
    <3>8. QED BY <1>3, <3>1, <3>2, <3>6, <3>7
  <2>4. CASE stamp # seen /\ now' = [now EXCEPT ![c] = stamp] /\ pc' = [pc EXCEPT ![c] = "load"]
             /\ UNCHANGED mutex
    <3>1. TypeOK' BY <1>1, <2>2, <2>4 DEF TypeOK, Pcs
    <3>2. StampInv' /\ SeenInv' BY <1>1, <2>1, <2>2, <2>4 DEF StampInv, SeenInv, TypeOK, Names, Stamps
    <3>3. Asking' = Asking BY <2>1, <2>4 DEF Asking, TypeOK
    <3>4. CallInv' BY <1>1, <2>2, <2>4, <3>3 DEF CallInv, TypeOK, Asking
    <3>5. LockInv' BY <1>1, <2>1, <2>4 DEF LockInv, TypeOK
    <3>6. QED BY <1>3, <3>1, <3>2, <3>4, <3>5
  <2>5. CASE mutex' = None /\ pc' = [pc EXCEPT ![c] = "failed"] /\ UNCHANGED now
    <3>1. TypeOK' BY <1>1, <2>2, <2>5 DEF TypeOK, Pcs
    <3>2. StampInv' /\ SeenInv' BY <1>1, <2>1, <2>2, <2>5 DEF StampInv, SeenInv, TypeOK, Names
    <3>3. Asking' \subseteq Asking BY <2>1, <2>5 DEF Asking, TypeOK
    <3>4. CallInv' BY <1>1, <2>2, <2>5, <3>3 DEF CallInv, TypeOK, Asking
    <3>5. LockInv' BY <1>1, <2>1, <2>5 DEF LockInv, TypeOK
    <3>6. QED BY <1>3, <3>1, <3>2, <3>4, <3>5
  <2>6. QED BY <1>5, <2>3, <2>4, <2>5 DEF Stat
<1>6. CASE Load(c)
  <2>1. mutex = c /\ pc[c] = "load" /\ c \in Asking BY <1>6 DEF Load, LockInv, Asking
  <2>2. UNCHANGED <<seen, snapshot>> BY <1>6 DEF Load
  <2>3. CASE mutex' = None /\ pc' = [pc EXCEPT ![c] = "failed"] /\ UNCHANGED got
             /\ now' = [now EXCEPT ![c] = 0]
    <3>1. TypeOK' BY <1>1, <2>2, <2>3 DEF TypeOK, Pcs, Stamps
    <3>2. StampInv' /\ SeenInv' BY <1>1, <2>1, <2>2, <2>3 DEF StampInv, SeenInv, TypeOK, Names, Stamps
    <3>3. Asking' \subseteq Asking BY <2>1, <2>3 DEF Asking, TypeOK
    <3>4. CallInv' BY <1>1, <2>2, <2>3, <3>3 DEF CallInv, TypeOK, Asking
    <3>5. LockInv' BY <1>1, <2>1, <2>3 DEF LockInv, TypeOK
    <3>6. QED BY <1>3, <3>1, <3>2, <3>4, <3>5
  <2>4. CASE fleet # Bad /\ got' = fleet /\ pc' = [pc EXCEPT ![c] = "swap"] /\ UNCHANGED <<mutex, now>>
    <3>1. TypeOK' BY <1>1, <2>2, <2>4 DEF TypeOK, Pcs
    <3>2. StampInv' /\ SeenInv' BY <1>1, <2>1, <2>2, <2>4 DEF StampInv, SeenInv, TypeOK, Names
    <3>3. Asking' = Asking BY <2>1, <2>4 DEF Asking, TypeOK
    <3>4. \A d \in Calls : pc'[d] \in {"swap", "pick"} => d \in Asking BY <2>1, <2>4 DEF Asking, TypeOK
    <3>5. CallInv' BY <1>1, <2>2, <2>4, <3>3, <3>4 DEF CallInv, TypeOK, Asking
    <3>6. LockInv' BY <1>1, <2>1, <2>4 DEF LockInv, TypeOK
    <3>7. QED BY <1>3, <3>1, <3>2, <3>5, <3>6
  <2>5. QED BY <1>6, <2>3, <2>4 DEF Load
<1>7. CASE Swap(c)
  <2>1. mutex = c /\ pc[c] = "swap" /\ c \in Asking BY <1>7 DEF Swap, LockInv, Asking
  <2>2. /\ snapshot' = BuildSnapshot(snapshot, got, c) /\ seen' = now[c] /\ mutex' = None
        /\ pc' = [pc EXCEPT ![c] = "pick"] /\ now' = [now EXCEPT ![c] = 0] /\ got' = NoFleet
    BY <1>7 DEF Swap, StampOf
  <2>3. snapshot' \in Snapshots /\ Names(snapshot', got)
    BY <2>2, BuiltSnapshot DEF TypeOK
  <2>4. TypeOK' BY <1>1, <2>2, <2>3, NoFleetType DEF TypeOK, Pcs, Stamps
  <2>5. StampInv' BY <1>1, <2>2 DEF StampInv, TypeOK, Stamps
  <2>6. (stamp = now[c] /\ stamp # 0) => got = fleet /\ fleet # Bad BY <2>1 DEF CallInv
  <2>7. SeenInv' BY <1>1, <1>2, <2>1, <2>2, <2>3, <2>6 DEF SeenInv, TypeOK
  <2>8. Asking' = Asking BY <2>1, <2>2 DEF Asking, TypeOK
  <2>9. \A d \in Calls : pc'[d] # "swap" BY <2>1, <2>2 DEF LockInv, TypeOK
  <2>10. \A d \in Calls : (pc'[d] = "pick" /\ snapshot'[Target[d]] # None)
           => snapshot'[Target[d]].ep \in named[d]
    <3>1. SUFFICES ASSUME NEW d \in Calls, pc'[d] = "pick", snapshot'[Target[d]] # None
                   PROVE  snapshot'[Target[d]].ep \in named[d]
      OBVIOUS
    <3>2. pc[d] \in {"swap", "pick"} BY <2>1, <2>2, <3>1 DEF TypeOK
    <3>3. got[Target[d]] = snapshot'[Target[d]].ep BY <2>3, <3>1 DEF Names
    <3>4. got[Target[d]] # None BY <2>3, <3>1, <3>3, HandleType DEF Snapshots
    <3>5. QED BY <2>1, <3>2, <3>3, <3>4 DEF CallInv
  <2>11. CallInv' BY <1>1, <2>8, <2>9, <2>10 DEF CallInv, Asking
  <2>12. LockInv' BY <1>1, <2>1, <2>2 DEF LockInv, TypeOK
  <2>13. QED BY <1>3, <2>4, <2>5, <2>7, <2>11, <2>12
<1>8. QED BY <1>4, <1>5, <1>6, <1>7

\* The handle a call picks is one it may work with.
LEMMA PickKeeps == ASSUME IInv, NEW c \in Calls, Pick(c) PROVE IInv'
<1> USE ReloadAssumption DEF IInv, fileVars, loadVars, slotVars, histVars, Goto
<1> DEFINE h == snapshot[Target[c]]
<1>1. UNCHANGED <<fleet, stamp, writes, up, seen, mutex, snapshot, got, slot, locked, checked, now, tries, named, missed>>
  BY DEF Pick
<1>2. pc[c] = "pick" /\ handle' = [handle EXCEPT ![c] = h] BY DEF Pick
<1>3. pc' = [pc EXCEPT ![c] = IF h = None THEN "failed" ELSE "wait"] BY DEF Pick
<1>4. h \in Handles \cup {None} BY DEF TypeOK, Snapshots
<1> HIDE DEF h
<1>5. TypeOK' BY <1>1, <1>2, <1>3, <1>4 DEF TypeOK, Pcs
<1>6. StampInv' BY <1>1 DEF StampInv
<1>7. SeenInv' BY <1>1, <1>2, <1>3 DEF SeenInv, TypeOK, Names
<1>8. Asking' \subseteq Asking BY <1>2, <1>3 DEF Asking, TypeOK
<1>9. CallInv' BY <1>1, <1>3, <1>8 DEF CallInv, TypeOK, Asking
<1>10. LockInv' BY <1>1, <1>2, <1>3 DEF LockInv, TypeOK
<1>11. h # None => h.ep \in named[c] \/ c \in missed BY <1>2 DEF CallInv, Asking, h
<1>12. FreshEnough' BY <1>1, <1>2, <1>11 DEF FreshEnough, TypeOK
<1>13. QED BY <1>5, <1>6, <1>7, <1>9, <1>10, <1>12

\* Steps of connecting keep the invariant: the slot's mutex keeps others out.
LEMMA ConnectKeeps ==
  ASSUME IInv, NEW c \in Calls,
         LockSlot(c) \/ Look(c) \/ BeginCheck(c) \/ CheckEnds(c) \/ Connect(c)
           \/ AttemptFails(c) \/ Probed(c)
  PROVE  IInv'
<1> USE ReloadAssumption DEF IInv, fileVars, loadVars, slotVars, histVars, Goto, Leave
<1>1. UNCHANGED <<fileVars, loadVars, now, handle, histVars>>
  BY DEF LockSlot, Look, BeginCheck, CheckEnds, Connect, AttemptFails, Probed
<1>2. pc[c] \in {"wait", "look", "try", "check", "probe"} /\ handle[c] \in Handles
  BY DEF LockSlot, Look, BeginCheck, CheckEnds, Connect, AttemptFails, Probed, LockInv, TypeOK
<1>3. \E p \in {"wait", "look", "try", "check", "probe", "done", "failed"} : pc' = [pc EXCEPT ![c] = p]
  BY <1>2 DEF LockSlot, Look, BeginCheck, CheckEnds, Connect, AttemptFails, Probed, TypeOK
<1>4. \A d \in Calls : pc'[d] = pc[d]
        \/ {pc[d], pc'[d]} \subseteq {"wait", "look", "try", "check", "probe", "done", "failed"}
  BY <1>2, <1>3 DEF TypeOK
<1>5. StampInv' /\ SeenInv' /\ CallInv' /\ FreshEnough' BY <1>1, <1>4, ConnectingAside
<1>6. \A d \in Calls \ {c} : pc[d] \in {"look", "try", "check", "probe"} => handle[d] # None /\ locked[handle[d]] = d
  BY DEF LockInv
<1>7. pc'\in [Calls -> Pcs] BY <1>3 DEF TypeOK, Pcs
<1>8. pc[c] # "wait" => locked[handle[c]] = c BY <1>2 DEF LockInv
<1>9. handle \in [Calls -> Handles \cup {None}] BY DEF TypeOK

<1>10. CASE LockSlot(c)
  <2>1. TypeOK' BY <1>1, <1>2, <1>7, <1>10 DEF LockSlot, SlotFree, TypeOK, LockInv
  <2>2. LockInv' BY <1>1, <1>2, <1>6, <1>8, <1>9, <1>10 DEF LockSlot, SlotFree, TypeOK, LockInv
  <2>3. QED BY <1>5, <2>1, <2>2
<1>11. CASE Look(c)
  <2>1. TypeOK' BY <1>1, <1>2, <1>7, <1>11 DEF Look, TypeOK, LockInv
  <2>2. LockInv' BY <1>1, <1>2, <1>6, <1>8, <1>9, <1>11 DEF Look, TypeOK, LockInv
  <2>3. QED BY <1>5, <2>1, <2>2
<1>12. CASE BeginCheck(c) \/ CheckEnds(c)
  <2>1. TypeOK' BY <1>1, <1>2, <1>7, <1>12 DEF BeginCheck, CheckEnds, TypeOK, LockInv
  <2>2. LockInv'
    <3>1. CASE BeginCheck(c)
      BY <1>1, <1>2, <1>6, <1>8, <1>9, <3>1 DEF BeginCheck, TypeOK, LockInv
    <3>2. CASE CheckEnds(c)
      BY <1>1, <1>2, <1>6, <1>8, <1>9, <3>2 DEF CheckEnds, TypeOK, LockInv
    <3>3. QED BY <1>12, <3>1, <3>2
  <2>3. QED BY <1>5, <2>1, <2>2
<1>13. CASE Connect(c)
  <2>1. TypeOK' BY <1>1, <1>2, <1>7, <1>13 DEF Connect, TypeOK, LockInv
  <2>2. LockInv' BY <1>1, <1>2, <1>6, <1>8, <1>9, <1>13 DEF Connect, TypeOK, LockInv
  <2>3. QED BY <1>5, <2>1, <2>2
<1>14. CASE AttemptFails(c)
  <2>1. TypeOK' BY <1>1, <1>2, <1>7, <1>14 DEF AttemptFails, Fewer, TypeOK, LockInv
  <2>2. LockInv' BY <1>1, <1>2, <1>6, <1>8, <1>9, <1>14 DEF AttemptFails, Fewer, TypeOK, LockInv
  <2>3. QED BY <1>5, <2>1, <2>2
<1>15. CASE Probed(c)
  <2>1. TypeOK' BY <1>1, <1>2, <1>7, <1>15 DEF Probed, TypeOK, LockInv
  <2>2. LockInv' BY <1>1, <1>2, <1>6, <1>8, <1>9, <1>15 DEF Probed, TypeOK, LockInv
  <2>3. QED BY <1>5, <2>1, <2>2
<1>16. QED BY <1>10, <1>11, <1>12, <1>13, <1>14, <1>15

\* The end of a connection keeps the invariant.
LEMMA CloseKeeps == ASSUME IInv, NEW h \in Handles, Closes(h) PROVE IInv'
<1> USE DEF IInv, fileVars, loadVars, histVars, Closes
<1>1. StampInv' /\ SeenInv' /\ CallInv' /\ FreshEnough' BY ConnectingAside
<1>2. TypeOK' BY DEF TypeOK
<1>3. LockInv' BY DEF LockInv, TypeOK
<1>4. QED BY <1>1, <1>2, <1>3

\* Every step keeps the invariant.
LEMMA StepSound == IInv /\ [Next]_vars => IInv'
<1> SUFFICES ASSUME IInv, [Next]_vars PROVE IInv' OBVIOUS
<1>1. CASE (\E f \in Fleets \cup {Bad} : Write(f)) \/ Delete BY <1>1, EditKeeps
<1>2. CASE BootStamp \/ BootLoad BY <1>2, BootKeeps
<1>3. ASSUME NEW c \in Calls, Call(c) PROVE IInv' BY <1>3, CallKeeps
<1>4. ASSUME NEW c \in Calls, Step(c) PROVE IInv'
  BY <1>4, RefreshKeeps, PickKeeps, ConnectKeeps DEF Step, Timed, Checking
<1>5. CASE \E h \in Handles : Closes(h) BY <1>5, CloseKeeps
<1>6. CASE UNCHANGED vars
  <2> USE <1>6 DEF vars, fileVars, loadVars, slotVars, histVars, IInv
  <2>1. TypeOK' BY DEF TypeOK
  <2>2. StampInv' /\ SeenInv' /\ CallInv' /\ FreshEnough' BY ConnectingAside
  <2>3. LockInv' BY DEF LockInv
  <2>4. QED BY <2>1, <2>2, <2>3
<1>7. QED BY <1>1, <1>2, <1>3, <1>4, <1>5, <1>6 DEF Next

\* IInv is an invariant of the reload and connection of workspaces by the MCP
\* server (lib.rs, refresh_fleet_if_changed and client).
THEOREM FleetReloadInductive == Spec => []IInv
<1>1. Init => IInv BY InitSound
<1>2. IInv /\ [Next]_vars => IInv' BY StepSound
<1>3. QED BY <1>1, <1>2, PTL DEF Spec

\* No call works on an endpoint that the fleet file did not name for its
\* workspace while the call asked, unless the file was missing meanwhile: the
\* stamp is taken before the read (refresh_fleet_if_changed).
THEOREM FreshEnoughHolds == Spec => []FreshEnough
<1>1. IInv => FreshEnough BY DEF IInv
<1>2. QED BY <1>1, FleetReloadInductive, PTL

\* No handle has a server tried while one is connected or being tried (client
\* holds the slot's mutex across the attempts).
THEOREM OneServerHolds == Spec => []OneServer
<1>1. ASSUME IInv PROVE OneServer
  <2>1. SUFFICES ASSUME NEW c \in Calls, pc[c] = "probe"
                 PROVE  slot[handle[c]] # "live" /\ Trying(handle[c]) = {c}
    BY DEF OneServer
  <2>2. slot[handle[c]] # "live" /\ locked[handle[c]] = c BY <1>1, <2>1 DEF IInv, LockInv
  <2>3. \A d \in Calls : pc[d] = "probe" => locked[handle[d]] = d BY <1>1 DEF IInv, LockInv
  <2>4. QED BY <2>1, <2>2, <2>3 DEF Trying
<1>2. QED BY <1>1, FleetReloadInductive, PTL
=============================================================================
