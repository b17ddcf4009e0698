---------------------------- MODULE Parts_proofs ----------------------------
(***************************************************************************)
(* Three of the parts that share no state, as in MCParts: the files of a   *)
(* backup, deployments, image recipes.                                     *)
(***************************************************************************)
EXTENDS ReflinkArtifact, Deploy, Images, FiniteSetTheorems, TLAPS

-----------------------------------------------------------------------------
(* ReflinkArtifact implements Artifact, for any number of crashes and        *)
(* failing calls, also inside an atomic write.                               *)

\* The invariant of the refinement.
IInv == TypeOK /\ DirectoryInv

LEMMA InitIInv == Init => IInv
<1> SUFFICES ASSUME Init PROVE IInv
  OBVIOUS
<1>1. TypeOK
  BY DEF Init, TypeOK
<1>2. DirectoryInv
  BY DEF Init, DirectoryInv, Making, Removing, Writing, Pending, Sealed
<1> QED BY <1>1, <1>2 DEF IInv

LEMMA NextIInv == IInv /\ [Next]_vars => IInv'
<1> SUFFICES ASSUME IInv, [Next]_vars PROVE IInv'
  OBVIOUS
<1> USE DEF IInv, TypeOK, DirectoryInv, Making, Removing, Writing, Pending, Sealed, Owned,
            Empty, row, storage, bounds, Go
<1>1. CASE Admit       BY <1>1 DEF Admit
<1>2. CASE Retire      BY <1>2 DEF Retire
<1>3. CASE Attempt     BY <1>3 DEF Attempt
<1>4. CASE Finish      BY <1>4 DEF Finish
<1>5. CASE Forget      BY <1>5 DEF Forget
<1>6. CASE MakeDirectory   BY <1>6 DEF MakeDirectory
<1>7. CASE WriteTemporary  BY <1>7 DEF WriteTemporary
<1>8. CASE Persist
  <2>1. CASE pc = "tagging"
    <3>1. files' = {"owner"} /\ pc' = "look" /\ temps' = temps - 1
      BY <1>8, <2>1 DEF Persist
    <3> QED BY <1>8, <2>1, <3>1 DEF Persist
  <2>2. CASE pc = "sealing"
    <3>1. files' = files \union {"ready"} /\ temps' = temps - 1
      BY <1>8, <2>2 DEF Persist
    <3>2. pc' = IF record = "create" THEN "made" ELSE "move"
      BY <1>8, <2>2 DEF Persist
    <3> QED BY <1>8, <2>2, <3>1, <3>2 DEF Persist
  <2> QED BY <1>8, <2>1, <2>2 DEF Persist
<1>9. CASE Look        BY <1>9 DEF Look
<1>10. CASE ClearDisk  BY <1>10 DEF ClearDisk
<1>11. CASE OpenDisk   BY <1>11 DEF OpenDisk
<1>12. CASE CloneDisk  BY <1>12 DEF CloneDisk
<1>13. CASE MoveDisk   BY <1>13 DEF MoveDisk
<1>14. CASE StartRemoval   BY <1>14 DEF StartRemoval
<1>15. CASE UnlinkDisk     BY <1>15 DEF UnlinkDisk
<1>16. CASE UnlinkManifest BY <1>16 DEF UnlinkManifest
<1>17. CASE UnlinkOwner    BY <1>17 DEF UnlinkOwner
<1>18. CASE RemoveDirectory BY <1>18 DEF RemoveDirectory
<1>19. CASE Refuse
  <2>1. pc \in Making \union Removing
    BY <1>19 DEF Refuse, Refused
  <2> QED BY <1>19, <2>1 DEF Refuse, Fail
<1>20. CASE CallFails  BY <1>20 DEF CallFails, Fail, BoundsAssumption
<1>21. CASE Crash      BY <1>21 DEF Crash
<1>22. CASE UNCHANGED vars BY <1>22 DEF vars
<1> QED
  BY <1>1, <1>2, <1>3, <1>4, <1>5, <1>6, <1>7, <1>8, <1>9, <1>10, <1>11, <1>12, <1>13,
     <1>14, <1>15, <1>16, <1>17, <1>18, <1>19, <1>20, <1>21, <1>22 DEF Next, Step

\* Every reachable state satisfies the invariant, a manifest can be trusted.
THEOREM DirectoryInvariant == Spec => []DirectoryInv
<1>1. Spec => []IInv
  BY InitIInv, NextIInv, PTL DEF Spec
<1> QED BY <1>1, PTL DEF IInv

\* A published backup is whole in every reachable state.
THEOREM PublishedIsWhole == Spec => []PublishedWhole
<1>1. Spec => []IInv
  BY InitIInv, NextIInv, PTL DEF Spec
<1>2. IInv => PublishedWhole
  BY DEF IInv, TypeOK, DirectoryInv, PublishedWhole, Sealed, Owned
<1> QED BY <1>1, <1>2, PTL

(***************************************************************************)
(* Refinement: each system call is a step of Artifact or changes nothing   *)
(* that Artifact sees.                                                     *)
(***************************************************************************)
LEMMA InitRefines == Init => A!ArtifactInit
BY DEF Init, A!ArtifactInit, Held

LEMMA NextRefines == IInv /\ [Next]_vars => [A!ArtifactNext]_<<record, Held>>
<1> SUFFICES ASSUME IInv, [Next]_vars
             PROVE A!ArtifactNext \/ (record' = record /\ Held' = Held)
  OBVIOUS
<1> USE DEF IInv, TypeOK, DirectoryInv, Making, Removing, Writing, Pending, Sealed, Owned,
            Empty, row, storage, bounds, Go, Held
<1>1. CASE Admit
  <2>1. Held' = Held BY <1>1 DEF Admit
  <2> QED BY <1>1, <2>1 DEF Admit, A!ArtifactNext, A!Admitted
<1>2. CASE Retire
  <2>1. Held' = Held BY <1>2 DEF Retire
  <2> QED BY <1>2, <2>1 DEF Retire, A!ArtifactNext, A!Retired
<1>4. CASE Finish
  <2>1. Held' = Held BY <1>4 DEF Finish
  <2>2. CASE record = "create"
    BY <1>4, <2>1, <2>2 DEF Finish, A!ArtifactNext, A!Published
  <2>3. CASE record = "restore"
    BY <1>4, <2>1, <2>3 DEF Finish, A!ArtifactNext, A!Applied
  <2> QED BY <1>4, <2>2, <2>3 DEF Finish
<1>5. CASE Forget
  <2>1. Held' = Held BY <1>5 DEF Forget
  <2> QED BY <1>5, <2>1 DEF Forget, A!ArtifactNext, A!Forgotten
<1>6. CASE MakeDirectory
  <2>1. record' = record BY <1>6 DEF MakeDirectory
  <2>2. CASE ~dir
    BY <1>6, <2>1, <2>2 DEF MakeDirectory, A!ArtifactNext, A!Started
  <2>3. CASE dir
    <3> Held' = Held BY <1>6, <2>3 DEF MakeDirectory
    <3> QED BY <2>1
  <2> QED BY <2>2, <2>3
<1>8. CASE Persist
  <2>1. CASE pc = "tagging"
    <3>1. files' = files \union {"owner"} /\ UNCHANGED <<record, dir, whole, active>>
      BY <1>8, <2>1 DEF Persist
    <3>2. Held' = Held BY <1>8, <2>1, <3>1
    <3> QED BY <3>1, <3>2
  <2>2. CASE pc = "sealing"
    <3>1. files' = files \union {"ready"} /\ UNCHANGED <<record, dir, whole, active>>
      BY <1>8, <2>2 DEF Persist
    <3>2. Held = "partial" /\ Held' = "whole" BY <2>2, <3>1
    <3> QED BY <2>2, <3>1, <3>2 DEF A!ArtifactNext, A!Completed
  <2> QED BY <1>8, <2>1, <2>2 DEF Persist
<1>10. CASE ClearDisk
  <2>1. record' = record /\ Held' = Held BY <1>10 DEF ClearDisk
  <2> QED BY <2>1
<1>11. CASE OpenDisk
  <2>1. record' = record /\ Held' = Held BY <1>11 DEF OpenDisk
  <2> QED BY <2>1
<1>12. CASE CloneDisk
  <2>1. record' = record /\ Held' = Held BY <1>12 DEF CloneDisk
  <2> QED BY <2>1
<1>13. CASE MoveDisk
  <2>1. record' = record /\ Held = "whole" /\ Held' = "moved" BY <1>13 DEF MoveDisk
  <2> QED BY <1>13, <2>1 DEF MoveDisk, A!ArtifactNext, A!Moved
<1>15. CASE UnlinkDisk
  <2>1. record' = record /\ record = "retired" BY <1>15 DEF UnlinkDisk
  <2>2. Held' = Held \/ (Held = "whole" /\ Held' = "partial") BY <1>15 DEF UnlinkDisk
  <2> QED BY <2>1, <2>2 DEF A!ArtifactNext, A!Spoiled
<1>16. CASE UnlinkManifest
  <2>1. record' = record /\ record = "retired" BY <1>16 DEF UnlinkManifest
  <2>2. Held' = Held \/ (Held = "moved" /\ Held' = "partial") BY <1>16 DEF UnlinkManifest
  <2> QED BY <2>1, <2>2 DEF A!ArtifactNext, A!Spoiled
<1>17. CASE UnlinkOwner
  <2>1. record' = record /\ Held' = Held BY <1>17 DEF UnlinkOwner
  <2> QED BY <2>1
<1>18. CASE RemoveDirectory
  <2>1. record' = record /\ Held = "partial" /\ Held' = "absent" BY <1>18 DEF RemoveDirectory
  <2> QED BY <1>18, <2>1 DEF RemoveDirectory, A!ArtifactNext, A!Dropped
<1>19. CASE Refuse \/ CallFails
  <2>1. Fail BY <1>19 DEF Refuse, CallFails
  <2>2. Held' = Held BY <2>1 DEF Fail
  <2>3. record' = record \/ (record = "create" /\ record' = "retired") BY <2>1 DEF Fail
  <2> QED BY <2>2, <2>3 DEF A!ArtifactNext, A!Retired
<1>20. CASE Attempt \/ WriteTemporary \/ Look \/ StartRemoval \/ Crash \/ UNCHANGED vars
  <2>1. UNCHANGED <<record, dir, files, whole, active>>
    BY <1>20, Zenon DEF Attempt, WriteTemporary, Look, StartRemoval, Crash, vars
  <2>2. Held' = Held BY <2>1
  <2> QED BY <2>1, <2>2
<1> QED
  BY <1>1, <1>2, <1>4, <1>5, <1>6, <1>8, <1>10, <1>11, <1>12, <1>13, <1>15, <1>16, <1>17,
     <1>18, <1>19, <1>20 DEF Next, Step

\* File by file, with crashes between any two calls, a directory is one artifact as the
\* backup protocol knows it: whole before it is published or applied, taken apart only
\* when retired, forgotten only when nothing is left.
THEOREM Implements == Spec => ImplementsArtifact
<1>1. Spec => []IInv
  BY InitIInv, NextIInv, PTL DEF Spec
<1> QED
  BY <1>1, InitRefines, NextRefines, PTL DEF Spec, ImplementsArtifact, A!ArtifactSpec

-----------------------------------------------------------------------------
(* Deployments, for any services, hosts and number of runs, interruptions    *)
(* and reboots: a service never starts without the mount guards its operator *)
(* gave it, local runs never replace a key in use, and a run that ends well  *)
(* leaves one key and one version; but for what scripts left alone do, and   *)
(* what could not be read or asked.                                          *)

Guards == SUBSET Mounts
Units == [is : {"none", "whole", Torn}, guards : Guards]
Disk == [bin : Nat, env : Keys \union {NoKey}, unit : Units, dropin : Guards]
Live == [up : BOOLEAN, bin : Nat, key : Keys \union {NoKey}, guards : Guards]
Rounds == 1 .. MaxRuns
Ats == Steps \union {"idle", "done", "key", "save"}
Run == [at : Ats, alone : BOOLEAN, half : BOOLEAN, plan : Seq(Services), todo : Seq(Services),
        key : Keys \union {NoKey}, guards : Guards, unasked : SUBSET Services, beside : SUBSET Services]

DeployType ==
  /\ mode \in {"local", "remote"}
  /\ secret \in Keys \union {NoKey, Torn}
  /\ disk \in [Services -> Disk]
  /\ loaded \in [Services -> Units]
  /\ live \in [Services -> Live]
  /\ wanted \in [Services -> Guards]
  /\ lost \in [Services -> Guards]
  /\ runs \in [Rounds -> Run]
  /\ round \in Rounds

\* A run at work has a service before it, and stops half-way only in the three
\* steps that write a file in place.
RunRule(q) ==
  /\ q.at \in Steps \union {"key", "save"} => q.todo # <<>> /\ q.plan # <<>>
  /\ q.half => q.at \in {"save", "guards", "unit"}
  /\ q.at \in Steps \union {"save"} => q.key \in Keys
  /\ q.alone => q.at \in Steps

\* All that earlier runs may have at work is a script left alone.
AloneRule ==
  \A r \in Rounds : /\ r # round => runs[r].at \in {"idle", "done"} \/ runs[r].alone
                    /\ r > round => runs[r].at = "idle"

\* The unit and its drop-in hold the guards between them, as does the unit the
\* service manager loaded: a run that emptied the drop-in has them from the
\* unit, which it replaces only when the drop-in holds them.
Keep(s) == wanted[s] \ lost[s]
GuardRule(s) ==
  /\ Keep(s) \subseteq disk[s].unit.guards \union disk[s].dropin
  /\ Keep(s) \subseteq loaded[s].guards
  /\ live[s].up => Keep(s) \subseteq live[s].guards
MoveRule(r) ==
  /\ runs[r].at = "guards" /\ runs[r].half => Keep(Service(r)) \subseteq runs[r].guards
  /\ runs[r].at = "unit" => Keep(Service(r)) \subseteq disk[Service(r)].dropin

\* Past its first step a script has a service to itself, or there is nothing to keep.
Past(r) == runs[r].at \in Steps \ {"bin"}
MeetRule(q, r) == q # r /\ Past(q) /\ Past(r) /\ Service(q) = Service(r) => Keep(Service(r)) = {}

DeployInv ==
  /\ DeployType /\ AloneRule
  /\ \A r \in Rounds : RunRule(runs[r]) /\ MoveRule(r)
  /\ \A q, r \in Rounds : MeetRule(q, r)
  /\ \A s \in Services : GuardRule(s)

-----------------------------------------------------------------------------

LEMMA RestingRun == Resting \in Run /\ RunRule(Resting) /\ Resting.at = "idle" /\ ~Resting.alone
BY DEF Resting, Run, RunRule, Ats, Steps, Guards

LEMMA DeployInitInv == DeployInit => DeployInv
<1> SUFFICES ASSUME DeployInit PROVE DeployInv
  OBVIOUS
<1>1. disk \in [Services -> Disk] /\ \A s \in Services : disk[s].unit.guards = {} /\ disk[s].dropin = {}
  <2>1. Missing \in Disk /\ Missing.unit.guards = {} /\ Missing.dropin = {}
    BY DEF Missing, Unit, Disk, Units, Guards
  <2>2. \A d \in Legacy : d \in Disk /\ d.unit.guards = {} /\ d.dropin = {}
    BY DEF Legacy, Unit, Disk, Units, Guards, Keys
  <2> QED BY <2>1, <2>2 DEF DeployInit
<1>2. loaded \in [Services -> Units]
  BY <1>1 DEF DeployInit, Loaded, Unit, Units, Disk, Guards
<1>3. live \in [Services -> Live]
  BY <1>1, <1>2 DEF DeployInit, Loaded, Unit, Units, Disk, Guards, Process, Live, Down
<1>4. runs \in [Rounds -> Run] /\ round \in Rounds /\ \A r \in Rounds : runs[r] = Resting
  BY RestingRun, RunsAssumption DEF DeployInit, Rounds
<1>5. \A s \in Services : GuardRule(s)
  BY DEF DeployInit, GuardRule, Keep
<1>6. DeployType
  BY <1>1, <1>2, <1>3, <1>4 DEF DeployInit, DeployType, Guards
<1>7. \A r \in Rounds : RunRule(runs[r]) /\ MoveRule(r) /\ ~Past(r) /\ runs[r].at = "idle"
  BY <1>4, RestingRun DEF MoveRule, Past, Steps
<1> QED
  BY <1>5, <1>6, <1>7 DEF DeployInv, MeetRule, AloneRule

\* What is loaded from a disk holds its guards.
LEMMA LoadedHolds ==
  ASSUME NEW d \in Disk
  PROVE  Loaded(d) \in Units /\ Loaded(d).guards = d.unit.guards \union d.dropin
BY DEF Loaded, Unit, Units, Disk, Guards

LEMMA ProcessHolds ==
  ASSUME NEW d \in Disk, NEW u \in Units
  PROVE  Process(d, u) \in Live /\ (Process(d, u).up => Process(d, u).guards = u.guards)
BY DEF Process, Live, Units, Disk, Down, Guards

LEMMA RestartedHolds ==
  ASSUME DeployInv, NEW s \in Services, NEW p \in Restarted(s)
  PROVE  p \in Live /\ (p.up => Keep(s) \subseteq p.guards)
<1>1. Down \in Live /\ ~Down.up
  BY DEF Down, Live, Guards
<1>2. disk[s] \in Disk /\ loaded[s] \in Units /\ Keep(s) \subseteq loaded[s].guards
  BY DEF DeployInv, DeployType, GuardRule
<1> QED BY <1>1, <1>2, ProcessHolds DEF Restarted

LEMMA RereadHolds ==
  ASSUME DeployInv, NEW h
  PROVE  /\ Reread(h, disk) \in [Services -> Units]
         /\ \A s \in Services : Keep(s) \subseteq Reread(h, disk)[s].guards
BY LoadedHolds DEF DeployInv, DeployType, GuardRule, Reread

LEMMA KeysInUse ==
  ASSUME DeployInv, NEW services \in SUBSET Services
  PROVE  Using(services) \subseteq Keys
BY DEF DeployInv, DeployType, Using, Disk

LEMMA SomeService ==
  ASSUME DeployInv, NEW r \in Rounds, AtWork(r)
  PROVE  /\ runs[r] \in Run /\ RunRule(runs[r]) /\ runs[r].key \in Keys
         /\ Service(r) \in Services /\ disk[Service(r)] \in Disk
         /\ runs[r].todo \in Seq(Services) /\ runs[r].todo # <<>> /\ runs[r].plan # <<>>
<1>1. runs[r] \in Run /\ RunRule(runs[r]) /\ runs[r].at \in Steps
  BY DEF DeployInv, DeployType, AtWork
<1>2. runs[r].key \in Keys /\ runs[r].todo \in Seq(Services) /\ runs[r].todo # <<>> /\ runs[r].plan # <<>>
  BY <1>1 DEF RunRule, Run
<1>3. Service(r) \in Services
  BY <1>2 DEF Service
<1> QED BY <1>1, <1>2, <1>3 DEF DeployInv, DeployType

LEMMA RoundsPassed ==
  ASSUME DeployInv, NEW r \in 1 .. round
  PROVE  r \in Rounds /\ r <= round
<1>1. round \in 1 .. MaxRuns /\ MaxRuns \in Nat
  BY RunsAssumption DEF DeployInv, DeployType, Rounds
<1> QED BY <1>1 DEF Rounds

\* A run that moves on outside its service's files, or ends.
LEMMA RunMoves ==
  ASSUME DeployInv, NEW r \in Rounds, NEW q \in Run, RunRule(q), runs' = [runs EXCEPT ![r] = q],
         UNCHANGED <<mode, disk, loaded, live, wanted, lost>>, round' \in Rounds,
         secret' \in Keys \union {NoKey, Torn}, AloneRule',
         q.at \notin {"guards", "unit"}
           \/ (q.at = runs[r].at /\ q.todo = runs[r].todo /\ q.half = runs[r].half /\ q.guards = runs[r].guards),
         q.at \in Steps \ {"bin"} => Past(r) /\ q.todo = runs[r].todo
  PROVE  DeployInv'
<1>1. DeployType' /\ \A s \in Services : GuardRule(s)'
  BY DEF DeployInv, DeployType, GuardRule, Keep
<1>2. runs'[r] = q /\ \A p \in Rounds \ {r} : runs'[p] = runs[p]
  BY DEF DeployInv, DeployType
<1>3. \A p \in Rounds : RunRule(runs'[p])
  BY <1>2 DEF DeployInv
<1>4. \A p \in Rounds : MoveRule(p)'
  BY <1>2 DEF DeployInv, MoveRule, Keep, Service
<1>5. \A p \in Rounds : Past(p)' => Past(p) /\ Service(p)' = Service(p)
  BY <1>2 DEF Past, Service
<1>6. \A p, t \in Rounds : MeetRule(p, t)'
  BY <1>5 DEF DeployInv, MeetRule, Keep
<1> QED BY <1>1, <1>3, <1>4, <1>6 DEF DeployInv

\* The earlier runs stay as they are when one goes on, or ends.
LEMMA AloneStays ==
  ASSUME DeployInv, NEW r \in Rounds, NEW q, runs' = [runs EXCEPT ![r] = q], UNCHANGED round,
         r > round => q.at = "idle",
         r = round \/ q.at \in {"idle", "done"} \/ (runs[r].at \notin {"idle", "done"} /\ q.alone = runs[r].alone)
  PROVE  AloneRule'
<1>2. runs'[r] = q /\ \A p \in Rounds \ {r} : runs'[p] = runs[p]
  BY DEF DeployInv, DeployType
<1> QED BY <1>2 DEF DeployInv, AloneRule

\* A run that replaces a part of its service's files and moves on; what there is to
\* keep gets no more, and is in its files.
LEMMA RunWrites ==
  ASSUME DeployInv, NEW r \in Rounds, r <= round, AtWork(r), NEW d \in Disk, Writes(r, d),
         NEW q \in Run, RunRule(q), runs' = [runs EXCEPT ![r] = q],
         q.at \in Steps \ {"bin"}, q.todo = runs[r].todo, q.alone = runs[r].alone,
         NEW l \in Guards, lost' = [lost EXCEPT ![Service(r)] = @ \union l],
         Past(r) \/ Others(r) = {} \/ wanted[Service(r)] \subseteq l,
         Keep(Service(r)) \ l \subseteq d.unit.guards \union d.dropin,
         q.at = "guards" /\ q.half => Keep(Service(r)) \ l \subseteq q.guards,
         q.at = "unit" => Keep(Service(r)) \ l \subseteq d.dropin
  PROVE  DeployInv'
<1>a. PICK s \in Services : s = Service(r)
  BY SomeService
<1>0. s \in Services /\ s = Service(r) /\ runs[r].at \in Steps
  BY <1>a DEF AtWork
<1>1. runs'[r] = q /\ \A p \in Rounds \ {r} : runs'[p] = runs[p]
  BY DEF DeployInv, DeployType
<1>2. \A p \in Rounds : Service(p)' = Service(p)
  BY <1>1 DEF Service
<1>3. disk' \in [Services -> Disk] /\ disk'[s] = d /\ \A t \in Services \ {s} : disk'[t] = disk[t]
  BY <1>0 DEF Writes, DeployInv, DeployType
<1>4. /\ lost' \in [Services -> Guards] /\ Keep(s)' = Keep(s) \ l
      /\ \A t \in Services \ {s} : Keep(t)' = Keep(t)
  <2>1. lost \in [Services -> Guards] /\ [lost EXCEPT ![s] = @ \union l] \in [Services -> Guards]
    BY <1>0 DEF DeployInv, DeployType, Guards
  <2>2. lost'[s] = lost[s] \union l /\ \A t \in Services \ {s} : lost'[t] = lost[t]
    BY <1>0, <2>1
  <2> QED BY <2>1, <2>2 DEF Writes, Keep
<1>5. DeployType'
  BY <1>1, <1>3, <1>4 DEF DeployInv, DeployType, Writes
<1>6. \A t \in Services : GuardRule(t)'
  <2>1. loaded' = loaded /\ live' = live
    BY DEF Writes
  <2>2. Keep(s)' \subseteq Keep(s)
    BY <1>4
  <2>3. GuardRule(s)'
    BY <1>0, <1>3, <1>4, <2>1, <2>2 DEF DeployInv, GuardRule
  <2>4. \A t \in Services \ {s} : GuardRule(t)'
    BY <1>3, <1>4, <2>1 DEF DeployInv, GuardRule
  <2> QED BY <2>3, <2>4
<1>7. \A p \in Rounds : RunRule(runs'[p])
  BY <1>1 DEF DeployInv
<1>8. AloneRule'
  <2>1. r \in Int /\ round \in Int /\ ~(r > round)
    BY DEF DeployInv, DeployType, Rounds
  <2>2. runs[r].at \notin {"idle", "done"} /\ round' = round
    BY <1>0 DEF Writes, Steps
  <2> QED BY <2>1, <2>2, AloneStays
<1>9. \A p \in Rounds \ {r} : Past(p) /\ Service(p) = s => Keep(s)' = {}
  <2> SUFFICES ASSUME NEW p \in Rounds \ {r}, Past(p), Service(p) = s PROVE Keep(s) \ l = {}
    BY <1>4
  <2>1. CASE Past(r)
    BY <1>0, <2>1 DEF DeployInv, MeetRule
  <2>2. CASE Others(r) = {}
    <3>1. p \in 1 .. round
      BY DEF DeployInv, DeployType, AloneRule, Past, Steps, Rounds
    <3> QED BY <1>0, <2>2, <3>1 DEF Others, WorksOn, AtWork, Past
  <2>3. CASE wanted[s] \subseteq l
    BY <1>0, <2>3 DEF Keep
  <2> QED BY <1>0, <2>1, <2>2, <2>3
<1>10. \A p \in Rounds \ {r} : AtWork(p) => Service(p) \in Services
  BY SomeService
<1>11. \A p \in Rounds : MoveRule(p)'
  <2>1. MoveRule(r)'
    BY <1>0, <1>1, <1>2, <1>3, <1>4 DEF MoveRule
  <2>2. ASSUME NEW p \in Rounds \ {r} PROVE MoveRule(p)'
    <3>1. CASE Service(p) = s /\ Past(p)
      BY <1>1, <1>2, <1>9, <3>1 DEF MoveRule
    <3>2. CASE ~Past(p)
      BY <1>1, <3>2 DEF MoveRule, Past, Steps
    <3>3. CASE Past(p) /\ Service(p) # s
      BY <1>1, <1>2, <1>3, <1>4, <1>10, <3>3 DEF DeployInv, MoveRule, Past, AtWork
    <3> QED BY <3>1, <3>2, <3>3
  <2> QED BY <2>1, <2>2
<1>12. \A p, t \in Rounds : MeetRule(p, t)'
  <2> SUFFICES ASSUME NEW p \in Rounds, NEW t \in Rounds, p # t, Past(p)', Past(t)', Service(p) = Service(t)
               PROVE  Keep(Service(t))' = {}
    BY <1>2 DEF MeetRule
  <2>1. CASE r \in {p, t}
    <3>1. PICK v \in Rounds \ {r} : v \in {p, t} /\ Past(v) /\ Service(v) = s
      BY <1>0, <1>1, <2>1 DEF Past
    <3>2. Service(t)' = s
      BY <1>0, <1>2, <2>1
    <3> QED BY <1>9, <3>1, <3>2
  <2>2. CASE r \notin {p, t}
    <3>1. Past(p) /\ Past(t) /\ Keep(Service(t)) = {} /\ Service(t) \in Services
      BY <1>1, <1>10, <2>2 DEF Past, DeployInv, MeetRule, AtWork
    <3>2. Service(t) = s => Keep(Service(t))' = {}
      BY <1>2, <1>4, <3>1
    <3>3. Service(t) # s => Keep(Service(t))' = {}
      <4>1. Service(t)' = Service(t)
        BY <1>2
      <4> QED BY <1>4, <3>1, <4>1
    <3> QED BY <3>2, <3>3
  <2> QED BY <2>1, <2>2
<1> QED BY <1>5, <1>6, <1>7, <1>8, <1>11, <1>12 DEF DeployInv

\* The same, where nothing is lost.
LEMMA RunKeeps ==
  ASSUME DeployInv, NEW r \in Rounds, r <= round, AtWork(r), NEW d \in Disk, Writes(r, d),
         NEW q \in Run, RunRule(q), runs' = [runs EXCEPT ![r] = q],
         q.at \in Steps \ {"bin"}, q.todo = runs[r].todo, q.alone = runs[r].alone,
         lost' = lost, Past(r) \/ Others(r) = {},
         Keep(Service(r)) \subseteq d.unit.guards \union d.dropin,
         q.at = "guards" /\ q.half => Keep(Service(r)) \subseteq q.guards,
         q.at = "unit" => Keep(Service(r)) \subseteq d.dropin
  PROVE  DeployInv'
<1>1. PICK l : l = {}
  OBVIOUS
<1>2. l \in Guards /\ Keep(Service(r)) \ l = Keep(Service(r))
  BY <1>1 DEF Guards
<1>3. lost' = [lost EXCEPT ![Service(r)] = @ \union l]
  <2>1. lost \in [Services -> Guards] /\ Service(r) \in Services
    BY SomeService DEF DeployInv, DeployType
  <2> QED BY <1>1, <2>1
<1>4. Keep(Service(r)) \ l \subseteq d.unit.guards \union d.dropin
  BY <1>2
<1>5. q.at = "guards" /\ q.half => Keep(Service(r)) \ l \subseteq q.guards
  BY <1>2
<1>6. q.at = "unit" => Keep(Service(r)) \ l \subseteq d.dropin
  BY <1>2
<1>7. Past(r) \/ Others(r) = {} \/ wanted[Service(r)] \subseteq l
  OBVIOUS
<1> QED BY <1>2, <1>3, <1>4, <1>5, <1>6, <1>7, RunWrites

LEMMA TailLeft ==
  ASSUME NEW S, NEW q \in Seq(S), q # <<>>
  PROVE  Tail(q) \in Seq(S) /\ (Len(q) # 1 => Tail(q) # <<>>)
<1>1. Tail(q) \in Seq(S) /\ Len(Tail(q)) = Len(q) - 1 /\ Len(q) \in Nat
  OBVIOUS
<1>2. Len(<<>>) = 0
  OBVIOUS
<1>3. Tail(q) = <<>> => Len(Tail(q)) = 0
  BY <1>2
<1> QED BY <1>1, <1>3

LEMMA RunFails ==
  ASSUME DeployInv, NEW r \in Rounds, Fails(r),
         UNCHANGED <<mode, disk, loaded, live, wanted, lost, round>>, secret' = secret
  PROVE  DeployInv'
<1>1. runs' = [runs EXCEPT ![r] = Resting]
  BY DEF Fails, Goes
<1>2. AloneRule'
  BY <1>1, RestingRun, AloneStays
<1>3. round' \in Rounds /\ secret' \in Keys \union {NoKey, Torn}
  BY DEF DeployInv, DeployType
<1>4. Resting.at \notin Steps \union {"guards", "unit"}
  BY RestingRun DEF Steps
<1> QED BY <1>1, <1>2, <1>3, <1>4, RestingRun, RunMoves

\* Steps that settle the key.
LEMMA KeyStepsInv ==
  ASSUME DeployInv, SettleKey \/ SaveKey
  PROVE  DeployInv'
<1> DEFINE r == round
           run == runs[round]
<1>1. r \in Rounds /\ run \in Run /\ RunRule(run) /\ AloneRule /\ ~run.alone /\ run.at \in {"key", "save"}
  BY DEF DeployInv, DeployType, SettleKey, SaveKey, RunRule, Steps
<1>2. /\ UNCHANGED <<mode, disk, loaded, live, wanted, lost, round>>
      /\ round' \in Rounds
  BY <1>1 DEF SettleKey, SaveKey
<1>3. ASSUME NEW q \in Run, RunRule(q), q.at \in {"save", "bin"}, Goes(r, q),
             secret' \in Keys \union {NoKey, Torn}
      PROVE  DeployInv'
  <2>1. runs' = [runs EXCEPT ![r] = q]
    BY <1>3 DEF Goes
  <2>2. r \in Int /\ ~(r > round)
    BY <1>1 DEF Rounds
  <2>3. AloneRule'
    BY <1>1, <1>2, <2>1, <2>2, AloneStays
  <2> QED BY <1>1, <1>2, <1>3, <2>1, <2>3, RunMoves DEF Steps
<1>4. CASE SettleKey
  <2>1. secret' = secret /\ secret \in Keys \union {NoKey, Torn} /\ run.at = "key"
    BY <1>4 DEF SettleKey, DeployInv, DeployType
  <2>2. CASE Fails(round)
    BY <1>1, <1>2, <2>1, <2>2, RunFails
  <2>3. ASSUME NEW key \in Keys, NEW at \in {"bin", "save"},
               Goes(round, [runs[round] EXCEPT !.at = at, !.key = key])
        PROVE  DeployInv'
    <3> DEFINE q == [run EXCEPT !.at = at, !.key = key]
    <3>1. q \in Run /\ q.at = at /\ RunRule(q)
      BY <1>1, <2>1 DEF Run, RunRule, Ats, Steps
    <3> HIDE DEF q
    <3>2. Goes(r, q)
      BY <2>3 DEF q
    <3> QED BY <1>3, <2>1, <3>1, <3>2
  <2>4. Imports(run.plan) \subseteq Keys /\ Generated \subseteq Keys
    <3>1. Generated \subseteq Keys
      BY DEF Generated, Keys
    <3>2. Using(OnHost(HostOf[Controller])) \subseteq Keys /\ Using(OnHost(HostOf[Head(run.plan)])) \subseteq Keys
      BY KeysInUse DEF OnHost
    <3>3. Controller \in Services => Using({Controller}) \subseteq Keys
      BY KeysInUse
    <3>4. Controller \notin Services => OnHost(HostOf[Head(run.plan)]) \intersect {Controller} = {}
      BY DEF OnHost
    <3> QED BY <3>1, <3>2, <3>3, <3>4 DEF Imports, Using
  <2>5. CASE secret \in Keys /\ Goes(round, [runs[round] EXCEPT !.at = "bin", !.key = secret])
    BY <2>3, <2>5
  <2>6. ASSUME NEW key \in IF Imports(run.plan) = {} THEN Generated ELSE Imports(run.plan),
               Goes(round, [runs[round] EXCEPT !.at = "save", !.key = key])
        PROVE  DeployInv'
    BY <2>3, <2>4, <2>6
  <2> QED BY <1>4, <2>2, <2>5, <2>6 DEF SettleKey
<1>5. CASE SaveKey
  <2>1. run.at = "save" /\ run.key \in Keys /\ secret' \in Keys \union {NoKey, Torn}
    BY <1>1, <1>5 DEF SaveKey, RunRule
  <2>2. CASE run.half
    <3> DEFINE q == [run EXCEPT !.at = "bin", !.half = FALSE]
    <3>1. q \in Run /\ q.at = "bin" /\ RunRule(q)
      BY <1>1, <2>1 DEF Run, RunRule, Ats, Steps
    <3>2. Goes(r, q)
      BY <1>5, <2>2 DEF SaveKey
    <3> HIDE DEF q
    <3> QED BY <1>3, <2>1, <3>1, <3>2
  <2>3. CASE ~run.half
    <3> DEFINE q == [run EXCEPT !.half = TRUE]
    <3>1. q \in Run /\ q.at = "save" /\ RunRule(q)
      BY <1>1, <2>1 DEF Run, RunRule, Ats, Steps
    <3>2. Goes(r, q)
      BY <1>5, <2>3 DEF SaveKey
    <3> HIDE DEF q
    <3> QED BY <1>3, <2>1, <3>1, <3>2
  <2> QED BY <2>2, <2>3
<1> QED BY <1>4, <1>5

LEMMA BeginInv ==
  ASSUME DeployInv, NEW plan \in LocalPlans \union RemotePlans, Begin(plan)
  PROVE  DeployInv'
<1>1. plan \in Seq(Services) /\ plan # <<>>
  BY PlansAssumption
<1>2. round \in Int /\ round' = round + 1 /\ round' \in Rounds
      /\ UNCHANGED <<mode, disk, loaded, live, wanted, lost>>
  BY RunsAssumption DEF Begin, DeployInv, DeployType, Rounds
<1>3. PICK at \in {"key", "bin"}, key \in Keys \union {NoKey} :
        /\ Goes(round + 1, Started(plan, at, key)) /\ secret' \in {secret, key}
        /\ at = "bin" => key \in Keys
        /\ at = "key" => secret' = secret
  BY DEF Begin, Keys
<1> DEFINE q == Started(plan, at, key)
<1>4. q \in Run
  BY <1>1 DEF Started, Resting, Run, Ats, Steps, Guards
<1>5. q.at = at /\ ~q.half /\ ~q.alone /\ q.todo = plan /\ q.plan = plan /\ q.key = key
  BY DEF Started, Resting
<1>6. RunRule(q)
  BY <1>1, <1>3, <1>5 DEF RunRule, Steps
<1> HIDE DEF q
<1>7. runs' = [runs EXCEPT ![round'] = q]
  BY <1>2, <1>3 DEF Goes, q
<1>8. AloneRule'
  <2>1. \A p \in Rounds : p # round' => runs'[p] = runs[p]
    BY <1>7 DEF DeployInv, DeployType
  <2>2. runs[round].at \in {"idle", "done"} \/ runs[round].alone
    BY DEF Begin, Stopped
  <2>3. \A p \in Rounds : p \in Int /\ (p > round' => p > round)
    BY <1>2 DEF Rounds
  <2> QED BY <1>2, <2>1, <2>2, <2>3 DEF DeployInv, AloneRule
<1>9. secret' \in Keys \union {NoKey, Torn}
  <2>1. secret \in Keys \union {NoKey, Torn}
    BY DEF DeployInv, DeployType
  <2> QED BY <1>3, <2>1
<1>10. q.at \notin Steps \ {"bin"}
  BY <1>5 DEF Steps
<1>11. q.at \notin {"guards", "unit"}
  BY <1>5
<1> QED BY <1>2, <1>4, <1>6, <1>7, <1>8, <1>9, <1>10, <1>11, RunMoves

\* Steps of a service that write its files.
LEMMA WriteStepsInv ==
  ASSUME DeployInv, NEW r \in 1 .. round,
         InstallBin(r) \/ WriteEnv(r) \/ WriteGuards(r) \/ ReadFails(r) \/ WriteUnit(r)
  PROVE  DeployInv'
<1> DEFINE run == runs[r]
           s == Service(r)
           d == disk[s]
<1>1. r \in Rounds /\ r <= round /\ AtWork(r)
  <2>1. r \in Rounds /\ r <= round
    BY RoundsPassed
  <2> QED BY <2>1 DEF InstallBin, WriteEnv, WriteGuards, ReadFails, WriteUnit, AtWork, Steps
<1>2. run \in Run /\ RunRule(run) /\ run.key \in Keys /\ s \in Services /\ d \in Disk
  BY <1>1, SomeService
<1>3. wanted[s] \in Guards /\ lost[s] \in Guards /\ GuardRule(s) /\ MoveRule(r) /\ lost \in [Services -> Guards]
  BY <1>1, <1>2 DEF DeployInv, DeployType
<1>b. d.unit \in Units /\ d.dropin \in Guards /\ run.guards \in Guards
  BY <1>2 DEF Guards, Disk, Run
<1>c. d.unit.guards \in Guards
  BY <1>b DEF Units
<1>d. Past(r) \/ run.at = "bin"
  BY <1>1 DEF Past, AtWork
<1>4. CASE InstallBin(r)
  <2> DEFINE e == [d EXCEPT !.bin = r]
  <2>0. run.at = "bin" /\ Writes(r, e)
    BY <1>4 DEF InstallBin
  <2>1. e \in Disk /\ e.unit = d.unit /\ e.dropin = d.dropin
    BY <1>2, <1>1 DEF Disk, Rounds
  <2>2. CASE Others(r) = {}
    <3> DEFINE q == [run EXCEPT !.at = "env"]
    <3>1. q \in Run /\ RunRule(q) /\ q.at = "env" /\ q.todo = run.todo /\ q.alone = run.alone
      BY <1>2, <2>0 DEF Run, RunRule, Ats, Steps
    <3>2. runs' = [runs EXCEPT ![r] = q] /\ lost' = lost
      BY <1>4, <2>2 DEF InstallBin, To, Goes, After
    <3> HIDE DEF q, e
    <3>3. q.at \in Steps \ {"bin"} /\ q.at # "guards" /\ q.at # "unit"
      BY <3>1 DEF Steps
    <3>4. Keep(s) \subseteq e.unit.guards \union e.dropin
      BY <1>3, <2>1 DEF GuardRule
    <3> QED BY <1>1, <2>0, <2>1, <2>2, <3>1, <3>2, <3>3, <3>4, RunKeeps
  <2>3. CASE Others(r) # {}
    <3> DEFINE q == [run EXCEPT !.at = "env", !.beside = @ \union {s}]
    <3>1. q \in Run /\ RunRule(q) /\ q.at = "env" /\ q.todo = run.todo /\ q.alone = run.alone
      BY <1>2, <2>0 DEF Run, RunRule, Ats, Steps
    <3>2. runs' = [runs EXCEPT ![r] = q] /\ lost' = [lost EXCEPT ![s] = @ \union wanted[s]]
      BY <1>4, <2>3 DEF InstallBin, Loses, Goes, After
    <3> HIDE DEF q, e
    <3> QED BY <1>1, <1>3, <1>b, <2>0, <2>1, <2>3, <3>1, <3>2, RunWrites DEF GuardRule, Steps
  <2> QED BY <2>2, <2>3
<1>5. CASE WriteEnv(r)
  <2> DEFINE e == [d EXCEPT !.env = run.key]
             q == [run EXCEPT !.at = "guards"]
  <2>0. run.at = "env" /\ Writes(r, e) /\ runs' = [runs EXCEPT ![r] = q] /\ lost' = lost
    BY <1>5 DEF WriteEnv, To, Goes, After
  <2>1. e \in Disk /\ e.unit = d.unit /\ e.dropin = d.dropin
    BY <1>2 DEF Disk
  <2>2. q \in Run /\ RunRule(q) /\ q.at = "guards" /\ ~q.half /\ q.todo = run.todo /\ q.alone = run.alone
    BY <1>2, <2>0 DEF Run, RunRule, Ats, Steps
  <2>3. Past(r)
    BY <2>0 DEF Past, Steps
  <2> HIDE DEF q, e
  <2>4. q.at \in Steps \ {"bin"} /\ q.at # "unit"
    BY <2>2 DEF Steps
  <2>5. Keep(s) \subseteq e.unit.guards \union e.dropin
    BY <1>3, <2>1 DEF GuardRule
  <2> QED BY <1>1, <2>0, <2>1, <2>2, <2>3, <2>4, <2>5, RunKeeps
<1>6. CASE WriteGuards(r)
  <2>0. run.at = "guards" /\ Past(r)
    BY <1>6 DEF WriteGuards, Past, Steps
  <2>1. CASE ~run.half /\ d.unit.guards = {} /\ To(r, After.guards) /\ Writes(r, d) /\ lost' = lost
    <3> DEFINE q == [run EXCEPT !.at = "unit"]
    <3>1. q \in Run /\ RunRule(q) /\ q.at = "unit" /\ q.todo = run.todo /\ q.alone = run.alone
      BY <1>2, <2>0, <2>1 DEF Run, RunRule, Ats, Steps
    <3>2. runs' = [runs EXCEPT ![r] = q]
      BY <2>1 DEF To, Goes, After
    <3> HIDE DEF q
    <3>3. q.at \in Steps \ {"bin"} /\ q.at # "guards"
      BY <3>1 DEF Steps
    <3>4. Keep(s) \subseteq d.unit.guards \union d.dropin /\ Keep(s) \subseteq d.dropin
      BY <1>3, <2>1 DEF GuardRule
    <3> QED BY <1>1, <1>2, <2>0, <2>1, <3>1, <3>2, <3>3, <3>4, RunKeeps
  <2>2. CASE /\ ~run.half /\ d.unit.guards # {}
             /\ Goes(r, [run EXCEPT !.half = TRUE, !.guards = d.unit.guards])
             /\ Writes(r, [d EXCEPT !.dropin = {}])
             /\ Loses(s, d.dropin \ d.unit.guards)
    <3> DEFINE q == [run EXCEPT !.half = TRUE, !.guards = d.unit.guards]
               e == [d EXCEPT !.dropin = {}]
               l == d.dropin \ d.unit.guards
    <3>1. q \in Run /\ RunRule(q) /\ q.at = "guards" /\ q.todo = run.todo /\ q.alone = run.alone
          /\ q.guards = d.unit.guards
      BY <1>2, <1>c, <2>0 DEF Run, RunRule, Ats, Steps
    <3>2. e \in Disk /\ e.unit = d.unit /\ l \in Guards
      BY <1>2, <1>b DEF Disk, Guards
    <3>3. Keep(s) \ l \subseteq d.unit.guards
      BY <1>3 DEF GuardRule
    <3>4. runs' = [runs EXCEPT ![r] = q] /\ Writes(r, e) /\ lost' = [lost EXCEPT ![s] = @ \union l]
      BY <2>2 DEF Goes, Loses
    <3> HIDE DEF q, e, l
    <3> QED BY <1>1, <2>0, <3>1, <3>2, <3>3, <3>4, RunWrites DEF Steps
  <2>3. CASE /\ run.half /\ Goes(r, [run EXCEPT !.half = FALSE, !.at = After.guards])
             /\ Writes(r, [d EXCEPT !.dropin = run.guards]) /\ lost' = lost
    <3> DEFINE q == [run EXCEPT !.half = FALSE, !.at = "unit"]
               e == [d EXCEPT !.dropin = run.guards]
    <3>1. q \in Run /\ RunRule(q) /\ q.at = "unit" /\ q.todo = run.todo /\ q.alone = run.alone
      BY <1>2, <2>0 DEF Run, RunRule, Ats, Steps
    <3>2. e \in Disk /\ e.dropin = run.guards
      BY <1>2, <1>b DEF Disk
    <3>3. Keep(s) \subseteq run.guards
      BY <1>3, <2>0, <2>3 DEF MoveRule
    <3>4. runs' = [runs EXCEPT ![r] = q] /\ Writes(r, e)
      BY <2>3 DEF Goes, After
    <3> HIDE DEF q, e
    <3>5. q.at \in Steps \ {"bin"} /\ q.at # "guards"
      BY <3>1 DEF Steps
    <3> QED BY <1>1, <2>0, <2>3, <3>1, <3>2, <3>3, <3>4, <3>5, RunKeeps
  <2> QED BY <1>6, <2>1, <2>2, <2>3 DEF WriteGuards
<1>7. CASE ReadFails(r)
  <2> DEFINE q == [run EXCEPT !.at = "unit"]
             l == d.unit.guards \ d.dropin
  <2>0. run.at = "guards" /\ Past(r) /\ ~run.half /\ Writes(r, d)
        /\ runs' = [runs EXCEPT ![r] = q] /\ lost' = [lost EXCEPT ![s] = @ \union l]
    BY <1>7 DEF ReadFails, Past, Steps, To, Goes, After, Loses
  <2>1. q \in Run /\ RunRule(q) /\ q.at = "unit" /\ q.todo = run.todo /\ q.alone = run.alone
    BY <1>2, <2>0 DEF Run, RunRule, Ats, Steps
  <2>2. l \in Guards /\ Keep(s) \ l \subseteq d.dropin
    BY <1>3, <1>c DEF GuardRule, Guards
  <2> HIDE DEF q, l
  <2> QED BY <1>1, <1>2, <2>0, <2>1, <2>2, RunWrites DEF Steps
<1>8. CASE WriteUnit(r)
  <2>0. run.at = "unit" /\ Past(r) /\ lost' = lost /\ Keep(s) \subseteq d.dropin
    BY <1>3, <1>8 DEF WriteUnit, Past, Steps, MoveRule
  <2>1. \A is \in {"whole", Torn} : /\ [d EXCEPT !.unit = Unit(is, {})] \in Disk
                                    /\ [d EXCEPT !.unit = Unit(is, {})].dropin = d.dropin
    BY <1>2 DEF Disk, Unit, Units, Guards
  <2>2. ASSUME NEW e \in Disk, e.dropin = d.dropin, Writes(r, e),
               NEW q \in Run, RunRule(q), q.at \in {"unit", "reload"}, q.todo = run.todo, q.alone = run.alone,
               runs' = [runs EXCEPT ![r] = q]
        PROVE  DeployInv'
    BY <1>1, <2>0, <2>2, RunKeeps DEF Steps
  <2>3. CASE run.half
    <3> DEFINE q == [run EXCEPT !.half = FALSE, !.at = "reload"]
               e == [d EXCEPT !.unit = Unit("whole", {})]
    <3>1. q \in Run /\ RunRule(q) /\ q.at = "reload" /\ q.todo = run.todo /\ q.alone = run.alone
      BY <1>2, <2>0 DEF Run, RunRule, Ats, Steps
    <3>2. runs' = [runs EXCEPT ![r] = q] /\ Writes(r, e)
      BY <1>8, <2>3 DEF WriteUnit, Goes, After
    <3> HIDE DEF q
    <3> QED BY <2>1, <2>2, <3>1, <3>2
  <2>4. CASE ~run.half
    <3> DEFINE q == [run EXCEPT !.half = TRUE]
               e == [d EXCEPT !.unit = Unit(Torn, {})]
    <3>1. q \in Run /\ RunRule(q) /\ q.at = "unit" /\ q.todo = run.todo /\ q.alone = run.alone
      BY <1>2, <2>0 DEF Run, RunRule, Ats, Steps
    <3>2. runs' = [runs EXCEPT ![r] = q] /\ Writes(r, e)
      BY <1>8, <2>4 DEF WriteUnit, Goes
    <3> HIDE DEF q
    <3> QED BY <2>1, <2>2, <3>1, <3>2
  <2> QED BY <2>3, <2>4
<1> QED BY <1>4, <1>5, <1>6, <1>7, <1>8

\* What changes beside the files: what is loaded, the processes, and runs that
\* move on without a file to write, or end.
LEMMA RunsMove ==
  ASSUME DeployInv, UNCHANGED <<mode, disk, wanted, lost, round>>, secret' \in Keys \union {NoKey, Torn},
         loaded' \in [Services -> Units], live' \in [Services -> Live],
         \A s \in Services : /\ Keep(s) \subseteq loaded'[s].guards
                             /\ live'[s].up => Keep(s) \subseteq live'[s].guards,
         runs' \in [Rounds -> Run], AloneRule',
         \A p \in Rounds : \/ runs'[p] = runs[p]
                           \/ /\ RunRule(runs'[p]) /\ runs'[p].at \notin {"guards", "unit"}
                              /\ runs'[p].at \in Steps \ {"bin"} => Past(p) /\ runs'[p].todo = runs[p].todo
  PROVE  DeployInv'
<1>0. DeployType'
  BY DEF DeployInv, DeployType
<1>1. ASSUME NEW s \in Services PROVE GuardRule(s)'
  <2>1. Keep(s)' = Keep(s) /\ disk'[s] = disk[s]
    BY DEF Keep
  <2>2. Keep(s) \subseteq disk[s].unit.guards \union disk[s].dropin
    BY DEF DeployInv, GuardRule
  <2>3. Keep(s) \subseteq loaded'[s].guards /\ (live'[s].up => Keep(s) \subseteq live'[s].guards)
    OBVIOUS
  <2> QED BY <2>1, <2>2, <2>3 DEF GuardRule
<1>2. \A p \in Rounds : RunRule(runs'[p])
  BY DEF DeployInv
<1>3. \A p \in Rounds : MoveRule(p)'
  BY DEF DeployInv, MoveRule, Keep, Service
<1>4. \A p \in Rounds : Past(p)' => Past(p) /\ Service(p)' = Service(p)
  BY DEF Past, Service
<1>5. \A p, t \in Rounds : MeetRule(p, t)'
  BY <1>4 DEF DeployInv, MeetRule, Keep
<1> QED BY <1>0, <1>1, <1>2, <1>3, <1>5 DEF DeployInv

\* The steps of a service that load its unit and start it.
LEMMA StartStepsInv ==
  ASSUME DeployInv, NEW r \in 1 .. round, Reload(r) \/ Query(r) \/ Restart1(r) \/ Start(r)
  PROVE  DeployInv'
<1>1. r \in Rounds /\ r <= round /\ Past(r) /\ AtWork(r)
  <2>1. r \in Rounds /\ r <= round
    BY RoundsPassed
  <2> QED BY <2>1 DEF Reload, Query, Restart1, Start, Past, AtWork, Steps
<1>2. runs[r] \in Run /\ RunRule(runs[r]) /\ Service(r) \in Services
  BY <1>1, SomeService
<1>3. /\ UNCHANGED <<mode, disk, wanted, lost, round>>
      /\ secret' \in Keys \union {NoKey, Torn}
  BY DEF Reload, Query, Restart1, Start, DeployInv, DeployType
<1>4. PICK q \in Run : /\ runs' = [runs EXCEPT ![r] = q] /\ RunRule(q) /\ q.todo = runs[r].todo
                       /\ q.alone = runs[r].alone
                       /\ q.at \in {"query", "restart", "start", "check"}
  <2>1. \A at \in {"query", "restart", "start", "check"} :
          To(r, at) => \E q \in Run : /\ runs' = [runs EXCEPT ![r] = q] /\ RunRule(q) /\ q.at = at
                                      /\ q.todo = runs[r].todo /\ q.alone = runs[r].alone
    <3> SUFFICES ASSUME NEW at \in {"query", "restart", "start", "check"}, To(r, at)
                 PROVE  \E q \in Run : /\ runs' = [runs EXCEPT ![r] = q] /\ RunRule(q) /\ q.at = at
                                       /\ q.todo = runs[r].todo /\ q.alone = runs[r].alone
      OBVIOUS
    <3> DEFINE q == [runs[r] EXCEPT !.at = at]
    <3>1. runs[r].at \in {"reload", "query", "restart", "start"}
      BY DEF Reload, Query, Restart1, Start
    <3>2. q \in Run /\ RunRule(q) /\ q.at = at /\ q.todo = runs[r].todo /\ q.alone = runs[r].alone
      BY <1>2, <3>1 DEF Run, RunRule, Ats, Steps
    <3>3. runs' = [runs EXCEPT ![r] = q]
      BY DEF To, Goes
    <3> HIDE DEF q
    <3> QED BY <3>2, <3>3
  <2>2. ASSUME runs[r].at = "query",
               Goes(r, [runs[r] EXCEPT !.at = "start", !.unasked = @ \union {Service(r)}])
        PROVE  \E q \in Run : /\ runs' = [runs EXCEPT ![r] = q] /\ RunRule(q) /\ q.at = "start"
                              /\ q.todo = runs[r].todo /\ q.alone = runs[r].alone
    <3> DEFINE q == [runs[r] EXCEPT !.at = "start", !.unasked = @ \union {Service(r)}]
    <3>1. q \in Run /\ RunRule(q) /\ q.at = "start" /\ q.todo = runs[r].todo /\ q.alone = runs[r].alone
      BY <1>2, <2>2 DEF Run, RunRule, Ats, Steps
    <3>2. runs' = [runs EXCEPT ![r] = q]
      BY <2>2 DEF Goes
    <3> HIDE DEF q
    <3> QED BY <3>1, <3>2
  <2>3. CASE Reload(r)
    BY <2>1, <2>3 DEF Reload, After
  <2>4. CASE Query(r)
    BY <2>1, <2>2, <2>4 DEF Query
  <2>5. CASE Restart1(r) \/ Start(r)
    BY <2>1, <2>5 DEF Restart1, Start
  <2> QED BY <2>3, <2>4, <2>5
<1>5. \A p \in Rounds \ {r} : runs'[p] = runs[p]
  BY <1>4 DEF DeployInv, DeployType
<1>6. runs' \in [Rounds -> Run] /\ runs'[r] = q
  BY <1>1, <1>4 DEF DeployInv, DeployType
<1>7. AloneRule'
  <2>1. ~(r > round) /\ runs[r].at \notin {"idle", "done"}
    BY <1>1 DEF Past, Steps, DeployInv, DeployType, Rounds
  <2> QED BY <1>1, <1>3, <1>4, <2>1, AloneStays
<1>8. loaded' \in [Services -> Units] /\ \A s \in Services : Keep(s) \subseteq loaded'[s].guards
  <2>1. CASE Reload(r)
    BY <2>1, RereadHolds DEF Reload
  <2>2. CASE loaded' = loaded
    BY <2>2 DEF DeployInv, DeployType, GuardRule
  <2> QED BY <2>1, <2>2 DEF Query, Restart1, Start
<1>9. live' \in [Services -> Live] /\ \A s \in Services : live'[s].up => Keep(s) \subseteq live'[s].guards
  <2>1. CASE live' = live
    BY <2>1 DEF DeployInv, DeployType, GuardRule
  <2>2. ASSUME NEW process \in Restarted(Service(r)), live' = [live EXCEPT ![Service(r)] = process]
        PROVE  live' \in [Services -> Live] /\ \A s \in Services : live'[s].up => Keep(s) \subseteq live'[s].guards
    <3>1. process \in Live /\ (process.up => Keep(Service(r)) \subseteq process.guards)
      BY <1>2, <2>2, RestartedHolds
    <3> QED BY <1>2, <2>2, <3>1 DEF DeployInv, DeployType, GuardRule
  <2> QED BY <2>1, <2>2 DEF Reload, Query, Restart1, Start
<1>10. q.at \notin {"guards", "unit"}
  BY <1>4
<1>11. RunRule(runs'[r]) /\ runs'[r].at \notin {"guards", "unit"} /\ Past(r) /\ runs'[r].todo = runs[r].todo
  BY <1>1, <1>4, <1>6, <1>10
<1> QED BY <1>3, <1>5, <1>6, <1>7, <1>8, <1>9, <1>11, RunsMove

LEMMA CheckActiveInv ==
  ASSUME DeployInv, NEW r \in 1 .. round, CheckActive(r)
  PROVE  DeployInv'
<1>1. r \in Rounds /\ r <= round /\ AtWork(r) /\ runs[r].at = "check"
  <2>1. r \in Rounds /\ r <= round
    BY RoundsPassed
  <2> QED BY <2>1 DEF CheckActive, AtWork, Steps
<1>2. runs[r] \in Run /\ RunRule(runs[r]) /\ runs[r].todo \in Seq(Services) /\ runs[r].todo # <<>>
      /\ runs[r].plan # <<>>
  BY <1>1, SomeService
<1>3. /\ UNCHANGED <<mode, secret, disk, loaded, live, wanted, lost, round>>
      /\ secret' \in Keys \union {NoKey, Torn} /\ round' \in Rounds
  BY DEF CheckActive, DeployInv, DeployType
<1>4. CASE Fails(r)
  BY <1>1, <1>3, <1>4, RunFails
<1>5. CASE ~runs[r].alone /\ Goes(r, [runs[r] EXCEPT !.todo = Tail(@),
                                              !.at = IF Len(runs[r].todo) = 1 THEN "done" ELSE "bin"])
  <2> DEFINE left == Tail(runs[r].todo)
             at == IF Len(runs[r].todo) = 1 THEN "done" ELSE "bin"
             q == [runs[r] EXCEPT !.todo = left, !.at = at]
  <2>1. left \in Seq(Services) /\ (Len(runs[r].todo) # 1 => left # <<>>)
    BY <1>2, TailLeft
  <2>2. at \in {"done", "bin"} /\ (at = "bin" => left # <<>>)
    BY <2>1
  <2>3. runs' = [runs EXCEPT ![r] = q]
    BY <1>5 DEF Goes
  <2> HIDE DEF left, at
  <2>4. q \in Run /\ q.at = at /\ q.alone = runs[r].alone /\ q.todo = left /\ q.half = runs[r].half
        /\ q.key = runs[r].key /\ q.plan = runs[r].plan
    BY <1>2, <2>1, <2>2 DEF Run, Ats, Steps
  <2> HIDE DEF q
  <2>5. RunRule(q)
    BY <1>1, <1>2, <1>5, <2>2, <2>4 DEF RunRule, Steps
  <2>6. q.at \notin {"guards", "unit"} /\ q.at \notin Steps \ {"bin"}
    BY <2>2, <2>4 DEF Steps
  <2>7. AloneRule'
    <3>1. ~(r > round) /\ runs[r].at \notin {"idle", "done"}
      BY <1>1 DEF DeployInv, DeployType, Rounds
    <3> QED BY <1>1, <1>3, <2>3, <2>4, <3>1, AloneStays
  <2> QED BY <1>1, <1>3, <2>3, <2>4, <2>5, <2>6, <2>7, RunMoves
<1> QED BY <1>4, <1>5 DEF CheckActive

LEMMA EndsInv ==
  ASSUME DeployInv, Interrupt \/ (\E r \in 1 .. round : AloneEnds(r))
  PROVE  DeployInv'
<1>1. round \in Rounds /\ round \in Int
  BY DEF DeployInv, DeployType, Rounds
<1>2. CASE Interrupt /\ Fails(round)
  BY <1>1, <1>2, RunFails DEF Interrupt
<1>3. CASE Interrupt /\ AtWork(round) /\ Goes(round, [runs[round] EXCEPT !.alone = TRUE])
  <2> DEFINE q == [runs[round] EXCEPT !.alone = TRUE]
  <2>1. runs[round] \in Run /\ RunRule(runs[round]) /\ runs[round].at \in Steps
    BY <1>1, <1>3, SomeService DEF AtWork
  <2>2. q \in Run /\ RunRule(q) /\ q.at = runs[round].at /\ q.todo = runs[round].todo
        /\ q.half = runs[round].half /\ q.guards = runs[round].guards
    BY <2>1 DEF Run, RunRule
  <2>3. runs' = [runs EXCEPT ![round] = q]
    BY <1>3 DEF Goes
  <2> HIDE DEF q
  <2>4. /\ UNCHANGED <<mode, disk, loaded, live, wanted, lost, round>> /\ round' \in Rounds
        /\ secret' \in Keys \union {NoKey, Torn}
    BY <1>1, <1>3 DEF Interrupt, DeployInv, DeployType
  <2>5. AloneRule'
    <3>1. ~(round > round) /\ round' = round
      BY <1>1, <2>4
    <3> QED BY <1>1, <2>3, <3>1, AloneStays
  <2>6. q.at \in Steps \ {"bin"} => Past(round)
    BY <2>2 DEF Past
  <2> QED BY <1>1, <2>2, <2>3, <2>4, <2>5, <2>6, RunMoves
<1>4. ASSUME NEW r \in 1 .. round, AloneEnds(r) PROVE DeployInv'
  BY <1>4, RoundsPassed, RunFails DEF AloneEnds
<1> QED BY <1>2, <1>3, <1>4 DEF Interrupt

\* What else happens on the hosts.
LEMMA HostStepsInv ==
  ASSUME DeployInv, \/ \E s \in Services : Respawn(s)
                    \/ \E h : Rereads(h) \/ Reboot(h)
                    \/ Discard
  PROVE  DeployInv'
<1>0. /\ UNCHANGED <<mode, disk, wanted, lost, round>>
      /\ secret' \in Keys \union {NoKey, Torn}
  BY DEF Respawn, Rereads, Reboot, Discard, DeployInv, DeployType
<1>1. /\ loaded \in [Services -> Units] /\ live \in [Services -> Live] /\ runs \in [Rounds -> Run]
      /\ \A s \in Services : /\ Keep(s) \subseteq loaded[s].guards
                             /\ live[s].up => Keep(s) \subseteq live[s].guards
  BY DEF DeployInv, DeployType, GuardRule
<1>a. runs' = runs => AloneRule'
  BY <1>0 DEF DeployInv, AloneRule
<1>2. ASSUME NEW s \in Services, Respawn(s) PROVE DeployInv'
  <2>1. PICK process \in Restarted(s) : live' = [live EXCEPT ![s] = process]
    BY <1>2 DEF Respawn
  <2>2. process \in Live /\ (process.up => Keep(s) \subseteq process.guards)
    BY <2>1, RestartedHolds
  <2>3. live' \in [Services -> Live] /\ \A t \in Services : live'[t].up => Keep(t) \subseteq live'[t].guards
    BY <1>1, <2>1, <2>2
  <2>4. loaded' = loaded /\ runs' = runs
    BY <1>2 DEF Respawn
  <2> QED BY <1>0, <1>1, <1>a, <2>3, <2>4, RunsMove
<1>3. ASSUME NEW h, Rereads(h) PROVE DeployInv'
  <2>1. loaded' = Reread(h, disk) /\ live' = live /\ runs' = runs
    BY <1>3 DEF Rereads
  <2> QED BY <1>0, <1>1, <1>a, <2>1, RereadHolds, RunsMove
<1>4. CASE Discard
  <2>1. loaded' = loaded /\ live' = live /\ runs' = runs
    BY <1>4 DEF Discard
  <2> QED BY <1>0, <1>1, <1>a, <2>1, RunsMove
<1>5. ASSUME NEW h, Reboot(h) PROVE DeployInv'
  <2>1. loaded' = Reread(h, disk)
    BY <1>5 DEF Reboot
  <2>2. /\ live' \in [Services -> Live]
        /\ \A s \in Services : live'[s].up => Keep(s) \subseteq live'[s].guards
    <3>1. live' = [s \in Services |-> IF s \in OnHost(h) THEN Process(disk[s], Loaded(disk[s])) ELSE live[s]]
      BY <1>5 DEF Reboot
    <3>2. ASSUME NEW s \in Services
          PROVE  live'[s] \in Live /\ (live'[s].up => Keep(s) \subseteq live'[s].guards)
      <4>1. disk[s] \in Disk /\ Keep(s) \subseteq disk[s].unit.guards \union disk[s].dropin
        BY DEF DeployInv, DeployType, GuardRule
      <4>2. Loaded(disk[s]) \in Units /\ Keep(s) \subseteq Loaded(disk[s]).guards
        BY <4>1, LoadedHolds
      <4>3. /\ Process(disk[s], Loaded(disk[s])) \in Live
            /\ Process(disk[s], Loaded(disk[s])).up =>
                 Process(disk[s], Loaded(disk[s])).guards = Loaded(disk[s]).guards
        BY <4>1, <4>2, ProcessHolds
      <4> QED BY <1>1, <3>1, <4>2, <4>3
    <3> QED BY <3>1, <3>2
  <2>3. runs' \in [Rounds -> Run] /\ \A p \in Rounds : runs'[p] \in {runs[p], Resting}
    <3>1. \A p \in Rounds : runs[p] \in Run
      BY <1>1
    <3> QED BY <1>5, <3>1, RestingRun DEF Reboot, Rounds
  <2>4. AloneRule'
    BY <1>0, <2>3, RestingRun DEF DeployInv, AloneRule
  <2>5. \A p \in Rounds : \/ runs'[p] = runs[p]
                          \/ RunRule(runs'[p]) /\ runs'[p].at = "idle"
    <3>1. RunRule(Resting) /\ Resting.at = "idle"
      BY RestingRun
    <3>2. ASSUME NEW p \in Rounds, runs'[p] = Resting
          PROVE  RunRule(runs'[p]) /\ runs'[p].at = "idle"
      BY <3>1, <3>2
    <3>3. \A p \in Rounds : runs'[p] = runs[p] \/ runs'[p] = Resting
      BY <2>3
    <3> QED BY <3>2, <3>3
  <2>6. "idle" \notin Steps \union {"guards", "unit"}
    BY DEF Steps
  <2> QED BY <1>0, <2>1, <2>2, <2>3, <2>4, <2>5, <2>6, RereadHolds, RunsMove
<1> QED BY <1>2, <1>3, <1>4, <1>5

LEMMA EditInv ==
  ASSUME DeployInv, NEW s \in Services, NEW m \in Mounts, Edit(s, m)
  PROVE  DeployInv'
<1>1. /\ UNCHANGED <<mode, secret, runs, round>> /\ AloneRule'
  BY DEF Edit, DeployInv, AloneRule
<1>2. PICK e : e = [disk[s] EXCEPT !.unit.guards = @ \union {m}]
  OBVIOUS
<1>3. e \in Disk /\ e.unit.guards = disk[s].unit.guards \union {m} /\ e.dropin = disk[s].dropin
  BY <1>2 DEF DeployInv, DeployType, Disk, Units, Guards
<1>4. disk' = [disk EXCEPT ![s] = e]
  <2>1. disk' = [disk EXCEPT ![s].unit.guards = @ \union {m}]
    BY DEF Edit
  <2> QED BY <1>2, <2>1
<1>5. disk' \in [Services -> Disk] /\ disk'[s] = e /\ \A t \in Services \ {s} : disk'[t] = disk[t]
  BY <1>3, <1>4 DEF DeployInv, DeployType
<1>6. /\ wanted' \in [Services -> Guards] /\ lost' \in [Services -> Guards]
      /\ Keep(s)' \subseteq Keep(s) \union {m}
      /\ \A t \in Services \ {s} : Keep(t)' = Keep(t)
      /\ (\E r \in 1 .. round : WorksOn(r, s)) => Keep(s)' \subseteq Keep(s)
  <2>1. PICK w, l : /\ wanted' = [wanted EXCEPT ![s] = w] /\ lost' = [lost EXCEPT ![s] = l]
                    /\ w = wanted[s] \union {m}
                    /\ l = IF \E r \in 1 .. round : WorksOn(r, s) THEN lost[s] \union {m} ELSE lost[s] \ {m}
    BY DEF Edit
  <2>2. wanted[s] \in Guards /\ lost[s] \in Guards /\ w \in Guards /\ l \in Guards
    BY <2>1 DEF DeployInv, DeployType, Guards
  <2>3. /\ wanted' \in [Services -> Guards] /\ lost' \in [Services -> Guards]
        /\ wanted'[s] = w /\ lost'[s] = l
        /\ \A t \in Services \ {s} : wanted'[t] = wanted[t] /\ lost'[t] = lost[t]
    BY <2>1, <2>2 DEF DeployInv, DeployType
  <2> QED BY <2>1, <2>3 DEF Keep
<1>7. \A t \in Services : Keep(t)' \subseteq disk'[t].unit.guards \union disk'[t].dropin
  <2>1. Keep(s)' \subseteq disk'[s].unit.guards \union disk'[s].dropin
    BY <1>3, <1>5, <1>6 DEF DeployInv, GuardRule
  <2>2. \A t \in Services \ {s} : Keep(t)' \subseteq disk'[t].unit.guards \union disk'[t].dropin
    BY <1>5, <1>6 DEF DeployInv, GuardRule
  <2> QED BY <2>1, <2>2
<1>8. /\ loaded' \in [Services -> Units]
      /\ \A t \in Services : Keep(t)' \subseteq loaded'[t].guards
  <2>1. loaded' = [t \in Services |-> IF t \in OnHost(HostOf[s]) THEN Loaded(disk'[t]) ELSE loaded[t]]
    BY DEF Edit, Reread
  <2>2. \A t \in Services : Loaded(disk'[t]) \in Units /\ Keep(t)' \subseteq Loaded(disk'[t]).guards
    BY <1>5, <1>7, LoadedHolds
  <2>3. s \in OnHost(HostOf[s])
    BY DEF OnHost
  <2>4. \A t \in Services \ {s} : loaded[t] \in Units /\ Keep(t)' \subseteq loaded[t].guards
    BY <1>6 DEF DeployInv, DeployType, GuardRule
  <2> QED BY <2>1, <2>2, <2>3, <2>4
<1>9. /\ live' \in [Services -> Live]
      /\ \A t \in Services : live'[t].up => Keep(t)' \subseteq live'[t].guards
  <2>1. PICK p : p = Process(disk'[s], loaded'[s]) /\ live' = [live EXCEPT ![s] = p]
    BY DEF Edit
  <2>2. p \in Live /\ (p.up => p.guards = loaded'[s].guards)
    BY <1>5, <1>8, <2>1, ProcessHolds
  <2>3. live \in [Services -> Live] /\ \A t \in Services \ {s} : live[t].up => Keep(t)' \subseteq live[t].guards
    BY <1>6 DEF DeployInv, DeployType, GuardRule
  <2> QED BY <1>8, <2>1, <2>2, <2>3
<1>10. \A p \in Rounds : /\ RunRule(runs'[p]) /\ Service(p)' = Service(p) /\ (Past(p)' <=> Past(p))
                         /\ (Past(p) /\ Service(p) = s => Keep(s)' \subseteq Keep(s))
  <2>1. \A p \in Rounds : Past(p) => p \in 1 .. round
    BY DEF DeployInv, DeployType, AloneRule, Past, Steps, Rounds
  <2>2. \A p \in Rounds : Past(p) /\ Service(p) = s => Keep(s)' \subseteq Keep(s)
    BY <1>6, <2>1 DEF WorksOn, AtWork, Past
  <2> QED BY <1>1, <2>2 DEF DeployInv, Service, Past
<1>a. \A p \in Rounds : Past(p) => Service(p) \in Services
  BY SomeService DEF Past, AtWork
<1>11. \A p \in Rounds : MoveRule(p)'
  <2> SUFFICES ASSUME NEW p \in Rounds PROVE MoveRule(p)'
    OBVIOUS
  <2>1. CASE ~Past(p)
    BY <1>1, <2>1 DEF MoveRule, Past, Steps
  <2>2. CASE Past(p) /\ Service(p) = s
    BY <1>1, <1>3, <1>5, <1>10, <2>2 DEF DeployInv, MoveRule
  <2>3. CASE Past(p) /\ Service(p) # s
    BY <1>1, <1>5, <1>6, <1>10, <1>a, <2>3 DEF DeployInv, MoveRule
  <2> QED BY <2>1, <2>2, <2>3
<1>12. \A p, q \in Rounds : MeetRule(p, q)'
  <2> SUFFICES ASSUME NEW p \in Rounds, NEW q \in Rounds, p # q, Past(p), Past(q), Service(p) = Service(q)
               PROVE  Keep(Service(q))' = {}
    BY <1>10 DEF MeetRule
  <2>0. PICK t \in Services : t = Service(q) /\ t = Service(q)' /\ Keep(t) = {}
    BY <1>10, <1>a DEF DeployInv, MeetRule
  <2>1. Keep(t)' \subseteq Keep(t)
    BY <1>6, <1>10, <2>0
  <2> QED BY <2>0, <2>1
<1>13. DeployType'
  BY <1>1, <1>5, <1>6, <1>8, <1>9 DEF DeployInv, DeployType
<1>14. \A t \in Services : GuardRule(t)'
  BY <1>7, <1>8, <1>9 DEF GuardRule
<1>15. \A p \in Rounds : RunRule(runs'[p])
  BY <1>10
<1> QED BY <1>1, <1>11, <1>12, <1>13, <1>14, <1>15 DEF DeployInv

LEMMA DeployNextInv == DeployInv /\ [DeployNext]_deployVars => DeployInv'
<1> SUFFICES ASSUME DeployInv, [DeployNext]_deployVars PROVE DeployInv'
  OBVIOUS
<1>1. ASSUME NEW plan \in LocalPlans \union RemotePlans, Begin(plan) PROVE DeployInv'
  BY <1>1, BeginInv
<1>2. CASE SettleKey \/ SaveKey
  BY <1>2, KeyStepsInv
<1>3. CASE Interrupt \/ \E r \in 1 .. round : AloneEnds(r)
  BY <1>3, EndsInv
<1>4. ASSUME NEW r \in 1 .. round, ServiceStep(r) PROVE DeployInv'
  BY <1>4, WriteStepsInv, StartStepsInv, CheckActiveInv DEF ServiceStep
<1>5. CASE (\E s \in Services : Respawn(s)) \/ (\E h : Rereads(h) \/ Reboot(h)) \/ Discard
  BY <1>5, HostStepsInv
<1>6. ASSUME NEW s \in Services, NEW m \in Mounts, Edit(s, m) PROVE DeployInv'
  BY <1>6, EditInv
<1>7. CASE UNCHANGED deployVars
  BY <1>7 DEF deployVars, DeployInv, DeployType, RunRule, AloneRule, MoveRule, MeetRule, Past, GuardRule, Keep, Service
<1> QED BY <1>1, <1>2, <1>3, <1>4, <1>5, <1>6, <1>7 DEF DeployNext

\* The inductive invariant of the deployments.
LEMMA DeployInvariant == DeploySpec => []DeployInv
BY DeployInitInv, DeployNextInv, PTL DEF DeploySpec

\* No service runs without the mount guards its operator gave it, but those that
\* an unread unit, a later edit or a second script cost it, at whatever step
\* runs stopped and whenever hosts rebooted: property StartsGuarded.
THEOREM GuardsHold == DeploySpec => []StartsGuarded
<1>1. DeployInv => StartsGuarded
  BY DEF DeployInv, GuardRule, Keep, StartsGuarded
<1> QED BY <1>1, DeployInvariant, PTL

-----------------------------------------------------------------------------
(* What a script does to its service *)

Fresh(s) == live'[s].up => live'[s].key = disk'[s].env /\ live'[s].bin = disk'[s].bin

\* Its own step but the last: the run that goes on, and the service it touches.
GoesOn(r, q) ==
  /\ runs' = [runs EXCEPT ![r] = q]
  /\ q.at \in Steps /\ q.todo = runs[r].todo /\ q.plan = runs[r].plan /\ q.key = runs[r].key
  /\ q.alone = runs[r].alone /\ runs[r].unasked \subseteq q.unasked
  /\ runs[r].at = "bin" =>
       q.at = "env" /\ q.beside = IF Others(r) = {} THEN runs[r].beside ELSE runs[r].beside \union {Service(r)}
  /\ runs[r].at # "bin" => q.at \notin {"bin", "env"} /\ q.beside = runs[r].beside
  /\ q.at = "start" => Service(r) \in q.unasked \/ ~live'[Service(r)].up
  /\ q.at = "check" => Fresh(Service(r)) \/ (runs[r].at = "start" /\ live' = live)
Touches(r) ==
  /\ UNCHANGED <<mode, secret, round>>
  /\ \A t \in Services \ {Service(r)} : /\ disk'[t].env = disk[t].env /\ disk'[t].bin = disk[t].bin
                                        /\ live'[t] = live[t]
  /\ disk'[Service(r)].env = IF runs[r].at = "env" THEN runs[r].key ELSE disk[Service(r)].env
  /\ disk'[Service(r)].bin = IF runs[r].at = "bin" THEN r ELSE disk[Service(r)].bin
  /\ live'[Service(r)] = live[Service(r)] \/ Fresh(Service(r))

LEMMA ProcessRuns ==
  ASSUME NEW d, NEW u, Process(d, u).up
  PROVE  Process(d, u).key = d.env /\ Process(d, u).bin = d.bin
BY DEF Process, Down

LEMMA RestartedFresh ==
  ASSUME DeployInv, NEW s \in Services, NEW p \in Restarted(s), live' = [live EXCEPT ![s] = p], disk' = disk
  PROVE  Fresh(s) /\ \A t \in Services \ {s} : live'[t] = live[t]
<1>1. p.up => p.key = disk[s].env /\ p.bin = disk[s].bin
  BY ProcessRuns DEF Restarted, Down
<1>2. live'[s] = p /\ \A t \in Services \ {s} : live'[t] = live[t]
  BY DEF DeployInv, DeployType
<1> QED BY <1>1, <1>2 DEF Fresh

LEMMA WritesTouch ==
  ASSUME DeployInv, NEW r \in Rounds, AtWork(r), NEW d, Writes(r, d),
         d.env = IF runs[r].at = "env" THEN runs[r].key ELSE disk[Service(r)].env,
         d.bin = IF runs[r].at = "bin" THEN r ELSE disk[Service(r)].bin
  PROVE  Touches(r)
<1>1. Service(r) \in Services
  BY SomeService
<1>2. disk'[Service(r)] = d /\ \A t \in Services \ {Service(r)} : disk'[t] = disk[t]
  BY <1>1 DEF Writes, DeployInv, DeployType
<1>3. live' = live /\ UNCHANGED <<mode, secret, round>>
  BY DEF Writes
<1> QED BY <1>1, <1>2, <1>3 DEF Touches

LEMMA WritesGoOn ==
  ASSUME DeployInv, NEW r \in 1 .. round,
         InstallBin(r) \/ WriteEnv(r) \/ WriteGuards(r) \/ ReadFails(r) \/ WriteUnit(r)
  PROVE  AtWork(r) /\ Touches(r) /\ \E q : GoesOn(r, q)
<1> DEFINE run == runs[r]
           d == disk[Service(r)]
<1>1. r \in Rounds /\ AtWork(r) /\ run \in Run /\ d \in Disk
  <2>1. r \in Rounds /\ AtWork(r)
    BY RoundsPassed DEF InstallBin, WriteEnv, WriteGuards, ReadFails, WriteUnit, AtWork, Steps
  <2> QED BY <2>1, SomeService
<1>2. ASSUME NEW q, runs' = [runs EXCEPT ![r] = q], q.at \in {"guards", "unit", "reload"}, q.todo = run.todo,
             q.plan = run.plan, q.key = run.key, q.alone = run.alone, q.unasked = run.unasked,
             q.beside = run.beside, run.at # "bin"
      PROVE  GoesOn(r, q)
  BY <1>2 DEF GoesOn, Steps
<1>3. CASE InstallBin(r)
  <2>1. run.at = "bin" /\ Writes(r, [d EXCEPT !.bin = r])
    BY <1>3 DEF InstallBin
  <2>2. Touches(r)
    BY <1>1, <2>1, WritesTouch DEF Disk
  <2>3. PICK q : /\ runs' = [runs EXCEPT ![r] = q] /\ q.at = "env" /\ q.todo = run.todo /\ q.plan = run.plan
                 /\ q.key = run.key /\ q.alone = run.alone /\ q.unasked = run.unasked
                 /\ q.beside = IF Others(r) = {} THEN run.beside ELSE run.beside \union {Service(r)}
    <3>1. CASE Others(r) = {}
      <4> DEFINE q == [run EXCEPT !.at = "env"]
      <4>1. /\ q.at = "env" /\ q.todo = run.todo /\ q.plan = run.plan /\ q.key = run.key
            /\ q.alone = run.alone /\ q.unasked = run.unasked /\ q.beside = run.beside
        BY <1>1 DEF Run
      <4>2. runs' = [runs EXCEPT ![r] = q]
        BY <1>3, <3>1 DEF InstallBin, To, Goes, After
      <4> HIDE DEF q
      <4> QED BY <3>1, <4>1, <4>2
    <3>2. CASE Others(r) # {}
      <4> DEFINE q == [run EXCEPT !.at = "env", !.beside = @ \union {Service(r)}]
      <4>1. /\ q.at = "env" /\ q.todo = run.todo /\ q.plan = run.plan /\ q.key = run.key
            /\ q.alone = run.alone /\ q.unasked = run.unasked /\ q.beside = run.beside \union {Service(r)}
        BY <1>1 DEF Run
      <4>2. runs' = [runs EXCEPT ![r] = q]
        BY <1>3, <3>2 DEF InstallBin, Goes, After
      <4> HIDE DEF q
      <4> QED BY <3>2, <4>1, <4>2
    <3> QED BY <3>1, <3>2
  <2>4. GoesOn(r, q)
    BY <2>1, <2>3 DEF GoesOn, Steps
  <2> QED BY <1>1, <2>2, <2>4
<1>4. CASE WriteEnv(r)
  <2>1. run.at = "env" /\ Writes(r, [d EXCEPT !.env = run.key])
    BY <1>4 DEF WriteEnv
  <2>2. Touches(r)
    BY <1>1, <2>1, WritesTouch DEF Disk
  <2> DEFINE q == [run EXCEPT !.at = "guards"]
  <2>3. /\ q.at = "guards" /\ q.todo = run.todo /\ q.plan = run.plan /\ q.key = run.key
        /\ q.alone = run.alone /\ q.unasked = run.unasked /\ q.beside = run.beside
    BY <1>1 DEF Run
  <2>4. runs' = [runs EXCEPT ![r] = q]
    BY <1>4 DEF WriteEnv, To, Goes, After
  <2> HIDE DEF q
  <2>5. GoesOn(r, q)
    BY <1>2, <2>1, <2>3, <2>4
  <2> QED BY <1>1, <2>2, <2>5
<1>5. CASE WriteGuards(r) \/ ReadFails(r) \/ WriteUnit(r)
  <2>1. run.at \notin {"bin", "env"}
    BY <1>5 DEF WriteGuards, ReadFails, WriteUnit
  <2>2. PICK e \in {d, [d EXCEPT !.dropin = {}], [d EXCEPT !.dropin = run.guards],
                    [d EXCEPT !.unit = Unit("whole", {})], [d EXCEPT !.unit = Unit(Torn, {})]} : Writes(r, e)
    BY <1>5 DEF WriteGuards, ReadFails, WriteUnit
  <2>3. e.env = d.env /\ e.bin = d.bin
    BY <1>1, <2>2 DEF Disk
  <2>4. Touches(r)
    BY <1>1, <2>1, <2>2, <2>3, WritesTouch
  <2>5. PICK q \in {[run EXCEPT !.at = "unit"], [run EXCEPT !.half = TRUE, !.guards = d.unit.guards],
                    [run EXCEPT !.half = FALSE, !.at = "unit"], [run EXCEPT !.half = TRUE],
                    [run EXCEPT !.half = FALSE, !.at = "reload"]} : runs' = [runs EXCEPT ![r] = q]
    BY <1>5 DEF WriteGuards, ReadFails, WriteUnit, To, Goes, After
  <2>6. run.at \in {"guards", "unit"}
    BY <1>5 DEF WriteGuards, ReadFails, WriteUnit
  <2>7. /\ q.at \in {run.at, "unit", "reload"} /\ q.todo = run.todo /\ q.plan = run.plan /\ q.key = run.key
        /\ q.alone = run.alone /\ q.unasked = run.unasked /\ q.beside = run.beside
    BY <1>1, <2>5 DEF Run
  <2>8. GoesOn(r, q)
    BY <1>2, <2>1, <2>5, <2>6, <2>7
  <2> QED BY <1>1, <2>4, <2>8
<1> QED BY <1>3, <1>4, <1>5

LEMMA StartsGoOn ==
  ASSUME DeployInv, NEW r \in 1 .. round, Reload(r) \/ Query(r) \/ Restart1(r) \/ Start(r)
  PROVE  AtWork(r) /\ Touches(r) /\ \E q : GoesOn(r, q)
<1> DEFINE run == runs[r]
<1>1. r \in Rounds /\ AtWork(r) /\ run \in Run /\ Service(r) \in Services
  <2>1. r \in Rounds /\ AtWork(r)
    BY RoundsPassed DEF Reload, Query, Restart1, Start, AtWork, Steps
  <2> QED BY <2>1, SomeService
<1>2. run.at \in {"reload", "query", "restart", "start"} /\ disk' = disk /\ UNCHANGED <<mode, secret, round>>
  BY DEF Reload, Query, Restart1, Start
<1>3. \/ live' = live /\ run.at \notin {"restart"} /\ (run.at = "start" => live[Service(r)].up)
      \/ /\ Fresh(Service(r)) /\ \A t \in Services \ {Service(r)} : live'[t] = live[t]
         /\ run.at \in {"restart", "start"}
  BY <1>1, <1>2, RestartedFresh DEF Reload, Query, Restart1, Start
<1>4. Touches(r)
  BY <1>1, <1>2, <1>3 DEF Touches
<1>5. ASSUME NEW at, To(r, at)
      PROVE  \E q : /\ runs' = [runs EXCEPT ![r] = q] /\ q.at = at /\ q.todo = run.todo /\ q.plan = run.plan
                    /\ q.key = run.key /\ q.alone = run.alone /\ q.unasked = run.unasked
                    /\ q.beside = run.beside
  <2> DEFINE q == [run EXCEPT !.at = at]
  <2>1. /\ q.at = at /\ q.todo = run.todo /\ q.plan = run.plan /\ q.key = run.key
        /\ q.alone = run.alone /\ q.unasked = run.unasked /\ q.beside = run.beside
    BY <1>1 DEF Run
  <2>2. runs' = [runs EXCEPT ![r] = q]
    BY <1>5 DEF To, Goes
  <2> HIDE DEF q
  <2> QED BY <2>1, <2>2
<1>6. CASE Reload(r)
  <2>1. PICK q : /\ runs' = [runs EXCEPT ![r] = q] /\ q.at \in {"query", "restart"} /\ q.todo = run.todo
                 /\ q.plan = run.plan /\ q.key = run.key /\ q.alone = run.alone
                 /\ q.unasked = run.unasked /\ q.beside = run.beside
    BY <1>5, <1>6 DEF Reload, After
  <2>2. GoesOn(r, q)
    BY <1>2, <2>1 DEF GoesOn, Steps
  <2> QED BY <1>1, <1>4, <2>2
<1>7. CASE Query(r)
  <2>1. PICK at \in {"restart", "start"} :
          /\ at = "start" => ~live[Service(r)].up
             \/ Goes(r, [run EXCEPT !.at = "start", !.unasked = @ \union {Service(r)}])
          /\ To(r, at) \/ (at = "start" /\ Goes(r, [run EXCEPT !.at = "start", !.unasked = @ \union {Service(r)}]))
    BY <1>7 DEF Query
  <2>2. ASSUME Goes(r, [run EXCEPT !.at = "start", !.unasked = @ \union {Service(r)}])
        PROVE  \E q : GoesOn(r, q)
    <3> DEFINE q == [run EXCEPT !.at = "start", !.unasked = @ \union {Service(r)}]
    <3>1. /\ q.at = "start" /\ q.todo = run.todo /\ q.plan = run.plan /\ q.key = run.key
          /\ q.alone = run.alone /\ q.unasked = run.unasked \union {Service(r)} /\ q.beside = run.beside
      BY <1>1 DEF Run
    <3>2. runs' = [runs EXCEPT ![r] = q]
      BY <2>2 DEF Goes
    <3> HIDE DEF q
    <3>3. GoesOn(r, q)
      BY <1>2, <3>1, <3>2 DEF GoesOn, Steps
    <3> QED BY <3>3
  <2>3. ASSUME To(r, at), at = "start" => ~live[Service(r)].up PROVE \E q : GoesOn(r, q)
    <3>1. PICK q : /\ runs' = [runs EXCEPT ![r] = q] /\ q.at = at /\ q.todo = run.todo
                   /\ q.plan = run.plan /\ q.key = run.key /\ q.alone = run.alone
                   /\ q.unasked = run.unasked /\ q.beside = run.beside
      BY <1>5, <2>3
    <3>2. live' = live
      BY <1>7 DEF Query
    <3>3. GoesOn(r, q)
      BY <1>2, <2>3, <3>1, <3>2 DEF GoesOn, Steps
    <3> QED BY <3>3
  <2> QED BY <1>1, <1>4, <2>1, <2>2, <2>3
<1>8. CASE Restart1(r) \/ Start(r)
  <2>1. PICK q : /\ runs' = [runs EXCEPT ![r] = q] /\ q.at = "check" /\ q.todo = run.todo
                 /\ q.plan = run.plan /\ q.key = run.key /\ q.alone = run.alone
                 /\ q.unasked = run.unasked /\ q.beside = run.beside
    BY <1>5, <1>8 DEF Restart1, Start
  <2>2. run.at \in {"restart", "start"}
    BY <1>8 DEF Restart1, Start
  <2>3. GoesOn(r, q)
    BY <1>3, <2>1, <2>2 DEF GoesOn, Steps
  <2> QED BY <1>1, <1>4, <2>3
<1> QED BY <1>6, <1>7, <1>8

\* What else happens: no key or binary changes, and a run stays, is left alone or ends.
World(p) == \/ runs'[p] = runs[p] \/ runs'[p] = Resting
            \/ /\ runs'[p] = [runs[p] EXCEPT !.alone = TRUE] /\ p = round /\ mode = "remote"
Elsewhere ==
  /\ UNCHANGED <<mode, round>>
  /\ \A t \in Services : /\ disk'[t].env = disk[t].env /\ disk'[t].bin = disk[t].bin
                         /\ live'[t] = live[t] \/ Fresh(t)
  /\ \A p \in Rounds : World(p)
  /\ secret' = secret \/ (Stopped /\ secret = Torn /\ secret' = NoKey)

LEMMA WorldSteps ==
  ASSUME DeployInv,
         \/ Interrupt \/ Discard \/ UNCHANGED deployVars
         \/ \E r \in 1 .. round : AloneEnds(r)
         \/ \E s \in Services : Respawn(s) \/ \E m \in Mounts : Edit(s, m)
         \/ \E h : Reboot(h) \/ Rereads(h)
  PROVE  Elsewhere
<1>1. disk \in [Services -> Disk] /\ live \in [Services -> Live] /\ runs \in [Rounds -> Run]
      /\ round \in Rounds
  BY DEF DeployInv, DeployType
<1>2. ASSUME runs' = runs PROVE \A p \in Rounds : World(p)
  BY <1>2 DEF World
<1>3. ASSUME NEW r \in Rounds, Fails(r) PROVE \A p \in Rounds : World(p)
  BY <1>1, <1>3 DEF World, Fails, Goes
<1>4. ASSUME Interrupt PROVE Elsewhere
  <2>1. \A p \in Rounds : World(p)
    BY <1>1, <1>3, <1>4 DEF Interrupt, World, Goes
  <2> QED BY <1>4, <2>1 DEF Interrupt, Elsewhere
<1>5. ASSUME Discard PROVE Elsewhere
  BY <1>2, <1>5 DEF Discard, Elsewhere
<1>6. ASSUME UNCHANGED deployVars PROVE Elsewhere
  BY <1>2, <1>6 DEF deployVars, Elsewhere
<1>7. ASSUME NEW r \in 1 .. round, AloneEnds(r) PROVE Elsewhere
  <2>1. \A p \in Rounds : World(p)
    BY <1>3, <1>7, RoundsPassed DEF AloneEnds
  <2> QED BY <1>7, <2>1 DEF AloneEnds, Elsewhere
<1>8. ASSUME NEW s \in Services, Respawn(s) PROVE Elsewhere
  <2>1. disk' = disk /\ Fresh(s) /\ \A t \in Services \ {s} : live'[t] = live[t]
    BY <1>8, RestartedFresh DEF Respawn
  <2> QED BY <1>2, <1>8, <2>1 DEF Respawn, Elsewhere
<1>9. ASSUME NEW s \in Services, NEW m \in Mounts, Edit(s, m) PROVE Elsewhere
  <2>1. \A t \in Services : disk'[t].env = disk[t].env /\ disk'[t].bin = disk[t].bin
    BY <1>1, <1>9 DEF Edit, Disk
  <2>2. PICK d, u : live' = [live EXCEPT ![s] = Process(d, u)] /\ d = disk'[s]
    BY <1>9 DEF Edit
  <2>3. \A t \in Services : live'[t] = live[t] \/ Fresh(t)
    BY <1>1, <2>2, ProcessRuns DEF Fresh
  <2> QED BY <1>2, <1>9, <2>1, <2>3 DEF Edit, Elsewhere
<1>10. ASSUME NEW h, Rereads(h) PROVE Elsewhere
  BY <1>2, <1>10 DEF Rereads, Elsewhere
<1>11. ASSUME NEW h, Reboot(h) PROVE Elsewhere
  <2>1. \A s \in Services : live'[s] = live[s] \/ live'[s] = Process(disk[s], Loaded(disk[s]))
    BY <1>11 DEF Reboot
  <2>2. disk' = disk /\ secret' = secret /\ UNCHANGED <<mode, round>>
    BY <1>11 DEF Reboot
  <2>3. \A s \in Services : live'[s] = live[s] \/ Fresh(s)
    BY <2>1, <2>2, ProcessRuns DEF Fresh
  <2>4. \A p \in Rounds : World(p)
    BY <1>11 DEF Reboot, World, Rounds
  <2> QED BY <2>2, <2>3, <2>4 DEF Elsewhere
<1> QED BY <1>4, <1>5, <1>6, <1>7, <1>8, <1>9, <1>10, <1>11

-----------------------------------------------------------------------------
(* Keys *)

Here == OnHost(HostOf[Controller])
Latest == runs[round]

\* What a local run goes by: nothing is at work but it, its services are of this
\* host, and the key it will write is the only one there.
LocalInv ==
  mode = "local" =>
    /\ \A r \in Rounds : ~runs[r].alone
    /\ \A i \in DOMAIN Latest.todo : Latest.todo[i] \in Here
    /\ \A i \in DOMAIN Latest.plan : Latest.plan[i] \in Here
    /\ Latest.at \in Steps => secret = Latest.key
    /\ Latest.at = "save" => \A s \in Here : disk[s].env \in {NoKey, Latest.key}
    /\ secret \in Keys => \A s \in Here : disk[s].env \in {NoKey, secret}

LEMMA LocalInitInv == DeployInit => LocalInv
<1> SUFFICES ASSUME DeployInit PROVE LocalInv
  OBVIOUS
<1>1. Latest = Resting /\ secret = NoKey /\ \A r \in Rounds : runs[r] = Resting
  BY RunsAssumption DEF DeployInit, Latest, Rounds
<1>2. Resting.todo = <<>> /\ Resting.plan = <<>> /\ Resting.at = "idle" /\ ~Resting.alone
  BY DEF Resting
<1> QED BY <1>1, <1>2, KeysAssumption DEF LocalInv, Steps

\* A step that writes no key file and moves to no other service.
LEMMA LocalMoves ==
  ASSUME DeployInv, LocalInv, UNCHANGED <<mode, secret, round>>,
         \A s \in Services : disk'[s].env = disk[s].env,
         mode = "local" => \A r \in Rounds : runs'[r] = Resting \/ ~runs'[r].alone,
         \/ Latest' = Resting
         \/ /\ Latest'.todo = Latest.todo /\ Latest'.plan = Latest.plan /\ Latest'.key = Latest.key
            /\ Latest'.at \in Steps => Latest.at \in Steps
            /\ Latest'.at = "save" => Latest.at = "save"
  PROVE  LocalInv'
<1>1. Resting.todo = <<>> /\ Resting.plan = <<>> /\ Resting.at = "idle" /\ ~Resting.alone
  BY DEF Resting
<1>2. \A s \in Here : s \in Services
  BY DEF Here, OnHost
<1>3. CASE Latest' = Resting
  BY <1>1, <1>2, <1>3 DEF LocalInv, Here, Steps
<1>4. CASE /\ Latest'.todo = Latest.todo /\ Latest'.plan = Latest.plan /\ Latest'.key = Latest.key
           /\ Latest'.at \in Steps => Latest.at \in Steps
           /\ Latest'.at = "save" => Latest.at = "save"
  BY <1>1, <1>2, <1>4 DEF LocalInv, Here
<1> QED BY <1>3, <1>4

LEMMA ModeStays == [DeployNext]_deployVars => mode' = mode
BY DEF DeployNext, ServiceStep, Begin, SettleKey, SaveKey, InstallBin, WriteEnv, WriteGuards, ReadFails,
   WriteUnit, Writes, Reload, Query, Restart1, Start, CheckActive, AloneEnds, Interrupt, Discard, Respawn,
   Rereads, Edit, Reboot, deployVars

\* On the one host nothing else is at work.
LEMMA LocalOnly ==
  ASSUME DeployInv, LocalInv, mode = "local", NEW r \in Rounds, AtWork(r)
  PROVE  r = round
BY DEF DeployInv, AloneRule, LocalInv, AtWork, Steps

LEMMA LocalBegin ==
  ASSUME DeployInv, LocalInv, mode = "local", NEW plan \in LocalPlans, Begin(plan)
  PROVE  LocalInv'
<1>1. Goes(round + 1, Started(plan, "key", NoKey)) /\ UNCHANGED <<mode, secret, disk>> /\ round' = round + 1
      /\ round' \in Rounds
  BY RunsAssumption DEF Begin, DeployInv, DeployType, Rounds
<1> DEFINE q == Started(plan, "key", NoKey)
<1>2. q.todo = plan /\ q.plan = plan /\ q.at = "key" /\ ~q.alone
  BY DEF Started, Resting
<1> HIDE DEF q
<1>3. Latest' = q /\ \A r \in Rounds : runs'[r] \in {runs[r], q}
  BY <1>1 DEF Goes, q, Latest, DeployInv, DeployType
<1>4. \A i \in DOMAIN plan : plan[i] \in Here
  BY PlansAssumption DEF Here, OnHost
<1> QED BY <1>1, <1>2, <1>3, <1>4 DEF LocalInv, Here, Steps

LEMMA LocalKey ==
  ASSUME DeployInv, LocalInv, mode = "local", SettleKey \/ SaveKey
  PROVE  LocalInv'
<1> DEFINE run == runs[round]
<1>0. /\ run \in Run /\ RunRule(run) /\ round \in Rounds /\ Latest = run
      /\ UNCHANGED <<mode, disk, round>>
  BY DEF DeployInv, DeployType, Latest, SettleKey, SaveKey
<1>1. /\ \A i \in DOMAIN run.todo : run.todo[i] \in Here
      /\ \A i \in DOMAIN run.plan : run.plan[i] \in Here
      /\ \A r \in Rounds : ~runs[r].alone
      /\ \A s \in Here : s \in Services
  BY <1>0 DEF LocalInv, Here, OnHost
<1>2. ASSUME NEW q, Goes(round, q) PROVE Latest' = q /\ \A r \in Rounds : runs'[r] \in {runs[r], q}
  BY <1>0, <1>2 DEF Goes, Latest, DeployInv, DeployType
<1>3. ASSUME Fails(round), secret' = secret PROVE LocalInv'
  <2>1. Latest' = Resting /\ \A r \in Rounds : runs'[r] \in {runs[r], Resting}
    BY <1>2, <1>3 DEF Fails
  <2> QED BY <1>0, <1>1, <1>3, <2>1, LocalMoves
<1>4. ASSUME NEW q, Goes(round, q), q.todo = run.todo, q.plan = run.plan, ~q.alone,
             q.at \in {"save", "bin"},
             q.at = "bin" => secret' = q.key,
             q.at = "save" => \A s \in Here : disk[s].env \in {NoKey, q.key},
             secret' \in Keys => \A s \in Here : disk[s].env \in {NoKey, secret'}
      PROVE  LocalInv'
  <2>1. Latest' = q /\ \A r \in Rounds : runs'[r] \in {runs[r], q}
    BY <1>2, <1>4
  <2>2. \A r \in Rounds : ~runs'[r].alone
    BY <1>1, <1>4, <2>1
  <2> QED BY <1>0, <1>1, <1>4, <2>1, <2>2 DEF LocalInv, Here, Steps
<1>5. CASE SettleKey
  <2>1. secret' = secret /\ (secret \in Keys => \A s \in Here : disk[s].env \in {NoKey, secret})
    BY <1>5 DEF SettleKey, LocalInv
  <2>2. CASE Fails(round)
    BY <1>3, <2>1, <2>2
  <2>3. ASSUME NEW key, NEW at \in {"save", "bin"}, Goes(round, [run EXCEPT !.at = at, !.key = key]),
               at = "bin" => secret = key, at = "save" => \A s \in Here : disk[s].env \in {NoKey, key}
        PROVE  LocalInv'
    <3> DEFINE q == [run EXCEPT !.at = at, !.key = key]
    <3>1. q.todo = run.todo /\ q.plan = run.plan /\ q.alone = run.alone /\ q.at = at /\ q.key = key
      BY <1>0 DEF Run
    <3>2. Goes(round, q)
      BY <2>3
    <3> HIDE DEF q
    <3> QED BY <1>0, <1>1, <1>4, <2>1, <2>3, <3>1, <3>2
  <2>4. CASE secret \in Keys /\ Goes(round, [run EXCEPT !.at = "bin", !.key = secret])
    BY <2>3, <2>4
  <2>5. CASE /\ secret = NoKey /\ Cardinality(Imports(run.plan)) <= 1
             /\ \E key \in IF Imports(run.plan) = {} THEN Generated ELSE Imports(run.plan) :
                  Goes(round, [run EXCEPT !.at = "save", !.key = key])
    <3>1. PICK key \in IF Imports(run.plan) = {} THEN Generated ELSE Imports(run.plan) :
             Goes(round, [run EXCEPT !.at = "save", !.key = key])
      BY <2>5
    <3>2. Imports(run.plan) = Using(Here)
      BY DEF Imports, Here
    <3>3. \A s \in Here : disk[s].env \in {NoKey, key}
      <4>1. CASE Using(Here) = {}
        BY <4>1 DEF Using
      <4>2. CASE Using(Here) # {}
        <5> DEFINE envs == {disk[s].env : s \in Here}
                   f == [s \in Here |-> disk[s].env]
        <5>0. IsFiniteSet(Here) /\ f \in Surjection(Here, envs)
          BY PlansAssumption, FS_Subset DEF Here, OnHost, Surjection
        <5>1. IsFiniteSet(envs)
          BY <5>0, FS_Surjection
        <5>2. IsFiniteSet(Using(Here))
          BY <5>1, FS_Subset DEF Using
        <5>3. Cardinality(Using(Here)) \in Nat /\ Cardinality(Using(Here)) # 0
          BY <4>2, <5>2, FS_CardinalityType, FS_EmptySet
        <5>a. Cardinality(Using(Here)) <= 1
          BY <2>5, <3>2
        <5>b. Cardinality(Using(Here)) = 1
          BY <5>3, <5>a
        <5>4. PICK only : Using(Here) = {only}
          BY <5>2, <5>b, FS_Singleton
        <5> QED BY <3>1, <3>2, <5>4 DEF Using
      <4> QED BY <4>1, <4>2
    <3> QED BY <2>3, <3>1, <3>3
  <2> QED BY <1>5, <2>2, <2>4, <2>5 DEF SettleKey
<1>6. CASE SaveKey
  <2>0. run.at = "save" /\ \A s \in Here : disk[s].env \in {NoKey, run.key}
    BY <1>0, <1>6 DEF SaveKey, LocalInv
  <2>1. CASE run.half
    <3> DEFINE q == [run EXCEPT !.at = "bin", !.half = FALSE]
    <3>1. q.todo = run.todo /\ q.plan = run.plan /\ q.alone = run.alone /\ q.at = "bin" /\ q.key = run.key
      BY <1>0 DEF Run
    <3>2. Goes(round, q) /\ secret' = run.key
      BY <1>6, <2>1 DEF SaveKey
    <3> HIDE DEF q
    <3> QED BY <1>0, <1>1, <1>4, <2>0, <3>1, <3>2
  <2>2. CASE ~run.half
    <3> DEFINE q == [run EXCEPT !.half = TRUE]
    <3>1. q.todo = run.todo /\ q.plan = run.plan /\ q.alone = run.alone /\ q.at = "save" /\ q.key = run.key
      BY <1>0, <2>0 DEF Run
    <3>2. Goes(round, q) /\ secret' = Torn /\ Torn \notin Keys
      BY <1>6, <2>2, KeysAssumption DEF SaveKey
    <3> HIDE DEF q
    <3> QED BY <1>0, <1>1, <1>4, <2>0, <3>1, <3>2
  <2> QED BY <2>1, <2>2
<1> QED BY <1>5, <1>6

LEMMA LocalService ==
  ASSUME DeployInv, LocalInv, mode = "local", NEW r \in 1 .. round, ServiceStep(r)
  PROVE  LocalInv'
<1>1. CASE CheckActive(r)
  <2>1. r \in Rounds /\ AtWork(r)
    BY <1>1, RoundsPassed DEF CheckActive, AtWork, Steps
  <2>2. r = round /\ Latest = runs[r]
    BY <2>1, LocalOnly DEF Latest
  <2>3. runs[r] \in Run /\ runs[r].todo \in Seq(Services) /\ runs[r].todo # <<>>
    BY <2>1, SomeService
  <2>4. UNCHANGED <<mode, secret, disk, round>> /\ ~runs[r].alone
    BY <1>1, <2>1 DEF CheckActive, LocalInv
  <2>5. ASSUME NEW q, Goes(r, q) PROVE Latest' = q /\ \A p \in Rounds : runs'[p] \in {runs[p], q}
    BY <2>1, <2>2, <2>4, <2>5 DEF Goes, Latest, DeployInv, DeployType
  <2>6. CASE Fails(r)
    <3>1. Latest' = Resting /\ \A p \in Rounds : runs'[p] \in {runs[p], Resting}
      BY <2>5, <2>6 DEF Fails
    <3> QED BY <2>4, <3>1, LocalMoves DEF LocalInv
  <2>7. CASE Goes(r, [runs[r] EXCEPT !.todo = Tail(@), !.at = IF Len(runs[r].todo) = 1 THEN "done" ELSE "bin"])
    <3> DEFINE left == Tail(runs[r].todo)
               at == IF Len(runs[r].todo) = 1 THEN "done" ELSE "bin"
               q == [runs[r] EXCEPT !.todo = left, !.at = at]
    <3>1. at \in {"done", "bin"} /\ Goes(r, q)
      BY <2>7
    <3>2. \A i \in DOMAIN left : left[i] = runs[r].todo[i + 1] /\ i + 1 \in DOMAIN runs[r].todo
      BY <2>3
    <3> HIDE DEF left, at
    <3>3. q.todo = left /\ q.plan = runs[r].plan /\ q.key = runs[r].key /\ q.at = at /\ q.alone = runs[r].alone
      BY <2>3 DEF Run
    <3> HIDE DEF q
    <3>4. Latest' = q /\ \A p \in Rounds : runs'[p] \in {runs[p], q}
      BY <2>5, <3>1
    <3>5. \A p \in Rounds : ~runs'[p].alone
      BY <2>4, <3>3, <3>4 DEF LocalInv
    <3>6. secret = Latest.key
      BY <2>1, <2>2 DEF LocalInv, AtWork
    <3> QED BY <2>2, <2>4, <3>1, <3>2, <3>3, <3>4, <3>5, <3>6 DEF LocalInv, Here, Steps
  <2> QED BY <1>1, <2>6, <2>7 DEF CheckActive
<1>2. CASE ~CheckActive(r)
  <2>1. PICK q : AtWork(r) /\ Touches(r) /\ GoesOn(r, q)
    BY <1>2, WritesGoOn, StartsGoOn DEF ServiceStep
  <2>2. r \in Rounds /\ r = round /\ Latest = runs[r] /\ Service(r) \in Services
    BY <2>1, RoundsPassed, LocalOnly, SomeService DEF Latest
  <2>3. UNCHANGED <<mode, secret, round>>
    BY <2>1 DEF Touches
  <2>4. Latest' = q /\ \A p \in Rounds : runs'[p] \in {runs[p], q}
    BY <2>1, <2>2, <2>3 DEF GoesOn, Latest, DeployInv, DeployType
  <2>5. /\ Latest.at \in Steps /\ Latest'.at \in Steps /\ Latest'.todo = Latest.todo
        /\ Latest'.plan = Latest.plan /\ Latest'.key = Latest.key /\ q.alone = Latest.alone
    BY <2>1, <2>2, <2>4 DEF GoesOn, AtWork
  <2>6. \A s \in Services : disk'[s].env \in {disk[s].env, Latest.key}
    BY <2>1, <2>2 DEF Touches
  <2>7. \A p \in Rounds : ~runs'[p].alone
    BY <2>2, <2>4, <2>5 DEF LocalInv
  <2>8. \A s \in Here : s \in Services
    BY DEF Here, OnHost
  <2>9. "save" \notin Steps
    BY DEF Steps
  <2> QED BY <2>3, <2>5, <2>6, <2>7, <2>8, <2>9 DEF LocalInv, Here
<1> QED BY <1>1, <1>2

LEMMA LocalElsewhere ==
  ASSUME DeployInv, LocalInv, Elsewhere, mode = "local"
  PROVE  LocalInv'
<1>1. \A p \in Rounds : runs'[p] = runs[p] \/ runs'[p] = Resting
  BY DEF Elsewhere, World
<1>2. round \in Rounds /\ UNCHANGED <<mode, round>> /\ \A s \in Services : disk'[s].env = disk[s].env
  BY DEF Elsewhere, DeployInv, DeployType
<1>3. Latest' = Latest \/ Latest' = Resting
  BY <1>1, <1>2 DEF Latest
<1>4. \A r \in Rounds : runs'[r] = Resting \/ ~runs'[r].alone
  BY <1>1 DEF LocalInv
<1>5. CASE secret' = secret
  BY <1>2, <1>3, <1>4, <1>5, LocalMoves
<1>6. CASE Stopped /\ secret = Torn /\ secret' = NoKey
  <2>1. Latest.at \in {"idle", "done"} /\ NoKey \notin Keys
    BY <1>2, <1>6, KeysAssumption DEF Stopped, Latest, LocalInv
  <2>2. Resting.todo = <<>> /\ Resting.plan = <<>> /\ Resting.at = "idle" /\ ~Resting.alone
    BY DEF Resting
  <2>3. \A r \in Rounds : ~runs'[r].alone
    BY <1>4, <2>2
  <2>4. CASE Latest' = Latest
    BY <1>2, <1>6, <2>1, <2>3, <2>4 DEF LocalInv, Here, Steps
  <2>5. CASE Latest' = Resting
    BY <1>2, <1>6, <2>1, <2>2, <2>3, <2>5 DEF LocalInv, Steps
  <2> QED BY <1>3, <2>4, <2>5
<1> QED BY <1>5, <1>6 DEF Elsewhere

LEMMA LocalNextInv == DeployInv /\ LocalInv /\ [DeployNext]_deployVars => LocalInv'
<1> SUFFICES ASSUME DeployInv, LocalInv, [DeployNext]_deployVars, mode = "local" PROVE LocalInv'
  BY ModeStays DEF LocalInv
<1>1. ASSUME NEW plan \in LocalPlans, Begin(plan) PROVE LocalInv'
  BY <1>1, LocalBegin
<1>2. CASE SettleKey \/ SaveKey
  BY <1>2, LocalKey
<1>3. ASSUME NEW r \in 1 .. round, ServiceStep(r) PROVE LocalInv'
  BY <1>3, LocalService
<1>4. CASE \/ Interrupt \/ Discard \/ UNCHANGED deployVars
           \/ \E r \in 1 .. round : AloneEnds(r)
           \/ \E s \in Services : Respawn(s) \/ \E m \in Mounts : Edit(s, m)
           \/ \E h : Reboot(h) \/ Rereads(h)
  BY <1>4, WorldSteps, LocalElsewhere
<1> QED BY <1>1, <1>2, <1>3, <1>4 DEF DeployNext

\* The key a local run writes is the one its host uses already.
LEMMA KeysKeptStep ==
  DeployInv /\ LocalInv /\ [DeployNext]_deployVars =>
    (mode = "local" => \A s \in Services : disk[s].env # NoKey => disk'[s].env = disk[s].env)
<1> SUFFICES ASSUME DeployInv, LocalInv, [DeployNext]_deployVars, mode = "local",
                    NEW s \in Services, disk[s].env # NoKey
             PROVE  disk'[s].env = disk[s].env
  OBVIOUS
<1>1. ASSUME NEW r \in 1 .. round, AtWork(r), Touches(r) PROVE disk'[s].env = disk[s].env
  <2>1. r \in Rounds /\ r = round /\ Latest = runs[r]
    BY <1>1, RoundsPassed, LocalOnly DEF Latest
  <2>2. /\ runs[r].todo \in Seq(Services) /\ runs[r].todo # <<>> /\ Service(r) \in Services
        /\ runs[r].key \in Keys
    BY <1>1, <2>1, SomeService
  <2>3. Service(r) \in Here
    BY <2>1, <2>2 DEF LocalInv, Service
  <2>4. disk[Service(r)].env \in {NoKey, runs[r].key}
    BY <1>1, <2>1, <2>2, <2>3 DEF LocalInv, AtWork
  <2> QED BY <1>1, <2>2, <2>4 DEF Touches
<1>2. ASSUME NEW r \in 1 .. round, ServiceStep(r) PROVE disk'[s].env = disk[s].env
  <2>1. CASE CheckActive(r)
    BY <2>1 DEF CheckActive
  <2>2. CASE ~CheckActive(r)
    BY <1>1, <1>2, <2>2, WritesGoOn, StartsGoOn DEF ServiceStep
  <2> QED BY <2>1, <2>2
<1>3. CASE \/ Interrupt \/ Discard \/ UNCHANGED deployVars
           \/ \E r \in 1 .. round : AloneEnds(r)
           \/ \E t \in Services : Respawn(t) \/ \E m \in Mounts : Edit(t, m)
           \/ \E h : Reboot(h) \/ Rereads(h)
  BY <1>3, WorldSteps DEF Elsewhere
<1>4. CASE UNCHANGED disk
  BY <1>4
<1> QED BY <1>2, <1>3, <1>4 DEF DeployNext, Begin, SettleKey, SaveKey

\* No local run, interrupted or repeated, replaces a key its host uses: property
\* KeysKept.
THEOREM KeysAreKept == DeploySpec => KeysKept
<1>1. DeployInit => DeployInv /\ LocalInv
  BY DeployInitInv, LocalInitInv
<1>2. (DeployInv /\ LocalInv) /\ [DeployNext]_deployVars => (DeployInv /\ LocalInv)'
  BY DeployNextInv, LocalNextInv
<1>3. (DeployInv /\ LocalInv) /\ [DeployNext]_deployVars =>
        [mode = "local" => \A s \in Services : disk[s].env # NoKey => disk'[s].env = disk[s].env]_deployVars
  BY KeysKeptStep
<1> QED BY <1>1, <1>2, <1>3, PTL DEF DeploySpec, KeysKept

-----------------------------------------------------------------------------
(* One key and one version for all *)

\* No script of an earlier run is at work on the service.
NoOther(s) == \A q \in Rounds \ {round} : ~WorksOn(q, s)

Renewed(s) == live[s].up /\ s \notin Latest.unasked => live[s].key = Latest.key /\ live[s].bin = round

\* A service as the run leaves it, also when it is started again.
Alike(s) ==
  \/ s \in Latest.beside
  \/ NoOther(s) /\ disk[s].env = Latest.key /\ disk[s].bin = round /\ Renewed(s)

\* How far it is with the service at hand.
Amid(s) ==
  \/ s \in Latest.beside
  \/ /\ Latest.at # "bin" => NoOther(s) /\ disk[s].bin = round
     /\ Latest.at \notin {"bin", "env"} => disk[s].env = Latest.key
     /\ Latest.at \in {"start", "check"} => Renewed(s)

\* Those the run is done with are as it leaves them.
AlikeInv ==
  /\ Latest.at \in {"key", "save"} => Latest.todo = Latest.plan
  /\ Latest.at = "done" => DOMAIN Latest.todo = {}
  /\ Latest.at \in Steps \union {"done"} =>
       /\ secret = Latest.key /\ secret \in Keys
       /\ \A i \in DOMAIN Latest.plan :
            Alike(Latest.plan[i]) \/ \E j \in DOMAIN Latest.todo : Latest.todo[j] = Latest.plan[i]
  /\ Latest.at \in Steps => Amid(Service(round))

LEMMA AlikeIdle ==
  ASSUME Latest.at = "idle"
  PROVE  AlikeInv
BY DEF AlikeInv, Steps

LEMMA AlikeInit == DeployInit => AlikeInv
<1> SUFFICES ASSUME DeployInit PROVE AlikeInv
  OBVIOUS
<1>1. Latest = Resting
  BY RunsAssumption DEF DeployInit, Latest
<1>2. Latest.at = "idle"
  BY <1>1 DEF Resting
<1> QED BY <1>2, AlikeIdle

LEMMA AlikeKeys ==
  ASSUME DeployInv, AlikeInv,
         \/ \E plan \in LocalPlans \union RemotePlans : Begin(plan)
         \/ SettleKey \/ SaveKey
  PROVE  AlikeInv'
<1> DEFINE run == runs[round]
<1>1. run \in Run /\ Latest = run /\ round \in Rounds /\ runs \in [Rounds -> Run]
  BY DEF DeployInv, DeployType, Latest
<1>2. ASSUME NEW plan \in LocalPlans \union RemotePlans, Begin(plan) PROVE AlikeInv'
  <2>1. PICK at \in {"key", "bin"}, key \in Keys \union {NoKey} :
          Goes(round + 1, Started(plan, at, key)) /\ (at = "bin" => secret' = key /\ key \in Keys)
    BY <1>2 DEF Begin, Keys
  <2> DEFINE q == Started(plan, at, key)
  <2>2. q.at = at /\ q.plan = plan /\ q.todo = plan /\ q.key = key
    BY DEF Started, Resting
  <2> HIDE DEF q
  <2>3. round' = round + 1 /\ round' \in Rounds
    BY <1>2, RunsAssumption DEF Begin, DeployInv, DeployType, Rounds
  <2>4. Latest' = q
    BY <1>1, <2>1, <2>3 DEF Goes, Latest, q
  <2>5. AlikeInv'
    <3>1. Latest'.at \in {"key", "bin"} /\ Latest'.plan = Latest'.todo
      BY <2>2, <2>4
    <3>2. Latest'.at = "bin" => secret' = Latest'.key /\ secret' \in Keys
      BY <2>1, <2>2, <2>4
    <3> QED BY <3>1, <3>2 DEF AlikeInv, Amid, Steps
  <2> QED BY <2>5
<1>3. ASSUME NEW q, runs' = [runs EXCEPT ![round] = q], round' = round PROVE Latest' = q
  BY <1>1, <1>3 DEF Latest
<1>4. ASSUME Fails(round), round' = round PROVE AlikeInv'
  <2>1. Latest' = Resting
    BY <1>3, <1>4 DEF Fails, Goes
  <2>2. Latest'.at = "idle"
    BY <2>1 DEF Resting
  <2> QED BY <2>2 DEF AlikeInv, Steps
<1>5. ASSUME run.at \in {"key", "save"}, Latest'.at = "bin", Latest'.todo = run.todo,
             Latest'.plan = run.plan, secret' = Latest'.key, secret' \in Keys
      PROVE  AlikeInv'
  <2>1. Latest'.todo = Latest'.plan
    BY <1>1, <1>5 DEF AlikeInv
  <2> QED BY <1>5, <2>1 DEF AlikeInv, Amid, Steps
<1>6. ASSUME SettleKey PROVE AlikeInv'
  <2>0. run.at = "key" /\ secret' = secret /\ round' = round
    BY <1>6 DEF SettleKey
  <2>1. CASE Fails(round)
    BY <1>4, <2>0, <2>1
  <2>2. CASE secret \in Keys /\ Goes(round, [run EXCEPT !.at = "bin", !.key = secret])
    <3> DEFINE q == [run EXCEPT !.at = "bin", !.key = secret]
    <3>1. q.at = "bin" /\ q.key = secret /\ q.todo = run.todo /\ q.plan = run.plan
      BY <1>1 DEF Run
    <3>2. runs' = [runs EXCEPT ![round] = q]
      BY <2>2 DEF Goes
    <3> HIDE DEF q
    <3>3. Latest' = q
      BY <1>3, <2>0, <3>2
    <3> QED BY <1>5, <2>0, <2>2, <3>1, <3>3
  <2>3. ASSUME NEW key, Goes(round, [run EXCEPT !.at = "save", !.key = key]) PROVE AlikeInv'
    <3> DEFINE q == [run EXCEPT !.at = "save", !.key = key]
    <3>1. q.at = "save" /\ q.todo = run.todo /\ q.plan = run.plan
      BY <1>1 DEF Run
    <3>2. runs' = [runs EXCEPT ![round] = q]
      BY <2>3 DEF Goes
    <3> HIDE DEF q
    <3>3. Latest' = q
      BY <1>3, <2>0, <3>2
    <3> QED BY <1>1, <2>0, <3>1, <3>3 DEF AlikeInv, Steps
  <2> QED BY <1>6, <2>1, <2>2, <2>3 DEF SettleKey
<1>7. ASSUME SaveKey PROVE AlikeInv'
  <2>0. run.at = "save" /\ run.key \in Keys /\ round' = round
    BY <1>1, <1>7 DEF SaveKey, DeployInv, RunRule
  <2>1. CASE run.half
    <3> DEFINE q == [run EXCEPT !.at = "bin", !.half = FALSE]
    <3>1. q.at = "bin" /\ q.key = run.key /\ q.todo = run.todo /\ q.plan = run.plan
      BY <1>1 DEF Run
    <3>2. runs' = [runs EXCEPT ![round] = q] /\ secret' = run.key
      BY <1>7, <2>1 DEF SaveKey, Goes
    <3> HIDE DEF q
    <3>3. Latest' = q
      BY <1>3, <2>0, <3>2
    <3> QED BY <1>5, <2>0, <3>1, <3>2, <3>3
  <2>2. CASE ~run.half
    <3> DEFINE q == [run EXCEPT !.half = TRUE]
    <3>1. q.at = "save" /\ q.todo = run.todo /\ q.plan = run.plan
      BY <1>1, <2>0 DEF Run
    <3>2. runs' = [runs EXCEPT ![round] = q]
      BY <1>7, <2>2 DEF SaveKey, Goes
    <3> HIDE DEF q
    <3>3. Latest' = q
      BY <1>3, <2>0, <3>2
    <3> QED BY <1>1, <2>0, <3>1, <3>3 DEF AlikeInv, Steps
  <2> QED BY <2>1, <2>2
<1> QED BY <1>2, <1>6, <1>7

\* The earlier scripts stay with their service, or end.
LEMMA NoOtherStays ==
  ASSUME DeployInv, NEW s \in Services, NoOther(s), round' = round,
         \A p \in Rounds \ {round} :
           runs'[p] = Resting \/ (runs'[p].todo = runs[p].todo /\ (runs'[p].at \in Steps => runs[p].at \in Steps))
  PROVE  NoOther(s)'
<1>1. Resting.at \notin Steps
  BY DEF Resting, Steps
<1> QED BY <1>1 DEF NoOther, WorksOn, AtWork, Service

\* The run itself goes from one step of its service to the next.
LEMMA AlikeMoves ==
  ASSUME DeployInv, AlikeInv, AtWork(round), Touches(round), NEW q, GoesOn(round, q)
  PROVE  AlikeInv'
<1>1. /\ round \in Rounds /\ round' = round /\ secret' = secret
      /\ Latest' = q /\ Latest = runs[round] /\ Latest \in Run
      /\ \A p \in Rounds \ {round} : runs'[p] = runs[p]
  BY DEF Touches, GoesOn, Latest, DeployInv, DeployType
<1>2. Service(round) \in Services /\ Latest.at \in Steps /\ \A i \in DOMAIN Latest.plan : Latest.plan[i] \in Services
  BY <1>1, SomeService DEF AtWork, Run
<1>3. \A s \in Services : NoOther(s) => NoOther(s)'
  BY <1>1, NoOtherStays
<1>4. /\ q.todo = Latest.todo /\ q.plan = Latest.plan /\ q.key = Latest.key /\ q.at \in Steps
      /\ Latest.beside \subseteq q.beside /\ Latest.unasked \subseteq q.unasked
  BY <1>1 DEF GoesOn
<1>5. \A s \in Services : /\ disk'[s].env \in {disk[s].env, Latest.key}
                          /\ disk'[s].bin \in {disk[s].bin, round}
                          /\ live'[s] = live[s] \/ Fresh(s)
  BY <1>1 DEF Touches
<1>6. \A s \in Services : Alike(s) => Alike(s)'
  <2> SUFFICES ASSUME NEW s \in Services, Alike(s), s \notin Latest.beside PROVE Alike(s)'
    BY <1>1, <1>4 DEF Alike
  <2>1. NoOther(s)' /\ disk'[s].env = Latest.key /\ disk'[s].bin = round
    BY <1>3, <1>5 DEF Alike
  <2>2. Renewed(s)'
    <3>1. CASE live'[s] = live[s]
      BY <1>1, <1>4, <3>1 DEF Alike, Renewed
    <3>2. CASE Fresh(s)
      BY <1>1, <1>4, <2>1, <3>2 DEF Fresh, Renewed
    <3> QED BY <1>5, <3>1, <3>2
  <2> QED BY <1>1, <1>4, <2>1, <2>2 DEF Alike
<1>7. PICK s \in Services : s = Service(round) /\ s = Service(round)'
  BY <1>1, <1>2, <1>4 DEF Service, Latest
<1>8. Amid(s)
  BY <1>2, <1>7 DEF AlikeInv
<1>9. Amid(s)'
  <2> SUFFICES ASSUME s \notin q.beside PROVE Amid(s)'
    BY <1>1 DEF Amid
  <2>0. s \notin Latest.beside
    BY <1>4
  <2>1. CASE Latest.at = "bin"
    <3>1. Others(round) = {} /\ q.at = "env"
      BY <1>1, <1>7, <2>1 DEF GoesOn
    <3>2. NoOther(s)
      <4>1. \A p \in Rounds \ {round} : AtWork(p) => p \in 1 .. round
        BY DEF DeployInv, DeployType, AloneRule, AtWork, Steps, Rounds
      <4> QED BY <1>7, <3>1, <4>1 DEF Others, NoOther, WorksOn
    <3>3. disk'[s].bin = round
      BY <1>1, <1>7, <2>1 DEF Touches
    <3> QED BY <1>1, <1>3, <3>1, <3>2, <3>3 DEF Amid
  <2>2. CASE Latest.at = "env"
    <3>1. q.at \notin {"bin", "env"} /\ NoOther(s) /\ disk[s].bin = round
      BY <1>1, <1>8, <2>0, <2>2 DEF GoesOn, Amid
    <3>2. disk'[s].env = Latest.key /\ disk'[s].bin = round
      BY <1>1, <1>7, <2>2, <3>1 DEF Touches
    <3>3. q.at \in {"start", "check"} => Renewed(s)'
      BY <1>1, <1>4, <1>7, <2>2, <3>2 DEF GoesOn, Renewed, Fresh
    <3> QED BY <1>1, <1>3, <1>4, <3>1, <3>2, <3>3 DEF Amid
  <2>3. CASE Latest.at \notin {"bin", "env"}
    <3>1. NoOther(s) /\ disk[s].bin = round /\ disk[s].env = Latest.key
      BY <1>8, <2>0, <2>3 DEF Amid
    <3>2. disk'[s].env = Latest.key /\ disk'[s].bin = round
      BY <1>5, <3>1
    <3>3. q.at = "start" => Renewed(s)'
      BY <1>1, <1>7 DEF GoesOn, Renewed
    <3>4. q.at = "check" => Renewed(s)'
      <4>1. CASE Fresh(s)
        BY <1>1, <1>4, <3>2, <4>1 DEF Fresh, Renewed
      <4>2. CASE Latest.at = "start" /\ live' = live
        BY <1>1, <1>4, <1>8, <2>0, <4>2 DEF Amid, Renewed
      <4> QED BY <1>1, <1>7, <4>1, <4>2 DEF GoesOn
    <3> QED BY <1>1, <1>3, <1>4, <3>1, <3>2, <3>3, <3>4 DEF Amid
  <2> QED BY <2>1, <2>2, <2>3
<1>10. q.at \notin {"key", "save", "done"}
  BY <1>4 DEF Steps
<1>11. secret = Latest.key /\ secret \in Keys
       /\ \A i \in DOMAIN Latest.plan :
            Alike(Latest.plan[i]) \/ \E j \in DOMAIN Latest.todo : Latest.todo[j] = Latest.plan[i]
  BY <1>2 DEF AlikeInv
<1>12. \A i \in DOMAIN q.plan : Alike(q.plan[i])' \/ \E j \in DOMAIN q.todo : q.todo[j] = q.plan[i]
  BY <1>2, <1>4, <1>6, <1>11
<1>13. Amid(Service(round))'
  BY <1>7, <1>9
<1> QED BY <1>1, <1>4, <1>10, <1>11, <1>12, <1>13 DEF AlikeInv

\* Anything that leaves the latest run as it is, but for being left alone, and does
\* no more to a service without other scripts than to start it again.
LEMMA AlikeRests ==
  ASSUME DeployInv, AlikeInv, round' = round,
         Latest'.at = Latest.at, Latest'.todo = Latest.todo, Latest'.plan = Latest.plan,
         Latest'.key = Latest.key, Latest'.beside = Latest.beside, Latest'.unasked = Latest.unasked,
         Latest.at \in Steps \union {"done"} => secret' = secret,
         \A s \in Services : NoOther(s) => /\ NoOther(s)'
                                           /\ disk'[s].env = disk[s].env /\ disk'[s].bin = disk[s].bin
                                           /\ live'[s] = live[s] \/ Fresh(s)
  PROVE  AlikeInv'
<1>1. Latest = runs[round] /\ Latest \in Run /\ round \in Rounds
  BY DEF DeployInv, DeployType, Latest
<1>2. \A i \in DOMAIN Latest.plan : Latest.plan[i] \in Services
  BY <1>1 DEF Run
<1>3. \A s \in Services : NoOther(s) /\ disk[s].env = Latest.key /\ disk[s].bin = round /\ Renewed(s) => Renewed(s)'
  BY DEF Renewed, Fresh
<1>4. \A s \in Services : Alike(s) => Alike(s)'
  BY <1>3 DEF Alike
<1>5. \A s \in Services : Amid(s) => Amid(s)'
  <2> SUFFICES ASSUME NEW s \in Services, Amid(s), s \notin Latest.beside PROVE Amid(s)'
    BY DEF Amid
  <2>1. CASE Latest.at = "bin"
    BY <2>1 DEF Amid
  <2>2. CASE Latest.at # "bin"
    <3>1. NoOther(s)' /\ disk'[s].bin = round /\ (Latest.at # "env" => disk'[s].env = Latest.key)
      BY <2>2 DEF Amid
    <3>2. Latest.at \in {"start", "check"} => Renewed(s)'
      BY <1>3, <2>2 DEF Amid
    <3> QED BY <2>2, <3>1, <3>2 DEF Amid
  <2> QED BY <2>1, <2>2
<1>6. Latest.at \in Steps => Service(round) \in Services /\ Service(round)' = Service(round)
  <2>1. Service(round)' = Service(round)
    BY DEF Service, Latest
  <2> QED BY <1>1, <2>1, SomeService DEF AtWork
<1>7. Latest.at \in Steps => Amid(Service(round))'
  <2> SUFFICES ASSUME Latest.at \in Steps PROVE Amid(Service(round))'
    OBVIOUS
  <2>1. PICK s \in Services : s = Service(round) /\ s = Service(round)'
    BY <1>6
  <2>2. Amid(s)'
    BY <1>5, <2>1 DEF AlikeInv
  <2> QED BY <2>1, <2>2
<1>8. \A i \in DOMAIN Latest.plan : Alike(Latest.plan[i]) => Alike(Latest.plan[i])'
  <2> SUFFICES ASSUME NEW i \in DOMAIN Latest.plan, Alike(Latest.plan[i]) PROVE Alike(Latest.plan[i])'
    OBVIOUS
  <2>1. PICK s \in Services : s = Latest.plan[i] /\ s = Latest'.plan[i]
    BY <1>2
  <2>2. Alike(s)'
    BY <1>4, <2>1
  <2> QED BY <2>1, <2>2
<1> QED BY <1>7, <1>8 DEF AlikeInv

\* A script of an earlier run at work on its service.
LEMMA AlikeBeside ==
  ASSUME DeployInv, AlikeInv, NEW r \in 1 .. round, r # round, ServiceStep(r)
  PROVE  AlikeInv'
<1>1. r \in Rounds /\ r \in Rounds \ {round} /\ round \in Rounds /\ runs \in [Rounds -> Run]
  BY RoundsPassed DEF DeployInv, DeployType
<1>2. CASE CheckActive(r)
  <2>1. runs[r].at = "check" /\ UNCHANGED <<secret, disk, live, round>>
    BY <1>2 DEF CheckActive
  <2>2. runs[r].alone
    BY <1>1, <2>1 DEF DeployInv, AloneRule
  <2>3. runs' = [runs EXCEPT ![r] = Resting]
    BY <1>2, <2>2 DEF CheckActive, Fails, Goes
  <2>4. Latest' = Latest
    BY <1>1, <2>1, <2>3 DEF Latest
  <2>5. \A p \in Rounds \ {round} : runs'[p] = runs[p] \/ runs'[p] = Resting
    BY <1>1, <2>3
  <2>6. \A s \in Services : NoOther(s) => NoOther(s)'
    BY <2>1, <2>5, NoOtherStays
  <2> QED BY <2>1, <2>4, <2>6, AlikeRests
<1>3. CASE ~CheckActive(r)
  <2>1. PICK q : AtWork(r) /\ Touches(r) /\ GoesOn(r, q)
    BY <1>3, WritesGoOn, StartsGoOn DEF ServiceStep
  <2>2. round' = round /\ secret' = secret /\ runs' = [runs EXCEPT ![r] = q]
        /\ q.todo = runs[r].todo /\ runs[r].at \in Steps
    BY <2>1 DEF Touches, GoesOn, AtWork
  <2>3. Latest' = Latest /\ runs'[r] = q /\ \A p \in Rounds \ {r} : runs'[p] = runs[p]
    BY <1>1, <2>2 DEF Latest
  <2>4. \A p \in Rounds \ {round} :
          runs'[p].todo = runs[p].todo /\ (runs'[p].at \in Steps => runs[p].at \in Steps)
    BY <1>1, <2>2, <2>3
  <2>5. \A s \in Services : NoOther(s) => NoOther(s)'
    BY <2>2, <2>4, NoOtherStays
  <2>6. \A s \in Services : NoOther(s) => s # Service(r)
    BY <1>1, <2>1 DEF NoOther, WorksOn
  <2>7. \A s \in Services : NoOther(s) => /\ disk'[s].env = disk[s].env /\ disk'[s].bin = disk[s].bin
                                          /\ live'[s] = live[s]
    BY <2>1, <2>6 DEF Touches
  <2> QED BY <2>2, <2>3, <2>5, <2>7, AlikeRests
<1> QED BY <1>2, <1>3

\* The run is done with a service.
LEMMA AlikeCheck ==
  ASSUME DeployInv, AlikeInv, CheckActive(round)
  PROVE  AlikeInv'
<1> DEFINE run == runs[round]
<1>1. round \in Rounds /\ run \in Run /\ Latest = run /\ run.at = "check" /\ AtWork(round)
  BY DEF DeployInv, DeployType, Latest, CheckActive, AtWork, Steps
<1>2. Service(round) \in Services /\ run.todo \in Seq(Services) /\ run.todo # <<>>
  BY <1>1, SomeService
<1>3. UNCHANGED <<secret, disk, live, round>>
  BY DEF CheckActive
<1>4. ASSUME NEW q, Goes(round, q) PROVE Latest' = q /\ \A p \in Rounds \ {round} : runs'[p] = runs[p]
  BY <1>1, <1>3, <1>4 DEF Goes, Latest, DeployInv, DeployType
<1>5. CASE Fails(round)
  <2>1. Latest' = Resting
    BY <1>4, <1>5 DEF Fails
  <2>2. Latest'.at = "idle"
    BY <2>1 DEF Resting
  <2> QED BY <2>2 DEF AlikeInv, Steps
<1>6. CASE Goes(round, [run EXCEPT !.todo = Tail(@), !.at = IF Len(run.todo) = 1 THEN "done" ELSE "bin"])
  <2> DEFINE left == Tail(run.todo)
             at == IF Len(run.todo) = 1 THEN "done" ELSE "bin"
             q == [run EXCEPT !.todo = left, !.at = at]
  <2>1. at \in {"done", "bin"} /\ Goes(round, q) /\ (at = "done" => Len(run.todo) = 1)
    BY <1>6
  <2>2. Len(run.todo) = 1 => DOMAIN left = {}
    <3>1. left \in Seq(Services) /\ Len(left) = Len(run.todo) - 1
      BY <1>2
    <3>2. DOMAIN left = 1 .. Len(run.todo) - 1
      BY <3>1
    <3>3. \A n : n = 1 => 1 .. n - 1 = {}
      OBVIOUS
    <3> QED BY <3>2, <3>3
  <2>3. \A j \in DOMAIN run.todo : j = 1 \/ \E k \in DOMAIN left : left[k] = run.todo[j]
    <3>1. \A j \in DOMAIN run.todo : j # 1 => j - 1 \in DOMAIN left /\ left[j - 1] = run.todo[j]
      <4> SUFFICES ASSUME NEW j \in DOMAIN run.todo, j # 1
                   PROVE  j - 1 \in DOMAIN left /\ left[j - 1] = run.todo[j]
        OBVIOUS
      <4>1. j \in Nat /\ j - 1 \in 1 .. Len(run.todo) - 1
        BY <1>2
      <4>2. left = [k \in 1 .. Len(run.todo) - 1 |-> run.todo[k + 1]]
        BY <1>2
      <4> QED BY <4>1, <4>2
    <3> QED BY <3>1
  <2>4. Service(round) = run.todo[1]
    BY <1>2 DEF Service
  <2> HIDE DEF left, at
  <2>5. q.todo = left /\ q.plan = run.plan /\ q.key = run.key /\ q.at = at
        /\ q.beside = run.beside /\ q.unasked = run.unasked
    BY <1>1 DEF Run
  <2> HIDE DEF q
  <2>6. Latest' = q /\ \A p \in Rounds \ {round} : runs'[p] = runs[p]
    BY <1>4, <2>1
  <2>7. \A s \in Services : NoOther(s) => NoOther(s)'
    BY <1>3, <2>6, NoOtherStays
  <2>8. \A s \in Services : Alike(s) => Alike(s)'
    BY <1>1, <1>3, <2>5, <2>6, <2>7 DEF Alike, Renewed
  <2>9. Alike(Service(round))
    BY <1>1 DEF AlikeInv, Amid, Alike, Steps
  <2>10. \A i \in DOMAIN Latest'.plan :
           Alike(Latest.plan[i])' \/ \E k \in DOMAIN Latest'.todo : Latest'.todo[k] = Latest'.plan[i]
    <3> SUFFICES ASSUME NEW i \in DOMAIN Latest'.plan
                 PROVE  \/ Alike(Latest.plan[i])'
                        \/ \E k \in DOMAIN Latest'.todo : Latest'.todo[k] = Latest'.plan[i]
      OBVIOUS
    <3>1. PICK s \in Services : s = run.plan[i] /\ s = Latest'.plan[i] /\ i \in DOMAIN run.plan
      BY <1>1, <2>5, <2>6 DEF Run
    <3>2. Alike(s) \/ \E j \in DOMAIN run.todo : run.todo[j] = s
      BY <1>1, <3>1 DEF AlikeInv, Steps
    <3>3. Alike(s)' \/ \E k \in DOMAIN left : left[k] = s
      BY <2>3, <2>4, <2>8, <2>9, <3>2
    <3>4. CASE Alike(s)'
      BY <3>1, <3>4
    <3>5. CASE \E k \in DOMAIN left : left[k] = s
      BY <2>5, <2>6, <3>1, <3>5
    <3> QED BY <3>3, <3>4, <3>5
  <2>11. secret' = Latest'.key /\ secret' \in Keys
    BY <1>1, <1>3, <2>5, <2>6 DEF AlikeInv, Steps
  <2>12. at = "bin" => Amid(Service(round))'
    BY <2>5, <2>6 DEF Amid
  <2>13. at = "done" => "done" \notin Steps /\ DOMAIN left = {}
    BY <2>1, <2>2 DEF Steps
  <2> QED BY <2>1, <2>5, <2>6, <2>10, <2>11, <2>12, <2>13 DEF AlikeInv
<1> QED BY <1>5, <1>6 DEF CheckActive

LEMMA AlikeElsewhere ==
  ASSUME DeployInv, AlikeInv, Elsewhere
  PROVE  AlikeInv'
<1>1. round \in Rounds /\ round' = round /\ \A p \in Rounds : World(p) /\ runs[p] \in Run
  BY DEF Elsewhere, DeployInv, DeployType
<1>2. CASE Latest' = Resting
  <2>1. Latest'.at = "idle"
    BY <1>2 DEF Resting
  <2> QED BY <2>1 DEF AlikeInv, Steps
<1>3. CASE runs'[round] = runs[round] \/ runs'[round] = [runs[round] EXCEPT !.alone = TRUE]
  <2>1. /\ Latest'.at = Latest.at /\ Latest'.todo = Latest.todo /\ Latest'.plan = Latest.plan
        /\ Latest'.key = Latest.key /\ Latest'.beside = Latest.beside /\ Latest'.unasked = Latest.unasked
    BY <1>1, <1>3 DEF Latest, Run
  <2>2. \A p \in Rounds \ {round} : runs'[p] = Resting \/ runs'[p] = runs[p]
    BY <1>1 DEF World
  <2>3. \A s \in Services : NoOther(s) => NoOther(s)'
    BY <1>1, <2>2, NoOtherStays
  <2>4. CASE secret' = secret
    BY <1>1, <2>1, <2>3, <2>4, AlikeRests DEF Elsewhere
  <2>5. CASE Stopped /\ secret = Torn /\ secret' = NoKey
    <3>1. Latest.at \in Steps \union {"done"} => secret \in Keys
      BY DEF AlikeInv
    <3>2. Latest.at \notin Steps \union {"done"}
      BY <2>5, <3>1, KeysAssumption
    <3> QED BY <1>1, <2>1, <2>3, <3>2, AlikeRests DEF Elsewhere
  <2> QED BY <2>4, <2>5 DEF Elsewhere
<1> QED BY <1>1, <1>2, <1>3 DEF World, Latest

LEMMA AlikeStep == DeployInv /\ AlikeInv /\ [DeployNext]_deployVars => AlikeInv'
<1> SUFFICES ASSUME DeployInv, AlikeInv, [DeployNext]_deployVars PROVE AlikeInv'
  OBVIOUS
<1>1. CASE (\E plan \in LocalPlans \union RemotePlans : Begin(plan)) \/ SettleKey \/ SaveKey
  BY <1>1, AlikeKeys
<1>2. ASSUME NEW r \in 1 .. round, ServiceStep(r) PROVE AlikeInv'
  <2>1. CASE r # round
    BY <1>2, <2>1, AlikeBeside
  <2>2. CASE r = round /\ CheckActive(r)
    BY <2>2, AlikeCheck
  <2>3. CASE r = round /\ ~CheckActive(r)
    BY <1>2, <2>3, WritesGoOn, StartsGoOn, AlikeMoves DEF ServiceStep
  <2> QED BY <2>1, <2>2, <2>3
<1>3. CASE \/ Interrupt \/ Discard \/ UNCHANGED deployVars
           \/ \E r \in 1 .. round : AloneEnds(r)
           \/ \E s \in Services : Respawn(s) \/ \E m \in Mounts : Edit(s, m)
           \/ \E h : Reboot(h) \/ Rereads(h)
  BY <1>3, WorldSteps, AlikeElsewhere
<1> QED BY <1>1, <1>2, <1>3 DEF DeployNext

\* A deployment that ends well leaves its key saved, and every service it covered
\* with that key and its version, also after it was started again, but for those
\* it could not ask for their state and those an earlier script was at work on:
\* property DeployedAlike.
THEOREM DeploymentsAgree == DeploySpec => []DeployedAlike
<1>1. DeployInit => AlikeInv
  BY AlikeInit
<1>2. DeployInv /\ AlikeInv /\ [DeployNext]_deployVars => AlikeInv'
  BY AlikeStep
<1>3. AlikeInv => DeployedAlike
  BY DEF AlikeInv, Alike, Renewed, Latest, DeployedAlike
<1> QED BY <1>1, <1>2, <1>3, DeployInvariant, PTL DEF DeploySpec

-----------------------------------------------------------------------------
(* What image recipes publish, for any number of builders, builds, kills and *)
(* releases: the catalog stays whole and no mounted file is dropped.         *)

Stages == {"ended", "pull", "tag", "kernel", "root", "fetch", "verify", "extract",
           "publish", "mount", "populate", "unmount", "persist"}
Build == [is : Stages, of : Recipes \union {"none"}, release : Nat, whole : BOOLEAN,
          rootfs : {"none", "empty", "good", "partial"}, mount : {"none", "mounted"}]
Contents == {"none", "foreign", "good", "bad"}

ImagesType ==
  /\ image \in [Recipes -> Contents]
  /\ kernel \in Contents
  /\ upstream \in Nat
  /\ build \in [Builders -> Build]

\* What a builder has behind it at each stage: a published download was verified,
\* the root comes after the kernel, and a mount ends before the root is kept.
StageRule(x) ==
  /\ x.is = "publish" => x.of = "qemu" /\ x.whole
  /\ x.is = "verify" => x.of \in {"qemu", "firecracker"}
  /\ x.is = "fetch" => x.of \in {"qemu", "firecracker", "jail"}
  /\ x.is = "kernel" => x.of = "firecracker"
  /\ x.is \in {"root", "mount", "populate", "unmount", "persist"} => kernel # "none"
  /\ x.mount = "mounted" => x.is \in {"populate", "unmount"}
StageInv == \A b \in Builders : StageRule(build[b])

ImagesInv == ImagesType /\ StageInv /\ CatalogWhole /\ MountedKept

LEMMA ImagesInitInv == ImagesInit => ImagesInv
BY DEF ImagesInit, ImagesInv, ImagesType, StageInv, CatalogWhole, MountedKept, Ended, Build,
       Stages, Contents, Recipes, StageRule

\* A builder that goes on, the files untouched.
LEMMA BuildGoesOn ==
  ASSUME ImagesInv, NEW b \in Builders, NEW x \in Build, StageRule(x),
         build' = [build EXCEPT ![b] = x], UNCHANGED <<image, kernel, upstream>>,
         "orphan" \notin remains'
  PROVE  ImagesInv'
BY DEF ImagesInv, ImagesType, StageInv, StageRule, CatalogWhole, MountedKept

\* One that returns while nothing is mounted.
LEMMA ReturnKeeps ==
  ASSUME ImagesInv, NEW b \in Builders, Returns(b), build[b].mount = "none",
         UNCHANGED <<image, kernel, upstream>>
  PROVE  ImagesInv'
<1>1. Ended \in Build /\ StageRule(Ended)
  BY DEF Ended, Build, Stages, Recipes, StageRule
<1> QED BY <1>1, BuildGoesOn DEF Returns, ImagesInv, MountedKept

LEMMA ImagesNextInv == ImagesInv /\ [ImagesNext]_imageVars => ImagesInv'
<1> SUFFICES ASSUME ImagesInv, [ImagesNext]_imageVars PROVE ImagesInv'
  OBVIOUS
<1> USE DEF ImagesInv, ImagesType, StageInv, StageRule, CatalogWhole, MountedKept, Build, Stages,
            Contents, Recipes, Is, Of, Go1, Files, Rest, Ended
<1>1. ASSUME NEW b \in Builders, NEW r \in Recipes, Create(b, r) PROVE ImagesInv'
  <2>1. CASE build' = build
    BY <1>1, <2>1 DEF Create
  <2>2. CASE build' = [build EXCEPT ![b] = [Ended EXCEPT !.is = Opening[r], !.of = r]]
    <3> DEFINE x == [Ended EXCEPT !.is = Opening[r], !.of = r]
    <3>1. /\ Opening[r] \in {"pull", "kernel", "fetch"}
          /\ Opening[r] = "fetch" => r \in {"qemu", "jail"}
          /\ Opening[r] = "kernel" => r = "firecracker"
      BY DEF Opening
    <3>2. x \in Build /\ StageRule(x)
      BY <3>1
    <3> QED BY <1>1, <2>2, <3>2, BuildGoesOn DEF Create
  <2> QED BY <1>1, <2>1, <2>2 DEF Create
<1>2. ASSUME NEW b \in Builders, Fails1(b) PROVE ImagesInv'
  BY <1>2, ReturnKeeps DEF Fails1
<1>3. ASSUME NEW b \in Builders, Fetch(b) PROVE ImagesInv'
  <2> PICK sound \in BOOLEAN :
         build' = [build EXCEPT ![b] =
                     [build[b] EXCEPT !.is = IF Of(b) = "jail" THEN "extract" ELSE "verify",
                                      !.release = upstream, !.whole = sound]]
    BY <1>3 DEF Fetch
  <2> DEFINE x == [build[b] EXCEPT !.is = IF Of(b) = "jail" THEN "extract" ELSE "verify",
                                   !.release = upstream, !.whole = sound]
  <2>0. build[b] \in Build /\ StageRule(build[b]) /\ build[b].is = "fetch"
    BY <1>3 DEF Fetch
  <2>a. x \in Build
    BY <2>0
  <2>b. x.is \in {"extract", "verify"} /\ x.of = build[b].of /\ x.mount = build[b].mount
        /\ (x.is = "verify" => x.of # "jail")
    BY <2>0
  <2>1. x \in Build /\ StageRule(x)
    BY <2>0, <2>a, <2>b
  <2>2. build' = [build EXCEPT ![b] = x]
    OBVIOUS
  <2> QED BY <1>3, <2>1, <2>2, BuildGoesOn DEF Fetch
<1>4. ASSUME NEW b \in Builders, Verify(b) PROVE ImagesInv'
  <2>1. CASE ~Verified(b) /\ Returns(b) /\ UNCHANGED kernel
    BY <1>4, <2>1, ReturnKeeps DEF Verify
  <2>2. CASE Verified(b) /\ Of(b) = "qemu" /\ UNCHANGED <<kernel, remains>> /\ Go1(b, "publish")
    BY <1>4, <2>2 DEF Verify, Verified
  <2>3. CASE Verified(b) /\ Of(b) = "firecracker" /\ kernel' = Quality(b)
             /\ Go1(b, "root") /\ UNCHANGED remains
    BY <1>4, <2>3 DEF Verify, Verified, Quality
  <2> QED BY <1>4, <2>1, <2>2, <2>3 DEF Verify
<1>5. ASSUME NEW b \in Builders, Publish(b) PROVE ImagesInv'
  BY <1>5 DEF Publish, Quality, Returns
<1>6. ASSUME NEW b \in Builders, Extract(b) PROVE ImagesInv'
  BY <1>6 DEF Extract, Returns
<1>7. ASSUME NEW b \in Builders, Pull(b) PROVE ImagesInv'
  <2> DEFINE x == [build[b] EXCEPT !.is = "tag"]
  <2>1. x \in Build /\ StageRule(x)
    BY <1>7 DEF Pull
  <2>2. build' = [build EXCEPT ![b] = x]
    BY <1>7 DEF Pull
  <2> QED BY <1>7, <2>1, <2>2, BuildGoesOn DEF Pull
<1>8. ASSUME NEW b \in Builders, Tag(b) PROVE ImagesInv'
  BY <1>8 DEF Tag, Returns
<1>9. ASSUME NEW b \in Builders, LookForKernel(b) PROVE ImagesInv'
  <2> DEFINE x == [build[b] EXCEPT !.is = IF kernel = "none" THEN "fetch" ELSE "root"]
  <2>1. x \in Build /\ StageRule(x)
    BY <1>9 DEF LookForKernel
  <2>2. build' = [build EXCEPT ![b] = x]
    BY <1>9 DEF LookForKernel
  <2> QED BY <1>9, <2>1, <2>2, BuildGoesOn DEF LookForKernel
<1>10. ASSUME NEW b \in Builders, Format(b) PROVE ImagesInv'
  <2>1. CASE image["firecracker"] # "none"
    BY <1>10, <2>1, ReturnKeeps DEF Format
  <2>2. CASE image["firecracker"] = "none"
    <3> DEFINE x == [build[b] EXCEPT !.is = "mount", !.rootfs = "empty"]
    <3>0. build[b] \in Build /\ StageRule(build[b]) /\ build[b].is = "root"
      BY <1>10 DEF Format
    <3>a. x \in Build /\ x.is = "mount" /\ x.mount = build[b].mount
      BY <3>0
    <3>1. x \in Build /\ StageRule(x)
      BY <3>0, <3>a
    <3>2. build' = [build EXCEPT ![b] = x]
      BY <1>10, <2>2 DEF Format
    <3> QED BY <1>10, <2>2, <3>1, <3>2, BuildGoesOn DEF Format
  <2> QED BY <2>1, <2>2
<1>11. ASSUME NEW b \in Builders, Mount(b) PROVE ImagesInv'
  <2>1. CASE build' = [build EXCEPT ![b].is = "populate", ![b].mount = "mounted"] /\ UNCHANGED remains
    <3> DEFINE x == [build[b] EXCEPT !.is = "populate", !.mount = "mounted"]
    <3>1. x \in Build /\ StageRule(x)
      BY <1>11, <2>1 DEF Mount
    <3>2. build' = [build EXCEPT ![b] = x]
      BY <1>11, <2>1 DEF Mount
    <3> QED BY <1>11, <2>1, <3>1, <3>2, BuildGoesOn DEF Mount
  <2>2. CASE build' = [build EXCEPT ![b] = Ended] /\ remains' = remains \union {"unnoticed"}
    <3>1. Ended \in Build /\ StageRule(Ended)
      OBVIOUS
    <3> QED BY <1>11, <2>2, <3>1, BuildGoesOn DEF Mount
  <2> QED BY <1>11, <2>1, <2>2 DEF Mount
<1>12. ASSUME NEW b \in Builders, Populate(b) PROVE ImagesInv'
  <2> PICK outcome \in {"good", "partial"} :
         build' = [build EXCEPT ![b].is = "unmount", ![b].rootfs = outcome]
    BY <1>12 DEF Populate
  <2> DEFINE x == [build[b] EXCEPT !.is = "unmount", !.rootfs = outcome]
  <2>0. build[b] \in Build /\ StageRule(build[b]) /\ build[b].is = "populate"
    BY <1>12 DEF Populate
  <2>a. x \in Build
    BY <2>0
  <2>b. x.is = "unmount" /\ x.mount = build[b].mount
    BY <2>0
  <2>1. x \in Build /\ StageRule(x)
    BY <2>0, <2>a, <2>b
  <2>2. build' = [build EXCEPT ![b] = x]
    BY <1>12 DEF Populate
  <2> QED BY <1>12, <2>1, <2>2, BuildGoesOn DEF Populate
<1>13. ASSUME NEW b \in Builders, Unmount(b) PROVE ImagesInv'
  <2>1. CASE build' = [build EXCEPT ![b].is = "persist", ![b].mount = "none"] /\ UNCHANGED remains
    <3> DEFINE x == [build[b] EXCEPT !.is = "persist", !.mount = "none"]
    <3>0. build[b] \in Build /\ StageRule(build[b]) /\ build[b].is = "unmount"
      BY <1>13 DEF Unmount
    <3>a. x \in Build /\ x.is = "persist" /\ x.mount = "none"
      BY <3>0
    <3>1. x \in Build /\ StageRule(x)
      BY <3>0, <3>a
    <3>2. build' = [build EXCEPT ![b] = x]
      BY <1>13, <2>1 DEF Unmount
    <3> QED BY <1>13, <2>1, <3>1, <3>2, BuildGoesOn DEF Unmount
  <2>2. CASE build' = [build EXCEPT ![b] = Ended] /\ remains' = remains \union {"mounted"}
    <3>1. Ended \in Build /\ StageRule(Ended)
      OBVIOUS
    <3> QED BY <1>13, <2>2, <3>1, BuildGoesOn DEF Unmount
  <2> QED BY <1>13, <2>1, <2>2 DEF Unmount
<1>14. ASSUME NEW b \in Builders, Persist1(b) PROVE ImagesInv'
  BY <1>14 DEF Persist1, Returns
<1>15. ASSUME NEW b \in Builders, Kill(b) PROVE ImagesInv'
  BY <1>15 DEF Kill
<1>16. CASE Rotate
  BY <1>16 DEF Rotate
<1>17. CASE UNCHANGED imageVars
  BY <1>17 DEF imageVars
<1> QED BY <1>1, <1>2, <1>3, <1>4, <1>5, <1>6, <1>7, <1>8, <1>9, <1>10, <1>11, <1>12, <1>13,
           <1>14, <1>15, <1>16, <1>17 DEF ImagesNext

-----------------------------------------------------------------------------

\* Every stage of every builder follows from the ones before it.
THEOREM ImagesInvariant == ImagesSpec => []ImagesInv
BY ImagesInitInv, ImagesNextInv, PTL DEF ImagesSpec

\* The agent's catalog holds no damaged image and no root without its kernel,
\* whatever fails, is killed or runs at the same time.
THEOREM CatalogIsWhole == ImagesSpec => []CatalogWhole
<1>1. ImagesInv => CatalogWhole  BY DEF ImagesInv
<1> QED BY <1>1, ImagesInvariant, PTL

\* No builder returns from under a mounted file system.
THEOREM MountsAreKept == ImagesSpec => []MountedKept
<1>1. ImagesInv => MountedKept  BY DEF ImagesInv
<1> QED BY <1>1, ImagesInvariant, PTL
=============================================================================
