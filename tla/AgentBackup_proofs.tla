------------------------- MODULE AgentBackup_proofs -------------------------
(***************************************************************************)
(* Theorems about AgentBackup, for every number of clients, disk sizes,    *)
(* budget, retirement limit and every value of the bounds.                 *)
(***************************************************************************)
EXTENDS AgentBackup, TLAPS

(***************************************************************************)
(* What a storage command does to the host is of the right kind.           *)
(***************************************************************************)
LEMMA ApplyType ==
  ASSUME TypeOK, NEW c \in Command, Apply(c)
  PROVE  store' \in [Slots -> Artifact] /\ disk' \in Disk
<1>1. disk' \in Disk
  BY DEF TypeOK, Apply, Disk, Artifact, Present
<1>2. Copy(disk, TRUE) \in Artifact /\ NoArtifact \in Artifact
  BY DEF TypeOK, Copy, Disk, Artifact, NoArtifact
<1>3. CASE c.kind = "snapshot" /\ c.id \notin Present
  BY <1>1, <1>2, <1>3 DEF TypeOK, Apply
<1>4. CASE c.kind = "destroy"
  BY <1>1, <1>2, <1>4 DEF TypeOK, Apply
<1>5. CASE c.kind = "spoil"
  <2>1. \A i \in Slots : [store[i] EXCEPT !.ready = FALSE] \in Artifact
    BY DEF TypeOK, Artifact
  <2>2. store' = [store EXCEPT ![c.id].ready = FALSE]
    BY <1>5 DEF Apply
  <2> QED BY <1>1, <2>1, <2>2 DEF TypeOK
<1>6. CASE store' = store
  BY <1>1, <1>6 DEF TypeOK
<1>7. \/ c.kind = "snapshot" /\ c.id \notin Present
      \/ c.kind = "destroy"
      \/ c.kind = "spoil"
      \/ store' = store
  BY DEF Apply
<1> QED BY <1>3, <1>4, <1>5, <1>6, <1>7

(***************************************************************************)
(* The storage commands that tasks, deletion and a crash leave in flight.  *)
(***************************************************************************)
LEMMA CommandTypes ==
  /\ NoCommand \in Command
  /\ \A i \in Nat : /\ Snapshot(i) \in Command /\ Destroy(i) \in Command
                    /\ Rollback(i) \in Command /\ Spoil(i) \in Command
BY DEF NoCommand, Command, Snapshot, Destroy, Rollback, Spoil

LEMMA SlotIds == Slots \subseteq Nat /\ Present \subseteq Slots
BY BoundsAssumption DEF Slots, Present

LEMMA RemovalTypes == ASSUME NEW ids PROVE Removals(ids) \subseteq Command
BY SlotIds, CommandTypes DEF Removals

LEMMA InFlightTypes ==
  ASSUME TypeOK
  PROVE  InFlight \subseteq Command /\ \A t \in Tasks : Commands(t) \subseteq Command
<1>1. ASSUME NEW t \in Tasks PROVE Commands(t) \subseteq Command
  <2>1. work[t] \in Work
    BY DEF TypeOK
  <2>2. work[t].seen.current.id \in Nat /\ work[t].seen.pending.art.id \in Nat
    BY <2>1 DEF Work, Pending, Generation
  <2> QED BY <2>2, CommandTypes, RemovalTypes, Zenon DEF Commands
<1> QED BY <1>1, RemovalTypes DEF InFlight

(***************************************************************************)
(* Type correctness: one step per action.                                  *)
(***************************************************************************)
LEMMA NullRecords ==
  /\ NoReceipt \in Receipt /\ NoDisk \in Disk /\ NoArtifact \in Artifact
  /\ NoWork \in Work /\ NoRequest \in Request /\ NoPending \in Pending
  /\ NoGeneration \in Generation /\ NoScan \in Scan
BY DEF NoWork, Work, NoSeen, NoRequest, Request, NoPending, Pending, NoGeneration,
       Generation, NoScan, Scan, NoReceipt, Receipt, NoDisk, Disk, NoArtifact, Artifact

LEMMA IdleTasks ==
  /\ [t \in Tasks |-> "idle"] \in
       [Tasks -> {"idle", "claimed", "inspected", "working", "copied", "staged", "done",
                  "release", "cleanup", "cleaning", "cleaned"}]
  /\ [t \in Tasks |-> NoWork] \in [Tasks -> Work]
BY NullRecords

LEMMA TypeInit == Init => TypeOK
<1> SUFFICES ASSUME Init PROVE TypeOK
  OBVIOUS
<1>1. store \in [Slots -> Artifact]
  BY NullRecords DEF Init
<1>2. pc \in [Tasks -> {"idle", "claimed", "inspected", "working", "copied", "staged", "done",
                        "release", "cleanup", "cleaning", "cleaned"}]
      /\ work \in [Tasks -> Work]
  BY IdleTasks DEF Init
<1> QED BY <1>1, <1>2, NullRecords, CommandTypes DEF Init, TypeOK

LEMMA TypeIssue ==
  ASSUME TypeOK, NEW o \in 1..MaxOps, NEW a \in Actions, NEW g \in Slots, Issue(o, a, g)
  PROVE  TypeOK'
<1>1. [op |-> o, rev |-> revision, action |-> a, gen |-> g] \in Request
  BY SlotIds DEF TypeOK, Request
<1> QED BY <1>1 DEF TypeOK, Issue, row, host, process

LEMMA TypeLifecycle == ASSUME TypeOK, Lifecycle PROVE TypeOK'
<1>1. ASSUME CreateVm PROVE TypeOK'
  BY <1>1, SizesAssumption DEF TypeOK, CreateVm, host, OutsideHost
<1>2. ASSUME StartVm PROVE TypeOK'
  BY <1>2 DEF TypeOK, StartVm, BackupFields, host, OutsideHost
<1>3. ASSUME StopVm PROVE TypeOK'
  BY <1>3 DEF TypeOK, StopVm, row, OutsideHost
<1>4. ASSUME DestroyVm PROVE TypeOK'
  BY <1>4 DEF TypeOK, DestroyVm, BackupFields, host, OutsideHost
<1>5. ASSUME NEW s \in Sizes, ResizeVm(s) PROVE TypeOK'
  BY <1>5, SizesAssumption DEF TypeOK, ResizeVm, BackupFields, host, OutsideHost
<1> QED BY <1>1, <1>2, <1>3, <1>4, <1>5 DEF Lifecycle

LEMMA TypeHostStep == ASSUME TypeOK, HostStep PROVE TypeOK'
<1>1. ASSUME CloneImage PROVE TypeOK'
  BY <1>1 DEF TypeOK, CloneImage, row, OutsideHost, Disk
<1>2. ASSUME BootVmm PROVE TypeOK'
  BY <1>2 DEF TypeOK, BootVmm, row, OutsideHost
<1>3. ASSUME BootEnds PROVE TypeOK'
  BY <1>3 DEF TypeOK, BootEnds, BackupFields, host, OutsideHost, Fault, NoFault
<1>4. ASSUME StopEnds PROVE TypeOK'
  BY <1>4 DEF TypeOK, StopEnds, BackupFields, host, OutsideHost
<1>5. ASSUME GrowDisk PROVE TypeOK'
  <2>1. [disk EXCEPT !.size = target] \in Disk
    BY DEF TypeOK, Disk
  <2> QED BY <1>5, <2>1 DEF TypeOK, GrowDisk, row, OutsideHost, Fault, NoFault
<1>6. ASSUME ResizeEnds PROVE TypeOK'
  BY <1>6 DEF TypeOK, ResizeEnds, BackupFields, host, OutsideHost
<1>7. ASSUME DestroyStops PROVE TypeOK'
  <2>1. vmm' \in BOOLEAN
    BY <1>7, Zenon DEF TypeOK, DestroyStops
  <2> QED BY <1>7, <2>1 DEF TypeOK, DestroyStops, row, OutsideHost, Fault, NoFault
<1>8. ASSUME LockBackups PROVE TypeOK'
  BY <1>8 DEF TypeOK, LockBackups, row, OutsideHost
<1>9. ASSUME RemoveBackups PROVE TypeOK'
  <2>1. store' \in [Slots -> Artifact] /\ disk' \in Disk
    <3>1. ASSUME NEW c \in Command, Apply(c) PROVE store' \in [Slots -> Artifact] /\ disk' \in Disk
      BY <3>1, ApplyType
    <3> QED BY <1>9, <3>1, CommandTypes, RemovalTypes, SlotIds DEF TypeOK, RemoveBackups
  <2>2. NoGeneration \in Generation /\ NoPending \in Pending
    BY DEF NoGeneration, Generation, NoPending, Pending, NoRequest, Request
  <2> QED BY <1>9, <2>1, <2>2 DEF TypeOK, RemoveBackups, OutsideHost, Fault, NoFault
<1>10. ASSUME EraseDisk PROVE TypeOK'
  BY <1>10 DEF TypeOK, EraseDisk, row, OutsideHost, NoDisk, Disk, Fault, NoFault
<1>11. ASSUME DeleteRow PROVE TypeOK'
  BY <1>11 DEF TypeOK, DeleteRow, host, OutsideHost, NoGeneration, Generation, NoPending,
               Pending, NoRequest, Request, NoReceipt, Receipt
<1> QED BY <1>1, <1>2, <1>3, <1>4, <1>5, <1>6, <1>7, <1>8, <1>9, <1>10, <1>11 DEF HostStep

LEMMA TypeClaim ==
  ASSUME TypeOK, NEW t \in Tasks, NEW r \in Request, Claim(t, r), scan' \in Scan
  PROVE  TypeOK'
<1>1. [NoWork EXCEPT !.req = r] \in Work
  BY NullRecords DEF Work
<1> QED BY <1>1 DEF TypeOK, Claim, row, host, history

LEMMA TypeClaimCleanup ==
  ASSUME TypeOK, NEW t \in Tasks, ClaimCleanup(t), scan' \in Scan
  PROVE  TypeOK'
<1>1. [NoWork EXCEPT !.seen =
         [current |-> current, retired |-> retired, pending |-> NoPending]] \in Work
  BY NullRecords DEF TypeOK, Work
<1> QED BY <1>1 DEF TypeOK, ClaimCleanup, row, host, history

LEMMA TypeTaskClaims ==
  ASSUME TypeOK, NEW t \in Tasks
  PROVE  /\ ClientClaim(t) => TypeOK'
         /\ Reconcile => TypeOK'
<1>1. ASSUME ClientClaim(t) PROVE TypeOK'
  BY <1>1, TypeClaim DEF ClientClaim, TypeOK
<1>2. ASSUME ScanRecord PROVE TypeOK'
  <2>1. [phase |-> "vm", req |-> pending.req, cleanup |-> ~Busy /\ retired # {}] \in Scan
    BY DEF TypeOK, Scan, Pending
  <2> QED BY <1>2, <2>1, NullRecords DEF TypeOK, ScanRecord, row, host, history
<1>3. ASSUME ReconcileVm PROVE TypeOK'
  <2>1. [scan EXCEPT !.phase = "backup"] \in Scan
    BY DEF TypeOK, Scan
  <2>2. ObservedState \in {"Running", "Failed", "Stopped"}
    BY Zenon DEF ObservedState
  <2> QED BY <1>3, <2>1, <2>2 DEF TypeOK, ReconcileVm, ResumeDeletion, BackupFields, host,
                                 Fault, NoFault
<1>4. ASSUME ReconcileClaim PROVE TypeOK'
  <2>1. Reconciler \in Tasks /\ scan.req \in Request /\ scan' \in Scan
    BY <1>4, NullRecords DEF Tasks, TypeOK, Scan, ReconcileClaim
  <2> QED BY <1>4, <2>1, TypeClaim, TypeClaimCleanup DEF ReconcileClaim
<1>5. ASSUME ReconcileSkip PROVE TypeOK'
  BY <1>5, NullRecords DEF TypeOK, ReconcileSkip, row, host, history
<1> QED BY <1>1, <1>2, <1>3, <1>4, <1>5 DEF Reconcile

LEMMA TypeWorld ==
  ASSUME TypeOK, BackoffExpires \/ GuestWrites \/ GuestExits \/ Crash \/ OrphanEnds
  PROVE  TypeOK'
<1>1. ASSUME BackoffExpires PROVE TypeOK'
  BY <1>1 DEF TypeOK, BackoffExpires, host, process, history
<1>2. ASSUME GuestWrites PROVE TypeOK'
  <2>1. [disk EXCEPT !.data = writes + 1] \in Disk
    BY DEF TypeOK, Disk
  <2> QED BY <1>2, <2>1 DEF TypeOK, GuestWrites, row, process
<1>3. ASSUME GuestExits PROVE TypeOK'
  BY <1>3 DEF TypeOK, GuestExits, row, process, history
<1>4. ASSUME Crash PROVE TypeOK'
  <2>1. store' \in [Slots -> Artifact] /\ disk' \in Disk /\ orphan' \in Command
        /\ flock' \in {"free", "task", "host", "orphan"}
    <3>1. CASE flock \in {"free", "orphan"} /\ UNCHANGED <<disk, store, flock, orphan>>
      BY <3>1 DEF TypeOK
    <3>2. ASSUME NEW c \in InFlight \union {NoCommand},
                 IF Backend = "zvol"
                 THEN flock' = "orphan" /\ orphan' = c /\ UNCHANGED <<disk, store>>
                 ELSE /\ flock' \in IF flock = "task" THEN {"free", "orphan"} ELSE {"free"}
                      /\ Apply(c) /\ UNCHANGED orphan
          PROVE  /\ store' \in [Slots -> Artifact] /\ disk' \in Disk
                 /\ orphan' \in Command /\ flock' \in {"free", "task", "host", "orphan"}
      <4>1. c \in Command
        BY InFlightTypes, CommandTypes
      <4>2. Apply(c) => store' \in [Slots -> Artifact] /\ disk' \in Disk
        BY <4>1, ApplyType
      <4> QED BY <3>2, <4>1, <4>2 DEF TypeOK
    <3> QED BY <1>4, <3>1, <3>2 DEF Crash
  <2>2. /\ crashes' = crashes + 1 /\ running' = FALSE /\ op' = "idle" /\ scan' = NoScan
        /\ UNCHANGED <<row, vmm, issued, done, minted, writes, failures>>
    BY <1>4, Zenon DEF Crash
  <2>3. pc' \in [Tasks -> {"idle", "claimed", "inspected", "working", "copied", "staged",
                            "done", "release", "cleanup", "cleaning", "cleaned"}]
        /\ work' \in [Tasks -> Work]
    BY <1>4, IdleTasks, Zenon DEF Crash
  <2>4. scan' \in Scan
    BY <2>2, NullRecords
  <2>5. vmm' \in BOOLEAN
    BY <2>2 DEF TypeOK
  <2>6. running' \in BOOLEAN /\ op' = "idle"
    BY <2>2
  <2>7. crashes' \in Nat
    BY <2>2 DEF TypeOK
  <2>8. UNCHANGED <<row, issued, done, minted, writes, failures>>
    BY <2>2
  <2> QED BY <2>1, <2>3, <2>4, <2>5, <2>6, <2>7, <2>8 DEF TypeOK, row
<1>5. ASSUME OrphanEnds PROVE TypeOK'
  <2>1. store' \in [Slots -> Artifact] /\ disk' \in Disk
    BY <1>5, ApplyType DEF TypeOK, OrphanEnds
  <2> QED BY <1>5, <2>1, CommandTypes DEF TypeOK, OrphanEnds, row, process, history
<1> QED BY <1>1, <1>2, <1>3, <1>4, <1>5

(***************************************************************************)
(* The steps of one task.                                                  *)
(***************************************************************************)
LEMMA TypeAdmission ==
  ASSUME TypeOK, NEW t \in Tasks,
         Inspect(t) \/ InspectFails(t) \/ Admit(t) \/ AdmitRefused(t)
  PROVE  TypeOK'
<1>0. work[t] \in Work /\ disk \in Disk /\ work \in [Tasks -> Work]
  BY DEF TypeOK
<1>1. ASSUME Inspect(t) PROVE TypeOK'
  <2>1. [work EXCEPT ![t].ino = disk.ino, ![t].size = disk.size] \in [Tasks -> Work]
    BY <1>0 DEF Work, Disk
  <2> QED BY <1>1, <2>1 DEF TypeOK, Inspect, row, history
<1>2. ASSUME InspectFails(t) PROVE TypeOK'
  BY <1>2 DEF TypeOK, InspectFails, row, host, Fault, NoFault
<1>3. ASSUME Admit(t) PROVE TypeOK'
  <2>1. pending' \in Pending /\ minted' \in Nat /\ revision' \in Nat
    <3>1. CASE UNCHANGED <<pending, minted, revision>>
      BY <3>1 DEF TypeOK
    <3>2. CASE Admission(work[t].req, work[t])
      BY <1>0, <3>2 DEF Admission, TypeOK, Pending, Generation, Work
    <3> QED BY <1>3, <3>1, <3>2, Zenon DEF Admit
  <2>2. Ids(retired \union {current}) \subseteq Nat
    BY DEF TypeOK, Ids, Generation
  <2>3. work' \in [Tasks -> Work]
    <3> DEFINE seen == [current |-> current, retired |-> retired, pending |-> pending']
               todo == IF work[t].req.action = "delete" THEN Ids(retired \union {current}) ELSE {}
    <3>1. work' = [work EXCEPT ![t].seen = seen, ![t].todo = todo]
      BY <1>3, Zenon DEF Admit
    <3>2. seen \in [current: Generation, retired: SUBSET Generation, pending: Pending]
          /\ todo \in SUBSET Nat
      BY <2>1, <2>2 DEF TypeOK
    <3> HIDE DEF seen, todo
    <3> QED BY <1>0, <3>1, <3>2 DEF Work
  <2> QED BY <1>3, <2>1, <2>3 DEF TypeOK, Admit, host
<1>4. ASSUME AdmitRefused(t) PROVE TypeOK'
  BY <1>4 DEF TypeOK, AdmitRefused, row, history
<1> QED BY <1>1, <1>2, <1>3, <1>4

LEMMA TypeSettle ==
  ASSUME TypeOK, NEW t \in Tasks, NEW ok \in BOOLEAN, Settle(t, ok)
  PROVE  /\ pc' \in [Tasks -> {"idle", "claimed", "inspected", "working", "copied", "staged",
                               "done", "release", "cleanup", "cleaning", "cleaned"}]
         /\ flock' \in {"free", "task", "host", "orphan"}
         /\ work' \in [Tasks -> Work]
<1>1. [work[t] EXCEPT !.ok = ok] \in Work
  BY DEF TypeOK, Work
<1> QED BY <1>1 DEF TypeOK, Settle

\* A step of storage work leaves the rest alone.
LEMMA TypeOutside ==
  ASSUME TypeOK, UNCHANGED OutsideWork, UNCHANGED <<issued, done, minted, writes, crashes>>,
         failures' \in Nat, store' \in [Slots -> Artifact], disk' \in Disk,
         pc' \in [Tasks -> {"idle", "claimed", "inspected", "working", "copied", "staged",
                            "done", "release", "cleanup", "cleaning", "cleaned"}],
         flock' \in {"free", "task", "host", "orphan"}, work' \in [Tasks -> Work]
  PROVE  TypeOK'
BY DEF TypeOK, OutsideWork, row

LEMMA TypeWork ==
  ASSUME TypeOK, NEW t \in Tasks
  PROVE  /\ work[t] \in Work /\ work \in [Tasks -> Work] /\ disk \in Disk
         /\ work[t].seen.current.id \in Nat /\ work[t].seen.pending.art.id \in Nat
         /\ work[t].todo \in SUBSET Nat /\ work[t].gone \in SUBSET Nat
         /\ Ids(work[t].seen.retired) \in SUBSET Nat
<1>1. work[t] \in Work
  BY DEF TypeOK
<1> QED BY <1>1 DEF TypeOK, Work, Pending, Generation, Ids

LEMMA TypeStorage ==
  ASSUME TypeOK, NEW t \in Tasks,
         \/ TakeSnapshot(t) \/ (\E i \in Slots : DropNewer(t, i)) \/ RollBack(t)
         \/ CloneFile(t) \/ WriteManifest(t) \/ ResumeFile(t) \/ RenameStage(t)
         \/ RemoveNext(t) \/ WorkFails(t)
  PROVE  TypeOK'
<1> DEFINE w == work[t]
           a == w.seen.pending.art.id
<1>0. /\ w \in Work /\ work \in [Tasks -> Work] /\ disk \in Disk /\ a \in Nat
      /\ w.seen.current.id \in Nat /\ w.todo \in SUBSET Nat /\ w.gone \in SUBSET Nat
  BY TypeWork
<1>1. ASSUME TakeSnapshot(t) PROVE TypeOK'
  <2>1. store' \in [Slots -> Artifact] /\ disk' \in Disk
    BY <1>0, <1>1, ApplyType, CommandTypes DEF TakeSnapshot
  <2> QED BY <1>1, <2>1, TypeSettle DEF TypeOK, TakeSnapshot, OutsideWork, row, history
<1>2. ASSUME NEW i \in Slots, DropNewer(t, i) PROVE TypeOK'
  <2>1. store' \in [Slots -> Artifact] /\ disk' \in Disk
    BY <1>2, ApplyType, CommandTypes, SlotIds DEF DropNewer
  <2>2. [w EXCEPT !.gone = @ \union {i}] \in Work
    BY <1>0, SlotIds DEF Work
  <2>3. work' \in [Tasks -> Work]
    BY <1>0, <1>2, <2>2 DEF DropNewer
  <2> QED BY <1>2, <2>1, <2>3 DEF TypeOK, DropNewer, OutsideWork, row, history
<1>3. ASSUME RollBack(t) PROVE TypeOK'
  <2>1. store' \in [Slots -> Artifact] /\ disk' \in Disk
    BY <1>0, <1>3, ApplyType, CommandTypes DEF RollBack
  <2>2. Settle(t, TRUE) /\ UNCHANGED OutsideWork /\ UNCHANGED history
    BY <1>3 DEF RollBack
  <2>3. UNCHANGED <<issued, done, minted, writes, crashes>> /\ failures' \in Nat
    BY <2>2 DEF TypeOK, history
  <2> QED BY <2>1, <2>2, <2>3, TypeSettle, TypeOutside
<1>4. ASSUME CloneFile(t) PROVE TypeOK'
  <2>1. \A from \in Disk \union Artifact : Copy(from, FALSE) \in Artifact
    BY DEF TypeOK, Copy, Disk, Artifact
  <2>2. store' \in [Slots -> Artifact]
    <3>1. CASE w.seen.pending.req.action = "restore"
      <4>1. store[w.seen.current.id] \in Artifact
        BY <1>4, <3>1 DEF CloneFile, Verified, Present, TypeOK
      <4> QED BY <1>4, <2>1, <3>1, <4>1 DEF CloneFile, TypeOK
    <3>2. CASE w.seen.pending.req.action # "restore"
      BY <1>0, <1>4, <2>1, <3>2 DEF CloneFile, TypeOK
    <3> QED BY <3>1, <3>2
  <2>3. /\ pc' = [pc EXCEPT ![t] = "copied"] /\ UNCHANGED <<disk, flock, work, history>>
        /\ UNCHANGED OutsideWork
    BY <1>4, Zenon DEF CloneFile
  <2>4. UNCHANGED <<issued, done, minted, writes, crashes>> /\ failures' \in Nat
    BY <2>3 DEF TypeOK, history
  <2>5. /\ pc' \in [Tasks -> {"idle", "claimed", "inspected", "working", "copied", "staged",
                              "done", "release", "cleanup", "cleaning", "cleaned"}]
        /\ flock' \in {"free", "task", "host", "orphan"}
        /\ work' \in [Tasks -> Work] /\ disk' \in Disk
    BY <2>3 DEF TypeOK
  <2> QED BY <2>2, <2>3, <2>4, <2>5, TypeOutside
<1>5. ASSUME WriteManifest(t) PROVE TypeOK'
  <2>1. store' \in [Slots -> Artifact]
    <3>1. \A i \in Slots : [store[i] EXCEPT !.ready = TRUE] \in Artifact
      BY DEF TypeOK, Artifact
    <3>2. store' = [store EXCEPT ![a].ready = TRUE]
      BY <1>5 DEF WriteManifest
    <3> QED BY <3>1, <3>2 DEF TypeOK
  <2>2. /\ pc' \in [Tasks -> {"idle", "claimed", "inspected", "working", "copied", "staged",
                              "done", "release", "cleanup", "cleaning", "cleaned"}]
        /\ flock' \in {"free", "task", "host", "orphan"} /\ work' \in [Tasks -> Work]
    <3>1. CASE Settle(t, TRUE)
      BY <3>1, TypeSettle
    <3>2. CASE pc' = [pc EXCEPT ![t] = "staged"] /\ UNCHANGED <<flock, work>>
      BY <3>2 DEF TypeOK
    <3> QED BY <1>5, <3>1, <3>2, Zenon DEF WriteManifest
  <2> QED BY <1>5, <2>1, <2>2 DEF TypeOK, WriteManifest, OutsideWork, row, history
<1>6. ASSUME ResumeFile(t) PROVE TypeOK'
  <2>1. CASE Settle(t, TRUE)
    BY <1>6, <2>1, TypeSettle DEF TypeOK, ResumeFile, OutsideWork, row, history
  <2>2. CASE pc' = [pc EXCEPT ![t] = "staged"] /\ UNCHANGED <<flock, work>>
    BY <1>6, <2>2 DEF TypeOK, ResumeFile, OutsideWork, row, history
  <2> QED BY <1>6, <2>1, <2>2, Zenon DEF ResumeFile
<1>7. ASSUME RenameStage(t) PROVE TypeOK'
  <2>1. store[a] \in Artifact
    BY <1>7 DEF RenameStage, Present, TypeOK
  <2>2. store' \in [Slots -> Artifact] /\ disk' \in Disk
    <3>1. [store[a] EXCEPT !.size = 0] \in Artifact
      BY <2>1 DEF Artifact
    <3>2. store' \in [Slots -> Artifact]
      BY <1>7, <3>1 DEF RenameStage, TypeOK
    <3>3. disk' = [ino |-> a, data |-> store[a].data, size |-> store[a].size]
      BY <1>7 DEF RenameStage
    <3> QED BY <1>0, <2>1, <3>2, <3>3 DEF Disk, Artifact
  <2> QED BY <1>7, <2>2, TypeSettle DEF TypeOK, RenameStage, OutsideWork, row, history
<1>8. ASSUME RemoveNext(t) PROVE TypeOK'
  <2>1. CASE Settle(t, TRUE) /\ UNCHANGED <<disk, store>>
    <3>1. UNCHANGED OutsideWork /\ UNCHANGED history
      BY <1>8 DEF RemoveNext
    <3>2. UNCHANGED <<issued, done, minted, writes, crashes>> /\ failures' \in Nat
      BY <3>1 DEF TypeOK, history
    <3>3. store' \in [Slots -> Artifact] /\ disk' \in Disk
      BY <2>1 DEF TypeOK
    <3> QED BY <2>1, <3>1, <3>2, <3>3, TypeSettle, TypeOutside
  <2>2. ASSUME NEW i \in w.todo, Apply(Destroy(i)), UNCHANGED <<pc, flock>>,
               work' = [work EXCEPT ![t].todo = @ \ {i}]
        PROVE  TypeOK'
    <3>1. store' \in [Slots -> Artifact] /\ disk' \in Disk
      BY <1>0, <2>2, ApplyType, CommandTypes
    <3>2. [w EXCEPT !.todo = @ \ {i}] \in Work
      BY <1>0 DEF Work
    <3>3. work' \in [Tasks -> Work]
      BY <1>0, <2>2, <3>2
    <3> QED BY <1>8, <2>2, <3>1, <3>3 DEF TypeOK, RemoveNext, OutsideWork, row, history
  <2> QED BY <1>8, <2>1, <2>2, Zenon DEF RemoveNext
<1>9. ASSUME WorkFails(t) PROVE TypeOK'
  <2>1. store' \in [Slots -> Artifact] /\ disk' \in Disk
    <3>1. CASE UNCHANGED <<disk, store>>
      BY <3>1 DEF TypeOK
    <3>2. ASSUME NEW c \in Commands(t) \union {NoCommand}, Apply(c)
          PROVE  store' \in [Slots -> Artifact] /\ disk' \in Disk
      BY <3>2, ApplyType, CommandTypes, InFlightTypes
    <3> QED BY <1>9, <3>1, <3>2, Zenon DEF WorkFails
  <2>2. failures' \in Nat
    BY <1>9 DEF TypeOK, WorkFails, Fault, NoFault
  <2>3. Settle(t, FALSE) /\ UNCHANGED <<OutsideWork, issued, done, minted, writes, crashes>>
    BY <1>9, Zenon DEF WorkFails
  <2>4. UNCHANGED OutsideWork /\ UNCHANGED <<issued, done, minted, writes, crashes>>
    BY <2>3
  <2> QED BY <2>1, <2>2, <2>3, <2>4, TypeSettle, TypeOutside
<1> QED BY <1>1, <1>2, <1>3, <1>4, <1>5, <1>6, <1>7, <1>8, <1>9

LEMMA TypeFinish == ASSUME TypeOK, NEW t \in Tasks, Finish(t) PROVE TypeOK'
<1> DEFINE w == work[t]
           settles == pending.req = w.req /\ (w.ok \/ w.req.action = "create")
<1>0. w.req \in Request /\ w.ok \in BOOLEAN /\ pending.art \in Generation
  BY TypeWork DEF Work, TypeOK, Pending
<1>1. /\ current' \in Generation /\ retired' \in SUBSET Generation
      /\ pending' \in Pending /\ receipt' \in Receipt /\ backoff' \in BOOLEAN
      /\ done' \in SUBSET Request
  <2>1. CASE UNCHANGED <<current, retired, pending, receipt, backoff, done>>
    BY <2>1 DEF TypeOK
  <2>2. CASE settles
    <3>1. /\ pending' = NoPending /\ receipt' = [req |-> w.req, ok |-> w.ok]
          /\ backoff' = (backoff /\ retired' # {}) /\ done' = done \union {w.req}
          /\ Abandoned(pending) \/ Publish(pending) \/ Restored(pending, w.gone) \/ Deleted
      BY <1>0, <2>2, Zenon DEF Finish
    <3>2. current' \in Generation /\ retired' \in SUBSET Generation
      BY <1>0, <3>1, NullRecords DEF TypeOK, Abandoned, Publish, Restored, Deleted
    <3>3. receipt' \in Receipt /\ done' \in SUBSET Request
      BY <1>0, <3>1 DEF TypeOK, Receipt
    <3>4. backoff' \in BOOLEAN
      BY <3>1
    <3> QED BY <3>1, <3>2, <3>3, <3>4, NullRecords
  <2> QED BY <2>1, <2>2, Zenon DEF Finish
<1>2. pc' \in [Tasks -> {"idle", "claimed", "inspected", "working", "copied", "staged", "done",
                        "release", "cleanup", "cleaning", "cleaned"}]
  BY Zenon DEF Finish, TypeOK
<1> QED BY <1>1, <1>2 DEF TypeOK, Finish, host

LEMMA TypeRelease == ASSUME TypeOK, NEW t \in Tasks, Release(t) PROVE TypeOK'
BY NullRecords DEF TypeOK, Release, row, host, history

LEMMA TypeCleanup ==
  ASSUME TypeOK, NEW t \in Tasks,
         \/ LockCleanup(t) \/ CleanupBlocked(t) \/ (\E i \in Slots : CleanOne(t, i))
         \/ CleanedAll(t) \/ FinishCleanup(t)
  PROVE  TypeOK'
<1>0. /\ work[t] \in Work /\ work \in [Tasks -> Work] /\ Ids(work[t].seen.retired) \in SUBSET Nat
      /\ work[t].todo \in SUBSET Nat /\ work[t].gone \in SUBSET Nat /\ work[t].ok \in BOOLEAN
  BY TypeWork DEF Work
<1>1. ASSUME LockCleanup(t) PROVE TypeOK'
  <2>1. [work[t] EXCEPT !.todo = Ids(work[t].seen.retired)] \in Work
    BY <1>0 DEF Work
  <2> QED BY <1>0, <1>1, <2>1 DEF TypeOK, LockCleanup, OutsideWork, row, history
<1>2. ASSUME CleanupBlocked(t) PROVE TypeOK'
  <2>1. [work[t] EXCEPT !.ok = FALSE] \in Work
    BY <1>0 DEF Work
  <2> QED BY <1>0, <1>2, <2>1 DEF TypeOK, CleanupBlocked, OutsideWork, row, Fault, NoFault
<1>3. ASSUME NEW i \in Slots, CleanOne(t, i) PROVE TypeOK'
  <2>1. [work[t] EXCEPT !.todo = @ \ {i}, !.gone = @ \union {i}] \in Work
        /\ [work[t] EXCEPT !.todo = @ \ {i}, !.ok = FALSE] \in Work
    BY <1>0, SlotIds DEF Work
  <2>2. work' \in [Tasks -> Work]
    BY <1>0, <1>3, <2>1 DEF CleanOne
  <2>3. store' \in [Slots -> Artifact] /\ disk' \in Disk
    <3>1. ASSUME NEW c \in Command, Apply(c)
          PROVE  store' \in [Slots -> Artifact] /\ disk' \in Disk
      BY <3>1, ApplyType
    <3> QED BY <1>3, <3>1, CommandTypes, RemovalTypes, SlotIds, Zenon DEF CleanOne
  <2>4. failures' \in Nat
    BY <1>3 DEF TypeOK, CleanOne, Fault, NoFault
  <2>5. UNCHANGED <<OutsideWork, flock, pc, issued, done, minted, writes, crashes>>
    BY <1>3, Zenon DEF CleanOne
  <2> QED BY <2>2, <2>3, <2>4, <2>5 DEF TypeOK, OutsideWork, row
<1>4. ASSUME CleanedAll(t) PROVE TypeOK'
  BY <1>4 DEF TypeOK, CleanedAll, OutsideWork, row, history
<1>5. ASSUME FinishCleanup(t) PROVE TypeOK'
  <2>1. retired' \in SUBSET Generation /\ backoff' \in BOOLEAN
    BY <1>0, <1>5 DEF TypeOK, FinishCleanup
  <2> QED BY <1>5, <2>1, NullRecords DEF TypeOK, FinishCleanup, host, history
<1> QED BY <1>1, <1>2, <1>3, <1>4, <1>5

LEMMA TypeNext == ASSUME TypeOK, [Next]_vars PROVE TypeOK'
<1>1. ASSUME NEW t \in Tasks, TaskStep(t) PROVE TypeOK'
  BY <1>1, TypeAdmission, TypeStorage, TypeFinish, TypeRelease, TypeCleanup, Zenon DEF TaskStep
<1>2. CASE Issues
  BY <1>2, TypeIssue DEF Issues
<1>3. Reconcile => TypeOK'
  BY TypeTaskClaims DEF Tasks
<1>4. CASE UNCHANGED vars
  BY <1>4 DEF TypeOK, vars, row, host, process, history
<1> QED BY <1>1, <1>2, <1>3, <1>4, TypeLifecycle, TypeHostStep, TypeTaskClaims, TypeWorld, Zenon
        DEF Next

(***************************************************************************)
(* Whatever clients, the loop, the guest, crashes and failures do, every   *)
(* variable of the agent keeps its kind.                                   *)
(***************************************************************************)
THEOREM TypeCorrect == Spec => []TypeOK
BY TypeInit, TypeNext, PTL DEF Spec

(***************************************************************************)
(* The storage fence and the receipts: FenceInv and, on top of it,         *)
(* ReceiptInv are inductive.  One step per action; only Crash needs more   *)
(* than the definitions, because it hands a command to the orphan.         *)
(***************************************************************************)
LEMMA FenceInit == Init => FenceInv
BY DEF Init, FenceInv, OnRequest, Locking, Storing, WritingOrphan, Busy, Tasks, NoCommand,
       NoPending, NoGeneration

LEMMA FenceImplies == FenceInv => StorageFence
BY DEF StorageFence, FenceInv, OnRequest, Locking, Storing, WritingOrphan, Busy

LEMMA FenceLifecycle ==
  ASSUME TypeOK, FenceInv, Lifecycle
  PROVE  FenceInv'
<1> USE DEF TypeOK, FenceInv, OnRequest, Locking, Storing, WritingOrphan, Busy
<1>1. ASSUME CreateVm PROVE FenceInv'
  BY <1>1 DEF CreateVm, Mutex, host, OutsideHost
<1>2. ASSUME StartVm PROVE FenceInv'
  BY <1>2 DEF StartVm, Guarded, Mutex, BackupFields, host, OutsideHost
<1>3. ASSUME StopVm PROVE FenceInv'
  BY <1>3 DEF StopVm, Guarded, Mutex, row, OutsideHost
<1>4. ASSUME DestroyVm PROVE FenceInv'
  BY <1>4 DEF DestroyVm, Mutex, BackupFields, host, OutsideHost
<1>5. ASSUME NEW s \in Sizes, ResizeVm(s) PROVE FenceInv'
  BY <1>5 DEF ResizeVm, Guarded, Mutex, BackupFields, host, OutsideHost
<1> QED BY <1>1, <1>2, <1>3, <1>4, <1>5 DEF Lifecycle

LEMMA FenceHostStep ==
  ASSUME TypeOK, FenceInv, HostStep
  PROVE  FenceInv'
<1> USE DEF TypeOK, FenceInv, OnRequest, Locking, Storing, WritingOrphan, Busy
<1>1. ASSUME CloneImage PROVE FenceInv'
  BY <1>1 DEF CloneImage, row, OutsideHost
<1>2. ASSUME BootVmm PROVE FenceInv'
  BY <1>2 DEF BootVmm, row, OutsideHost
<1>3. ASSUME BootEnds PROVE FenceInv'
  BY <1>3 DEF BootEnds, BackupFields, host, OutsideHost
<1>4. ASSUME StopEnds PROVE FenceInv'
  BY <1>4 DEF StopEnds, BackupFields, host, OutsideHost
<1>5. ASSUME GrowDisk PROVE FenceInv'
  BY <1>5 DEF GrowDisk, row, OutsideHost
<1>6. ASSUME ResizeEnds PROVE FenceInv'
  BY <1>6 DEF ResizeEnds, BackupFields, host, OutsideHost
<1>7. ASSUME DestroyStops PROVE FenceInv'
  BY <1>7 DEF DestroyStops, row, OutsideHost
<1>8. ASSUME LockBackups PROVE FenceInv'
  BY <1>8 DEF LockBackups, row, OutsideHost, HasArtifacts
<1>9. ASSUME RemoveBackups PROVE FenceInv'
  BY <1>9 DEF RemoveBackups, OutsideHost, NoPending, NoGeneration
<1>10. ASSUME EraseDisk PROVE FenceInv'
  BY <1>10 DEF EraseDisk, row, OutsideHost
<1>11. ASSUME DeleteRow PROVE FenceInv'
  BY <1>11 DEF DeleteRow, host, OutsideHost, NoPending, NoGeneration
<1> QED BY <1>1, <1>2, <1>3, <1>4, <1>5, <1>6, <1>7, <1>8, <1>9, <1>10, <1>11 DEF HostStep

LEMMA FenceReconcile ==
  ASSUME TypeOK, FenceInv, Reconcile
  PROVE  FenceInv'
<1> USE DEF TypeOK, FenceInv, OnRequest, Locking, Storing, WritingOrphan, Busy
<1>1. ASSUME ScanRecord PROVE FenceInv'
  BY <1>1 DEF ScanRecord, row, host, history
<1>2. ASSUME ReconcileVm PROVE FenceInv'
  BY <1>2 DEF ReconcileVm, BackupFields, host, Mutex, ResumeDeletion, ObservedState
<1>3. ASSUME ReconcileClaim PROVE FenceInv'
  BY <1>3 DEF ReconcileClaim, Claim, MayClaim, ClaimCleanup, MayClean, Mutex, row, host, history
<1>4. ASSUME ReconcileSkip PROVE FenceInv'
  BY <1>4 DEF ReconcileSkip, row, host, history
<1> QED BY <1>1, <1>2, <1>3, <1>4 DEF Reconcile

(***************************************************************************)
(* Only a task past admission leaves a command that writes to the disk.    *)
(***************************************************************************)
LEMMA WritingInFlight ==
  ASSUME NEW c \in InFlight \union {NoCommand}, c.kind \in {"snapshot", "rollback"}
  PROVE  \E t \in Tasks : Storing(t)
<1>1. \A S : \A d \in Removals(S) : d.kind \notin {"snapshot", "rollback"}
  BY DEF Removals, Destroy, Spoil
<1>2. PICK t \in Tasks : c \in Commands(t)
  BY <1>1 DEF InFlight, NoCommand
<1>3. CASE pc[t] = "working"
  BY <1>3 DEF Storing
<1>4. CASE pc[t] # "working"
  <2>1. Commands(t) \subseteq Removals(work[t].todo)
    BY <1>4, Zenon DEF Commands
  <2> QED BY <1>1, <1>2, <2>1
<1> QED BY <1>2, <1>3, <1>4

LEMMA FenceCrash == ASSUME TypeOK, FenceInv, Crash PROVE FenceInv'
<1>1. /\ running' = FALSE /\ op' = "idle" /\ pc' = [t \in Tasks |-> "idle"]
      /\ UNCHANGED <<row, vmm>>
  BY Zenon DEF Crash
<1>2. \/ UNCHANGED <<flock, orphan>>
      \/ flock \in {"task", "host"} /\ UNCHANGED orphan
      \/ flock' = "orphan" /\ orphan' \in InFlight \union {NoCommand}
  BY Zenon DEF Crash
<1>3. orphan'.kind # "none" => flock' = "orphan"
  BY <1>2 DEF FenceInv
<1>4. WritingOrphan' => Busy /\ ~vmm /\ state \in {"Stopped", "Deleting"}
  <2>1. CASE UNCHANGED orphan
    BY <2>1 DEF FenceInv, WritingOrphan
  <2>2. ASSUME orphan' \in InFlight \union {NoCommand}, WritingOrphan'
        PROVE  Busy /\ ~vmm /\ state \in {"Stopped", "Deleting"}
    <3>1. PICK t \in Tasks : Storing(t)
      BY <2>2, WritingInFlight DEF WritingOrphan
    <3> QED BY <3>1 DEF FenceInv, OnRequest, Storing
  <2> QED BY <1>2, <2>1, <2>2
<1> QED BY <1>1, <1>3, <1>4
        DEF FenceInv, OnRequest, Locking, Storing, WritingOrphan, Busy, row

LEMMA FenceWorld ==
  ASSUME TypeOK, FenceInv,
         Issues \/ BackoffExpires \/ GuestWrites \/ GuestExits \/ Crash \/ OrphanEnds
  PROVE  FenceInv'
<1> USE DEF TypeOK, FenceInv, OnRequest, Locking, Storing, WritingOrphan, Busy
<1>1. ASSUME Issues PROVE FenceInv'
  BY <1>1 DEF Issues, Issue, row, host, process
<1>2. ASSUME BackoffExpires PROVE FenceInv'
  BY <1>2 DEF BackoffExpires, host, process, history
<1>3. ASSUME GuestWrites PROVE FenceInv'
  BY <1>3 DEF GuestWrites, row, process
<1>4. ASSUME GuestExits PROVE FenceInv'
  BY <1>4 DEF GuestExits, row, process, history
<1>5. ASSUME Crash PROVE FenceInv'
  BY <1>5, FenceCrash
<1>6. ASSUME OrphanEnds PROVE FenceInv'
  BY <1>6 DEF OrphanEnds, row, process, history, NoCommand
<1> QED BY <1>1, <1>2, <1>3, <1>4, <1>5, <1>6

LEMMA FenceTask ==
  ASSUME TypeOK, FenceInv, NEW t \in Tasks, ClientClaim(t) \/ TaskStep(t)
  PROVE  FenceInv'
<1> USE DEF TypeOK, FenceInv, OnRequest, Locking, Storing, WritingOrphan, Busy
<1>1. ASSUME ClientClaim(t) PROVE FenceInv'
  BY <1>1 DEF ClientClaim, Claim, MayClaim, Mutex, row, host, history
<1>2. ASSUME Inspect(t) PROVE FenceInv'
  BY <1>2 DEF Inspect, row, history
<1>3. ASSUME InspectFails(t) PROVE FenceInv'
  BY <1>3 DEF InspectFails, row, host
<1>4. ASSUME Admit(t) PROVE FenceInv'
  BY <1>4 DEF Admit, Mutex, Qualified, Admission, host
<1>5. ASSUME AdmitRefused(t) PROVE FenceInv'
  BY <1>5 DEF AdmitRefused, row, history
<1>6. ASSUME TakeSnapshot(t) PROVE FenceInv'
  BY <1>6 DEF TakeSnapshot, Doing, Settle, OutsideWork, row, history
<1>7. ASSUME RollBack(t) PROVE FenceInv'
  BY <1>7 DEF RollBack, Doing, Settle, OutsideWork, row, history
<1>8. ASSUME CloneFile(t) PROVE FenceInv'
  BY <1>8 DEF CloneFile, OutsideWork, row, history
<1>9. ASSUME WriteManifest(t) PROVE FenceInv'
  BY <1>9 DEF WriteManifest, Settle, OutsideWork, row, history
<1>10. ASSUME ResumeFile(t) PROVE FenceInv'
  BY <1>10 DEF ResumeFile, Settle, OutsideWork, row, history
<1>11. ASSUME RenameStage(t) PROVE FenceInv'
  BY <1>11 DEF RenameStage, Settle, OutsideWork, row, history
<1>12. ASSUME RemoveNext(t) PROVE FenceInv'
  BY <1>12 DEF RemoveNext, Doing, Settle, OutsideWork, row, history
<1>13. ASSUME WorkFails(t) PROVE FenceInv'
  BY <1>13 DEF WorkFails, Settle, OutsideWork, row
<1>14. ASSUME Finish(t) PROVE FenceInv'
  BY <1>14 DEF Finish, Mutex, NoPending, NoGeneration, host, Abandoned, Publish, Restored, Deleted
<1>15. ASSUME Release(t) PROVE FenceInv'
  BY <1>15 DEF Release, row, host, history
<1>16. ASSUME LockCleanup(t) PROVE FenceInv'
  BY <1>16 DEF LockCleanup, OutsideWork, row, history
<1>17. ASSUME CleanupBlocked(t) PROVE FenceInv'
  BY <1>17 DEF CleanupBlocked, OutsideWork, row
<1>18. ASSUME CleanedAll(t) PROVE FenceInv'
  BY <1>18 DEF CleanedAll, OutsideWork, row, history
<1>19. ASSUME FinishCleanup(t) PROVE FenceInv'
  BY <1>19 DEF FinishCleanup, host, history
<1>20. ASSUME NEW i \in Slots, DropNewer(t, i) PROVE FenceInv'
  BY <1>20 DEF DropNewer, Doing, OutsideWork, row, history
<1>21. ASSUME NEW i \in Slots, CleanOne(t, i) PROVE FenceInv'
  BY <1>21 DEF CleanOne, OutsideWork, row
<1> QED BY <1>1, <1>2, <1>3, <1>4, <1>5, <1>6, <1>7, <1>8, <1>9, <1>10, <1>11, <1>12,
       <1>13, <1>14, <1>15, <1>16, <1>17, <1>18, <1>19, <1>20, <1>21 DEF TaskStep

LEMMA FenceNext == ASSUME TypeOK, FenceInv, [Next]_vars PROVE FenceInv'
<1>1. CASE UNCHANGED vars
  BY <1>1 DEF FenceInv, OnRequest, Locking, Storing, WritingOrphan, Busy, vars, row, host,
              process
<1>2. CASE Next
  BY <1>2, FenceLifecycle, FenceHostStep, FenceReconcile, FenceWorld, FenceTask, Zenon DEF Next
<1> QED BY <1>1, <1>2

THEOREM FenceInvariant == Spec => [](TypeOK /\ FenceInv)
<1>1. Init => TypeOK /\ FenceInv
  BY TypeInit, FenceInit
<1>2. TypeOK /\ FenceInv /\ [Next]_vars => (TypeOK /\ FenceInv)'
  BY TypeNext, FenceNext
<1> QED BY <1>1, <1>2, PTL DEF Spec

(***************************************************************************)
(* For any number of clients, any crash, failure and interleaving: while a *)
(* task or the storage child of a dead agent may write a VM's disk, its    *)
(* VMM is down, the operation is on record and no other task is at work.   *)
(***************************************************************************)
THEOREM FenceHolds == Spec => []StorageFence
BY FenceInvariant, FenceImplies, PTL

LEMMA ReceiptInit == Init => ReceiptInv
BY DEF Init, ReceiptInv, NeverRepeated, Storing, Busy, NoPending, NoGeneration

LEMMA ReceiptLifecycle ==
  ASSUME TypeOK, FenceInv, ReceiptInv, Lifecycle
  PROVE  ReceiptInv'
<1> USE DEF TypeOK, FenceInv, ReceiptInv, NeverRepeated, OnRequest, Storing, Busy
<1>0. /\ pending \in Pending /\ minted \in Nat /\ revision \in Nat /\ done \in SUBSET Request
      /\ pending.req.rev \in Nat /\ \A r \in done : r.rev \in Nat
  BY DEF Pending, Request
<1>1. ASSUME CreateVm PROVE ReceiptInv'
  BY <1>1, <1>0 DEF CreateVm, Mutex, host, OutsideHost
<1>2. ASSUME StartVm PROVE ReceiptInv'
  BY <1>2, <1>0 DEF StartVm, Guarded, Mutex, BackupFields, host, OutsideHost
<1>3. ASSUME StopVm PROVE ReceiptInv'
  BY <1>3, <1>0 DEF StopVm, Guarded, Mutex, row, OutsideHost
<1>4. ASSUME DestroyVm PROVE ReceiptInv'
  BY <1>4, <1>0 DEF DestroyVm, Mutex, BackupFields, host, OutsideHost
<1>5. ASSUME NEW s \in Sizes, ResizeVm(s) PROVE ReceiptInv'
  BY <1>5, <1>0 DEF ResizeVm, Guarded, Mutex, BackupFields, host, OutsideHost
<1> QED BY <1>1, <1>2, <1>3, <1>4, <1>5 DEF Lifecycle

LEMMA ReceiptHostStep ==
  ASSUME TypeOK, FenceInv, ReceiptInv, HostStep
  PROVE  ReceiptInv'
<1> USE DEF TypeOK, FenceInv, ReceiptInv, NeverRepeated, OnRequest, Storing, Busy
<1>0. /\ pending \in Pending /\ minted \in Nat /\ revision \in Nat /\ done \in SUBSET Request
      /\ pending.req.rev \in Nat /\ \A r \in done : r.rev \in Nat
  BY DEF Pending, Request
<1>1. ASSUME CloneImage PROVE ReceiptInv'
  BY <1>1, <1>0 DEF CloneImage, row, OutsideHost
<1>2. ASSUME BootVmm PROVE ReceiptInv'
  BY <1>2, <1>0 DEF BootVmm, row, OutsideHost
<1>3. ASSUME BootEnds PROVE ReceiptInv'
  BY <1>3, <1>0 DEF BootEnds, BackupFields, host, OutsideHost
<1>4. ASSUME StopEnds PROVE ReceiptInv'
  BY <1>4, <1>0 DEF StopEnds, BackupFields, host, OutsideHost
<1>5. ASSUME GrowDisk PROVE ReceiptInv'
  BY <1>5, <1>0 DEF GrowDisk, row, OutsideHost
<1>6. ASSUME ResizeEnds PROVE ReceiptInv'
  BY <1>6, <1>0 DEF ResizeEnds, BackupFields, host, OutsideHost
<1>7. ASSUME DestroyStops PROVE ReceiptInv'
  BY <1>7, <1>0 DEF DestroyStops, row, OutsideHost
<1>8. ASSUME LockBackups PROVE ReceiptInv'
  BY <1>8, <1>0 DEF LockBackups, row, OutsideHost, HasArtifacts
<1>9. ASSUME RemoveBackups PROVE ReceiptInv'
  BY <1>9, <1>0 DEF RemoveBackups, OutsideHost, NoPending, NoGeneration
<1>10. ASSUME EraseDisk PROVE ReceiptInv'
  BY <1>10, <1>0 DEF EraseDisk, row, OutsideHost
<1>11. ASSUME DeleteRow PROVE ReceiptInv'
  BY <1>11, <1>0 DEF DeleteRow, host, OutsideHost, NoPending, NoGeneration
<1> QED BY <1>1, <1>2, <1>3, <1>4, <1>5, <1>6, <1>7, <1>8, <1>9, <1>10, <1>11 DEF HostStep

LEMMA ReceiptReconcile ==
  ASSUME TypeOK, FenceInv, ReceiptInv, Reconcile
  PROVE  ReceiptInv'
<1> USE DEF TypeOK, FenceInv, ReceiptInv, NeverRepeated, OnRequest, Storing, Busy
<1>0. /\ pending \in Pending /\ minted \in Nat /\ revision \in Nat /\ done \in SUBSET Request
      /\ pending.req.rev \in Nat /\ \A r \in done : r.rev \in Nat
  BY DEF Pending, Request
<1>1. ASSUME ScanRecord PROVE ReceiptInv'
  BY <1>1, <1>0 DEF ScanRecord, row, host, history
<1>2. ASSUME ReconcileVm PROVE ReceiptInv'
  BY <1>2, <1>0 DEF ReconcileVm, BackupFields, host, Mutex, ResumeDeletion, ObservedState
<1>3. ASSUME ReconcileClaim PROVE ReceiptInv'
  BY <1>3, <1>0 DEF ReconcileClaim, Claim, MayClaim, ClaimCleanup, MayClean, Mutex, row, host,
       history
<1>4. ASSUME ReconcileSkip PROVE ReceiptInv'
  BY <1>4, <1>0 DEF ReconcileSkip, row, host, history
<1> QED BY <1>1, <1>2, <1>3, <1>4 DEF Reconcile

LEMMA ReceiptWorld ==
  ASSUME TypeOK, FenceInv, ReceiptInv,
         Issues \/ BackoffExpires \/ GuestWrites \/ GuestExits \/ Crash \/ OrphanEnds
  PROVE  ReceiptInv'
<1> USE DEF TypeOK, FenceInv, ReceiptInv, NeverRepeated, OnRequest, Storing, Busy
<1>0. /\ pending \in Pending /\ minted \in Nat /\ revision \in Nat /\ done \in SUBSET Request
      /\ pending.req.rev \in Nat /\ \A r \in done : r.rev \in Nat
  BY DEF Pending, Request
<1>1. ASSUME Issues PROVE ReceiptInv'
  BY <1>1, <1>0 DEF Issues, Issue, row, host, process
<1>2. ASSUME BackoffExpires PROVE ReceiptInv'
  BY <1>2, <1>0 DEF BackoffExpires, host, process, history
<1>3. ASSUME GuestWrites PROVE ReceiptInv'
  BY <1>3, <1>0 DEF GuestWrites, row, process
<1>4. ASSUME GuestExits PROVE ReceiptInv'
  BY <1>4, <1>0 DEF GuestExits, row, process, history
<1>5. ASSUME Crash PROVE ReceiptInv'
  BY <1>5, <1>0 DEF Crash, row
<1>6. ASSUME OrphanEnds PROVE ReceiptInv'
  BY <1>6, <1>0 DEF OrphanEnds, row, process, history, NoCommand
<1> QED BY <1>1, <1>2, <1>3, <1>4, <1>5, <1>6

LEMMA ReceiptTask ==
  ASSUME TypeOK, FenceInv, ReceiptInv, NEW t \in Tasks, ClientClaim(t) \/ TaskStep(t)
  PROVE  ReceiptInv'
<1> USE DEF TypeOK, FenceInv, ReceiptInv, NeverRepeated, OnRequest, Storing, Busy
<1>0. /\ pending \in Pending /\ minted \in Nat /\ revision \in Nat /\ done \in SUBSET Request
      /\ pending.req.rev \in Nat /\ \A r \in done : r.rev \in Nat
  BY DEF Pending, Request
<1>1. ASSUME ClientClaim(t) PROVE ReceiptInv'
  BY <1>1, <1>0 DEF ClientClaim, Claim, MayClaim, Mutex, row, host, history
<1>2. ASSUME Inspect(t) PROVE ReceiptInv'
  BY <1>2, <1>0 DEF Inspect, row, history
<1>3. ASSUME InspectFails(t) PROVE ReceiptInv'
  BY <1>3, <1>0 DEF InspectFails, row, host
<1>4. ASSUME Admit(t) PROVE ReceiptInv'
  <2>1. ASSUME UNCHANGED <<pending, minted, revision>>, Busy PROVE ReceiptInv'
    BY <1>4, <1>0, <2>1 DEF Admit, host
  <2>2. ASSUME ~Busy, Proceeds(work[t].req), Admission(work[t].req, work[t]) PROVE ReceiptInv'
    <3>1. pending'.req.rev = revision /\ revision' = minted + 1 /\ minted' = minted + 1
      BY <2>2 DEF Proceeds, Admission
    <3>2. pending'.req \notin done /\ state # "Absent"
      BY <1>4, <1>0, <3>1 DEF Admit
    <3>3. UNCHANGED <<state, done>>
      BY <1>4, Zenon DEF Admit
    <3>4. \A u \in Tasks : Storing(u)' => u = t /\ work'[u].seen.pending = pending'
      BY <1>4 DEF Admit
    <3> QED BY <1>0, <3>1, <3>2, <3>3, <3>4
  <2> QED BY <1>4, <2>1, <2>2, Zenon DEF Admit
<1>5. ASSUME AdmitRefused(t) PROVE ReceiptInv'
  BY <1>5, <1>0 DEF AdmitRefused, row, history
<1>6. ASSUME TakeSnapshot(t) PROVE ReceiptInv'
  BY <1>6, <1>0 DEF TakeSnapshot, Doing, Settle, OutsideWork, row, history
<1>7. ASSUME RollBack(t) PROVE ReceiptInv'
  BY <1>7, <1>0 DEF RollBack, Doing, Settle, OutsideWork, row, history
<1>8. ASSUME CloneFile(t) PROVE ReceiptInv'
  BY <1>8, <1>0 DEF CloneFile, OutsideWork, row, history
<1>9. ASSUME WriteManifest(t) PROVE ReceiptInv'
  BY <1>9, <1>0 DEF WriteManifest, Settle, OutsideWork, row, history
<1>10. ASSUME ResumeFile(t) PROVE ReceiptInv'
  BY <1>10, <1>0 DEF ResumeFile, Settle, OutsideWork, row, history
<1>11. ASSUME RenameStage(t) PROVE ReceiptInv'
  BY <1>11, <1>0 DEF RenameStage, Settle, OutsideWork, row, history
<1>12. ASSUME RemoveNext(t) PROVE ReceiptInv'
  <2>1. \A u \in Tasks : work'[u].seen = work[u].seen
    BY <1>12 DEF RemoveNext, Settle, Work
  <2>2. \A u \in Tasks : Storing(u)' => Storing(u)
    BY <1>12 DEF RemoveNext, Doing, Settle
  <2>3. UNCHANGED <<row, done, minted>>
    BY <1>12, Zenon DEF RemoveNext, OutsideWork, history
  <2> QED BY <2>1, <2>2, <2>3, <1>0 DEF row
<1>13. ASSUME WorkFails(t) PROVE ReceiptInv'
  BY <1>13, <1>0 DEF WorkFails, Settle, OutsideWork, row
<1>14. ASSUME Finish(t) PROVE ReceiptInv'
  BY <1>14, <1>0 DEF Finish, Mutex, NoPending, NoGeneration, host, Abandoned, Publish, Restored,
       Deleted
<1>15. ASSUME Release(t) PROVE ReceiptInv'
  BY <1>15, <1>0 DEF Release, row, host, history
<1>16. ASSUME LockCleanup(t) PROVE ReceiptInv'
  BY <1>16, <1>0 DEF LockCleanup, OutsideWork, row, history
<1>17. ASSUME CleanupBlocked(t) PROVE ReceiptInv'
  BY <1>17, <1>0 DEF CleanupBlocked, OutsideWork, row
<1>18. ASSUME CleanedAll(t) PROVE ReceiptInv'
  BY <1>18, <1>0 DEF CleanedAll, OutsideWork, row, history
<1>19. ASSUME FinishCleanup(t) PROVE ReceiptInv'
  BY <1>19, <1>0 DEF FinishCleanup, host, history
<1>20. ASSUME NEW i \in Slots, DropNewer(t, i) PROVE ReceiptInv'
  BY <1>20, <1>0 DEF DropNewer, Doing, OutsideWork, row, history
<1>21. ASSUME NEW i \in Slots, CleanOne(t, i) PROVE ReceiptInv'
  BY <1>21, <1>0 DEF CleanOne, OutsideWork, row
<1> QED BY <1>1, <1>2, <1>3, <1>4, <1>5, <1>6, <1>7, <1>8, <1>9, <1>10, <1>11, <1>12,
       <1>13, <1>14, <1>15, <1>16, <1>17, <1>18, <1>19, <1>20, <1>21 DEF TaskStep

LEMMA ReceiptNext == ASSUME TypeOK, FenceInv, ReceiptInv, [Next]_vars PROVE ReceiptInv'
<1>1. CASE UNCHANGED vars
  BY <1>1 DEF ReceiptInv, NeverRepeated, Storing, Busy, vars, row, process, history
<1>2. CASE Next
  BY <1>2, ReceiptLifecycle, ReceiptHostStep, ReceiptReconcile, ReceiptWorld, ReceiptTask,
     Zenon DEF Next
<1> QED BY <1>1, <1>2

(***************************************************************************)
(* However often and however late a request is sent again, an operation    *)
(* with a receipt is never accepted a second time: not by this VM, nor by  *)
(* a VM created later under the same id.                                   *)
(***************************************************************************)
THEOREM ReceiptsFinal == Spec => []NeverRepeated
<1>1. Init => TypeOK /\ FenceInv /\ ReceiptInv
  BY TypeInit, FenceInit, ReceiptInit
<1>2. TypeOK /\ FenceInv /\ ReceiptInv /\ [Next]_vars => (TypeOK /\ FenceInv /\ ReceiptInv)'
  BY TypeNext, FenceNext, ReceiptNext
<1>3. ReceiptInv => NeverRepeated
  BY DEF ReceiptInv
<1> QED BY <1>1, <1>2, <1>3, PTL DEF Spec
=============================================================================
