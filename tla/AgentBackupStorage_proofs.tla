---------------------- MODULE AgentBackupStorage_proofs ---------------------
(***************************************************************************)
(* Backups and storage, proved: StorageInv is inductive on top of          *)
(* FenceInv, and with it hold that nothing is stranded on storage, that a  *)
(* published backup stays whole, that the record, the disk and the backup  *)
(* agree on capacity, that a rollback can always go through, and what the  *)
(* receipt of a create and of a restore promises.  The proof has one lemma *)
(* per part of StorageInv and per group of actions.  Last comes the account*)
(* of disk space, with AccountInv on top of these.                         *)
(***************************************************************************)
EXTENDS AgentBackup_proofs, Sums_proofs

(***************************************************************************)
(* What a step may do to the host.  A storage command of a task, of a      *)
(* deletion, of a crashed agent or of the child it left removes artifacts  *)
(* it may remove, takes the snapshot of a create, or rolls the disk back   *)
(* for a restore.                                                          *)
(***************************************************************************)
\* A step that removes, wholly or in part, artifacts with one of the ids.
Removes(ids) ==
  /\ disk' = disk
  /\ \A i \in Present' :
       i \in Present /\ store'[i].data = store[i].data /\ store'[i].size = store[i].size
  /\ \A i \in Slots \ ids : store'[i] = store[i]
  /\ Backend = "zvol" => \A i \in Present' : store'[i].ready = store[i].ready

\* A step that takes the snapshot of a create, or finds it taken.
Captures ==
  /\ Backend = "zvol" /\ Creates /\ disk' = disk
  /\ \/ store' = store
     \/ store' = [store EXCEPT ![pending.art.id] = Copy(disk, TRUE)]

\* A step that rolls the disk back for a restore, or is refused.
Rewinds ==
  /\ Backend = "zvol" /\ Restores /\ store' = store
  /\ \/ disk' = disk
     \/ /\ current.id \in Present
        /\ disk' = [disk EXCEPT !.data = store[current.id].data, !.size = store[current.id].size]

Effect ==
  \/ Removes(Ids(retired))
  \/ (Deletes \/ state = "Deleting") /\ Removes(Referenced)
  \/ Captures
  \/ Rewinds

LEMMA RemovalEffect ==
  ASSUME TypeOK, NEW ids, NEW c \in Removals(ids) \union {NoCommand}, Apply(c)
  PROVE  Removes(ids)
<1> USE DEF TypeOK, Apply, Present, Artifact, Removals, NoCommand, Destroy, Spoil, Removes
<1>1. CASE c.kind = "destroy"
  BY <1>1 DEF NoArtifact
<1>2. CASE c.kind = "spoil"
  BY <1>2, BackendAssumption
<1>3. CASE c.kind = "none"
  BY <1>3
<1> QED BY <1>1, <1>2, <1>3

LEMMA DestroyEffect ==
  ASSUME TypeOK, NEW i \in Nat, Apply(Destroy(i))
  PROVE  /\ Removes({i}) /\ i \notin Present'
         /\ \A j \in Present : j = i \/ j \in Present'
BY DEF TypeOK, Apply, Present, Artifact, Destroy, NoArtifact, Removes

LEMMA RemovesMore ==
  ASSUME NEW ids, NEW more, ids \subseteq more, Removes(ids)
  PROVE  Removes(more)
BY DEF Removes

LEMMA NothingRemoved ==
  ASSUME TypeOK, NEW ids, UNCHANGED <<disk, store>>
  PROVE  Removes(ids)
BY DEF Removes, Present

LEMMA CommandKinds ==
  ASSUME TypeOK, FenceInv, StorageInv, NEW t \in Tasks, NEW c \in Commands(t)
  PROVE  \/ c \in Removals(Ids(retired))
         \/ Deletes /\ c \in Removals(Ids(retired \union {current}))
         \/ Backend = "zvol" /\ Creates /\ c = Snapshot(pending.art.id)
         \/ Backend = "zvol" /\ Restores /\ c = Rollback(current.id)
<1> DEFINE act == work[t].seen.pending.req.action
<1>1. pc[t] \in {"working", "cleaning"}
  BY Zenon DEF Commands
<1>2. /\ work[t].seen.current = current /\ work[t].seen.retired = retired
      /\ work[t].seen.pending = pending
  BY <1>1 DEF StorageInv, SeenInv, Admitted, Storing, CleansUp
<1>3. CASE pc[t] = "cleaning"
  <2>1. c \in Removals(work[t].todo) /\ work[t].todo \subseteq Ids(retired)
    BY <1>3 DEF Commands, StorageInv, SeenInv
  <2> QED BY <2>1 DEF Removals
<1>4. CASE pc[t] = "working" /\ act = "delete"
  <2>1. Busy
    BY <1>4 DEF FenceInv, Storing
  <2>2. Deletes /\ work[t].todo \subseteq Ids(retired \union {current})
    BY <1>2, <1>4, <2>1 DEF StorageInv, SeenInv, Deletes, Admitted, Storing
  <2>3. c \in Removals(work[t].todo)
    BY <1>4 DEF Commands
  <2> QED BY <2>2, <2>3 DEF Removals
<1>5. CASE pc[t] = "working" /\ act # "delete"
  <2>1. Busy
    BY <1>5 DEF FenceInv, Storing
  <2>2. CASE Backend = "zvol" /\ act = "create"
    <3>1. c = Snapshot(pending.art.id)
      BY <1>2, <1>5, <2>2 DEF Commands
    <3> QED BY <1>2, <2>1, <2>2, <3>1 DEF Creates
  <2>3. CASE Backend = "zvol" /\ act = "restore"
    <3>1. c \in IF Newer(current.id) = {} THEN {Rollback(current.id)}
                ELSE Removals(Newer(current.id) \intersect Ids(retired))
      BY <1>2, <1>5, <2>3 DEF Commands
    <3>2. Removals(Newer(current.id) \intersect Ids(retired)) \subseteq Removals(Ids(retired))
      BY DEF Removals
    <3> QED BY <1>2, <2>1, <2>3, <3>1, <3>2 DEF Restores
  <2>4. CASE ~(Backend = "zvol" /\ act \in {"create", "restore"})
    BY <1>5, <2>4 DEF Commands
  <2> QED BY <2>2, <2>3, <2>4
<1> QED BY <1>1, <1>3, <1>4, <1>5

LEMMA CommandEffect ==
  ASSUME TypeOK, FenceInv, StorageInv, NEW c, Apply(c),
         \/ c \in Removals(Ids(retired))
         \/ (Deletes \/ state = "Deleting") /\ c \in Removals(Referenced)
         \/ Backend = "zvol" /\ Creates /\ c = Snapshot(pending.art.id)
         \/ Backend = "zvol" /\ Restores /\ c = Rollback(current.id)
         \/ c = NoCommand
  PROVE  Effect
<1>1. CASE c \in Removals(Ids(retired)) \/ c = NoCommand
  BY <1>1, RemovalEffect DEF Effect
<1>2. CASE (Deletes \/ state = "Deleting") /\ c \in Removals(Referenced)
  BY <1>2, RemovalEffect DEF Effect
<1>3. CASE Backend = "zvol" /\ Creates /\ c = Snapshot(pending.art.id)
  BY <1>3 DEF Apply, Snapshot, Effect, Captures
<1>4. CASE Backend = "zvol" /\ Restores /\ c = Rollback(current.id)
  BY <1>4 DEF Apply, Rollback, Effect, Rewinds
<1> QED BY <1>1, <1>2, <1>3, <1>4

LEMMA DeletedReferenced == Removals(Ids(retired \union {current})) \subseteq Removals(Referenced)
BY DEF Removals, Referenced, Ids

LEMMA TaskEffect ==
  ASSUME TypeOK, FenceInv, StorageInv, NEW t \in Tasks,
         \/ TakeSnapshot(t) \/ RollBack(t) \/ RemoveNext(t) \/ WorkFails(t)
         \/ \E i \in Slots : DropNewer(t, i) \/ CleanOne(t, i)
  PROVE  Effect
<1>0. (Admitted(t) \/ CleansUp(t)) =>
        /\ work[t].seen.current = current /\ work[t].seen.retired = retired
        /\ work[t].seen.pending = pending
  BY DEF StorageInv, SeenInv
<1>1. CASE TakeSnapshot(t)
  <2>1. Creates /\ Backend = "zvol" /\ Apply(Snapshot(pending.art.id))
    BY <1>0, <1>1 DEF TakeSnapshot, Doing, Admitted, Storing, Creates, FenceInv
  <2> QED BY <2>1, CommandEffect
<1>2. CASE RollBack(t)
  <2>1. Restores /\ Backend = "zvol" /\ Apply(Rollback(current.id))
    BY <1>0, <1>2 DEF RollBack, Doing, Admitted, Storing, Restores, FenceInv
  <2> QED BY <2>1, CommandEffect
<1>3. CASE RemoveNext(t)
  <2>1. Deletes /\ work[t].todo \subseteq Ids(retired \union {current})
    BY <1>0, <1>3
       DEF RemoveNext, Doing, Admitted, Storing, Deletes, FenceInv, StorageInv, SeenInv
  <2>2. CASE UNCHANGED <<disk, store>>
    BY <2>2, NothingRemoved DEF Effect
  <2>3. ASSUME NEW i \in work[t].todo, Apply(Destroy(i)) PROVE Effect
    <3>1. i \in Referenced /\ i \in Nat
      BY <2>1 DEF Referenced, Ids, TypeOK, Generation
    <3> QED BY <2>1, <2>3, <3>1, DestroyEffect, RemovesMore DEF Effect
  <2> QED BY <1>3, <2>2, <2>3 DEF RemoveNext
<1>4. CASE WorkFails(t)
  <2>1. CASE UNCHANGED <<disk, store>>
    BY <2>1, NothingRemoved DEF Effect
  <2>2. ASSUME NEW c \in Commands(t) \union {NoCommand}, Apply(c) PROVE Effect
    BY <2>2, CommandKinds, CommandEffect, DeletedReferenced
  <2> QED BY <1>4, <2>1, <2>2 DEF WorkFails
<1>5. ASSUME NEW i \in Slots, DropNewer(t, i) PROVE Effect
  <2>1. i \in Ids(retired) /\ Apply(Destroy(i))
    BY <1>0, <1>5 DEF DropNewer, Doing, Admitted, Storing
  <2>2. Removes({i})
    BY <2>1, SlotIds, DestroyEffect
  <2> QED BY <2>1, <2>2, RemovesMore DEF Effect
<1>6. ASSUME NEW i \in Slots, CleanOne(t, i) PROVE Effect
  <2>1. i \in Ids(retired)
    BY <1>6 DEF CleanOne, StorageInv, SeenInv
  <2>2. CASE Apply(Destroy(i))
    <3>1. Removes({i})
      BY <2>2, SlotIds, DestroyEffect
    <3> QED BY <2>1, <3>1, RemovesMore DEF Effect
  <2>3. ASSUME NEW c \in Removals({i}) \union {NoCommand}, Apply(c) PROVE Effect
    BY <2>1, <2>3, RemovalEffect, RemovesMore DEF Effect
  <2> QED BY <1>6, <2>2, <2>3 DEF CleanOne
<1> QED BY <1>1, <1>2, <1>3, <1>4, <1>5, <1>6

LEMMA HostEffect ==
  ASSUME TypeOK, FenceInv, StorageInv, RemoveBackups \/ Crash \/ OrphanEnds
  PROVE  Effect
<1>1. CASE UNCHANGED <<disk, store>>
  BY <1>1, NothingRemoved DEF Effect
<1>2. CASE RemoveBackups
  <2>0. state = "Deleting"
    BY <1>2 DEF RemoveBackups, StorageInv, RecordInv, Erasing
  <2>1. ASSUME NEW i \in Referenced \intersect Present, Apply(Destroy(i)) PROVE Effect
    BY <2>0, <2>1, SlotIds, DestroyEffect, RemovesMore DEF Effect
  <2>2. ASSUME NEW c \in Removals(Referenced) \union {NoCommand}, Apply(c) PROVE Effect
    BY <2>0, <2>2, CommandEffect
  <2> QED BY <1>1, <1>2, <2>1, <2>2 DEF RemoveBackups
<1>3. CASE Crash
  <2>1. ASSUME NEW c \in InFlight \union {NoCommand}, Apply(c) PROVE Effect
    <3>1. op = "removing" => state = "Deleting"
      BY DEF StorageInv, RecordInv, Erasing
    <3>2. CASE \E t \in Tasks : c \in Commands(t)
      BY <2>1, <3>2, CommandKinds, CommandEffect, DeletedReferenced
    <3>3. CASE (op = "removing" /\ c \in Removals(Referenced)) \/ c = NoCommand
      BY <2>1, <3>1, <3>3, CommandEffect
    <3> QED BY <2>1, <3>2, <3>3 DEF InFlight
  <2> QED BY <1>1, <1>3, <2>1 DEF Crash
<1>4. CASE OrphanEnds
  <2> SUFFICES ASSUME Apply(orphan) PROVE Effect
    BY <1>1, <1>4 DEF OrphanEnds
  <2>0. orphan \in Command
    BY DEF TypeOK
  <2>1. CASE orphan.kind = "snapshot"
    BY <2>0, <2>1, CommandEffect DEF StorageInv, OrphanInv, Command, Snapshot
  <2>2. CASE orphan.kind = "rollback"
    BY <2>0, <2>2, CommandEffect DEF StorageInv, OrphanInv, Command, Rollback
  <2>3. CASE orphan.kind = "destroy"
    <3>1. orphan = Destroy(orphan.id) /\ orphan.id \in Nat
      BY <2>0, <2>3 DEF Command, Destroy
    <3>2. Removes({orphan.id})
      BY <3>1, DestroyEffect
    <3> QED BY <2>3, <3>2, RemovesMore DEF StorageInv, OrphanInv, Effect
  <2>4. CASE orphan.kind = "none"
    BY <2>4, <1>1 DEF Apply
  <2> QED BY <2>0, <2>1, <2>2, <2>3, <2>4 DEF Command, StorageInv, OrphanInv
<1> QED BY <1>2, <1>3, <1>4

LEMMA InodeKept ==
  ASSUME TypeOK, Effect
  PROVE  disk' \in Disk /\ disk'.ino = disk.ino
<1>1. store \in [Slots -> Artifact] /\ disk \in Disk
  BY DEF TypeOK
<1>2. CASE Rewinds
  BY <1>1, <1>2 DEF Rewinds, Disk, Artifact, Present
<1> QED BY <1>1, <1>2 DEF Effect, Removes, Captures

LEMMA RemoveNextWork ==
  ASSUME TypeOK, NEW t \in Tasks, RemoveNext(t)
  PROVE  /\ pc'[t] \in {"working", "done"}
         /\ work'[t].seen = work[t].seen /\ work'[t].req = work[t].req
         /\ work'[t].gone = work[t].gone /\ work'[t].todo \subseteq work[t].todo
         /\ pc'[t] = "done" => work'[t].todo = {}
         /\ \A u \in Tasks : u # t => pc'[u] = pc[u] /\ work'[u] = work[u]
<1>0. pc[t] = "working" /\ t \in DOMAIN pc /\ t \in DOMAIN work /\ work[t] \in Work
      /\ pc = [u \in Tasks |-> pc[u]] /\ work = [u \in Tasks |-> work[u]]
  BY DEF RemoveNext, Doing, TypeOK
<1>1. CASE work[t].todo = {}
  <2>1. pc' = [pc EXCEPT ![t] = "done"] /\ work' = [work EXCEPT ![t].ok = TRUE]
    BY <1>1 DEF RemoveNext, Settle
  <2> QED BY <1>0, <1>1, <2>1 DEF Work
<1>2. CASE work[t].todo # {}
  <2>1. PICK i \in work[t].todo : work' = [work EXCEPT ![t].todo = @ \ {i}]
    BY <1>2 DEF RemoveNext
  <2>2. pc' = pc
    BY <1>2 DEF RemoveNext
  <2> QED BY <1>0, <2>1, <2>2 DEF Work
<1> QED BY <1>1, <1>2

LEMMA FileStepWork ==
  ASSUME TypeOK, NEW t \in Tasks, WriteManifest(t) \/ ResumeFile(t)
  PROVE  /\ pc[t] \in {"working", "copied"} /\ pc'[t] \in {"staged", "done"}
         /\ work'[t].seen = work[t].seen /\ work'[t].req = work[t].req
         /\ work'[t].gone = work[t].gone /\ work'[t].todo = work[t].todo
         /\ \A u \in Tasks : u # t => pc'[u] = pc[u] /\ work'[u] = work[u]
<1>0. /\ t \in DOMAIN pc /\ t \in DOMAIN work /\ work[t] \in Work
      /\ pc = [u \in Tasks |-> pc[u]] /\ work = [u \in Tasks |-> work[u]]
  BY DEF TypeOK
<1>1. pc[t] \in {"working", "copied"}
  BY DEF WriteManifest, ResumeFile
<1>2. CASE Settle(t, TRUE)
  BY <1>0, <1>1, <1>2 DEF Settle, Work
<1>3. CASE pc' = [pc EXCEPT ![t] = "staged"] /\ UNCHANGED work
  BY <1>0, <1>1, <1>3
<1> QED BY <1>2, <1>3 DEF WriteManifest, ResumeFile

LEMMA SeenRecord ==
  ASSUME StorageInv, NEW t \in Tasks, Admitted(t)
  PROVE  /\ work[t].seen.current = current /\ work[t].seen.retired = retired
         /\ work[t].seen.pending = pending
BY DEF StorageInv, SeenInv

LEMMA FileStepStore ==
  ASSUME TypeOK, NEW t \in Tasks, WriteManifest(t) \/ RenameStage(t)
  PROVE  \A i \in Slots : /\ store'[i].data = store[i].data /\ store'[i].at = store[i].at
                          /\ i # work[t].seen.pending.art.id => store'[i] = store[i]
                          /\ WriteManifest(t) => store'[i].size = store[i].size
<1>0. store \in [Slots -> Artifact]
  BY DEF TypeOK
<1>1. CASE WriteManifest(t)
  <2>1. store' = [store EXCEPT ![work[t].seen.pending.art.id].ready = TRUE]
    BY <1>1 DEF WriteManifest
  <2> QED BY <1>0, <2>1 DEF Artifact
<1>2. CASE ~WriteManifest(t)
  <2>1. store' = [store EXCEPT ![work[t].seen.pending.art.id].size = 0]
    BY <1>2 DEF RenameStage
  <2> QED BY <1>0, <1>2, <2>1 DEF Artifact
<1> QED BY <1>1, <1>2

LEMMA RenameStageWork ==
  ASSUME TypeOK, NEW t \in Tasks, RenameStage(t)
  PROVE  /\ pc[t] = "staged" /\ pc'[t] = "done" /\ Admitted(t)
         /\ work'[t].seen = work[t].seen /\ work'[t].req = work[t].req
         /\ work'[t].gone = work[t].gone /\ work'[t].todo = work[t].todo
         /\ \A u \in Tasks : u # t => pc'[u] = pc[u] /\ work'[u] = work[u]
         /\ UNCHANGED <<row, orphan, vmm, op>>
<1>0. /\ t \in DOMAIN pc /\ t \in DOMAIN work /\ work[t] \in Work
      /\ pc = [u \in Tasks |-> pc[u]] /\ work = [u \in Tasks |-> work[u]]
  BY DEF TypeOK
<1>1. /\ pc[t] = "staged" /\ pc' = [pc EXCEPT ![t] = "done"]
      /\ work' = [work EXCEPT ![t].ok = TRUE] /\ UNCHANGED <<row, orphan, vmm, op>>
  BY Zenon DEF RenameStage, Settle, OutsideWork
<1> QED BY <1>0, <1>1 DEF Work, Admitted, Storing

LEMMA ResumeStages ==
  ASSUME TypeOK, NEW t \in Tasks, ResumeFile(t), pc'[t] = "staged"
  PROVE  LET s == work[t].seen IN
         /\ s.pending.req.action = "restore" /\ HasManifest(s.pending.art.id)
         /\ disk.ino # s.pending.art.id
BY DEF ResumeFile, TypeOK, Settle

LEMMA FinishCases ==
  ASSUME TypeOK, FenceInv, StorageInv, NEW t \in Tasks, Finish(t)
  PROVE  /\ pc[t] = "done" /\ Busy /\ work[t].req = pending.req
         /\ \/ UNCHANGED <<current, retired, pending, receipt>>
            \/ /\ pending' = NoPending /\ receipt' = [req |-> pending.req, ok |-> work[t].ok]
               /\ \/ ~work[t].ok /\ Creates /\ Abandoned(pending)
                  \/ Succeeded(t) /\ Creates /\ Publish(pending)
                  \/ Succeeded(t) /\ Restores /\ Restored(pending, work[t].gone)
                  \/ Succeeded(t) /\ Deletes /\ Deleted
<1>1. pc[t] = "done" /\ Busy /\ work[t].req = pending.req
  BY DEF Finish, FenceInv, StorageInv, SeenInv, Admitted
<1>2. pending.req.action \in {"create", "restore", "delete"}
  BY <1>1 DEF StorageInv, RequestInv, Actions
<1>3. CASE work[t].ok \/ work[t].req.action = "create"
  BY <1>1, <1>3 DEF Finish, Creates, Restores, Deletes, Succeeded
<1>4. CASE ~(work[t].ok \/ work[t].req.action = "create")
  BY <1>1, <1>4, Zenon DEF Finish
<1> QED BY <1>1, <1>3, <1>4

LEMMA CloneEffect ==
  ASSUME TypeOK, NEW t, CloneFile(t), work[t].seen.pending = pending,
         work[t].seen.current = current
  PROVE  store' = [store EXCEPT ![pending.art.id] =
                     Copy(IF pending.req.action = "restore" THEN store[current.id] ELSE disk, FALSE)]
BY DEF CloneFile

LEMMA ResumeEffect ==
  ASSUME NEW t, ResumeFile(t), work[t].seen.pending = pending
  PROVE  HasManifest(pending.art.id) /\ UNCHANGED <<disk, store>>
BY DEF ResumeFile

LEMMA CloneElsewhere ==
  ASSUME TypeOK, NEW t, CloneFile(t)
  PROVE  \A i \in Slots : i # work[t].seen.pending.art.id => store'[i] = store[i]
<1>1. \E x : store' = [store EXCEPT ![work[t].seen.pending.art.id] = x]
  BY Zenon DEF CloneFile
<1> QED BY <1>1 DEF TypeOK

LEMMA CleanOneWork ==
  ASSUME TypeOK, NEW t \in Tasks, NEW i \in Slots, CleanOne(t, i)
  PROVE  /\ work'[t].seen = work[t].seen /\ work'[t].req = work[t].req
         /\ work'[t].gone \subseteq work[t].gone \union {i}
         /\ work'[t].todo \subseteq work[t].todo /\ i \in work[t].todo
BY DEF CleanOne, TypeOK, Work

(***************************************************************************)
(* Whatever is asked for or under way is one of the three actions.         *)
(***************************************************************************)
LEMMA RequestLifecycle ==
  ASSUME TypeOK, FenceInv, StorageInv, Lifecycle
  PROVE  RequestInv'
<1> USE DEF TypeOK, FenceInv, StorageInv, OnRequest, Locking, Storing, Busy, RequestInv, SeenInv,
    RecordInv, Admitted
<1>1. ASSUME CreateVm PROVE RequestInv'
  BY <1>1 DEF CreateVm, Mutex, host, OutsideHost
<1>2. ASSUME StartVm PROVE RequestInv'
  BY <1>2 DEF StartVm, Guarded, Mutex, BackupFields, host, OutsideHost
<1>3. ASSUME StopVm PROVE RequestInv'
  BY <1>3 DEF StopVm, Guarded, Mutex, row, OutsideHost
<1>4. ASSUME DestroyVm PROVE RequestInv'
  BY <1>4 DEF DestroyVm, Mutex, BackupFields, host, OutsideHost
<1>5. ASSUME NEW s \in Sizes, ResizeVm(s) PROVE RequestInv'
  BY <1>5 DEF ResizeVm, Guarded, Mutex, BackupFields, host, OutsideHost
<1> QED BY <1>1, <1>2, <1>3, <1>4, <1>5 DEF Lifecycle

LEMMA RequestHostStep ==
  ASSUME TypeOK, FenceInv, StorageInv, HostStep
  PROVE  RequestInv'
<1> USE DEF TypeOK, FenceInv, StorageInv, OnRequest, Locking, Storing, Busy, RequestInv, SeenInv,
    RecordInv, Admitted
<1>1. ASSUME CloneImage PROVE RequestInv'
  BY <1>1 DEF CloneImage, row, OutsideHost
<1>2. ASSUME BootVmm PROVE RequestInv'
  BY <1>2 DEF BootVmm, row, OutsideHost
<1>3. ASSUME BootEnds PROVE RequestInv'
  BY <1>3 DEF BootEnds, BackupFields, host, OutsideHost
<1>4. ASSUME StopEnds PROVE RequestInv'
  BY <1>4 DEF StopEnds, BackupFields, host, OutsideHost
<1>5. ASSUME GrowDisk PROVE RequestInv'
  BY <1>5 DEF GrowDisk, row, OutsideHost
<1>6. ASSUME ResizeEnds PROVE RequestInv'
  BY <1>6 DEF ResizeEnds, BackupFields, host, OutsideHost
<1>7. ASSUME DestroyStops PROVE RequestInv'
  BY <1>7 DEF DestroyStops, row, OutsideHost
<1>8. ASSUME LockBackups PROVE RequestInv'
  BY <1>8 DEF LockBackups, row, OutsideHost, HasArtifacts
<1>9. ASSUME RemoveBackups PROVE RequestInv'
  BY <1>9, HostEffect, InodeKept DEF RemoveBackups, OutsideHost, NoPending, NoGeneration
<1>10. ASSUME EraseDisk PROVE RequestInv'
  BY <1>10 DEF EraseDisk, row, OutsideHost, NoDisk
<1>11. ASSUME DeleteRow PROVE RequestInv'
  BY <1>11 DEF DeleteRow, host, OutsideHost, NoPending, NoGeneration
<1> QED BY <1>1, <1>2, <1>3, <1>4, <1>5, <1>6, <1>7, <1>8, <1>9, <1>10, <1>11 DEF HostStep

LEMMA RequestReconcile ==
  ASSUME TypeOK, FenceInv, StorageInv, Reconcile
  PROVE  RequestInv'
<1> USE DEF TypeOK, FenceInv, StorageInv, OnRequest, Locking, Storing, Busy, RequestInv, SeenInv,
    RecordInv, Admitted
<1>1. ASSUME ScanRecord PROVE RequestInv'
  <2>1. scan' = NoScan \/ scan'.req = pending.req
    BY <1>1 DEF ScanRecord
  <2>2. ~Busy => pending.req = NoRequest
    BY DEF NoPending
  <2> QED BY <1>1, <2>1, <2>2 DEF ScanRecord, row, host, history, NoScan
<1>2. ASSUME ReconcileVm PROVE RequestInv'
  BY <1>2 DEF ReconcileVm, BackupFields, host, Mutex, ResumeDeletion, ObservedState
<1>3. ASSUME ReconcileClaim PROVE RequestInv'
  <2>1. scan'.req = NoRequest /\ UNCHANGED <<row, issued>>
    BY <1>3 DEF ReconcileClaim, NoScan, Claim, ClaimCleanup, history
  <2>2. CASE scan.req # NoRequest /\ Claim(Reconciler, scan.req)
    BY <2>1, <2>2 DEF Claim, row
  <2>3. CASE ClaimCleanup(Reconciler)
    BY <2>1, <2>3 DEF ClaimCleanup, row
  <2> QED BY <1>3, <2>2, <2>3 DEF ReconcileClaim
<1>4. ASSUME ReconcileSkip PROVE RequestInv'
  BY <1>4 DEF ReconcileSkip, row, host, history, NoScan
<1> QED BY <1>1, <1>2, <1>3, <1>4 DEF Reconcile

LEMMA RequestWorld ==
  ASSUME TypeOK, FenceInv, StorageInv,
         Issues \/ BackoffExpires \/ GuestWrites \/ GuestExits \/ Crash \/ OrphanEnds
  PROVE  RequestInv'
<1> USE DEF TypeOK, FenceInv, StorageInv, OnRequest, Locking, Storing, Busy, RequestInv, SeenInv,
    RecordInv, Admitted
<1>1. ASSUME Issues PROVE RequestInv'
  BY <1>1 DEF Issues, Issue, row, host, process
<1>2. ASSUME BackoffExpires PROVE RequestInv'
  BY <1>2 DEF BackoffExpires, host, process, history
<1>3. ASSUME GuestWrites PROVE RequestInv'
  BY <1>3 DEF GuestWrites, row, process
<1>4. ASSUME GuestExits PROVE RequestInv'
  BY <1>4 DEF GuestExits, row, process, history
<1>5. ASSUME Crash PROVE RequestInv'
  BY <1>5 DEF Crash, row, NoScan
<1>6. ASSUME OrphanEnds PROVE RequestInv'
  BY <1>6, HostEffect, InodeKept DEF OrphanEnds, row, process, history, NoCommand
<1> QED BY <1>1, <1>2, <1>3, <1>4, <1>5, <1>6

LEMMA RequestTask ==
  ASSUME TypeOK, FenceInv, StorageInv, NEW t \in Tasks, ClientClaim(t) \/ TaskStep(t)
  PROVE  RequestInv'
<1> USE DEF TypeOK, FenceInv, StorageInv, OnRequest, Locking, Storing, Busy, RequestInv, SeenInv,
    RecordInv, Admitted
<1>1. ASSUME ClientClaim(t) PROVE RequestInv'
  BY <1>1 DEF ClientClaim, Claim, MayClaim, Mutex, row, host, history
<1>2. ASSUME Inspect(t) PROVE RequestInv'
  BY <1>2 DEF Inspect, row, history
<1>3. ASSUME InspectFails(t) PROVE RequestInv'
  BY <1>3 DEF InspectFails, row, host
<1>4. ASSUME Admit(t) PROVE RequestInv'
  BY <1>4 DEF Admit, Mutex, Qualified, Admission, host
<1>5. ASSUME AdmitRefused(t) PROVE RequestInv'
  BY <1>5 DEF AdmitRefused, row, history
<1>6. ASSUME TakeSnapshot(t) PROVE RequestInv'
  BY <1>6, TaskEffect, InodeKept DEF TakeSnapshot, Doing, Settle, OutsideWork, row, history
<1>7. ASSUME RollBack(t) PROVE RequestInv'
  BY <1>7, TaskEffect, InodeKept DEF RollBack, Doing, Settle, OutsideWork, row, history
<1>8. ASSUME CloneFile(t) PROVE RequestInv'
  BY <1>8 DEF CloneFile, OutsideWork, row, history
<1>9. ASSUME WriteManifest(t) PROVE RequestInv'
  <2>1. \A u \in Tasks : OnRequest(u)' => OnRequest(u) /\ work'[u].req = work[u].req
    BY <1>9, FileStepWork
  <2> QED BY <1>9, <2>1 DEF WriteManifest, OutsideWork, row, history
<1>10. ASSUME ResumeFile(t) PROVE RequestInv'
  <2>1. \A u \in Tasks : OnRequest(u)' => OnRequest(u) /\ work'[u].req = work[u].req
    BY <1>10, FileStepWork
  <2> QED BY <1>10, <2>1 DEF ResumeFile, OutsideWork, row, history
<1>11. ASSUME RenameStage(t) PROVE RequestInv'
  BY <1>11 DEF RenameStage, Settle, OutsideWork, row, history
<1>12. ASSUME RemoveNext(t) PROVE RequestInv'
  <2>1. \A u \in Tasks : OnRequest(u)' => OnRequest(u) /\ work'[u].req = work[u].req
    BY <1>12, RemoveNextWork DEF RemoveNext, Settle, Doing
  <2> QED BY <1>12, <2>1 DEF RemoveNext, OutsideWork, row, history
<1>13. ASSUME WorkFails(t) PROVE RequestInv'
  BY <1>13, TaskEffect, InodeKept DEF WorkFails, Settle, OutsideWork, row
<1>14. ASSUME Finish(t) PROVE RequestInv'
  BY <1>14 DEF Finish, Mutex, NoPending, NoGeneration, host, Abandoned, Publish, Restored, Deleted
<1>15. ASSUME Release(t) PROVE RequestInv'
  BY <1>15 DEF Release, row, host, history
<1>16. ASSUME LockCleanup(t) PROVE RequestInv'
  BY <1>16 DEF LockCleanup, OutsideWork, row, history
<1>17. ASSUME CleanupBlocked(t) PROVE RequestInv'
  BY <1>17 DEF CleanupBlocked, OutsideWork, row
<1>18. ASSUME CleanedAll(t) PROVE RequestInv'
  BY <1>18 DEF CleanedAll, OutsideWork, row, history
<1>19. ASSUME FinishCleanup(t) PROVE RequestInv'
  BY <1>19 DEF FinishCleanup, host, history
<1>20. ASSUME NEW i \in Slots, DropNewer(t, i) PROVE RequestInv'
  BY <1>20, TaskEffect, InodeKept DEF DropNewer, Doing, OutsideWork, row, history
<1>21. ASSUME NEW i \in Slots, CleanOne(t, i) PROVE RequestInv'
  BY <1>21 DEF CleanOne, OutsideWork, row
<1> QED BY <1>1, <1>2, <1>3, <1>4, <1>5, <1>6, <1>7, <1>8, <1>9, <1>10, <1>11, <1>12, <1>13,
       <1>14, <1>15, <1>16, <1>17, <1>18, <1>19, <1>20, <1>21 DEF TaskStep

(***************************************************************************)
(* Ids are minted once and name one generation each.                       *)
(***************************************************************************)
LEMMA RecordLifecycle ==
  ASSUME TypeOK, FenceInv, StorageInv, Lifecycle
  PROVE  RecordInv'
<1> USE DEF TypeOK, FenceInv, StorageInv, OnRequest, Locking, Storing, Busy, Erasing, Generation,
    Pending, Disk, RecordInv
<1>1. ASSUME CreateVm PROVE RecordInv'
  <2>1. retired = {} /\ current.id = 0 /\ pending.art.id = 0 /\ disk.ino <= minted
    BY <1>1 DEF CreateVm
  <2>2. /\ minted' = minted + 1 /\ minted < MaxMinted /\ op' = "create" /\ state' = "Creating"
        /\ UNCHANGED <<current, pending, retired, disk>>
    BY <1>1 DEF CreateVm, BackupFields, host
  <2>3. minted \in Nat /\ disk.ino \in Nat /\ MaxMinted \in Nat
    BY BoundsAssumption
  <2> QED BY <2>1, <2>2, <2>3
<1>2. ASSUME StartVm PROVE RecordInv'
  BY <1>2 DEF StartVm, Guarded, Mutex, BackupFields, host, OutsideHost
<1>3. ASSUME StopVm PROVE RecordInv'
  BY <1>3 DEF StopVm, Guarded, Mutex, row, OutsideHost
<1>4. ASSUME DestroyVm PROVE RecordInv'
  BY <1>4 DEF DestroyVm, Mutex, BackupFields, host, OutsideHost
<1>5. ASSUME NEW s \in Sizes, ResizeVm(s) PROVE RecordInv'
  BY <1>5 DEF ResizeVm, Guarded, Mutex, BackupFields, host, OutsideHost
<1> QED BY <1>1, <1>2, <1>3, <1>4, <1>5 DEF Lifecycle

LEMMA RecordHostStep ==
  ASSUME TypeOK, FenceInv, StorageInv, HostStep
  PROVE  RecordInv'
<1> USE DEF TypeOK, FenceInv, StorageInv, OnRequest, Locking, Storing, Busy, Erasing, Generation,
    Pending, Disk, RecordInv
<1>1. ASSUME CloneImage PROVE RecordInv'
  BY <1>1 DEF CloneImage, row, OutsideHost
<1>2. ASSUME BootVmm PROVE RecordInv'
  BY <1>2 DEF BootVmm, row, OutsideHost
<1>3. ASSUME BootEnds PROVE RecordInv'
  BY <1>3 DEF BootEnds, BackupFields, host, OutsideHost
<1>4. ASSUME StopEnds PROVE RecordInv'
  BY <1>4 DEF StopEnds, BackupFields, host, OutsideHost
<1>5. ASSUME GrowDisk PROVE RecordInv'
  BY <1>5 DEF GrowDisk, row, OutsideHost
<1>6. ASSUME ResizeEnds PROVE RecordInv'
  BY <1>6 DEF ResizeEnds, BackupFields, host, OutsideHost
<1>7. ASSUME DestroyStops PROVE RecordInv'
  BY <1>7 DEF DestroyStops, row, OutsideHost
<1>8. ASSUME LockBackups PROVE RecordInv'
  BY <1>8 DEF LockBackups, row, OutsideHost, HasArtifacts
<1>9. ASSUME RemoveBackups PROVE RecordInv'
  BY <1>9, HostEffect, InodeKept DEF RemoveBackups, OutsideHost, NoPending, NoGeneration
<1>10. ASSUME EraseDisk PROVE RecordInv'
  BY <1>10 DEF EraseDisk, row, OutsideHost, NoDisk
<1>11. ASSUME DeleteRow PROVE RecordInv'
  BY <1>11 DEF DeleteRow, host, OutsideHost, NoPending, NoGeneration
<1> QED BY <1>1, <1>2, <1>3, <1>4, <1>5, <1>6, <1>7, <1>8, <1>9, <1>10, <1>11 DEF HostStep

LEMMA RecordReconcile ==
  ASSUME TypeOK, FenceInv, StorageInv, Reconcile
  PROVE  RecordInv'
<1> USE DEF TypeOK, FenceInv, StorageInv, OnRequest, Locking, Storing, Busy, Erasing, Generation,
    Pending, Disk, RecordInv
<1>1. ASSUME ScanRecord PROVE RecordInv'
  BY <1>1 DEF ScanRecord, row, host, history
<1>2. ASSUME ReconcileVm PROVE RecordInv'
  BY <1>2 DEF ReconcileVm, BackupFields, host, Mutex, ResumeDeletion, ObservedState
<1>3. ASSUME ReconcileClaim PROVE RecordInv'
  BY <1>3 DEF ReconcileClaim, Claim, MayClaim, ClaimCleanup, MayClean, Mutex, row, host, history
<1>4. ASSUME ReconcileSkip PROVE RecordInv'
  BY <1>4 DEF ReconcileSkip, row, host, history
<1> QED BY <1>1, <1>2, <1>3, <1>4 DEF Reconcile

LEMMA RecordWorld ==
  ASSUME TypeOK, FenceInv, StorageInv,
         Issues \/ BackoffExpires \/ GuestWrites \/ GuestExits \/ Crash \/ OrphanEnds
  PROVE  RecordInv'
<1> USE DEF TypeOK, FenceInv, StorageInv, OnRequest, Locking, Storing, Busy, Erasing, Generation,
    Pending, Disk, RecordInv
<1>1. ASSUME Issues PROVE RecordInv'
  BY <1>1 DEF Issues, Issue, row, host, process
<1>2. ASSUME BackoffExpires PROVE RecordInv'
  BY <1>2 DEF BackoffExpires, host, process, history
<1>3. ASSUME GuestWrites PROVE RecordInv'
  BY <1>3 DEF GuestWrites, row, process
<1>4. ASSUME GuestExits PROVE RecordInv'
  BY <1>4 DEF GuestExits, row, process, history
<1>5. ASSUME Crash PROVE RecordInv'
  BY <1>5, HostEffect, InodeKept DEF Crash, row
<1>6. ASSUME OrphanEnds PROVE RecordInv'
  BY <1>6, HostEffect, InodeKept DEF OrphanEnds, row, process, history, NoCommand
<1> QED BY <1>1, <1>2, <1>3, <1>4, <1>5, <1>6

LEMMA RecordTask ==
  ASSUME TypeOK, FenceInv, StorageInv, NEW t \in Tasks, ClientClaim(t) \/ TaskStep(t)
  PROVE  RecordInv'
<1> USE DEF TypeOK, FenceInv, StorageInv, OnRequest, Locking, Storing, Busy, Erasing, Generation,
    Pending, Disk, RecordInv
<1>1. ASSUME ClientClaim(t) PROVE RecordInv'
  BY <1>1 DEF ClientClaim, Claim, MayClaim, Mutex, row, host, history
<1>2. ASSUME Inspect(t) PROVE RecordInv'
  BY <1>2 DEF Inspect, row, history
<1>3. ASSUME InspectFails(t) PROVE RecordInv'
  BY <1>3 DEF InspectFails, row, host
<1>4. ASSUME Admit(t) PROVE RecordInv'
  <2>1. /\ UNCHANGED <<state, op, current, retired, disk>>
        /\ \/ UNCHANGED <<pending, minted>>
           \/ /\ ~Busy /\ minted' = minted + 1 /\ pending'.art.id = minted + 1
              /\ pending'.ino = work[t].ino
    BY <1>4 DEF Admit, Admission, host
  <2>2. /\ minted \in Nat /\ disk.ino \in Nat /\ MaxMinted \in Nat /\ current.id \in Nat
        /\ \A g \in retired : g.id \in Nat
    BY BoundsAssumption
  <2>3. (~Busy => minted < MaxMinted) /\ work[t].ino = disk.ino
    BY <1>4 DEF Admit, SeenInv
  <2> QED BY <2>1, <2>2, <2>3
<1>5. ASSUME AdmitRefused(t) PROVE RecordInv'
  BY <1>5 DEF AdmitRefused, row, history
<1>6. ASSUME TakeSnapshot(t) PROVE RecordInv'
  BY <1>6, TaskEffect, InodeKept DEF TakeSnapshot, Doing, Settle, OutsideWork, row, history
<1>7. ASSUME RollBack(t) PROVE RecordInv'
  BY <1>7, TaskEffect, InodeKept DEF RollBack, Doing, Settle, OutsideWork, row, history
<1>8. ASSUME CloneFile(t) PROVE RecordInv'
  BY <1>8 DEF CloneFile, OutsideWork, row, history
<1>9. ASSUME WriteManifest(t) PROVE RecordInv'
  BY <1>9 DEF WriteManifest, Settle, OutsideWork, row, history
<1>10. ASSUME ResumeFile(t) PROVE RecordInv'
  BY <1>10 DEF ResumeFile, Settle, OutsideWork, row, history
<1>11. ASSUME RenameStage(t) PROVE RecordInv'
  <2>1. disk'.ino <= minted
    BY <1>11 DEF RenameStage, SeenInv, Admitted
  <2> QED BY <1>11, <2>1 DEF RenameStage, OutsideWork, row, history
<1>12. ASSUME RemoveNext(t) PROVE RecordInv'
  BY <1>12, TaskEffect, InodeKept DEF RemoveNext, Doing, Settle, OutsideWork, row, history
<1>13. ASSUME WorkFails(t) PROVE RecordInv'
  BY <1>13, TaskEffect, InodeKept DEF WorkFails, Settle, OutsideWork, row
<1>14. ASSUME Finish(t) PROVE RecordInv'
  BY <1>14 DEF Finish, Mutex, NoPending, NoGeneration, host, Abandoned, Publish, Restored, Deleted
<1>15. ASSUME Release(t) PROVE RecordInv'
  BY <1>15 DEF Release, row, host, history
<1>16. ASSUME LockCleanup(t) PROVE RecordInv'
  BY <1>16 DEF LockCleanup, OutsideWork, row, history
<1>17. ASSUME CleanupBlocked(t) PROVE RecordInv'
  BY <1>17 DEF CleanupBlocked, OutsideWork, row
<1>18. ASSUME CleanedAll(t) PROVE RecordInv'
  BY <1>18 DEF CleanedAll, OutsideWork, row, history
<1>19. ASSUME FinishCleanup(t) PROVE RecordInv'
  BY <1>19 DEF FinishCleanup, host, history
<1>20. ASSUME NEW i \in Slots, DropNewer(t, i) PROVE RecordInv'
  BY <1>20, TaskEffect, InodeKept DEF DropNewer, Doing, OutsideWork, row, history
<1>21. ASSUME NEW i \in Slots, CleanOne(t, i) PROVE RecordInv'
  BY <1>21, TaskEffect, InodeKept DEF CleanOne, OutsideWork, row
<1> QED BY <1>1, <1>2, <1>3, <1>4, <1>5, <1>6, <1>7, <1>8, <1>9, <1>10, <1>11, <1>12, <1>13,
       <1>14, <1>15, <1>16, <1>17, <1>18, <1>19, <1>20, <1>21 DEF TaskStep

(***************************************************************************)
(* A task's copy of the record is the record.                              *)
(***************************************************************************)
LEMMA SeenClaim ==
  ASSUME TypeOK, FenceInv, StorageInv, NEW t \in Tasks, NEW r, Claim(t, r)
  PROVE  SeenInv'
<1>1. \A u \in Tasks : u # t => pc'[u] = "idle"
  BY DEF Claim, MayClaim, TypeOK, FenceInv
<1>2. pc'[t] = "claimed" /\ work'[t].gone = {} /\ UNCHANGED <<pending, minted>>
  BY DEF Claim, TypeOK, NoWork, row, history
<1>3. Busy \/ minted < MaxMinted
  BY DEF Claim, MayClaim
<1> QED BY <1>1, <1>2, <1>3 DEF SeenInv, Admitted, Storing, CleansUp, Busy

LEMMA SeenClaimCleanup ==
  ASSUME TypeOK, FenceInv, StorageInv, NEW t \in Tasks, ClaimCleanup(t)
  PROVE  SeenInv'
<1>1. \A u \in Tasks : u # t => pc'[u] = "idle"
  BY DEF ClaimCleanup, MayClean, TypeOK, FenceInv
<1>2. /\ pc'[t] = "cleanup" /\ work'[t].gone = {}
      /\ work'[t].seen = [current |-> current, retired |-> retired, pending |-> NoPending]
  BY DEF ClaimCleanup, TypeOK, NoWork
<1>3. UNCHANGED row /\ ~Busy /\ pending = NoPending
  BY DEF ClaimCleanup, MayClean, StorageInv, RecordInv
<1> QED BY <1>1, <1>2, <1>3 DEF SeenInv, Admitted, Storing, CleansUp, Busy, row

LEMMA SeenLifecycle ==
  ASSUME TypeOK, FenceInv, StorageInv, Lifecycle
  PROVE  SeenInv'
<1> USE DEF TypeOK, FenceInv, StorageInv, OnRequest, Locking, Storing, Busy, Erasing, Generation,
    Pending, Disk, RecordInv, SeenInv, Admitted, CleansUp, Succeeded, Deletes, Ids, Work
<1>1. ASSUME CreateVm PROVE SeenInv'
  BY <1>1 DEF CreateVm, Mutex, host, OutsideHost
<1>2. ASSUME StartVm PROVE SeenInv'
  BY <1>2 DEF StartVm, Guarded, Mutex, BackupFields, host, OutsideHost
<1>3. ASSUME StopVm PROVE SeenInv'
  BY <1>3 DEF StopVm, Guarded, Mutex, row, OutsideHost
<1>4. ASSUME DestroyVm PROVE SeenInv'
  BY <1>4 DEF DestroyVm, Mutex, BackupFields, host, OutsideHost
<1>5. ASSUME NEW s \in Sizes, ResizeVm(s) PROVE SeenInv'
  BY <1>5 DEF ResizeVm, Guarded, Mutex, BackupFields, host, OutsideHost
<1> QED BY <1>1, <1>2, <1>3, <1>4, <1>5 DEF Lifecycle

LEMMA SeenHostStep ==
  ASSUME TypeOK, FenceInv, StorageInv, HostStep
  PROVE  SeenInv'
<1> USE DEF TypeOK, FenceInv, StorageInv, OnRequest, Locking, Storing, Busy, Erasing, Generation,
    Pending, Disk, RecordInv, SeenInv, Admitted, CleansUp, Succeeded, Deletes, Ids, Work
<1>1. ASSUME CloneImage PROVE SeenInv'
  BY <1>1 DEF CloneImage, row, OutsideHost
<1>2. ASSUME BootVmm PROVE SeenInv'
  BY <1>2 DEF BootVmm, row, OutsideHost
<1>3. ASSUME BootEnds PROVE SeenInv'
  BY <1>3 DEF BootEnds, BackupFields, host, OutsideHost
<1>4. ASSUME StopEnds PROVE SeenInv'
  BY <1>4 DEF StopEnds, BackupFields, host, OutsideHost
<1>5. ASSUME GrowDisk PROVE SeenInv'
  BY <1>5 DEF GrowDisk, row, OutsideHost
<1>6. ASSUME ResizeEnds PROVE SeenInv'
  BY <1>6 DEF ResizeEnds, BackupFields, host, OutsideHost
<1>7. ASSUME DestroyStops PROVE SeenInv'
  BY <1>7 DEF DestroyStops, row, OutsideHost
<1>8. ASSUME LockBackups PROVE SeenInv'
  BY <1>8 DEF LockBackups, row, OutsideHost, HasArtifacts
<1>9. ASSUME RemoveBackups PROVE SeenInv'
  BY <1>9, HostEffect, InodeKept DEF RemoveBackups, OutsideHost, NoPending, NoGeneration
<1>10. ASSUME EraseDisk PROVE SeenInv'
  BY <1>10 DEF EraseDisk, row, OutsideHost, NoDisk
<1>11. ASSUME DeleteRow PROVE SeenInv'
  BY <1>11 DEF DeleteRow, host, OutsideHost, NoPending, NoGeneration
<1> QED BY <1>1, <1>2, <1>3, <1>4, <1>5, <1>6, <1>7, <1>8, <1>9, <1>10, <1>11 DEF HostStep

LEMMA SeenReconcile ==
  ASSUME TypeOK, FenceInv, StorageInv, Reconcile
  PROVE  SeenInv'
<1> USE DEF TypeOK, FenceInv, StorageInv, OnRequest, Locking, Storing, Busy, Erasing, Generation,
    Pending, Disk, RecordInv, SeenInv, Admitted, CleansUp, Succeeded, Deletes, Ids, Work
<1>1. ASSUME ScanRecord PROVE SeenInv'
  BY <1>1 DEF ScanRecord, row, host, history
<1>2. ASSUME ReconcileVm PROVE SeenInv'
  BY <1>2 DEF ReconcileVm, BackupFields, host, Mutex, ResumeDeletion, ObservedState
<1>3. ASSUME ReconcileClaim PROVE SeenInv'
  BY <1>3, SeenClaim, SeenClaimCleanup DEF ReconcileClaim, Tasks
<1>4. ASSUME ReconcileSkip PROVE SeenInv'
  BY <1>4 DEF ReconcileSkip, row, host, history
<1> QED BY <1>1, <1>2, <1>3, <1>4 DEF Reconcile

LEMMA SeenWorld ==
  ASSUME TypeOK, FenceInv, StorageInv,
         Issues \/ BackoffExpires \/ GuestWrites \/ GuestExits \/ Crash \/ OrphanEnds
  PROVE  SeenInv'
<1> USE DEF TypeOK, FenceInv, StorageInv, OnRequest, Locking, Storing, Busy, Erasing, Generation,
    Pending, Disk, RecordInv, SeenInv, Admitted, CleansUp, Succeeded, Deletes, Ids, Work
<1>1. ASSUME Issues PROVE SeenInv'
  BY <1>1 DEF Issues, Issue, row, host, process
<1>2. ASSUME BackoffExpires PROVE SeenInv'
  BY <1>2 DEF BackoffExpires, host, process, history
<1>3. ASSUME GuestWrites PROVE SeenInv'
  BY <1>3 DEF GuestWrites, row, process
<1>4. ASSUME GuestExits PROVE SeenInv'
  BY <1>4 DEF GuestExits, row, process, history
<1>5. ASSUME Crash PROVE SeenInv'
  BY <1>5, HostEffect, InodeKept DEF Crash, row
<1>6. ASSUME OrphanEnds PROVE SeenInv'
  BY <1>6, HostEffect, InodeKept DEF OrphanEnds, row, process, history, NoCommand
<1> QED BY <1>1, <1>2, <1>3, <1>4, <1>5, <1>6

LEMMA SeenTask ==
  ASSUME TypeOK, FenceInv, StorageInv, NEW t \in Tasks, ClientClaim(t) \/ TaskStep(t)
  PROVE  SeenInv'
<1> USE DEF TypeOK, FenceInv, StorageInv, OnRequest, Locking, Storing, Busy, Erasing, Generation,
    Pending, Disk, RecordInv, SeenInv, Admitted, CleansUp, Succeeded, Deletes, Ids, Work
<1>1. ASSUME ClientClaim(t) PROVE SeenInv'
  BY <1>1, SeenClaim DEF ClientClaim
<1>2. ASSUME Inspect(t) PROVE SeenInv'
  BY <1>2 DEF Inspect, row, history
<1>3. ASSUME InspectFails(t) PROVE SeenInv'
  BY <1>3 DEF InspectFails, row, host
<1>4. ASSUME Admit(t) PROVE SeenInv'
  <2>1. \A u \in Tasks : u # t => pc[u] = "idle" /\ pc'[u] = "idle"
    BY <1>4 DEF Admit
  <2>2. /\ pc'[t] = "working" /\ work'[t].gone = {} /\ work'[t].req = work[t].req
        /\ work'[t].seen = [current |-> current', retired |-> retired', pending |-> pending']
        /\ work'[t].todo =
             IF work[t].req.action = "delete" THEN Ids(retired \union {current}) ELSE {}
        /\ UNCHANGED <<current, retired>>
    BY <1>4 DEF Admit, Ids
  <2>3. pending'.req = work[t].req
    BY <1>4 DEF Admit, Proceeds, Admission
  <2> QED BY <2>1, <2>2, <2>3
<1>5. ASSUME AdmitRefused(t) PROVE SeenInv'
  BY <1>5 DEF AdmitRefused, row, history
<1>6. ASSUME TakeSnapshot(t) PROVE SeenInv'
  BY <1>6, TaskEffect, InodeKept DEF TakeSnapshot, Doing, Settle, OutsideWork, row, history
<1>7. ASSUME RollBack(t) PROVE SeenInv'
  BY <1>7, TaskEffect, InodeKept DEF RollBack, Doing, Settle, OutsideWork, row, history
<1>8. ASSUME CloneFile(t) PROVE SeenInv'
  BY <1>8 DEF CloneFile, OutsideWork, row, history
<1>9. ASSUME WriteManifest(t) PROVE SeenInv'
  <2>1. \A u \in Tasks : u # t => pc[u] = "idle" /\ pc'[u] = "idle"
    BY <1>9 DEF WriteManifest, Settle
  <2>2. /\ pc'[t] \in {"staged", "done"} /\ UNCHANGED row /\ Admitted(t)
        /\ work'[t].seen = work[t].seen /\ work'[t].req = work[t].req
        /\ work'[t].gone = work[t].gone /\ work'[t].todo = work[t].todo
        /\ Backend = "reflink" /\ ~Deletes
    BY <1>9 DEF WriteManifest, Settle, OutsideWork
  <2> QED BY <2>1, <2>2 DEF row
<1>10. ASSUME ResumeFile(t) PROVE SeenInv'
  <2>1. \A u \in Tasks : u # t => pc[u] = "idle" /\ pc'[u] = "idle"
    BY <1>10 DEF ResumeFile, Settle
  <2>2. /\ pc'[t] \in {"staged", "done"} /\ UNCHANGED row /\ Admitted(t)
        /\ work'[t].seen = work[t].seen /\ work'[t].req = work[t].req
        /\ work'[t].gone = work[t].gone /\ work'[t].todo = work[t].todo
        /\ Backend = "reflink" /\ ~Deletes
    BY <1>10 DEF ResumeFile, Settle, OutsideWork
  <2> QED BY <2>1, <2>2 DEF row
<1>11. ASSUME RenameStage(t) PROVE SeenInv'
  <2>1. /\ UNCHANGED row /\ Admitted(t) /\ pc[t] = "staged" /\ pc'[t] = "done"
        /\ work'[t].seen = work[t].seen /\ work'[t].req = work[t].req
        /\ work'[t].gone = work[t].gone /\ work'[t].todo = work[t].todo
        /\ \A u \in Tasks : u # t => pc[u] = "idle" /\ pc'[u] = "idle"
    BY <1>11, RenameStageWork
  <2>2. ~Deletes
    BY <2>1
  <2> QED BY <2>1, <2>2 DEF row
<1>12. ASSUME RemoveNext(t) PROVE SeenInv'
  <2>1. \A u \in Tasks : u # t => pc[u] = "idle" /\ pc'[u] = "idle"
    BY <1>12 DEF RemoveNext, Settle, Doing
  <2>2. Admitted(t) /\ UNCHANGED row
    BY <1>12 DEF RemoveNext, Doing, OutsideWork
  <2>3. /\ pc'[t] \in {"working", "done"}
        /\ work'[t].seen = work[t].seen /\ work'[t].req = work[t].req
        /\ work'[t].gone = work[t].gone /\ work'[t].todo \subseteq work[t].todo
        /\ pc'[t] = "done" => work'[t].todo = {}
    BY <1>12, RemoveNextWork
  <2> QED BY <2>1, <2>2, <2>3 DEF row
<1>13. ASSUME WorkFails(t) PROVE SeenInv'
  BY <1>13, TaskEffect, InodeKept DEF WorkFails, Settle, OutsideWork, row
<1>14. ASSUME Finish(t) PROVE SeenInv'
  BY <1>14 DEF Finish, Mutex, NoPending, NoGeneration, host, Abandoned, Publish, Restored, Deleted
<1>15. ASSUME Release(t) PROVE SeenInv'
  BY <1>15 DEF Release, row, host, history
<1>16. ASSUME LockCleanup(t) PROVE SeenInv'
  BY <1>16 DEF LockCleanup, OutsideWork, row, history
<1>17. ASSUME CleanupBlocked(t) PROVE SeenInv'
  BY <1>17 DEF CleanupBlocked, OutsideWork, row
<1>18. ASSUME CleanedAll(t) PROVE SeenInv'
  BY <1>18 DEF CleanedAll, OutsideWork, row, history
<1>19. ASSUME FinishCleanup(t) PROVE SeenInv'
  BY <1>19 DEF FinishCleanup, host, history
<1>20. ASSUME NEW i \in Slots, DropNewer(t, i) PROVE SeenInv'
  BY <1>20, TaskEffect, InodeKept DEF DropNewer, Doing, OutsideWork, row, history
<1>21. ASSUME NEW i \in Slots, CleanOne(t, i) PROVE SeenInv'
  <2>1. \A u \in Tasks : u # t => pc[u] = "idle" /\ pc'[u] = "idle"
    BY <1>21 DEF CleanOne
  <2>2. /\ pc[t] = "cleaning" /\ UNCHANGED <<row, pc>>
    BY <1>21 DEF CleanOne, OutsideWork
  <2>3. /\ work'[t].seen = work[t].seen /\ work'[t].req = work[t].req
        /\ work'[t].gone \subseteq work[t].gone \union {i} /\ work'[t].todo \subseteq work[t].todo
        /\ i \in work[t].todo
    BY <1>21, CleanOneWork
  <2> QED BY <2>1, <2>2, <2>3 DEF row
<1> QED BY <1>1, <1>2, <1>3, <1>4, <1>5, <1>6, <1>7, <1>8, <1>9, <1>10, <1>11, <1>12, <1>13,
       <1>14, <1>15, <1>16, <1>17, <1>18, <1>19, <1>20, <1>21 DEF TaskStep

(***************************************************************************)
(* What a storage child left by a crash may still do is on record.         *)
(***************************************************************************)
LEMMA OrphanCrash ==
  ASSUME TypeOK, FenceInv, StorageInv, Crash
  PROVE  OrphanInv'
<1>1. UNCHANGED row
  BY Zenon DEF Crash
<1>2. CASE UNCHANGED orphan
  BY <1>1, <1>2 DEF StorageInv, OrphanInv, Creates, Restores, Deletes, Referenced, Busy, row
<1>3. ASSUME Backend = "zvol", orphan' \in InFlight \union {NoCommand} PROVE OrphanInv'
  <2>1. \/ orphan' \in Removals(Ids(retired))
        \/ (Deletes \/ state = "Deleting") /\ orphan' \in Removals(Referenced)
        \/ Creates /\ orphan' = Snapshot(pending.art.id)
        \/ Restores /\ orphan' = Rollback(current.id)
        \/ orphan' = NoCommand
    <3>1. op = "removing" => state = "Deleting"
      BY DEF StorageInv, RecordInv, Erasing
    <3>2. CASE \E t \in Tasks : orphan' \in Commands(t)
      BY <3>2, CommandKinds, DeletedReferenced
    <3>3. CASE (op = "removing" /\ orphan' \in Removals(Referenced)) \/ orphan' = NoCommand
      BY <3>1, <3>3
    <3> QED BY <1>3, <3>2, <3>3 DEF InFlight
  <2>2. \A ids : \A c \in Removals(ids) : c.kind = "destroy" /\ c.id \in ids
    BY <1>3 DEF Removals, Destroy
  <2>3. Ids(retired) \subseteq Referenced
    BY DEF Ids, Referenced
  <2>4. OrphanInv' = /\ orphan'.kind # "none" => Backend = "zvol" /\ orphan'.kind # "spoil"
                     /\ orphan'.kind = "snapshot" => Creates /\ orphan'.id = pending.art.id
                     /\ orphan'.kind = "rollback" => Restores /\ orphan'.id = current.id
                     /\ orphan'.kind = "destroy" =>
                          /\ orphan'.id \in Referenced
                          /\ orphan'.id \in Ids(retired) \/ Deletes \/ state = "Deleting"
    BY <1>1 DEF OrphanInv, Creates, Restores, Deletes, Referenced, Busy, row, Ids
  <2> QED BY <1>3, <2>1, <2>2, <2>3, <2>4 DEF Snapshot, Rollback, NoCommand
<1> QED BY <1>2, <1>3 DEF Crash

LEMMA OrphanLifecycle ==
  ASSUME TypeOK, FenceInv, StorageInv, Lifecycle
  PROVE  OrphanInv'
<1> USE DEF TypeOK, FenceInv, StorageInv, OnRequest, Locking, Storing, Busy, Erasing, Generation,
    Pending, Disk, RecordInv, OrphanInv, Creates, Restores, Deletes, Referenced, Ids,
    WritingOrphan
<1>1. ASSUME CreateVm PROVE OrphanInv'
  BY <1>1 DEF CreateVm, Mutex, host, OutsideHost
<1>2. ASSUME StartVm PROVE OrphanInv'
  BY <1>2 DEF StartVm, Guarded, Mutex, BackupFields, host, OutsideHost
<1>3. ASSUME StopVm PROVE OrphanInv'
  BY <1>3 DEF StopVm, Guarded, Mutex, row, OutsideHost
<1>4. ASSUME DestroyVm PROVE OrphanInv'
  BY <1>4 DEF DestroyVm, Mutex, BackupFields, host, OutsideHost
<1>5. ASSUME NEW s \in Sizes, ResizeVm(s) PROVE OrphanInv'
  BY <1>5 DEF ResizeVm, Guarded, Mutex, BackupFields, host, OutsideHost
<1> QED BY <1>1, <1>2, <1>3, <1>4, <1>5 DEF Lifecycle

LEMMA OrphanHostStep ==
  ASSUME TypeOK, FenceInv, StorageInv, HostStep
  PROVE  OrphanInv'
<1> USE DEF TypeOK, FenceInv, StorageInv, OnRequest, Locking, Storing, Busy, Erasing, Generation,
    Pending, Disk, RecordInv, OrphanInv, Creates, Restores, Deletes, Referenced, Ids,
    WritingOrphan
<1>1. ASSUME CloneImage PROVE OrphanInv'
  BY <1>1 DEF CloneImage, row, OutsideHost
<1>2. ASSUME BootVmm PROVE OrphanInv'
  BY <1>2 DEF BootVmm, row, OutsideHost
<1>3. ASSUME BootEnds PROVE OrphanInv'
  BY <1>3 DEF BootEnds, BackupFields, host, OutsideHost
<1>4. ASSUME StopEnds PROVE OrphanInv'
  BY <1>4 DEF StopEnds, BackupFields, host, OutsideHost
<1>5. ASSUME GrowDisk PROVE OrphanInv'
  BY <1>5 DEF GrowDisk, row, OutsideHost
<1>6. ASSUME ResizeEnds PROVE OrphanInv'
  BY <1>6 DEF ResizeEnds, BackupFields, host, OutsideHost
<1>7. ASSUME DestroyStops PROVE OrphanInv'
  BY <1>7 DEF DestroyStops, row, OutsideHost
<1>8. ASSUME LockBackups PROVE OrphanInv'
  BY <1>8 DEF LockBackups, row, OutsideHost, HasArtifacts
<1>9. ASSUME RemoveBackups PROVE OrphanInv'
  BY <1>9, HostEffect, InodeKept DEF RemoveBackups, OutsideHost, NoPending, NoGeneration
<1>10. ASSUME EraseDisk PROVE OrphanInv'
  BY <1>10 DEF EraseDisk, row, OutsideHost, NoDisk
<1>11. ASSUME DeleteRow PROVE OrphanInv'
  <2>1. Referenced = {} /\ orphan' = orphan /\ ~Busy
    BY <1>11 DEF DeleteRow, host
  <2>2. orphan.kind \notin {"snapshot", "rollback", "destroy"}
    BY <2>1
  <2> QED BY <2>1, <2>2
<1> QED BY <1>1, <1>2, <1>3, <1>4, <1>5, <1>6, <1>7, <1>8, <1>9, <1>10, <1>11 DEF HostStep

LEMMA OrphanReconcile ==
  ASSUME TypeOK, FenceInv, StorageInv, Reconcile
  PROVE  OrphanInv'
<1> USE DEF TypeOK, FenceInv, StorageInv, OnRequest, Locking, Storing, Busy, Erasing, Generation,
    Pending, Disk, RecordInv, OrphanInv, Creates, Restores, Deletes, Referenced, Ids,
    WritingOrphan
<1>1. ASSUME ScanRecord PROVE OrphanInv'
  BY <1>1 DEF ScanRecord, row, host, history
<1>2. ASSUME ReconcileVm PROVE OrphanInv'
  BY <1>2 DEF ReconcileVm, BackupFields, host, Mutex, ResumeDeletion, ObservedState
<1>3. ASSUME ReconcileClaim PROVE OrphanInv'
  BY <1>3 DEF ReconcileClaim, Claim, MayClaim, ClaimCleanup, MayClean, Mutex, row, host, history
<1>4. ASSUME ReconcileSkip PROVE OrphanInv'
  BY <1>4 DEF ReconcileSkip, row, host, history
<1> QED BY <1>1, <1>2, <1>3, <1>4 DEF Reconcile

LEMMA OrphanWorld ==
  ASSUME TypeOK, FenceInv, StorageInv,
         Issues \/ BackoffExpires \/ GuestWrites \/ GuestExits \/ Crash \/ OrphanEnds
  PROVE  OrphanInv'
<1> USE DEF TypeOK, FenceInv, StorageInv, OnRequest, Locking, Storing, Busy, Erasing, Generation,
    Pending, Disk, RecordInv, OrphanInv, Creates, Restores, Deletes, Referenced, Ids,
    WritingOrphan
<1>1. ASSUME Issues PROVE OrphanInv'
  BY <1>1 DEF Issues, Issue, row, host, process
<1>2. ASSUME BackoffExpires PROVE OrphanInv'
  BY <1>2 DEF BackoffExpires, host, process, history
<1>3. ASSUME GuestWrites PROVE OrphanInv'
  BY <1>3 DEF GuestWrites, row, process
<1>4. ASSUME GuestExits PROVE OrphanInv'
  BY <1>4 DEF GuestExits, row, process, history
<1>5. ASSUME Crash PROVE OrphanInv'
  BY <1>5, OrphanCrash
<1>6. ASSUME OrphanEnds PROVE OrphanInv'
  BY <1>6, HostEffect, InodeKept DEF OrphanEnds, row, process, history, NoCommand
<1> QED BY <1>1, <1>2, <1>3, <1>4, <1>5, <1>6

LEMMA OrphanTask ==
  ASSUME TypeOK, FenceInv, StorageInv, NEW t \in Tasks, ClientClaim(t) \/ TaskStep(t)
  PROVE  OrphanInv'
<1> USE DEF TypeOK, FenceInv, StorageInv, OnRequest, Locking, Storing, Busy, Erasing, Generation,
    Pending, Disk, RecordInv, OrphanInv, Creates, Restores, Deletes, Referenced, Ids,
    WritingOrphan
<1>1. ASSUME ClientClaim(t) PROVE OrphanInv'
  BY <1>1 DEF ClientClaim, Claim, MayClaim, Mutex, row, host, history
<1>2. ASSUME Inspect(t) PROVE OrphanInv'
  BY <1>2 DEF Inspect, row, history
<1>3. ASSUME InspectFails(t) PROVE OrphanInv'
  BY <1>3 DEF InspectFails, row, host
<1>4. ASSUME Admit(t) PROVE OrphanInv'
  BY <1>4 DEF Admit, Mutex, Qualified, Admission, host
<1>5. ASSUME AdmitRefused(t) PROVE OrphanInv'
  BY <1>5 DEF AdmitRefused, row, history
<1>6. ASSUME TakeSnapshot(t) PROVE OrphanInv'
  BY <1>6, TaskEffect, InodeKept DEF TakeSnapshot, Doing, Settle, OutsideWork, row, history
<1>7. ASSUME RollBack(t) PROVE OrphanInv'
  BY <1>7, TaskEffect, InodeKept DEF RollBack, Doing, Settle, OutsideWork, row, history
<1>8. ASSUME CloneFile(t) PROVE OrphanInv'
  BY <1>8 DEF CloneFile, OutsideWork, row, history
<1>9. ASSUME WriteManifest(t) PROVE OrphanInv'
  BY <1>9 DEF WriteManifest, Settle, OutsideWork, row, history
<1>10. ASSUME ResumeFile(t) PROVE OrphanInv'
  BY <1>10 DEF ResumeFile, Settle, OutsideWork, row, history
<1>11. ASSUME RenameStage(t) PROVE OrphanInv'
  BY <1>11 DEF RenameStage, Settle, OutsideWork, row, history
<1>12. ASSUME RemoveNext(t) PROVE OrphanInv'
  BY <1>12, TaskEffect, InodeKept DEF RemoveNext, Doing, Settle, OutsideWork, row, history
<1>13. ASSUME WorkFails(t) PROVE OrphanInv'
  BY <1>13, TaskEffect, InodeKept DEF WorkFails, Settle, OutsideWork, row
<1>14. ASSUME Finish(t) PROVE OrphanInv'
  BY <1>14 DEF Finish, Mutex, NoPending, NoGeneration, host, Abandoned, Publish, Restored, Deleted
<1>15. ASSUME Release(t) PROVE OrphanInv'
  BY <1>15 DEF Release, row, host, history
<1>16. ASSUME LockCleanup(t) PROVE OrphanInv'
  BY <1>16 DEF LockCleanup, OutsideWork, row, history
<1>17. ASSUME CleanupBlocked(t) PROVE OrphanInv'
  BY <1>17 DEF CleanupBlocked, OutsideWork, row
<1>18. ASSUME CleanedAll(t) PROVE OrphanInv'
  BY <1>18 DEF CleanedAll, OutsideWork, row, history
<1>19. ASSUME FinishCleanup(t) PROVE OrphanInv'
  <2>1. orphan.kind # "none" => work[t].gone = {}
    BY <1>19 DEF FinishCleanup, SeenInv
  <2>2. work[t].gone = {} => {g \in retired : g.id \notin work[t].gone} = retired
    OBVIOUS
  <2>3. orphan.kind # "none" => retired' = retired
    BY <1>19, <2>1, <2>2, Zenon DEF FinishCleanup
  <2> QED BY <1>19, <2>3 DEF FinishCleanup, host
<1>20. ASSUME NEW i \in Slots, DropNewer(t, i) PROVE OrphanInv'
  BY <1>20, TaskEffect, InodeKept DEF DropNewer, Doing, OutsideWork, row, history
<1>21. ASSUME NEW i \in Slots, CleanOne(t, i) PROVE OrphanInv'
  BY <1>21, TaskEffect, InodeKept DEF CleanOne, OutsideWork, row
<1> QED BY <1>1, <1>2, <1>3, <1>4, <1>5, <1>6, <1>7, <1>8, <1>9, <1>10, <1>11, <1>12, <1>13,
       <1>14, <1>15, <1>16, <1>17, <1>18, <1>19, <1>20, <1>21 DEF TaskStep

(***************************************************************************)
(* Nothing on storage is stranded.  A command only removes artifacts, or   *)
(* adds the one of the pending operation; the record forgets one only when *)
(* it is gone.                                                             *)
(***************************************************************************)
LEMMA ReferencedIds ==
  ASSUME TypeOK, RecordInv
  PROVE  Referenced \subseteq 1..minted
BY DEF TypeOK, RecordInv, Referenced, Ids, Generation, Pending, Busy

LEMMA CopyPresent ==
  ASSUME TypeOK, RecordInv, Busy, NEW d, NEW b
  PROVE  /\ Copy(d, b).at \in Nat \ {0} /\ Copy(d, b).at > 0
         /\ Copy(d, b).data = d.data /\ Copy(d, b).size = d.size /\ Copy(d, b).ready = b
         /\ pending.art.id \in Slots \ {0} /\ pending.art.id \in Referenced
BY BoundsAssumption DEF TypeOK, RecordInv, Busy, Copy, Slots, Referenced, Ids, Pending, Generation

LEMMA PresentEffect ==
  ASSUME TypeOK, StorageInv, Effect, UNCHANGED <<current, pending, retired>>
  PROVE  PresentInv'
<1> USE DEF StorageInv
<1>1. UNCHANGED <<Referenced, Deletes, Restores, Creates>>
  BY DEF Referenced, Deletes, Restores, Creates, Busy, Ids
<1>2. ASSUME NEW ids, Removes(ids) PROVE PresentInv'
  BY <1>1, <1>2 DEF PresentInv, NoStrays, Removes
<1>3. CASE Captures
  <2>1. pending.art.id \in Slots /\ pending.art.id \in Referenced /\ ~Deletes /\ ~Restores
    BY <1>3, CopyPresent DEF Captures, Creates, Deletes, Restores
  <2>2. \A i \in Present' : i \in Present \/ i = pending.art.id
    BY <1>3 DEF Captures, Present, TypeOK
  <2>3. \A i \in Present' : Backend = "zvol" => store'[i].ready
    BY <1>3, <2>1, <2>2, CopyPresent DEF Captures, PresentInv, TypeOK, Copy, Present
  <2> QED BY <1>1, <2>1, <2>2, <2>3 DEF PresentInv, NoStrays
<1>4. CASE Rewinds
  BY <1>1, <1>4 DEF Rewinds, PresentInv, NoStrays, Present
<1> QED BY <1>2, <1>3, <1>4 DEF Effect

LEMMA PresentNoEffect ==
  ASSUME TypeOK, StorageInv, UNCHANGED <<current, pending, retired, store>>
  PROVE  PresentInv'
BY DEF StorageInv, PresentInv, NoStrays, Present, Referenced, Ids, Deletes, Restores, Busy

LEMMA PresentLifecycle ==
  ASSUME TypeOK, FenceInv, StorageInv, Lifecycle
  PROVE  PresentInv'
<1> USE DEF TypeOK, FenceInv, StorageInv, Storing, Busy, Generation, Pending, RecordInv,
    PresentInv, NoStrays, Present, Referenced, Ids, Deletes, Restores
<1>1. ASSUME CreateVm PROVE PresentInv'
  BY <1>1 DEF CreateVm, Mutex, host, OutsideHost
<1>2. ASSUME StartVm PROVE PresentInv'
  BY <1>2 DEF StartVm, Guarded, Mutex, BackupFields, host, OutsideHost
<1>3. ASSUME StopVm PROVE PresentInv'
  BY <1>3 DEF StopVm, Guarded, Mutex, row, OutsideHost
<1>4. ASSUME DestroyVm PROVE PresentInv'
  BY <1>4 DEF DestroyVm, Mutex, BackupFields, host, OutsideHost
<1>5. ASSUME NEW s \in Sizes, ResizeVm(s) PROVE PresentInv'
  BY <1>5 DEF ResizeVm, Guarded, Mutex, BackupFields, host, OutsideHost
<1> QED BY <1>1, <1>2, <1>3, <1>4, <1>5 DEF Lifecycle

LEMMA PresentHostStep ==
  ASSUME TypeOK, FenceInv, StorageInv, HostStep
  PROVE  PresentInv'
<1> USE DEF TypeOK, FenceInv, StorageInv, Storing, Busy, Generation, Pending, RecordInv,
    PresentInv, NoStrays, Present, Referenced, Ids, Deletes, Restores
<1>1. ASSUME CloneImage PROVE PresentInv'
  BY <1>1 DEF CloneImage, row, OutsideHost
<1>2. ASSUME BootVmm PROVE PresentInv'
  BY <1>2 DEF BootVmm, row, OutsideHost
<1>3. ASSUME BootEnds PROVE PresentInv'
  BY <1>3 DEF BootEnds, BackupFields, host, OutsideHost
<1>4. ASSUME StopEnds PROVE PresentInv'
  BY <1>4 DEF StopEnds, BackupFields, host, OutsideHost
<1>5. ASSUME GrowDisk PROVE PresentInv'
  BY <1>5 DEF GrowDisk, row, OutsideHost
<1>6. ASSUME ResizeEnds PROVE PresentInv'
  BY <1>6 DEF ResizeEnds, BackupFields, host, OutsideHost
<1>7. ASSUME DestroyStops PROVE PresentInv'
  BY <1>7 DEF DestroyStops, row, OutsideHost
<1>8. ASSUME LockBackups PROVE PresentInv'
  BY <1>8 DEF LockBackups, row, OutsideHost, HasArtifacts
<1>9. ASSUME RemoveBackups PROVE PresentInv'
  <2>1. CASE UNCHANGED <<current, pending, retired>>
    BY <1>9, <2>1, HostEffect, PresentEffect
  <2>2. CASE Referenced \intersect Present = {} /\ UNCHANGED store /\ pending' = NoPending
    BY <2>2 DEF NoPending, NoGeneration
  <2> QED BY <1>9, <2>1, <2>2 DEF RemoveBackups
<1>10. ASSUME EraseDisk PROVE PresentInv'
  BY <1>10 DEF EraseDisk, row, OutsideHost, NoDisk
<1>11. ASSUME DeleteRow PROVE PresentInv'
  BY <1>11 DEF DeleteRow, host, OutsideHost, NoPending, NoGeneration
<1> QED BY <1>1, <1>2, <1>3, <1>4, <1>5, <1>6, <1>7, <1>8, <1>9, <1>10, <1>11 DEF HostStep

LEMMA PresentReconcile ==
  ASSUME TypeOK, FenceInv, StorageInv, Reconcile
  PROVE  PresentInv'
<1> USE DEF TypeOK, FenceInv, StorageInv, Storing, Busy, Generation, Pending, RecordInv,
    PresentInv, NoStrays, Present, Referenced, Ids, Deletes, Restores
<1>1. ASSUME ScanRecord PROVE PresentInv'
  BY <1>1 DEF ScanRecord, row, host, history
<1>2. ASSUME ReconcileVm PROVE PresentInv'
  BY <1>2 DEF ReconcileVm, BackupFields, host, Mutex, ResumeDeletion, ObservedState
<1>3. ASSUME ReconcileClaim PROVE PresentInv'
  <2>1. UNCHANGED <<row, host>>
    BY <1>3 DEF ReconcileClaim, Claim, ClaimCleanup
  <2> QED BY <2>1, PresentNoEffect DEF row, host
<1>4. ASSUME ReconcileSkip PROVE PresentInv'
  BY <1>4 DEF ReconcileSkip, row, host, history
<1> QED BY <1>1, <1>2, <1>3, <1>4 DEF Reconcile

LEMMA PresentWorld ==
  ASSUME TypeOK, FenceInv, StorageInv,
         Issues \/ BackoffExpires \/ GuestWrites \/ GuestExits \/ Crash \/ OrphanEnds
  PROVE  PresentInv'
<1> USE DEF TypeOK, FenceInv, StorageInv, Storing, Busy, Generation, Pending, RecordInv,
    PresentInv, NoStrays, Present, Referenced, Ids, Deletes, Restores
<1>1. ASSUME Issues PROVE PresentInv'
  BY <1>1 DEF Issues, Issue, row, host, process
<1>2. ASSUME BackoffExpires PROVE PresentInv'
  BY <1>2 DEF BackoffExpires, host, process, history
<1>3. ASSUME GuestWrites PROVE PresentInv'
  BY <1>3 DEF GuestWrites, row, process
<1>4. ASSUME GuestExits PROVE PresentInv'
  BY <1>4 DEF GuestExits, row, process, history
<1>5. ASSUME Crash PROVE PresentInv'
  BY <1>5, HostEffect, PresentEffect DEF Crash, row
<1>6. ASSUME OrphanEnds PROVE PresentInv'
  BY <1>6, HostEffect, PresentEffect DEF OrphanEnds, row
<1> QED BY <1>1, <1>2, <1>3, <1>4, <1>5, <1>6

LEMMA PresentTask ==
  ASSUME TypeOK, FenceInv, StorageInv, NEW t \in Tasks, ClientClaim(t) \/ TaskStep(t)
  PROVE  PresentInv'
<1> USE DEF TypeOK, FenceInv, StorageInv, Storing, Busy, Generation, Pending, RecordInv,
    PresentInv, NoStrays, Present, Referenced, Ids, Deletes, Restores
<1>1. ASSUME ClientClaim(t) PROVE PresentInv'
  BY <1>1 DEF ClientClaim, Claim, MayClaim, Mutex, row, host, history
<1>2. ASSUME Inspect(t) PROVE PresentInv'
  BY <1>2 DEF Inspect, row, history
<1>3. ASSUME InspectFails(t) PROVE PresentInv'
  BY <1>3 DEF InspectFails, row, host
<1>4. ASSUME Admit(t) PROVE PresentInv'
  <2>1. UNCHANGED <<current, retired, store>>
    BY <1>4, Zenon DEF Admit, host
  <2>2. CASE UNCHANGED pending
    BY <2>1, <2>2, PresentNoEffect
  <2>3. CASE ~Busy /\ pending'.art.id = minted + 1
    <3>1. Referenced \subseteq 1..minted
      BY ReferencedIds
    <3>2. Referenced' = Referenced \union {minted + 1}
      BY <2>1, <2>3
    <3>3. pending'.art.id \notin Present'
      BY <2>1, <2>3, <3>1
    <3> QED BY <2>1, <3>2, <3>3
  <2> QED BY <1>4, <2>2, <2>3 DEF Admit, Admission
<1>5. ASSUME AdmitRefused(t) PROVE PresentInv'
  BY <1>5 DEF AdmitRefused, row, history
<1>6. ASSUME TakeSnapshot(t) PROVE PresentInv'
  BY <1>6, TaskEffect, PresentEffect DEF TakeSnapshot, OutsideWork, row
<1>7. ASSUME RollBack(t) PROVE PresentInv'
  BY <1>7, TaskEffect, PresentEffect DEF RollBack, OutsideWork, row
<1>8. ASSUME CloneFile(t) PROVE PresentInv'
  <2>1. /\ UNCHANGED <<current, pending, retired>> /\ Busy /\ Backend = "reflink"
        /\ pending.req.action # "delete"
    BY <1>8 DEF CloneFile, OutsideWork, row, SeenInv, Admitted
  <2>2. \A i \in Present' : i \in Present \/ i = pending.art.id
    <3>1. work[t].seen.pending.art.id = pending.art.id
      BY <1>8 DEF CloneFile, SeenInv, Admitted
    <3>2. \A i \in Slots : i # pending.art.id => store'[i] = store[i]
      BY <1>8, <3>1, Zenon DEF CloneFile
    <3> QED BY <3>2
  <2>3. pending.art.id \in Referenced
    BY <2>1
  <2> QED BY <2>1, <2>2, <2>3, BackendAssumption
<1>9. ASSUME WriteManifest(t) PROVE PresentInv'
  <2>1. UNCHANGED <<current, pending, retired>> /\ Backend = "reflink"
    BY <1>9 DEF WriteManifest, OutsideWork, row, SeenInv
  <2>2. Present' \subseteq Present
    BY <1>9 DEF WriteManifest, Artifact
  <2> QED BY <2>1, <2>2
<1>10. ASSUME ResumeFile(t) PROVE PresentInv'
  BY <1>10, PresentNoEffect DEF ResumeFile, OutsideWork, row
<1>11. ASSUME RenameStage(t) PROVE PresentInv'
  <2>1. UNCHANGED <<current, pending, retired>> /\ Backend = "reflink"
    BY <1>11 DEF RenameStage, OutsideWork, row, SeenInv
  <2>2. Present' \subseteq Present
    BY <1>11, FileStepStore
  <2> QED BY <2>1, <2>2
<1>12. ASSUME RemoveNext(t) PROVE PresentInv'
  BY <1>12, TaskEffect, PresentEffect DEF RemoveNext, OutsideWork, row
<1>13. ASSUME WorkFails(t) PROVE PresentInv'
  BY <1>13, TaskEffect, PresentEffect DEF WorkFails, OutsideWork, row
<1>14. ASSUME Finish(t) PROVE PresentInv'
  <2>1. work[t].gone \intersect Present = {} /\ UNCHANGED store
    BY <1>14, Zenon DEF Finish, HeldInv, Admitted, host
  <2>2. CASE UNCHANGED <<current, retired, pending>>
    BY <2>1, <2>2, PresentNoEffect
  <2>3. CASE pending' = NoPending
    <3>1. ~Busy'
      BY <2>3 DEF NoPending, NoGeneration
    <3>2. Busy /\ work[t].seen.pending = pending /\ work[t].req = pending.req
      BY <1>14 DEF Finish, SeenInv, Admitted
    <3>3. CASE Abandoned(pending) \/ Publish(pending)
      BY <2>1, <3>1, <3>3 DEF Abandoned, Publish
    <3>4. CASE Restored(pending, work[t].gone) /\ pending.req.action = "restore"
      BY <2>1, <3>1, <3>2, <3>4, BackendAssumption DEF Restored
    <3>5. CASE work[t].ok /\ pending.req.action = "delete"
      BY <1>14, <2>1, <3>1, <3>2, <3>5 DEF Finish, HeldInv, SeenInv, Admitted, Succeeded
    <3> QED BY <1>14, <2>2, <3>2, <3>3, <3>4, <3>5 DEF Finish, RequestInv, Actions
  <2> QED BY <1>14, <2>2, <2>3 DEF Finish
<1>15. ASSUME Release(t) PROVE PresentInv'
  BY <1>15 DEF Release, row, host, history
<1>16. ASSUME LockCleanup(t) PROVE PresentInv'
  BY <1>16 DEF LockCleanup, OutsideWork, row, history
<1>17. ASSUME CleanupBlocked(t) PROVE PresentInv'
  BY <1>17 DEF CleanupBlocked, OutsideWork, row
<1>18. ASSUME CleanedAll(t) PROVE PresentInv'
  BY <1>18 DEF CleanedAll, OutsideWork, row, history
<1>19. ASSUME FinishCleanup(t) PROVE PresentInv'
  <2>1. work[t].gone \intersect Present = {} /\ UNCHANGED <<current, pending, store>>
    BY <1>19, Zenon DEF FinishCleanup, HeldInv, CleansUp, host
  <2>2. CASE UNCHANGED retired
    BY <2>1, <2>2, PresentNoEffect
  <2>3. CASE retired' = {g \in retired : g.id \notin work[t].gone}
    BY <2>1, <2>3
  <2> QED BY <1>19, <2>2, <2>3 DEF FinishCleanup
<1>20. ASSUME NEW i \in Slots, DropNewer(t, i) PROVE PresentInv'
  BY <1>20, TaskEffect, PresentEffect DEF DropNewer, OutsideWork, row
<1>21. ASSUME NEW i \in Slots, CleanOne(t, i) PROVE PresentInv'
  BY <1>21, TaskEffect, PresentEffect DEF CleanOne, OutsideWork, row
<1> QED BY <1>1, <1>2, <1>3, <1>4, <1>5, <1>6, <1>7, <1>8, <1>9, <1>10, <1>11, <1>12, <1>13,
       <1>14, <1>15, <1>16, <1>17, <1>18, <1>19, <1>20, <1>21 DEF TaskStep

(***************************************************************************)
(* What a task has removed is gone, what it has copied is there.           *)
(***************************************************************************)
LEMMA PresentAfter ==
  ASSUME TypeOK, StorageInv, Effect
  PROVE  \A i \in Present' : i \in Present \/ (Creates /\ i = pending.art.id)
<1>1. ASSUME NEW ids, Removes(ids) PROVE Present' \subseteq Present
  BY <1>1 DEF Removes
<1>2. CASE Captures
  BY <1>2 DEF Captures, Present, TypeOK
<1>3. CASE Rewinds
  BY <1>3 DEF Rewinds, Present
<1> QED BY <1>1, <1>2, <1>3 DEF Effect

LEMMA HeldOne ==
  ASSUME NEW t \in Tasks, \A u \in Tasks : u # t => pc'[u] = "idle",
         (Admitted(t) \/ CleansUp(t))' => work'[t].gone \intersect Present' = {},
         (Admitted(t) /\ Deletes)' => Present' \subseteq work'[t].todo,
         pc'[t] \in {"copied", "staged"} =>
           pending'.art.id \in Present' /\ disk'.ino # pending'.art.id,
         pc'[t] = "staged" => Restores' /\ Verified(pending.art.id)'
  PROVE  HeldInv'
BY DEF HeldInv, Admitted, CleansUp, Storing

LEMMA HeldFree ==
  ASSUME \A t \in Tasks : pc'[t] \notin {"copied", "staged"},
         \A t \in Tasks : (Admitted(t) \/ CleansUp(t))' => work'[t].gone = {} /\ ~Admitted(t)'
  PROVE  HeldInv'
BY DEF HeldInv

LEMMA HeldLifecycle ==
  ASSUME TypeOK, FenceInv, StorageInv, Lifecycle
  PROVE  HeldInv'
<1> USE DEF TypeOK, FenceInv, StorageInv, Storing, Busy, RecordInv, SeenInv, HeldInv, Present,
    Verified, Ids, Admitted, CleansUp, Deletes, Restores
<1>1. ASSUME CreateVm PROVE HeldInv'
  BY <1>1 DEF CreateVm, Mutex, host, OutsideHost
<1>2. ASSUME StartVm PROVE HeldInv'
  BY <1>2 DEF StartVm, Guarded, Mutex, BackupFields, host, OutsideHost
<1>3. ASSUME StopVm PROVE HeldInv'
  BY <1>3 DEF StopVm, Guarded, Mutex, row, OutsideHost
<1>4. ASSUME DestroyVm PROVE HeldInv'
  BY <1>4 DEF DestroyVm, Mutex, BackupFields, host, OutsideHost
<1>5. ASSUME NEW s \in Sizes, ResizeVm(s) PROVE HeldInv'
  BY <1>5 DEF ResizeVm, Guarded, Mutex, BackupFields, host, OutsideHost
<1> QED BY <1>1, <1>2, <1>3, <1>4, <1>5 DEF Lifecycle

LEMMA HeldHostStep ==
  ASSUME TypeOK, FenceInv, StorageInv, HostStep
  PROVE  HeldInv'
<1> USE DEF TypeOK, FenceInv, StorageInv, Storing, Busy, RecordInv, SeenInv, HeldInv, Present,
    Verified, Ids, Admitted, CleansUp, Deletes, Restores
<1>1. ASSUME CloneImage PROVE HeldInv'
  BY <1>1 DEF CloneImage, row, OutsideHost
<1>2. ASSUME BootVmm PROVE HeldInv'
  BY <1>2 DEF BootVmm, row, OutsideHost
<1>3. ASSUME BootEnds PROVE HeldInv'
  BY <1>3 DEF BootEnds, BackupFields, host, OutsideHost
<1>4. ASSUME StopEnds PROVE HeldInv'
  BY <1>4 DEF StopEnds, BackupFields, host, OutsideHost
<1>5. ASSUME GrowDisk PROVE HeldInv'
  BY <1>5 DEF GrowDisk, row, OutsideHost
<1>6. ASSUME ResizeEnds PROVE HeldInv'
  BY <1>6 DEF ResizeEnds, BackupFields, host, OutsideHost
<1>7. ASSUME DestroyStops PROVE HeldInv'
  BY <1>7 DEF DestroyStops, row, OutsideHost
<1>8. ASSUME LockBackups PROVE HeldInv'
  BY <1>8 DEF LockBackups, row, OutsideHost, HasArtifacts
<1>9. ASSUME RemoveBackups PROVE HeldInv'
  BY <1>9, HostEffect, InodeKept DEF RemoveBackups, OutsideHost, NoPending, NoGeneration
<1>10. ASSUME EraseDisk PROVE HeldInv'
  BY <1>10 DEF EraseDisk, row, OutsideHost, NoDisk
<1>11. ASSUME DeleteRow PROVE HeldInv'
  BY <1>11 DEF DeleteRow, host, OutsideHost, NoPending, NoGeneration
<1> QED BY <1>1, <1>2, <1>3, <1>4, <1>5, <1>6, <1>7, <1>8, <1>9, <1>10, <1>11 DEF HostStep

LEMMA HeldReconcile ==
  ASSUME TypeOK, FenceInv, StorageInv, Reconcile
  PROVE  HeldInv'
<1> USE DEF TypeOK, FenceInv, StorageInv, Storing, Busy, RecordInv, SeenInv, HeldInv, Present,
    Verified, Ids, Admitted, CleansUp, Deletes, Restores
<1>1. ASSUME ScanRecord PROVE HeldInv'
  BY <1>1 DEF ScanRecord, row, host, history
<1>2. ASSUME ReconcileVm PROVE HeldInv'
  BY <1>2 DEF ReconcileVm, BackupFields, host, Mutex, ResumeDeletion, ObservedState
<1>3. ASSUME ReconcileClaim PROVE HeldInv'
  <2>1. /\ pc'[Reconciler] \in {"claimed", "cleanup"} /\ work'[Reconciler].gone = {}
        /\ \A u \in Tasks : u # Reconciler => pc'[u] = "idle"
    BY <1>3 DEF ReconcileClaim, Claim, MayClaim, ClaimCleanup, MayClean, NoWork, Tasks
  <2> QED BY <2>1, HeldFree
<1>4. ASSUME ReconcileSkip PROVE HeldInv'
  BY <1>4 DEF ReconcileSkip, row, host, history
<1> QED BY <1>1, <1>2, <1>3, <1>4 DEF Reconcile

LEMMA HeldWorld ==
  ASSUME TypeOK, FenceInv, StorageInv,
         Issues \/ BackoffExpires \/ GuestWrites \/ GuestExits \/ Crash \/ OrphanEnds
  PROVE  HeldInv'
<1> USE DEF TypeOK, FenceInv, StorageInv, Storing, Busy, RecordInv, SeenInv, HeldInv, Present,
    Verified, Ids, Admitted, CleansUp, Deletes, Restores
<1>1. ASSUME Issues PROVE HeldInv'
  BY <1>1 DEF Issues, Issue, row, host, process
<1>2. ASSUME BackoffExpires PROVE HeldInv'
  BY <1>2 DEF BackoffExpires, host, process, history
<1>3. ASSUME GuestWrites PROVE HeldInv'
  BY <1>3 DEF GuestWrites, row, process
<1>4. ASSUME GuestExits PROVE HeldInv'
  BY <1>4 DEF GuestExits, row, process, history
<1>5. ASSUME Crash PROVE HeldInv'
  BY <1>5, HostEffect, InodeKept DEF Crash, row
<1>6. ASSUME OrphanEnds PROVE HeldInv'
  <2>1. UNCHANGED <<pc, work>> /\ flock = "orphan"
    BY <1>6 DEF OrphanEnds, process
  <2>2. \A t \in Tasks : ~Admitted(t) /\ pc[t] # "cleaning"
    BY <2>1 DEF Locking
  <2>3. \A t \in Tasks : CleansUp(t) => work[t].gone = {}
    BY <2>1, <2>2 DEF SeenInv
  <2> QED BY <2>1, <2>2, <2>3, HeldFree
<1> QED BY <1>1, <1>2, <1>3, <1>4, <1>5, <1>6

LEMMA HeldTask ==
  ASSUME TypeOK, FenceInv, StorageInv, NEW t \in Tasks, ClientClaim(t) \/ TaskStep(t)
  PROVE  HeldInv'
<1> USE DEF TypeOK, FenceInv, StorageInv, Storing, Busy, RecordInv, SeenInv, HeldInv, Present,
    Verified, Ids, Admitted, CleansUp, Deletes, Restores
<1>1. ASSUME ClientClaim(t) PROVE HeldInv'
  <2>1. /\ pc'[t] = "claimed" /\ \A u \in Tasks : u # t => pc'[u] = "idle"
    BY <1>1 DEF ClientClaim, Claim, MayClaim
  <2> QED BY <2>1, HeldFree
<1>2. ASSUME Inspect(t) PROVE HeldInv'
  BY <1>2 DEF Inspect, row, history
<1>3. ASSUME InspectFails(t) PROVE HeldInv'
  BY <1>3 DEF InspectFails, row, host
<1>4. ASSUME Admit(t) PROVE HeldInv'
  <2>1. \A u \in Tasks : u # t => pc[u] = "idle" /\ pc'[u] = "idle"
    BY <1>4 DEF Admit
  <2>2. /\ pc'[t] = "working" /\ work'[t].gone = {} /\ UNCHANGED <<store, current, retired>>
        /\ work'[t].todo =
             IF work[t].req.action = "delete" THEN Ids(retired \union {current}) ELSE {}
    BY <1>4 DEF Admit, host
  <2>3. pending'.req = work[t].req /\ (UNCHANGED pending \/ pending.art.id = 0)
    BY <1>4 DEF Admit, Proceeds, Admission
  <2>4. Deletes' => Present \subseteq Ids(retired \union {current})
    BY <2>2, <2>3 DEF PresentInv, NoStrays, Referenced
  <2> QED BY <2>1, <2>2, <2>3, <2>4, HeldOne
<1>5. ASSUME AdmitRefused(t) PROVE HeldInv'
  BY <1>5 DEF AdmitRefused, row, history
<1>6. ASSUME TakeSnapshot(t) PROVE HeldInv'
  <2>1. \A u \in Tasks : u # t => pc[u] = "idle" /\ pc'[u] = "idle"
    BY <1>6 DEF TakeSnapshot, Settle, Doing
  <2>2. /\ Admitted(t) /\ pc'[t] = "done" /\ work'[t].gone = work[t].gone
        /\ work'[t].todo = work[t].todo /\ UNCHANGED row
    BY <1>6 DEF TakeSnapshot, Settle, Doing, OutsideWork, Work
  <2>3. \A i \in Present' : i \in Present \/ (Creates /\ i = pending.art.id)
    BY <1>6, TaskEffect, PresentAfter
  <2>4. work[t].gone \subseteq Ids(retired) /\ pending.art.id \notin Ids(retired)
    BY <2>2 DEF SeenInv
  <2> HIDE DEF Present, Ids, SeenInv
  <2> QED BY <2>1, <2>2, <2>3, <2>4, HeldOne DEF row, Creates
<1>7. ASSUME RollBack(t) PROVE HeldInv'
  <2>1. \A u \in Tasks : u # t => pc[u] = "idle" /\ pc'[u] = "idle"
    BY <1>7 DEF RollBack, Settle, Doing
  <2>2. /\ Admitted(t) /\ pc'[t] = "done" /\ work'[t].gone = work[t].gone
        /\ work'[t].todo = work[t].todo /\ UNCHANGED row
    BY <1>7 DEF RollBack, Settle, Doing, OutsideWork, Work
  <2>3. \A i \in Present' : i \in Present \/ (Creates /\ i = pending.art.id)
    BY <1>7, TaskEffect, PresentAfter
  <2>4. work[t].gone \subseteq Ids(retired) /\ pending.art.id \notin Ids(retired)
    BY <2>2 DEF SeenInv
  <2> HIDE DEF Present, Ids, SeenInv
  <2> QED BY <2>1, <2>2, <2>3, <2>4, HeldOne DEF row, Creates
<1>8. ASSUME CloneFile(t) PROVE HeldInv'
  <2>1. \A u \in Tasks : u # t => pc[u] = "idle" /\ pc'[u] = "idle"
    BY <1>8 DEF CloneFile
  <2>2. /\ Admitted(t) /\ pc'[t] = "copied" /\ work' = work /\ UNCHANGED <<row, disk>>
        /\ work[t].seen.pending = pending /\ Busy /\ ~Deletes /\ disk.ino = pending.ino
    BY <1>8 DEF CloneFile, OutsideWork, SameDisk
  <2>3. \A i \in Slots : i # pending.art.id => store'[i] = store[i]
    BY <1>8, <2>2, Zenon DEF CloneFile
  <2>4. pending.art.id \in Slots /\ store'[pending.art.id].at > 0
    <3>1. PICK x : store' = [store EXCEPT ![pending.art.id] = Copy(x, FALSE)]
      BY <1>8, <2>2, Zenon DEF CloneFile
    <3> HIDE DEF Busy
    <3>2. Copy(x, FALSE).at > 0 /\ pending.art.id \in Slots
      BY <2>2, CopyPresent
    <3>3. store'[pending.art.id] = Copy(x, FALSE)
      BY <3>1, <3>2
    <3> QED BY <3>2, <3>3, Zenon
  <2>5. work[t].gone \subseteq Ids(retired) /\ pending.art.id \notin Ids(retired)
    BY <2>2
  <2>6. work[t].gone \intersect Present' = {}
    BY <2>2, <2>3, <2>5
  <2> QED BY <2>1, <2>2, <2>4, <2>6, HeldOne DEF row
<1>9. ASSUME WriteManifest(t) PROVE HeldInv'
  <2>1. \A u \in Tasks : u # t => pc[u] = "idle" /\ pc'[u] = "idle"
    BY <1>9 DEF WriteManifest, Settle
  <2>2. /\ Admitted(t) /\ UNCHANGED <<row, disk>> /\ ~Deletes /\ Busy
        /\ work[t].seen.pending = pending /\ pc[t] = "copied"
    BY <1>9 DEF WriteManifest, OutsideWork
  <2>3. /\ pc'[t] \in {"staged", "done"} /\ work'[t].gone = work[t].gone
    BY <1>9, FileStepWork
  <2>4. pc'[t] = "staged" => Restores
    BY <1>9, <2>2 DEF WriteManifest, RequestInv, Actions, Settle
  <2>5. /\ \A i \in Slots : store'[i].at = store[i].at
        /\ store'[pending.art.id].ready
    BY <1>9, <2>2 DEF WriteManifest, Artifact
  <2> QED BY <2>1, <2>2, <2>3, <2>4, <2>5, HeldOne DEF row
<1>10. ASSUME ResumeFile(t) PROVE HeldInv'
  <2>1. Admitted(t) /\ ~Deletes /\ Busy
    BY <1>10, SeenRecord DEF ResumeFile
  <2>2. /\ pc'[t] \in {"staged", "done"} /\ work'[t].gone = work[t].gone
        /\ \A u \in Tasks : u # t => pc[u] = "idle" /\ pc'[u] = "idle"
    BY <1>10, <2>1, FileStepWork
  <2>3. UNCHANGED <<row, disk, store>>
    BY <1>10, Zenon DEF ResumeFile, OutsideWork
  <2>4. pc'[t] = "staged" => Restores /\ HasManifest(pending.art.id) /\ disk.ino # pending.art.id
    BY <1>10, <2>1, SeenRecord, ResumeStages
  <2> QED BY <2>1, <2>2, <2>3, <2>4, HeldOne DEF row, HasManifest
<1>11. ASSUME RenameStage(t) PROVE HeldInv'
  <2>1. /\ Admitted(t) /\ pc'[t] = "done" /\ work'[t].gone = work[t].gone
        /\ work'[t].todo = work[t].todo /\ UNCHANGED row
        /\ \A u \in Tasks : u # t => pc[u] = "idle" /\ pc'[u] = "idle"
    BY <1>11, RenameStageWork
  <2>2. Present' \subseteq Present
    BY <1>11, FileStepStore
  <2> HIDE DEF Present, Ids, SeenInv
  <2> QED BY <2>1, <2>2, HeldOne DEF row
<1>12. ASSUME RemoveNext(t) PROVE HeldInv'
  <2>1. /\ \A u \in Tasks : u # t => pc[u] = "idle" /\ pc'[u] = "idle"
        /\ pc'[t] \in {"working", "done"} /\ work'[t].gone = work[t].gone
        /\ Admitted(t) /\ Deletes /\ UNCHANGED row
    <3>1. Admitted(t) /\ Deletes /\ UNCHANGED row
      BY <1>12 DEF RemoveNext, Doing, OutsideWork
    <3>2. \A u \in Tasks : u # t => pc[u] = "idle"
      BY <3>1
    <3> QED BY <1>12, <3>1, <3>2, RemoveNextWork
  <2>2. Present' \subseteq Present /\ Present' \subseteq work'[t].todo
    <3>1. CASE work[t].todo = {}
      BY <1>12, <2>1, <3>1, RemoveNextWork DEF RemoveNext, Settle
    <3>2. ASSUME NEW i \in work[t].todo, Apply(Destroy(i)),
                 work' = [work EXCEPT ![t].todo = @ \ {i}]
          PROVE  Present' \subseteq Present /\ Present' \subseteq work'[t].todo
      <4>1. i \in Nat
        BY DEF Work
      <4>2. Present' \subseteq Present /\ i \notin Present'
        BY <3>2, <4>1, DestroyEffect DEF Removes
      <4>3. work'[t].todo = work[t].todo \ {i}
        BY <3>2 DEF Work
      <4> HIDE DEF Present
      <4> QED BY <2>1, <4>2, <4>3
    <3> QED BY <1>12, <3>1, <3>2 DEF RemoveNext
  <2> HIDE DEF Present
  <2> QED BY <2>1, <2>2, HeldOne DEF row
<1>13. ASSUME WorkFails(t) PROVE HeldInv'
  <2>1. \A u \in Tasks : u # t => pc[u] = "idle" /\ pc'[u] = "idle"
    BY <1>13 DEF WorkFails, Settle, Doing
  <2>2. /\ Admitted(t) /\ pc'[t] = "done" /\ work'[t].gone = work[t].gone
        /\ work'[t].todo = work[t].todo /\ UNCHANGED row
    BY <1>13 DEF WorkFails, Settle, Doing, OutsideWork, Work
  <2>3. \A i \in Present' : i \in Present \/ (Creates /\ i = pending.art.id)
    BY <1>13, TaskEffect, PresentAfter
  <2>4. work[t].gone \subseteq Ids(retired) /\ pending.art.id \notin Ids(retired)
    BY <2>2 DEF SeenInv
  <2> HIDE DEF Present, Ids, SeenInv
  <2> QED BY <2>1, <2>2, <2>3, <2>4, HeldOne DEF row, Creates
<1>14. ASSUME Finish(t) PROVE HeldInv'
  BY <1>14 DEF Finish, Mutex, NoPending, NoGeneration, host, Abandoned, Publish, Restored, Deleted
<1>15. ASSUME Release(t) PROVE HeldInv'
  BY <1>15 DEF Release, row, host, history
<1>16. ASSUME LockCleanup(t) PROVE HeldInv'
  BY <1>16 DEF LockCleanup, OutsideWork, row, history
<1>17. ASSUME CleanupBlocked(t) PROVE HeldInv'
  BY <1>17 DEF CleanupBlocked, OutsideWork, row
<1>18. ASSUME CleanedAll(t) PROVE HeldInv'
  BY <1>18 DEF CleanedAll, OutsideWork, row, history
<1>19. ASSUME FinishCleanup(t) PROVE HeldInv'
  BY <1>19 DEF FinishCleanup, host, history
<1>20. ASSUME NEW i \in Slots, DropNewer(t, i) PROVE HeldInv'
  <2>1. \A u \in Tasks : u # t => pc[u] = "idle" /\ pc'[u] = "idle"
    BY <1>20 DEF DropNewer, Doing
  <2>2. /\ pc'[t] = "working" /\ Admitted(t) /\ ~Deletes /\ UNCHANGED row
        /\ work'[t].gone = work[t].gone \union {i}
    BY <1>20 DEF DropNewer, Doing, OutsideWork, Work
  <2>3. Present' \subseteq Present /\ i \notin Present'
    BY <1>20, SlotIds, DestroyEffect DEF DropNewer, Removes
  <2> HIDE DEF Present
  <2> QED BY <2>1, <2>2, <2>3, HeldOne DEF row
<1>21. ASSUME NEW i \in Slots, CleanOne(t, i) PROVE HeldInv'
  <2>1. \A u \in Tasks : u # t => pc[u] = "idle" /\ pc'[u] = "idle"
    BY <1>21 DEF CleanOne
  <2>2. pc'[t] = "cleaning" /\ CleansUp(t) /\ ~Admitted(t)'
    BY <1>21 DEF CleanOne
  <2>3. Present' \subseteq Present
    BY <1>21, TaskEffect, PresentAfter DEF Creates, SeenInv, CleanOne
  <2>4. work'[t].gone \intersect Present' = {}
    <3>1. CASE /\ Apply(Destroy(i))
               /\ work' = [work EXCEPT ![t].todo = @ \ {i}, ![t].gone = @ \union {i}]
      <4>1. i \notin Present'
        BY <3>1, SlotIds, DestroyEffect
      <4>2. work'[t].gone = work[t].gone \union {i}
        BY <3>1 DEF Work
      <4> HIDE DEF Present
      <4> QED BY <2>2, <2>3, <4>1, <4>2
    <3>2. CASE work' = [work EXCEPT ![t].todo = @ \ {i}, ![t].ok = FALSE]
      <4>1. work'[t].gone = work[t].gone
        BY <3>2 DEF Work
      <4> HIDE DEF Present
      <4> QED BY <2>2, <2>3, <4>1
    <3> QED BY <1>21, <3>1, <3>2 DEF CleanOne
  <2> QED BY <2>1, <2>2, <2>4, HeldOne
<1> QED BY <1>1, <1>2, <1>3, <1>4, <1>5, <1>6, <1>7, <1>8, <1>9, <1>10, <1>11, <1>12, <1>13,
       <1>14, <1>15, <1>16, <1>17, <1>18, <1>19, <1>20, <1>21 DEF TaskStep

(***************************************************************************)
(* The record, the disk and the backup agree on capacity, and the          *)
(* published backup is whole.                                              *)
(***************************************************************************)
LEMMA CapacityEffect ==
  ASSUME TypeOK, FenceInv, StorageInv, Effect,
         UNCHANGED <<state, size, target, current, pending, vmm>>, op' \in {op, "idle"}
  PROVE  CapacityInv'
<1> USE DEF StorageInv, CapacityInv
<1>1. /\ UNCHANGED <<Deletes, Restores, Creates, Busy>>
      /\ current.id # 0 => current.id \in Slots /\ current.id \notin Ids(retired)
      /\ Busy => pending.art.id # current.id
      /\ Busy => op \notin {"resize", "resized"}
  BY BoundsAssumption DEF Deletes, Restores, Creates, Busy, Ids, RecordInv, Slots, TypeOK,
     Generation,
     FenceInv
<1>2. CASE Removes(Ids(retired))
  BY <1>1, <1>2 DEF Removes, Verified, Present
<1>3. CASE (Deletes \/ state = "Deleting") /\ Removes(Referenced)
  BY <1>1, <1>3 DEF Removes, Deletes
<1>4. CASE Captures
  <2>1. current.id # 0 => store'[current.id] = store[current.id]
    BY <1>1, <1>4 DEF Captures, Creates, TypeOK
  <2> QED BY <1>1, <1>4, <2>1 DEF Captures, Verified, Present
<1>5. CASE Rewinds
  <2>1. disk'.ino = disk.ino /\ store' = store /\ op \notin {"resize", "resized"}
    BY <1>1, <1>5, InodeKept DEF Rewinds, Restores
  <2>2. ASSUME state # "Deleting" PROVE disk'.size = disk.size
    <3>1. Restores /\ ~Deletes
      BY <1>5 DEF Rewinds, Restores, Deletes
    <3>2. current.id # 0 => store[current.id].size = disk.size
      BY <2>2, <3>1
    <3>3. current.id \in Present => current.id # 0
      BY DEF PresentInv, NoStrays, Referenced, Ids
    <3> QED BY <1>5, <3>2, <3>3 DEF Rewinds, TypeOK, Disk
  <2> QED BY <1>1, <2>1, <2>2 DEF Verified, Present
<1> QED BY <1>2, <1>3, <1>4, <1>5 DEF Effect

LEMMA CapacityLifecycle ==
  ASSUME TypeOK, FenceInv, StorageInv, Lifecycle
  PROVE  CapacityInv'
<1> USE DEF TypeOK, FenceInv, StorageInv, OnRequest, Locking, Storing, Busy, Erasing, Generation,
    Pending, Disk, RecordInv, SeenInv, CapacityInv, Verified, Present, Admitted, Deletes,
    Artifact
<1>1. ASSUME CreateVm PROVE CapacityInv'
  BY <1>1 DEF CreateVm, Mutex, host, OutsideHost
<1>2. ASSUME StartVm PROVE CapacityInv'
  BY <1>2 DEF StartVm, Guarded, Mutex, BackupFields, host, OutsideHost
<1>3. ASSUME StopVm PROVE CapacityInv'
  BY <1>3 DEF StopVm, Guarded, Mutex, row, OutsideHost
<1>4. ASSUME DestroyVm PROVE CapacityInv'
  BY <1>4 DEF DestroyVm, Mutex, BackupFields, host, OutsideHost
<1>5. ASSUME NEW s \in Sizes, ResizeVm(s) PROVE CapacityInv'
  <2>1. (current.id # 0 => s = size) /\ s # 0 /\ ~Busy
    BY <1>5, SizesAssumption DEF ResizeVm, KeepsCapacity, HasArtifacts, Guarded
  <2>2. /\ target' = s /\ op' = "resize"
        /\ UNCHANGED <<state, size, current, pending, disk, store, vmm>>
    BY <1>5 DEF ResizeVm, BackupFields, host
  <2> QED BY <2>1, <2>2
<1> QED BY <1>1, <1>2, <1>3, <1>4, <1>5 DEF Lifecycle

LEMMA CapacityHostStep ==
  ASSUME TypeOK, FenceInv, StorageInv, HostStep
  PROVE  CapacityInv'
<1> USE DEF TypeOK, FenceInv, StorageInv, OnRequest, Locking, Storing, Busy, Erasing, Generation,
    Pending, Disk, RecordInv, SeenInv, CapacityInv, Verified, Present, Admitted, Deletes,
    Artifact
<1>1. ASSUME CloneImage PROVE CapacityInv'
  BY <1>1 DEF CloneImage, row, OutsideHost
<1>2. ASSUME BootVmm PROVE CapacityInv'
  BY <1>2 DEF BootVmm, row, OutsideHost
<1>3. ASSUME BootEnds PROVE CapacityInv'
  BY <1>3 DEF BootEnds, BackupFields, host, OutsideHost
<1>4. ASSUME StopEnds PROVE CapacityInv'
  BY <1>4 DEF StopEnds, BackupFields, host, OutsideHost
<1>5. ASSUME GrowDisk PROVE CapacityInv'
  BY <1>5 DEF GrowDisk, row, OutsideHost
<1>6. ASSUME ResizeEnds PROVE CapacityInv'
  BY <1>6 DEF ResizeEnds, BackupFields, host, OutsideHost
<1>7. ASSUME DestroyStops PROVE CapacityInv'
  BY <1>7 DEF DestroyStops, row, OutsideHost
<1>8. ASSUME LockBackups PROVE CapacityInv'
  BY <1>8 DEF LockBackups, row, OutsideHost, HasArtifacts
<1>9. ASSUME RemoveBackups PROVE CapacityInv'
  BY <1>9, HostEffect, InodeKept DEF RemoveBackups, OutsideHost, NoPending, NoGeneration
<1>10. ASSUME EraseDisk PROVE CapacityInv'
  BY <1>10 DEF EraseDisk, row, OutsideHost, NoDisk
<1>11. ASSUME DeleteRow PROVE CapacityInv'
  BY <1>11 DEF DeleteRow, host, OutsideHost, NoPending, NoGeneration
<1> QED BY <1>1, <1>2, <1>3, <1>4, <1>5, <1>6, <1>7, <1>8, <1>9, <1>10, <1>11 DEF HostStep

LEMMA CapacityReconcile ==
  ASSUME TypeOK, FenceInv, StorageInv, Reconcile
  PROVE  CapacityInv'
<1> USE DEF TypeOK, FenceInv, StorageInv, OnRequest, Locking, Storing, Busy, Erasing, Generation,
    Pending, Disk, RecordInv, SeenInv, CapacityInv, Verified, Present, Admitted, Deletes,
    Artifact
<1>1. ASSUME ScanRecord PROVE CapacityInv'
  BY <1>1 DEF ScanRecord, row, host, history
<1>2. ASSUME ReconcileVm PROVE CapacityInv'
  BY <1>2 DEF ReconcileVm, BackupFields, host, Mutex, ResumeDeletion, ObservedState
<1>3. ASSUME ReconcileClaim PROVE CapacityInv'
  BY <1>3 DEF ReconcileClaim, Claim, MayClaim, ClaimCleanup, MayClean, Mutex, row, host, history
<1>4. ASSUME ReconcileSkip PROVE CapacityInv'
  BY <1>4 DEF ReconcileSkip, row, host, history
<1> QED BY <1>1, <1>2, <1>3, <1>4 DEF Reconcile

LEMMA CapacityWorld ==
  ASSUME TypeOK, FenceInv, StorageInv,
         Issues \/ BackoffExpires \/ GuestWrites \/ GuestExits \/ Crash \/ OrphanEnds
  PROVE  CapacityInv'
<1> USE DEF TypeOK, FenceInv, StorageInv, OnRequest, Locking, Storing, Busy, Erasing, Generation,
    Pending, Disk, RecordInv, SeenInv, CapacityInv, Verified, Present, Admitted, Deletes,
    Artifact
<1>1. ASSUME Issues PROVE CapacityInv'
  BY <1>1 DEF Issues, Issue, row, host, process
<1>2. ASSUME BackoffExpires PROVE CapacityInv'
  BY <1>2 DEF BackoffExpires, host, process, history
<1>3. ASSUME GuestWrites PROVE CapacityInv'
  BY <1>3 DEF GuestWrites, row, process
<1>4. ASSUME GuestExits PROVE CapacityInv'
  BY <1>4 DEF GuestExits, row, process, history
<1>5. ASSUME Crash PROVE CapacityInv'
  BY <1>5, HostEffect, CapacityEffect DEF Crash, row
<1>6. ASSUME OrphanEnds PROVE CapacityInv'
  BY <1>6, HostEffect, CapacityEffect DEF OrphanEnds, row, process
<1> QED BY <1>1, <1>2, <1>3, <1>4, <1>5, <1>6

LEMMA CapacityTask ==
  ASSUME TypeOK, FenceInv, StorageInv, NEW t \in Tasks, ClientClaim(t) \/ TaskStep(t)
  PROVE  CapacityInv'
<1> USE DEF TypeOK, FenceInv, StorageInv, OnRequest, Locking, Storing, Busy, Erasing, Generation,
    Pending, Disk, RecordInv, SeenInv, CapacityInv, Verified, Present, Admitted, Deletes,
    Artifact
<1>1. ASSUME ClientClaim(t) PROVE CapacityInv'
  BY <1>1 DEF ClientClaim, Claim, MayClaim, Mutex, row, host, history
<1>2. ASSUME Inspect(t) PROVE CapacityInv'
  BY <1>2 DEF Inspect, row, history
<1>3. ASSUME InspectFails(t) PROVE CapacityInv'
  BY <1>3 DEF InspectFails, row, host
<1>4. ASSUME Admit(t) PROVE CapacityInv'
  BY <1>4 DEF Admit, Mutex, Qualified, Admission, host
<1>5. ASSUME AdmitRefused(t) PROVE CapacityInv'
  BY <1>5 DEF AdmitRefused, row, history
<1>6. ASSUME TakeSnapshot(t) PROVE CapacityInv'
  BY <1>6, TaskEffect, CapacityEffect DEF TakeSnapshot, OutsideWork, row
<1>7. ASSUME RollBack(t) PROVE CapacityInv'
  BY <1>7, TaskEffect, CapacityEffect DEF RollBack, OutsideWork, row
<1>8. ASSUME CloneFile(t) PROVE CapacityInv'
  <2>1. /\ UNCHANGED <<row, disk, vmm, op>> /\ Busy /\ work[t].seen.pending = pending
        /\ \A i \in Slots : i # pending.art.id => store'[i] = store[i]
    <3>1. UNCHANGED <<row, disk, vmm, op>> /\ Admitted(t)
      BY <1>8 DEF CloneFile, OutsideWork
    <3>2. Busy /\ work[t].seen.pending = pending /\ work[t].seen.current = current
      BY <3>1, SeenRecord
    <3> QED BY <1>8, <3>1, <3>2, CloneElsewhere
  <2>2. pending.art.id # current.id
    BY <2>1
  <2> QED BY <2>1, <2>2 DEF row
<1>9. ASSUME WriteManifest(t) PROVE CapacityInv'
  <2>1. UNCHANGED <<row, disk, vmm, op>> /\ Admitted(t)
    BY <1>9 DEF WriteManifest, OutsideWork
  <2>2. /\ pending.art.id # current.id
        /\ \A i \in Slots : i # pending.art.id => store'[i] = store[i]
    BY <1>9, <2>1, SeenRecord, FileStepStore
  <2> QED BY <2>1, <2>2 DEF row
<1>10. ASSUME ResumeFile(t) PROVE CapacityInv'
  BY <1>10 DEF ResumeFile, Settle, OutsideWork, row, history
<1>11. ASSUME RenameStage(t) PROVE CapacityInv'
  <2>1. /\ UNCHANGED <<row, vmm, op>> /\ Admitted(t) /\ pc[t] = "staged"
        /\ work[t].seen.pending = pending
    BY <1>11, RenameStageWork, SeenRecord
  <2>2. /\ Restores /\ pending.art.id \in Present /\ disk.ino # pending.art.id
        /\ state = "Stopped" /\ op = "idle"
    BY <2>1 DEF HeldInv
  <2>3. disk'.ino # 0 /\ disk'.size = size
    BY <1>11, <2>1, <2>2 DEF RenameStage, ContentInv, Restores
  <2>4. \A i \in Slots : i # pending.art.id => store'[i] = store[i]
    BY <1>11, <2>1, FileStepStore
  <2>5. pending.art.id # current.id
    BY <2>2 DEF Restores
  <2> QED BY <2>1, <2>2, <2>3, <2>4, <2>5 DEF row
<1>12. ASSUME RemoveNext(t) PROVE CapacityInv'
  BY <1>12, TaskEffect, CapacityEffect DEF RemoveNext, OutsideWork, row
<1>13. ASSUME WorkFails(t) PROVE CapacityInv'
  BY <1>13, TaskEffect, CapacityEffect DEF WorkFails, OutsideWork, row
<1>14. ASSUME Finish(t) PROVE CapacityInv'
  <2>1. UNCHANGED <<state, size, target, disk, store, vmm, op>> /\ op = "idle" /\ Busy
    BY <1>14 DEF Finish, host, Mutex
  <2>2. CASE UNCHANGED <<current, pending>>
    BY <2>1, <2>2
  <2>3. CASE pending' = NoPending /\ current' = current /\ ~Deletes
    BY <2>1, <2>3 DEF NoPending, NoGeneration
  <2>4. CASE pending' = NoPending /\ current' = pending.art /\ Creates /\ Succeeded(t)
    BY <2>1, <2>4 DEF NoPending, NoGeneration, ContentInv, DoneInv, Creates
  <2>5. CASE pending' = NoPending /\ current' = NoGeneration
    BY <2>1, <2>5 DEF NoPending, NoGeneration
  <2> QED BY <1>14, <2>1, <2>2, <2>3, <2>4, <2>5, FinishCases DEF Abandoned, Publish, Restored,
         Deleted, Creates, Deletes, Restores
<1>15. ASSUME Release(t) PROVE CapacityInv'
  BY <1>15 DEF Release, row, host, history
<1>16. ASSUME LockCleanup(t) PROVE CapacityInv'
  BY <1>16 DEF LockCleanup, OutsideWork, row, history
<1>17. ASSUME CleanupBlocked(t) PROVE CapacityInv'
  BY <1>17 DEF CleanupBlocked, OutsideWork, row
<1>18. ASSUME CleanedAll(t) PROVE CapacityInv'
  BY <1>18 DEF CleanedAll, OutsideWork, row, history
<1>19. ASSUME FinishCleanup(t) PROVE CapacityInv'
  BY <1>19 DEF FinishCleanup, host, history
<1>20. ASSUME NEW i \in Slots, DropNewer(t, i) PROVE CapacityInv'
  BY <1>20, TaskEffect, CapacityEffect DEF DropNewer, OutsideWork, row
<1>21. ASSUME NEW i \in Slots, CleanOne(t, i) PROVE CapacityInv'
  BY <1>21, TaskEffect, CapacityEffect DEF CleanOne, OutsideWork, row
<1> QED BY <1>1, <1>2, <1>3, <1>4, <1>5, <1>6, <1>7, <1>8, <1>9, <1>10, <1>11, <1>12, <1>13,
       <1>14, <1>15, <1>16, <1>17, <1>18, <1>19, <1>20, <1>21 DEF TaskStep

(***************************************************************************)
(* A pending artifact holds what it is to hold.                            *)
(***************************************************************************)
LEMMA ContentEffect ==
  ASSUME TypeOK, FenceInv, StorageInv, Effect, UNCHANGED <<state, size, current, pending>>
  PROVE  ContentInv'
<1> USE DEF StorageInv, ContentInv
<1>1. /\ UNCHANGED <<Deletes, Restores, Creates, Busy>>
      /\ current.id # 0 => current.id \in Slots /\ current.id \notin Ids(retired)
      /\ Busy => pending.art.id \in Slots /\ pending.art.id \notin Ids(retired)
      /\ Busy => pending.art.id # current.id
  BY BoundsAssumption DEF Deletes, Restores, Creates, Busy, Ids, RecordInv, Slots, TypeOK,
     Generation, Pending
<1>2. CASE Removes(Ids(retired))
  BY <1>1, <1>2 DEF Removes, Present, Creates, Restores
<1>3. CASE (Deletes \/ state = "Deleting") /\ Removes(Referenced)
  BY <1>1, <1>3 DEF Removes, Deletes, Creates, Restores
<1>4. CASE Captures
  <2>1. Creates /\ ~Restores /\ disk' = disk /\ store \in [Slots -> Artifact]
    BY <1>4 DEF Captures, Creates, Restores, TypeOK
  <2>2. CASE store' = store
    BY <1>1, <2>1, <2>2 DEF Present
  <2>3. CASE store' = [store EXCEPT ![pending.art.id] = Copy(disk, TRUE)]
    <3>1. store'[pending.art.id] = Copy(disk, TRUE)
      BY <1>1, <2>1, <2>3 DEF Creates
    <3> QED BY <1>1, <2>1, <3>1 DEF Copy
  <2> QED BY <1>4, <2>2, <2>3 DEF Captures
<1>5. CASE Rewinds
  <2>1. disk'.ino = disk.ino /\ store' = store /\ ~Creates /\ Backend = "zvol" /\ Restores
    BY <1>5, InodeKept DEF Rewinds, Creates, Restores, Effect
  <2>2. disk'.data \in {disk.data, store[current.id].data}
    BY <1>5 DEF Rewinds, TypeOK, Disk
  <2>3. pending.art.id \notin Present'
    BY <2>1 DEF PresentInv, Present
  <2> QED BY <1>1, <2>1, <2>2, <2>3
<1> QED BY <1>2, <1>3, <1>4, <1>5 DEF Effect

LEMMA CloneCopies ==
  ASSUME TypeOK, FenceInv, StorageInv, NEW t \in Tasks, CloneFile(t)
  PROVE  /\ UNCHANGED <<row, disk>> /\ Busy
         /\ pending.art.id \in Slots /\ current.id \in Slots /\ pending.art.id # current.id
         /\ store'[current.id] = store[current.id]
         /\ Restores => /\ store'[pending.art.id].data = store[current.id].data
                        /\ store'[pending.art.id].size = store[current.id].size
         /\ ~Restores => /\ store'[pending.art.id].data = disk.data
                         /\ store'[pending.art.id].size = disk.size
<1>1. /\ UNCHANGED <<row, disk>> /\ Busy
      /\ work[t].seen = [current |-> current, retired |-> retired, pending |-> pending]
  BY DEF CloneFile, OutsideWork, StorageInv, SeenInv, Admitted, Storing, FenceInv
<1>2. store' = [store EXCEPT ![pending.art.id] =
                  Copy(IF pending.req.action = "restore" THEN store[current.id] ELSE disk, FALSE)]
  <2>1. work[t].seen.pending = pending /\ work[t].seen.current = current
    BY <1>1
  <2> QED BY <2>1, CloneEffect, Zenon
<1>3. pending.art.id \in Slots /\ pending.art.id # current.id
  BY <1>1, CopyPresent DEF StorageInv, RecordInv
<1>4. current.id \in Slots
  BY BoundsAssumption DEF StorageInv, RecordInv, Slots, TypeOK, Generation
<1>5. CASE Restores
  <2>1. store' = [store EXCEPT ![pending.art.id] = Copy(store[current.id], FALSE)]
    BY <1>2, <1>5 DEF Restores
  <2>2. /\ store'[pending.art.id].data = store[current.id].data
        /\ store'[pending.art.id].size = store[current.id].size
        /\ store'[current.id] = store[current.id]
    BY <1>3, <1>4, <2>1 DEF Copy, TypeOK
  <2> QED BY <1>1, <1>3, <1>4, <1>5, <2>2
<1>6. CASE ~Restores
  <2>1. store' = [store EXCEPT ![pending.art.id] = Copy(disk, FALSE)]
    BY <1>1, <1>2, <1>6 DEF Restores
  <2>2. /\ store'[pending.art.id].data = disk.data
        /\ store'[pending.art.id].size = disk.size
        /\ store'[current.id] = store[current.id]
    BY <1>3, <1>4, <2>1 DEF Copy, TypeOK
  <2> QED BY <1>1, <1>3, <1>4, <1>6, <2>2
<1> QED BY <1>5, <1>6

LEMMA ContentLifecycle ==
  ASSUME TypeOK, FenceInv, StorageInv, Lifecycle
  PROVE  ContentInv'
<1> USE DEF TypeOK, FenceInv, StorageInv, Storing, Busy, OnRequest, Disk, Generation, RecordInv,
    PresentInv, CapacityInv, ContentInv, Present, Verified, Ids, Deletes, Creates, Restores,
    Artifact
<1>1. ASSUME CreateVm PROVE ContentInv'
  BY <1>1 DEF CreateVm, Mutex, host, OutsideHost
<1>2. ASSUME StartVm PROVE ContentInv'
  BY <1>2 DEF StartVm, Guarded, Mutex, BackupFields, host, OutsideHost
<1>3. ASSUME StopVm PROVE ContentInv'
  BY <1>3 DEF StopVm, Guarded, Mutex, row, OutsideHost
<1>4. ASSUME DestroyVm PROVE ContentInv'
  BY <1>4 DEF DestroyVm, Mutex, BackupFields, host, OutsideHost
<1>5. ASSUME NEW s \in Sizes, ResizeVm(s) PROVE ContentInv'
  BY <1>5 DEF ResizeVm, Guarded, Mutex, BackupFields, host, OutsideHost
<1> QED BY <1>1, <1>2, <1>3, <1>4, <1>5 DEF Lifecycle

LEMMA ContentHostStep ==
  ASSUME TypeOK, FenceInv, StorageInv, HostStep
  PROVE  ContentInv'
<1> USE DEF TypeOK, FenceInv, StorageInv, Storing, Busy, OnRequest, Disk, Generation, RecordInv,
    PresentInv, CapacityInv, ContentInv, Present, Verified, Ids, Deletes, Creates, Restores,
    Artifact
<1>1. ASSUME CloneImage PROVE ContentInv'
  BY <1>1 DEF CloneImage, row, OutsideHost
<1>2. ASSUME BootVmm PROVE ContentInv'
  BY <1>2 DEF BootVmm, row, OutsideHost
<1>3. ASSUME BootEnds PROVE ContentInv'
  BY <1>3 DEF BootEnds, BackupFields, host, OutsideHost
<1>4. ASSUME StopEnds PROVE ContentInv'
  BY <1>4 DEF StopEnds, BackupFields, host, OutsideHost
<1>5. ASSUME GrowDisk PROVE ContentInv'
  BY <1>5 DEF GrowDisk, row, OutsideHost
<1>6. ASSUME ResizeEnds PROVE ContentInv'
  BY <1>6 DEF ResizeEnds, BackupFields, host, OutsideHost
<1>7. ASSUME DestroyStops PROVE ContentInv'
  BY <1>7 DEF DestroyStops, row, OutsideHost
<1>8. ASSUME LockBackups PROVE ContentInv'
  BY <1>8 DEF LockBackups, row, OutsideHost, HasArtifacts
<1>9. ASSUME RemoveBackups PROVE ContentInv'
  <2>1. CASE UNCHANGED <<current, pending>>
    BY <1>9, <2>1, HostEffect, ContentEffect DEF RemoveBackups
  <2>2. CASE pending' = NoPending
    BY <2>2 DEF NoPending, NoGeneration
  <2> QED BY <1>9, <2>1, <2>2 DEF RemoveBackups
<1>10. ASSUME EraseDisk PROVE ContentInv'
  BY <1>10 DEF EraseDisk, row, OutsideHost, NoDisk
<1>11. ASSUME DeleteRow PROVE ContentInv'
  BY <1>11 DEF DeleteRow, host, OutsideHost, NoPending, NoGeneration
<1> QED BY <1>1, <1>2, <1>3, <1>4, <1>5, <1>6, <1>7, <1>8, <1>9, <1>10, <1>11 DEF HostStep

LEMMA ContentReconcile ==
  ASSUME TypeOK, FenceInv, StorageInv, Reconcile
  PROVE  ContentInv'
<1> USE DEF TypeOK, FenceInv, StorageInv, Storing, Busy, OnRequest, Disk, Generation, RecordInv,
    PresentInv, CapacityInv, ContentInv, Present, Verified, Ids, Deletes, Creates, Restores,
    Artifact
<1>1. ASSUME ScanRecord PROVE ContentInv'
  BY <1>1 DEF ScanRecord, row, host, history
<1>2. ASSUME ReconcileVm PROVE ContentInv'
  BY <1>2 DEF ReconcileVm, BackupFields, host, Mutex, ResumeDeletion, ObservedState
<1>3. ASSUME ReconcileClaim PROVE ContentInv'
  BY <1>3 DEF ReconcileClaim, Claim, MayClaim, ClaimCleanup, MayClean, Mutex, row, host, history
<1>4. ASSUME ReconcileSkip PROVE ContentInv'
  BY <1>4 DEF ReconcileSkip, row, host, history
<1> QED BY <1>1, <1>2, <1>3, <1>4 DEF Reconcile

LEMMA ContentWorld ==
  ASSUME TypeOK, FenceInv, StorageInv,
         Issues \/ BackoffExpires \/ GuestWrites \/ GuestExits \/ Crash \/ OrphanEnds
  PROVE  ContentInv'
<1> USE DEF TypeOK, FenceInv, StorageInv, Storing, Busy, OnRequest, Disk, Generation, RecordInv,
    PresentInv, CapacityInv, ContentInv, Present, Verified, Ids, Deletes, Creates, Restores,
    Artifact
<1>1. ASSUME Issues PROVE ContentInv'
  BY <1>1 DEF Issues, Issue, row, host, process
<1>2. ASSUME BackoffExpires PROVE ContentInv'
  BY <1>2 DEF BackoffExpires, host, process, history
<1>3. ASSUME GuestWrites PROVE ContentInv'
  BY <1>3 DEF GuestWrites, row, process
<1>4. ASSUME GuestExits PROVE ContentInv'
  BY <1>4 DEF GuestExits, row, process, history
<1>5. ASSUME Crash PROVE ContentInv'
  BY <1>5, HostEffect, ContentEffect DEF Crash, row
<1>6. ASSUME OrphanEnds PROVE ContentInv'
  BY <1>6, HostEffect, ContentEffect DEF OrphanEnds, row, process
<1> QED BY <1>1, <1>2, <1>3, <1>4, <1>5, <1>6

LEMMA ContentTask ==
  ASSUME TypeOK, FenceInv, StorageInv, NEW t \in Tasks, ClientClaim(t) \/ TaskStep(t)
  PROVE  ContentInv'
<1> USE DEF TypeOK, FenceInv, StorageInv, Storing, Busy, OnRequest, Disk, Generation, RecordInv,
    PresentInv, CapacityInv, ContentInv, Present, Verified, Ids, Deletes, Creates, Restores,
    Artifact
<1>1. ASSUME ClientClaim(t) PROVE ContentInv'
  BY <1>1 DEF ClientClaim, Claim, MayClaim, Mutex, row, host, history
<1>2. ASSUME Inspect(t) PROVE ContentInv'
  BY <1>2 DEF Inspect, row, history
<1>3. ASSUME InspectFails(t) PROVE ContentInv'
  BY <1>3 DEF InspectFails, row, host
<1>4. ASSUME Admit(t) PROVE ContentInv'
  <2>1. UNCHANGED <<state, size, disk, store, current>>
    BY <1>4, Zenon DEF Admit, host
  <2>2. CASE UNCHANGED pending
    BY <2>1, <2>2
  <2>3. CASE ~Busy /\ Qualified(work[t].req, work[t]) /\ Admission(work[t].req, work[t])
    <3>1. pending'.art.id = minted + 1 /\ pending'.req = work[t].req
      BY <2>3 DEF Admission
    <3>2. pending'.art.id \notin Present /\ disk.ino # pending'.art.id
      BY <3>1, ReferencedIds DEF NoStrays
    <3>3. work[t].req.action = "restore" => current.id # 0 /\ current.id = work[t].req.gen
      BY <2>3 DEF Qualified, NamesPublished
    <3> QED BY <2>1, <3>1, <3>2, <3>3
  <2> QED BY <1>4, <2>2, <2>3 DEF Admit
<1>5. ASSUME AdmitRefused(t) PROVE ContentInv'
  BY <1>5 DEF AdmitRefused, row, history
<1>6. ASSUME TakeSnapshot(t) PROVE ContentInv'
  BY <1>6, TaskEffect, ContentEffect DEF TakeSnapshot, OutsideWork, row
<1>7. ASSUME RollBack(t) PROVE ContentInv'
  BY <1>7, TaskEffect, ContentEffect DEF RollBack, OutsideWork, row
<1>8. ASSUME CloneFile(t) PROVE ContentInv'
  BY <1>8, CloneCopies DEF row
<1>9. ASSUME WriteManifest(t) PROVE ContentInv'
  <2>1. /\ UNCHANGED <<row, disk>> /\ Busy
        /\ work[t].seen = [current |-> current, retired |-> retired, pending |-> pending]
    BY <1>9 DEF WriteManifest, OutsideWork, SeenInv, Admitted
  <2>2. \A i \in Slots : /\ store'[i].data = store[i].data /\ store'[i].size = store[i].size
                        /\ store'[i].at = store[i].at
    BY <1>9, FileStepStore
  <2>3. Busy => pending.art.id \in Slots
    BY CopyPresent
  <2>4. current.id \in Slots
    BY BoundsAssumption DEF Slots
  <2> QED BY <2>1, <2>2, <2>3, <2>4 DEF row
<1>10. ASSUME ResumeFile(t) PROVE ContentInv'
  BY <1>10 DEF ResumeFile, OutsideWork, row
<1>11. ASSUME RenameStage(t) PROVE ContentInv'
  <2>1. /\ UNCHANGED row /\ Busy
        /\ work[t].seen = [current |-> current, retired |-> retired, pending |-> pending]
    BY <1>11 DEF RenameStage, OutsideWork, SeenInv, Admitted
  <2>2. /\ disk'.data = store[pending.art.id].data /\ disk'.ino = pending.art.id
        /\ pending.art.id \in Present /\ Restores /\ disk.ino # pending.art.id
    BY <1>11, <2>1 DEF RenameStage, HeldInv
  <2>3. \A i \in Slots : store'[i].data = store[i].data /\ store'[i].at = store[i].at
    BY <1>11, FileStepStore
  <2>4. current.id \in Slots
    BY BoundsAssumption DEF Slots
  <2> QED BY <2>1, <2>2, <2>3, <2>4 DEF row
<1>12. ASSUME RemoveNext(t) PROVE ContentInv'
  BY <1>12, TaskEffect, ContentEffect DEF RemoveNext, OutsideWork, row
<1>13. ASSUME WorkFails(t) PROVE ContentInv'
  BY <1>13, TaskEffect, ContentEffect DEF WorkFails, OutsideWork, row
<1>14. ASSUME Finish(t) PROVE ContentInv'
  BY <1>14 DEF Finish, Mutex, NoPending, NoGeneration, host, Abandoned, Publish, Restored, Deleted
<1>15. ASSUME Release(t) PROVE ContentInv'
  BY <1>15 DEF Release, row, host, history
<1>16. ASSUME LockCleanup(t) PROVE ContentInv'
  BY <1>16 DEF LockCleanup, OutsideWork, row, history
<1>17. ASSUME CleanupBlocked(t) PROVE ContentInv'
  BY <1>17 DEF CleanupBlocked, OutsideWork, row
<1>18. ASSUME CleanedAll(t) PROVE ContentInv'
  BY <1>18 DEF CleanedAll, OutsideWork, row, history
<1>19. ASSUME FinishCleanup(t) PROVE ContentInv'
  BY <1>19 DEF FinishCleanup, host, history
<1>20. ASSUME NEW i \in Slots, DropNewer(t, i) PROVE ContentInv'
  BY <1>20, TaskEffect, ContentEffect DEF DropNewer, OutsideWork, row
<1>21. ASSUME NEW i \in Slots, CleanOne(t, i) PROVE ContentInv'
  BY <1>21, TaskEffect, ContentEffect DEF CleanOne, OutsideWork, row
<1> QED BY <1>1, <1>2, <1>3, <1>4, <1>5, <1>6, <1>7, <1>8, <1>9, <1>10, <1>11, <1>12, <1>13,
       <1>14, <1>15, <1>16, <1>17, <1>18, <1>19, <1>20, <1>21 DEF TaskStep

(***************************************************************************)
(* Storage work that succeeded has done what its receipt will say.         *)
(***************************************************************************)
LEMMA DoneUnchanged ==
  ASSUME DoneInv, UNCHANGED <<pc, work, pending, current, disk, store>>
  PROVE  DoneInv'
BY DEF DoneInv, Succeeded, Creates, Restores, Busy, Verified, Present

LEMMA DoneAlone ==
  ASSUME FenceInv, StorageInv, NEW t \in Tasks, Admitted(t),
         \A u \in Tasks : u # t => pc'[u] = pc[u],
         UNCHANGED <<pending, current>>,
         Creates /\ Succeeded(t)' => Verified(pending.art.id)',
         Restores /\ Succeeded(t)' => disk'.data = store'[current.id].data
  PROVE  DoneInv'
<1>1. ASSUME NEW u \in Tasks, u # t PROVE ~Succeeded(u)'
  BY <1>1 DEF FenceInv, Admitted, Storing, Succeeded
<1> QED BY <1>1 DEF DoneInv, Creates, Restores, Busy

LEMMA SnapshotEffect ==
  ASSUME TypeOK, StorageInv, Creates, Backend = "zvol", UNCHANGED pending,
         Apply(Snapshot(pending.art.id))
  PROVE  Verified(pending.art.id)'
<1>1. pending.art.id \in 1..minted /\ minted \in Nat /\ pending.art.id \in Slots
  BY BoundsAssumption DEF StorageInv, RecordInv, Creates, Busy, TypeOK, Pending, Generation, Slots
<1>2. CASE pending.art.id \notin Present
  <2>1. store' = [store EXCEPT ![pending.art.id] = Copy(disk, TRUE)]
    BY <1>2 DEF Apply, Snapshot
  <2>2. store'[pending.art.id] = Copy(disk, TRUE)
    BY <1>1, <2>1 DEF TypeOK
  <2> QED BY <1>1, <2>2 DEF Verified, Present, Copy
<1>3. CASE pending.art.id \in Present
  <2>1. store' = store
    BY <1>3 DEF Apply, Snapshot
  <2> QED BY <1>3, <2>1 DEF Verified, Present, StorageInv, PresentInv
<1> QED BY <1>2, <1>3

LEMMA RollbackEffect ==
  ASSUME TypeOK, UNCHANGED current, Apply(Rollback(current.id)), current.id \in Present,
         Newer(current.id) = {}
  PROVE  disk'.data = store'[current.id].data
BY DEF Apply, Rollback, TypeOK, Disk

LEMMA ManifestEffect ==
  ASSUME TypeOK, UNCHANGED pending, pending.art.id \in Present,
         store' = [store EXCEPT ![pending.art.id].ready = TRUE]
  PROVE  Verified(pending.art.id)'
BY DEF TypeOK, Artifact, Present, Verified

LEMMA ManifestSettles ==
  ASSUME TypeOK, NEW t \in Tasks, WriteManifest(t), work[t].seen.pending.req.action # "create"
  PROVE  pc'[t] = "staged"
BY DEF WriteManifest, TypeOK

LEMMA ResumeSettles ==
  ASSUME TypeOK, NEW t \in Tasks, ResumeFile(t), Succeeded(t)',
         work[t].seen.pending.req.action = "restore"
  PROVE  disk.ino = work[t].seen.pending.art.id
BY DEF ResumeFile, TypeOK, Succeeded

LEMMA DoneLifecycle ==
  ASSUME TypeOK, FenceInv, StorageInv, Lifecycle
  PROVE  DoneInv'
<1> USE DEF TypeOK, FenceInv, StorageInv, Storing, Busy, OnRequest, DoneInv, Succeeded
<1>1. ASSUME CreateVm PROVE DoneInv'
  BY <1>1 DEF CreateVm, Mutex, host, OutsideHost
<1>2. ASSUME StartVm PROVE DoneInv'
  BY <1>2 DEF StartVm, Guarded, Mutex, BackupFields, host, OutsideHost
<1>3. ASSUME StopVm PROVE DoneInv'
  BY <1>3 DEF StopVm, Guarded, Mutex, row, OutsideHost
<1>4. ASSUME DestroyVm PROVE DoneInv'
  BY <1>4 DEF DestroyVm, Mutex, BackupFields, host, OutsideHost
<1>5. ASSUME NEW s \in Sizes, ResizeVm(s) PROVE DoneInv'
  BY <1>5 DEF ResizeVm, Guarded, Mutex, BackupFields, host, OutsideHost
<1> QED BY <1>1, <1>2, <1>3, <1>4, <1>5 DEF Lifecycle

LEMMA DoneHostStep ==
  ASSUME TypeOK, FenceInv, StorageInv, HostStep
  PROVE  DoneInv'
<1> USE DEF TypeOK, FenceInv, StorageInv, Storing, Busy, OnRequest, DoneInv, Succeeded
<1>1. ASSUME CloneImage PROVE DoneInv'
  BY <1>1 DEF CloneImage, row, OutsideHost
<1>2. ASSUME BootVmm PROVE DoneInv'
  BY <1>2 DEF BootVmm, row, OutsideHost
<1>3. ASSUME BootEnds PROVE DoneInv'
  BY <1>3 DEF BootEnds, BackupFields, host, OutsideHost
<1>4. ASSUME StopEnds PROVE DoneInv'
  BY <1>4 DEF StopEnds, BackupFields, host, OutsideHost
<1>5. ASSUME GrowDisk PROVE DoneInv'
  BY <1>5 DEF GrowDisk, row, OutsideHost
<1>6. ASSUME ResizeEnds PROVE DoneInv'
  BY <1>6 DEF ResizeEnds, BackupFields, host, OutsideHost
<1>7. ASSUME DestroyStops PROVE DoneInv'
  BY <1>7 DEF DestroyStops, row, OutsideHost
<1>8. ASSUME LockBackups PROVE DoneInv'
  BY <1>8 DEF LockBackups, row, OutsideHost, HasArtifacts
<1>9. ASSUME RemoveBackups PROVE DoneInv'
  BY <1>9, HostEffect, InodeKept DEF RemoveBackups, OutsideHost, NoPending, NoGeneration
<1>10. ASSUME EraseDisk PROVE DoneInv'
  BY <1>10 DEF EraseDisk, row, OutsideHost, NoDisk
<1>11. ASSUME DeleteRow PROVE DoneInv'
  BY <1>11 DEF DeleteRow, host, OutsideHost, NoPending, NoGeneration
<1> QED BY <1>1, <1>2, <1>3, <1>4, <1>5, <1>6, <1>7, <1>8, <1>9, <1>10, <1>11 DEF HostStep

LEMMA DoneReconcile ==
  ASSUME TypeOK, FenceInv, StorageInv, Reconcile
  PROVE  DoneInv'
<1> USE DEF TypeOK, FenceInv, StorageInv, Storing, Busy, OnRequest, DoneInv, Succeeded
<1>1. ASSUME ScanRecord PROVE DoneInv'
  <2>1. UNCHANGED <<pc, work, pending, current, disk, store>>
    BY <1>1, Zenon DEF ScanRecord, row, host
  <2> QED BY <2>1, DoneUnchanged
<1>2. ASSUME ReconcileVm PROVE DoneInv'
  <2>1. UNCHANGED <<pc, work, pending, current, disk, store>>
    BY <1>2, Zenon DEF ReconcileVm, BackupFields, host
  <2> QED BY <2>1, DoneUnchanged
<1>3. ASSUME ReconcileClaim PROVE DoneInv'
  BY <1>3 DEF ReconcileClaim, Claim, MayClaim, ClaimCleanup, MayClean, Mutex, row, host, history
<1>4. ASSUME ReconcileSkip PROVE DoneInv'
  <2>1. UNCHANGED <<pc, work, pending, current, disk, store>>
    BY <1>4, Zenon DEF ReconcileSkip, row, host
  <2> QED BY <2>1, DoneUnchanged
<1> QED BY <1>1, <1>2, <1>3, <1>4 DEF Reconcile

LEMMA DoneWorld ==
  ASSUME TypeOK, FenceInv, StorageInv,
         Issues \/ BackoffExpires \/ GuestWrites \/ GuestExits \/ Crash \/ OrphanEnds
  PROVE  DoneInv'
<1> USE DEF TypeOK, FenceInv, StorageInv, Storing, Busy, OnRequest, DoneInv, Succeeded
<1>1. ASSUME Issues PROVE DoneInv'
  <2>1. UNCHANGED <<pc, work, pending, current, disk, store>>
    BY <1>1, Zenon DEF Issues, Issue, row, host, process
  <2> QED BY <2>1, DoneUnchanged
<1>2. ASSUME BackoffExpires PROVE DoneInv'
  <2>1. UNCHANGED <<pc, work, pending, current, disk, store>>
    BY <1>2, Zenon DEF BackoffExpires, host, process
  <2> QED BY <2>1, DoneUnchanged
<1>3. ASSUME GuestWrites PROVE DoneInv'
  BY <1>3 DEF GuestWrites, row, process
<1>4. ASSUME GuestExits PROVE DoneInv'
  BY <1>4 DEF GuestExits, row, process, history
<1>5. ASSUME Crash PROVE DoneInv'
  BY <1>5, HostEffect, InodeKept DEF Crash, row
<1>6. ASSUME OrphanEnds PROVE DoneInv'
  BY <1>6, HostEffect, InodeKept DEF OrphanEnds, row, process, history, NoCommand
<1> QED BY <1>1, <1>2, <1>3, <1>4, <1>5, <1>6

LEMMA DoneTask ==
  ASSUME TypeOK, FenceInv, StorageInv, NEW t \in Tasks, ClientClaim(t) \/ TaskStep(t)
  PROVE  DoneInv'
<1> USE DEF TypeOK, FenceInv, StorageInv, Storing, Busy, OnRequest, DoneInv, Succeeded
<1>1. ASSUME ClientClaim(t) PROVE DoneInv'
  BY <1>1 DEF ClientClaim, Claim, MayClaim, Mutex, row, host, history
<1>2. ASSUME Inspect(t) PROVE DoneInv'
  BY <1>2 DEF Inspect, row, history
<1>3. ASSUME InspectFails(t) PROVE DoneInv'
  BY <1>3 DEF InspectFails, row, host
<1>4. ASSUME Admit(t) PROVE DoneInv'
  BY <1>4 DEF Admit, Mutex, Qualified, Admission, host
<1>5. ASSUME AdmitRefused(t) PROVE DoneInv'
  BY <1>5 DEF AdmitRefused, row, history
<1>6. ASSUME TakeSnapshot(t) PROVE DoneInv'
  <2>1. /\ Admitted(t) /\ UNCHANGED <<current, pending>>
        /\ work[t].seen = [current |-> current, retired |-> retired, pending |-> pending]
    BY <1>6 DEF TakeSnapshot, Doing, OutsideWork, row, SeenInv, Admitted
  <2>2. \A u \in Tasks : u # t => pc'[u] = pc[u]
    BY <1>6 DEF TakeSnapshot, Settle
  <2>3. Creates /\ Backend = "zvol" /\ Apply(Snapshot(pending.art.id))
    BY <1>6, <2>1 DEF TakeSnapshot, Doing, Creates
  <2>4. Verified(pending.art.id)'
    BY <2>1, <2>3, SnapshotEffect
  <2> QED BY <2>1, <2>2, <2>3, <2>4, DoneAlone DEF Creates, Restores
<1>7. ASSUME RollBack(t) PROVE DoneInv'
  <2>1. /\ Admitted(t) /\ UNCHANGED <<current, pending>>
        /\ work[t].seen = [current |-> current, retired |-> retired, pending |-> pending]
    BY <1>7 DEF RollBack, Doing, OutsideWork, row, SeenInv, Admitted
  <2>2. \A u \in Tasks : u # t => pc'[u] = pc[u]
    BY <1>7 DEF RollBack, Settle
  <2>3. /\ Restores /\ Apply(Rollback(current.id))
        /\ Verified(current.id) /\ Newer(current.id) = {}
    BY <1>7, <2>1 DEF RollBack, Doing, Restores
  <2>4. disk'.data = store'[current.id].data
    BY <2>1, <2>3, RollbackEffect DEF Verified
  <2> QED BY <2>1, <2>2, <2>3, <2>4, DoneAlone DEF Creates, Restores
<1>8. ASSUME CloneFile(t) PROVE DoneInv'
  BY <1>8 DEF CloneFile, OutsideWork, row, history
<1>9. ASSUME WriteManifest(t) PROVE DoneInv'
  <2>1. /\ Admitted(t) /\ UNCHANGED <<current, pending>>
        /\ work[t].seen = [current |-> current, retired |-> retired, pending |-> pending]
    BY <1>9 DEF WriteManifest, Doing, OutsideWork, row, SeenInv, Admitted
  <2>2. /\ \A u \in Tasks : u # t => pc'[u] = pc[u]
        /\ Restores => pc'[t] = "staged"
    BY <1>9, <2>1, FileStepWork, ManifestSettles DEF Restores
  <2>3. pc[t] = "copied" /\ store' = [store EXCEPT ![pending.art.id].ready = TRUE]
    BY <1>9, <2>1 DEF WriteManifest
  <2>4. pending.art.id \in Present
    BY <2>3 DEF HeldInv
  <2>5. Verified(pending.art.id)'
    BY <2>1, <2>3, <2>4, ManifestEffect
  <2> QED BY <2>1, <2>2, <2>5, DoneAlone DEF Succeeded
<1>10. ASSUME ResumeFile(t) PROVE DoneInv'
  <2>1. /\ Admitted(t) /\ UNCHANGED <<current, pending>>
        /\ work[t].seen = [current |-> current, retired |-> retired, pending |-> pending]
    BY <1>10 DEF ResumeFile, Doing, OutsideWork, row, SeenInv, Admitted
  <2>2. /\ \A u \in Tasks : u # t => pc'[u] = pc[u]
        /\ UNCHANGED <<disk, store>> /\ Verified(pending.art.id)
        /\ state = "Stopped"
    <3>1. HasManifest(pending.art.id) /\ UNCHANGED <<disk, store>>
      BY <1>10, <2>1, ResumeEffect
    <3> QED BY <1>10, <2>1, <3>1, FileStepWork DEF HasManifest, Verified, Admitted
  <2>3. Restores /\ Succeeded(t)' => disk.ino = pending.art.id
    BY <1>10, <2>1, ResumeSettles DEF Restores
  <2>4. Restores /\ Succeeded(t)' => disk.data = store[current.id].data
    BY <2>2, <2>3 DEF ContentInv
  <2>5. Verified(pending.art.id)'
    BY <2>1, <2>2 DEF Verified, Present
  <2> QED BY <2>1, <2>2, <2>4, <2>5, DoneAlone
<1>11. ASSUME RenameStage(t) PROVE DoneInv'
  <2>1. /\ Admitted(t) /\ UNCHANGED <<current, pending>>
        /\ work[t].seen = [current |-> current, retired |-> retired, pending |-> pending]
    BY <1>11 DEF RenameStage, Doing, OutsideWork, row, SeenInv, Admitted
  <2>2. \A u \in Tasks : u # t => pc'[u] = pc[u]
    BY <1>11 DEF RenameStage, Settle
  <2>3. /\ pc[t] = "staged" /\ disk'.data = store[pending.art.id].data
        /\ store' = [store EXCEPT ![pending.art.id].size = 0] /\ state = "Stopped"
    BY <1>11, <2>1 DEF RenameStage
  <2>4. Restores /\ pending.art.id \in Present
    BY <2>3 DEF HeldInv
  <2>5. disk'.data = store[current.id].data
    BY <2>3, <2>4 DEF ContentInv
  <2>6. store'[current.id].data = store[current.id].data
    <3>1. current.id \in Slots
      BY BoundsAssumption DEF RecordInv, Generation, Slots
    <3> QED BY <1>11, <2>1, <3>1, FileStepStore
  <2> QED BY <2>1, <2>2, <2>4, <2>5, <2>6, DoneAlone DEF Creates, Restores
<1>12. ASSUME RemoveNext(t) PROVE DoneInv'
  <2>1. /\ Admitted(t) /\ UNCHANGED <<current, pending>>
        /\ work[t].seen = [current |-> current, retired |-> retired, pending |-> pending]
    BY <1>12 DEF RemoveNext, Doing, OutsideWork, row, SeenInv, Admitted
  <2>2. \A u \in Tasks : u # t => pc'[u] = pc[u]
    BY <1>12, RemoveNextWork
  <2>3. ~Creates /\ ~Restores
    BY <1>12, <2>1 DEF RemoveNext, Doing, Creates, Restores
  <2> QED BY <2>1, <2>2, <2>3, DoneAlone
<1>13. ASSUME WorkFails(t) PROVE DoneInv'
  BY <1>13, TaskEffect, InodeKept DEF WorkFails, Settle, OutsideWork, row
<1>14. ASSUME Finish(t) PROVE DoneInv'
  BY <1>14 DEF Finish, Mutex, NoPending, NoGeneration, host, Abandoned, Publish, Restored, Deleted
<1>15. ASSUME Release(t) PROVE DoneInv'
  BY <1>15 DEF Release, row, host, history
<1>16. ASSUME LockCleanup(t) PROVE DoneInv'
  BY <1>16 DEF LockCleanup, OutsideWork, row, history
<1>17. ASSUME CleanupBlocked(t) PROVE DoneInv'
  BY <1>17 DEF CleanupBlocked, OutsideWork, row
<1>18. ASSUME CleanedAll(t) PROVE DoneInv'
  BY <1>18 DEF CleanedAll, OutsideWork, row, history
<1>19. ASSUME FinishCleanup(t) PROVE DoneInv'
  BY <1>19 DEF FinishCleanup, host, history
<1>20. ASSUME NEW i \in Slots, DropNewer(t, i) PROVE DoneInv'
  BY <1>20, TaskEffect, InodeKept DEF DropNewer, Doing, OutsideWork, row, history
<1>21. ASSUME NEW i \in Slots, CleanOne(t, i) PROVE DoneInv'
  BY <1>21, TaskEffect, InodeKept DEF CleanOne, OutsideWork, row
<1> QED BY <1>1, <1>2, <1>3, <1>4, <1>5, <1>6, <1>7, <1>8, <1>9, <1>10, <1>11, <1>12, <1>13,
       <1>14, <1>15, <1>16, <1>17, <1>18, <1>19, <1>20, <1>21 DEF TaskStep

(***************************************************************************)
(* StorageInv holds at the start and is kept by every step.                *)
(***************************************************************************)
LEMMA StorageInit == Init => StorageInv
<1> SUFFICES ASSUME Init PROVE StorageInv
  OBVIOUS
<1>1. /\ \A t \in Tasks : pc[t] = "idle"
      /\ issued = {} /\ scan = NoScan /\ ~Busy /\ op = "idle" /\ state = "Absent" /\ minted = 0
      /\ current.id = 0 /\ retired = {} /\ disk.ino = 0 /\ pending = NoPending /\ ~vmm
      /\ pending.art.id = 0 /\ orphan.kind = "none" /\ Present = {}
  BY DEF Init, Busy, NoPending, NoGeneration, NoDisk, NoCommand, Present, NoArtifact
<1>2. RequestInv
  BY <1>1 DEF RequestInv, OnRequest, NoScan
<1>3. RecordInv
  BY <1>1, BoundsAssumption DEF RecordInv, Erasing
<1>4. SeenInv
  BY <1>1 DEF SeenInv, Admitted, Storing, CleansUp
<1>5. OrphanInv /\ PresentInv
  BY <1>1 DEF OrphanInv, PresentInv, NoStrays
<1>6. HeldInv /\ DoneInv
  BY <1>1 DEF HeldInv, DoneInv, Admitted, Storing, CleansUp, Succeeded
<1>7. CapacityInv /\ ContentInv
  BY <1>1 DEF CapacityInv, ContentInv, Creates, Restores
<1> QED BY <1>2, <1>3, <1>4, <1>5, <1>6, <1>7 DEF StorageInv

LEMMA StorageStutters == ASSUME StorageInv, UNCHANGED vars PROVE StorageInv'
<1> USE DEF StorageInv, vars, row, host, process, history, Busy, Creates, Restores, Deletes
<1>1. RequestInv' /\ RecordInv'
  BY DEF RequestInv, RecordInv, OnRequest, Erasing
<1>2. SeenInv'
  BY DEF SeenInv, Admitted, Storing, CleansUp, Succeeded, Ids
<1>3. OrphanInv' /\ PresentInv'
  BY DEF OrphanInv, PresentInv, NoStrays, Present, Referenced, Ids
<1>4. HeldInv' /\ DoneInv'
  BY DEF HeldInv, DoneInv, Admitted, Storing, CleansUp, Succeeded, Verified, Present
<1>5. CapacityInv' /\ ContentInv'
  BY DEF CapacityInv, ContentInv, Verified, Present
<1> QED BY <1>1, <1>2, <1>3, <1>4, <1>5

LEMMA StorageNext == ASSUME TypeOK, FenceInv, StorageInv, [Next]_vars PROVE StorageInv'
<1>1. CASE UNCHANGED vars
  BY <1>1, StorageStutters
<1>2. CASE Lifecycle
  BY <1>2, RequestLifecycle, RecordLifecycle, SeenLifecycle, OrphanLifecycle, PresentLifecycle,
     HeldLifecycle, CapacityLifecycle, ContentLifecycle, DoneLifecycle DEF StorageInv
<1>3. CASE HostStep
  BY <1>3, RequestHostStep, RecordHostStep, SeenHostStep, OrphanHostStep, PresentHostStep,
     HeldHostStep, CapacityHostStep, ContentHostStep, DoneHostStep DEF StorageInv
<1>4. CASE Reconcile
  BY <1>4, RequestReconcile, RecordReconcile, SeenReconcile, OrphanReconcile, PresentReconcile,
     HeldReconcile, CapacityReconcile, ContentReconcile, DoneReconcile DEF StorageInv
<1>5. CASE Issues \/ BackoffExpires \/ GuestWrites \/ GuestExits \/ Crash \/ OrphanEnds
  BY <1>5, RequestWorld, RecordWorld, SeenWorld, OrphanWorld, PresentWorld,
     HeldWorld, CapacityWorld, ContentWorld, DoneWorld DEF StorageInv
<1>6. ASSUME NEW t \in Tasks, ClientClaim(t) \/ TaskStep(t) PROVE StorageInv'
  BY <1>6, RequestTask, RecordTask, SeenTask, OrphanTask, PresentTask,
     HeldTask, CapacityTask, ContentTask, DoneTask DEF StorageInv
<1> QED BY <1>1, <1>2, <1>3, <1>4, <1>5, <1>6, Zenon DEF Next

(***************************************************************************)
(* The inductive invariant of storage, on top of the fence: each part      *)
(* needs the others.                                                       *)
(***************************************************************************)
THEOREM StorageInvariant == Spec => [](TypeOK /\ FenceInv /\ StorageInv)
<1>1. Init => TypeOK /\ FenceInv /\ StorageInv
  BY TypeInit, FenceInit, StorageInit
<1>2. TypeOK /\ FenceInv /\ StorageInv /\ [Next]_vars => (TypeOK /\ FenceInv /\ StorageInv)'
  BY TypeNext, FenceNext, StorageNext
<1> QED BY <1>1, <1>2, PTL DEF Spec

(***************************************************************************)
(* No crash, failed create or deleted VM leaves an artifact on storage that*)
(* the record does not name, where no later cleanup would find it.         *)
(***************************************************************************)
THEOREM NothingStranded == Spec => []NoStrays
<1>1. StorageInv => NoStrays
  BY DEF StorageInv, PresentInv
<1> QED BY <1>1, StorageInvariant, PTL

(***************************************************************************)
(* The published backup is whole on storage until its deletion is asked    *)
(* for, whatever crashes, failed commands, cleanups and restores happen.   *)
(***************************************************************************)
THEOREM BackupStaysWhole == Spec => []PublishedIntact
<1>1. StorageInv => PublishedIntact
  BY DEF StorageInv, CapacityInv, PublishedIntact, Deletes
<1> QED BY <1>1, StorageInvariant, PTL

(***************************************************************************)
(* Outside an unfinished resize the published backup, the record and the   *)
(* disk agree on capacity, so that a restore fits.                         *)
(***************************************************************************)
THEOREM CapacityAgrees == Spec => []SameCapacity
<1>1. StorageInv => SameCapacity
  BY DEF StorageInv, CapacityInv, SameCapacity
<1> QED BY <1>1, StorageInvariant, PTL

(***************************************************************************)
(* A rollback never meets a snapshot newer than its source that it may not *)
(* destroy: whatever is on storage is named by the record, so that it is   *)
(* the source itself or a retired generation.                              *)
(***************************************************************************)
THEOREM RollbackGoesThrough == Spec => []RollbackPossible
<1>1. ASSUME TypeOK, FenceInv, StorageInv PROVE RollbackPossible
  <2> SUFFICES ASSUME Backend = "zvol", NEW t \in Tasks, Doing(t, "restore"),
                      NEW j \in Newer(current.id)
               PROVE  j \in Ids(work[t].seen.retired)
    BY DEF RollbackPossible
  <2>1. pc[t] = "working" /\ Admitted(t) /\ Busy
    BY <1>1 DEF Doing, Admitted, Storing, FenceInv
  <2>2. work[t].seen.retired = retired /\ Restores
    BY <1>1, <2>1, SeenRecord DEF Doing, Restores
  <2>3. NoStrays /\ pending.art.id \notin Present
    BY <1>1, <2>2 DEF StorageInv, PresentInv
  <2>4. j \in Present /\ j # current.id
    BY DEF Newer
  <2> QED BY <2>2, <2>3, <2>4 DEF NoStrays, Referenced, Ids
<1> QED BY <1>1, StorageInvariant, PTL

\* The record and the receipt change at the end of an operation, or to nothing.
LEMMA ReceiptChanges ==
  ASSUME TypeOK, FenceInv, StorageInv, Next
  PROVE  \/ current' = current /\ receipt' = receipt
         \/ current'.id = 0 /\ receipt' \in {receipt, NoReceipt}
         \/ \E t \in Tasks : Finish(t)
<1> DEFINE Kept == \/ current' = current /\ receipt' = receipt
                   \/ current'.id = 0 /\ receipt' \in {receipt, NoReceipt}
<1>1. Lifecycle => Kept
  BY Zenon DEF Lifecycle, CreateVm, StartVm, StopVm, DestroyVm, ResizeVm, BackupFields, row
<1>2. HostStep => Kept
  <2>1. RemoveBackups \/ DeleteRow => Kept
    BY DEF RemoveBackups, DeleteRow, NoGeneration
  <2> QED BY <2>1, Zenon DEF HostStep, CloneImage, BootVmm, BootEnds, StopEnds, GrowDisk,
             ResizeEnds, DestroyStops, LockBackups, EraseDisk, BackupFields, row
<1>3. Reconcile \/ Issues \/ BackoffExpires \/ GuestWrites \/ GuestExits \/ Crash \/ OrphanEnds
        => Kept
  BY Zenon DEF Reconcile, ScanRecord, ReconcileVm, ReconcileClaim, ReconcileSkip, Claim,
     ClaimCleanup, Issues, Issue, BackoffExpires, GuestWrites, GuestExits, Crash, OrphanEnds,
     BackupFields, row
<1>4. ASSUME NEW t \in Tasks, ClientClaim(t) \/ TaskStep(t) PROVE Kept \/ Finish(t)
  BY <1>4, Zenon DEF ClientClaim, Claim, TaskStep, Inspect, InspectFails, Admit, AdmitRefused,
     TakeSnapshot, DropNewer, RollBack, CloneFile, WriteManifest, ResumeFile, RenameStage,
     RemoveNext, WorkFails, Release, LockCleanup, CleanupBlocked, CleanOne, CleanedAll,
     FinishCleanup, OutsideWork, row
<1> QED BY <1>1, <1>2, <1>3, <1>4 DEF Next

\* What the receipt of an operation says is so when it is written.
LEMMA ReceiptTells ==
  ASSUME TypeOK, FenceInv, StorageInv, NEW t \in Tasks, Finish(t)
  PROVE  /\ UNCHANGED <<disk, store>> /\ ~vmm'
         /\ Creates /\ Succeeded(t) =>
              Verified(pending.art.id) /\ store[pending.art.id].data = disk.data
                /\ store[pending.art.id].size = disk.size
         /\ Restores /\ Succeeded(t) =>
              pending.req.gen = current.id /\ Verified(current.id)
                /\ disk.data = store[current.id].data
<1>1. /\ UNCHANGED <<disk, store, vmm>> /\ pc[t] = "done" /\ state = "Stopped" /\ ~vmm /\ Busy
  BY Zenon DEF Finish, host, FenceInv, OnRequest
<1>2. Creates /\ Succeeded(t) =>
        Verified(pending.art.id) /\ store[pending.art.id].data = disk.data
          /\ store[pending.art.id].size = disk.size
  BY DEF StorageInv, DoneInv, ContentInv, Verified
<1>3. Restores /\ Succeeded(t) =>
        pending.req.gen = current.id /\ Verified(current.id)
          /\ disk.data = store[current.id].data
  BY <1>1 DEF StorageInv, DoneInv, ContentInv, CapacityInv, Restores, Deletes
<1> QED BY <1>1, <1>2, <1>3

(***************************************************************************)
(* A backup is published only when it is whole and equal to the disk of    *)
(* the stopped VM, whichever retry, on whichever side of a crash, made it. *)
(***************************************************************************)
THEOREM CreatesCapture == Spec => CreateCaptures
<1>1. ASSUME TypeOK, FenceInv, StorageInv, Next, current'.id \notin {0, current.id}
      PROVE  /\ Verified(current.id)' /\ ~vmm'
             /\ store'[current'.id].data = disk'.data /\ store'[current'.id].size = disk'.size
  <2>1. PICK t \in Tasks : Finish(t)
    BY <1>1, ReceiptChanges
  <2>2. Creates /\ Succeeded(t) /\ current' = pending.art
    BY <1>1, <2>1, FinishCases DEF Abandoned, Publish, Restored, Deleted, NoGeneration
  <2> QED BY <1>1, <2>1, <2>2, ReceiptTells DEF Verified, Present
<1>2. TypeOK /\ FenceInv /\ StorageInv /\ [Next]_vars =>
        [current'.id \notin {0, current.id} =>
           /\ Verified(current.id)' /\ ~vmm'
           /\ store'[current'.id].data = disk'.data /\ store'[current'.id].size = disk'.size]_vars
  BY <1>1
<1> QED BY <1>2, StorageInvariant, PTL DEF Spec, CreateCaptures

(***************************************************************************)
(* A restore is receipted as successful only when the stopped VM's disk    *)
(* holds the generation the request named, still the published one.        *)
(***************************************************************************)
THEOREM RestoresDeliver == Spec => RestoreDelivers
<1>1. ASSUME TypeOK, FenceInv, StorageInv, Next, receipt' # receipt, receipt'.ok,
             receipt'.req.action = "restore"
      PROVE  /\ receipt'.req.gen = current'.id /\ Verified(current.id)'
             /\ disk'.data = store'[current'.id].data /\ ~vmm'
  <2>1. PICK t \in Tasks : Finish(t)
    BY <1>1, ReceiptChanges DEF NoReceipt
  <2>2. Restores /\ Succeeded(t) /\ current' = current /\ receipt'.req = pending.req
    BY <1>1, <2>1, FinishCases DEF Restored, Creates, Restores, Deletes
  <2> QED BY <1>1, <2>1, <2>2, ReceiptTells DEF Verified, Present
<1>2. TypeOK /\ FenceInv /\ StorageInv /\ [Next]_vars =>
        [(receipt' # receipt /\ receipt'.ok /\ receipt'.req.action = "restore") =>
           /\ receipt'.req.gen = current'.id /\ Verified(current.id)'
           /\ disk'.data = store'[current'.id].data /\ ~vmm']_vars
  BY <1>1
<1> QED BY <1>2, StorageInvariant, PTL DEF Spec, RestoreDelivers

(***************************************************************************)
(* The account of disk space: a step changes what the record reserves, what*)
(* the disk takes and what an artifact pins in few ways (AccountMoves),    *)
(* each of which keeps AccountInv.                                         *)
(***************************************************************************)
LEMMA MaxOfTwo ==
  ASSUME NEW a \in Nat, NEW b \in Nat
  PROVE  Max({a, b}) \in {a, b} /\ a <= Max({a, b}) /\ b <= Max({a, b})
<1>1. \E x \in {a, b} : \A y \in {a, b} : x >= y
  OBVIOUS
<1> QED BY <1>1 DEF Max

(***************************************************************************)
(* The sizes of a set of generations.                                      *)
(***************************************************************************)
LEMMA SizesAreNat ==
  ASSUME NEW gens \in SUBSET Generation
  PROVE  \A g \in gens : [h \in gens |-> h.size][g] \in Nat
BY DEF Generation

LEMMA SizesNat ==
  ASSUME NEW gens \in SUBSET Generation, IsFiniteSet(gens)
  PROVE  SumOfSizes(gens) \in Nat
BY SizesAreNat, SumIsNat DEF SumOfSizes

\* A part of the generations sums to no more than all of them.
LEMMA SizesOfPart ==
  ASSUME NEW gens \in SUBSET Generation, IsFiniteSet(gens), NEW part \in SUBSET gens
  PROVE  SumOfSizes(part) <= SumOfSizes(gens)
<1> DEFINE f == [g \in part |-> g.size]
           h == [g \in gens |-> g.size]
<1>1. IsFiniteSet(part)
  BY FS_Subset
<1>2. \A g \in part : f[g] \in Nat /\ f[g] = h[g]
  BY DEF Generation
<1>3. \A g \in gens : h[g] \in Nat
  BY SizesAreNat
<1>4. SumOf(f, part) = SumOf(h, part)
  <2> HIDE DEF f, h
  <2> QED BY <1>1, <1>2, SumOfSame
<1>5. SumOf(h, part) <= SumOf(h, gens)
  <2> HIDE DEF f, h
  <2> QED BY <1>3, SumOfPart
<1> QED BY <1>4, <1>5 DEF SumOfSizes

\* One generation more adds at most its size.
LEMMA SizesWithOne ==
  ASSUME NEW gens \in SUBSET Generation, IsFiniteSet(gens), NEW a \in Generation
  PROVE  SumOfSizes(gens \union {a}) <= SumOfSizes(gens) + a.size
<1> DEFINE all == gens \union {a}
           f == [g \in all |-> g.size]
           h == [g \in gens |-> g.size]
<1>0. SumOfSizes(gens) \in Nat /\ a.size \in Nat
  BY SizesNat DEF Generation
<1>1. CASE a \in gens
  <2>1. gens \union {a} = gens
    BY <1>1
  <2>2. SumOfSizes(gens \union {a}) = SumOfSizes(gens)
    BY <2>1
  <2> QED BY <1>0, <2>2
<1>2. CASE a \notin gens
  <2>1. IsFiniteSet(all)
    BY FS_AddElement
  <2>2. \A g \in all : f[g] \in Nat
    BY SizesAreNat
  <2>3. all \ {a} = gens /\ a \in all /\ f[a] = a.size
    BY <1>2
  <2>4. SumOf(f, all) = f[a] + SumOf(f, all \ {a})
    <3> HIDE DEF f, all
    <3> QED BY <2>1, <2>2, <2>3, SumOfRest
  <2>5. \A g \in gens : h[g] \in Nat /\ h[g] = f[g]
    BY DEF Generation
  <2>6. SumOf(h, gens) = SumOf(f, gens)
    <3> HIDE DEF f, h
    <3> QED BY <2>5, SumOfSame
  <2>7. SumOfSizes(all) = a.size + SumOfSizes(gens)
    BY <2>3, <2>4, <2>6 DEF SumOfSizes
  <2> QED BY <1>0, <2>7
<1> QED BY <1>1, <1>2

\* The absent generation adds nothing.
LEMMA SizesWithin ==
  ASSUME NEW gens \in SUBSET Generation, IsFiniteSet(gens),
         NEW part \in SUBSET (gens \union {NoGeneration})
  PROVE  SumOfSizes(part) <= SumOfSizes(gens)
<1>1. NoGeneration \in Generation /\ NoGeneration.size = 0
  BY DEF NoGeneration, Generation
<1>2. SumOfSizes(gens \union {NoGeneration}) <= SumOfSizes(gens) + 0
  BY <1>1, SizesWithOne
<1>3. gens \union {NoGeneration} \in SUBSET Generation /\ IsFiniteSet(gens \union {NoGeneration})
  BY <1>1, FS_AddElement
<1>4. SumOfSizes(part) <= SumOfSizes(gens \union {NoGeneration})
  BY <1>3, SizesOfPart
<1>5. IsFiniteSet(part)
  BY <1>3, FS_Subset
<1>6. /\ SumOfSizes(part) \in Nat /\ SumOfSizes(gens) \in Nat
      /\ SumOfSizes(gens \union {NoGeneration}) \in Nat
  BY <1>1, <1>3, <1>5, SizesNat
<1> QED BY <1>2, <1>4, <1>6

\* Artifacts that are each the artifact of a generation, and no larger, pin no more than
\* the generations' sizes.
LEMMA SizesCover ==
  ASSUME NEW gens \in SUBSET Generation, IsFiniteSet(gens), NEW ids, IsFiniteSet(ids),
         NEW pins, \A i \in ids : pins[i] \in Nat,
         \A i \in ids : \E g \in gens : g.id = i /\ pins[i] <= g.size
  PROVE  SumOf(pins, ids) <= SumOfSizes(gens)
<1> DEFINE h == [g \in gens |-> g.size]
           m == [i \in ids |-> CHOOSE g \in gens : g.id = i /\ pins[i] <= g.size]
<1>1. \A i \in ids : m[i] \in gens /\ m[i].id = i /\ pins[i] <= m[i].size
  OBVIOUS
<1>2. \A g \in gens : h[g] \in Nat
  BY SizesAreNat
<1>3. \A i \in ids : pins[i] \in Nat /\ m[i] \in gens /\ pins[i] <= h[m[i]]
  BY <1>1
<1>4. \A i, j \in ids : m[i] = m[j] => i = j
  BY <1>1
<1>5. SumOf(pins, ids) <= SumOf(h, gens)
  <2> HIDE DEF m, h
  <2> QED BY <1>2, <1>3, <1>4, SumOfMatched
<1> QED BY <1>5 DEF SumOfSizes

(***************************************************************************)
(* What the record reserves.                                               *)
(***************************************************************************)
Kept == retired \union {current}
Counted == IF pending.req.action = "delete" THEN 0 ELSE pending.art.size

LEMMA ReservedSums ==
  ASSUME TypeOK, IsFiniteSet(retired)
  PROVE  /\ Kept \in SUBSET Generation /\ IsFiniteSet(Kept)
         /\ Capacity \in Nat /\ Counted \in Nat /\ SumOfSizes(Kept) \in Nat
         /\ size <= Capacity /\ target <= Capacity /\ Capacity \in {size, target}
         /\ ReservedDisk = Capacity + SumOfSizes(Kept) + Counted
<1>1. Kept \in SUBSET Generation /\ IsFiniteSet(Kept)
  BY FS_AddElement DEF TypeOK, Kept
<1>2. /\ Capacity \in Nat /\ size <= Capacity /\ target <= Capacity
      /\ Capacity \in {size, target}
  BY MaxOfTwo DEF TypeOK, Capacity
<1>3. Counted \in Nat
  BY DEF TypeOK, Counted, Pending, Generation
<1>4. SumOfSizes(Kept) \in Nat
  BY <1>1, SizesNat
<1>5. ReservedDisk = Capacity + (SumOfSizes(Kept) + Counted)
  BY DEF ReservedDisk, ReservedBackup, Kept, Counted, Capacity
<1> QED BY <1>1, <1>2, <1>3, <1>4, <1>5

LEMMA ReservedSumsNext ==
  ASSUME TypeOK', IsFiniteSet(retired')
  PROVE  /\ Kept' \in SUBSET Generation /\ IsFiniteSet(Kept')
         /\ Capacity' \in Nat /\ Counted' \in Nat /\ SumOfSizes(Kept') \in Nat
         /\ size' <= Capacity' /\ target' <= Capacity' /\ Capacity' \in {size', target'}
         /\ ReservedDisk' = Capacity' + SumOfSizes(Kept') + Counted'
<1>1. Kept' \in SUBSET Generation /\ IsFiniteSet(Kept')
  BY FS_AddElement DEF TypeOK, Kept
<1>2. /\ Capacity' \in Nat /\ size' <= Capacity' /\ target' <= Capacity'
      /\ Capacity' \in {size', target'}
  BY MaxOfTwo DEF TypeOK, Capacity
<1>3. Counted' \in Nat
  BY DEF TypeOK, Counted, Pending, Generation
<1>4. SumOfSizes(Kept') \in Nat
  BY <1>1, SizesNat
<1>5. ReservedDisk' = Capacity' + (SumOfSizes(Kept') + Counted')
  BY DEF ReservedDisk, ReservedBackup, Kept, Counted, Capacity
<1> QED BY <1>1, <1>2, <1>3, <1>4, <1>5

\* The invariants say what the reservation covers.
LEMMA AccountCovers ==
  ASSUME TypeOK, StorageInv, AccountInv
  PROVE  ReservationCovers
<1> DEFINE pins == [i \in Present |-> store[i].size]
           art == IF pending.req.action = "delete" THEN NoGeneration ELSE pending.art
           gens == Kept \union {art}
<1>1. IsFiniteSet(Present)
  <2>1. IsFiniteSet(Slots)
    BY FS_Interval, BoundsAssumption DEF Slots
  <2> QED BY <2>1, FS_Subset DEF Present
<1>2. art \in Generation /\ art.size = Counted
  BY DEF TypeOK, Pending, Generation, NoGeneration, Counted
<1>3. gens \in SUBSET Generation /\ IsFiniteSet(gens)
  BY <1>2, ReservedSums, FS_AddElement DEF AccountInv
<1>4. \A i \in Present : pins[i] \in Nat
  BY DEF TypeOK, Present, Artifact
<1>5. ASSUME NEW i \in Present
      PROVE  \E g \in gens : g.id = i /\ pins[i] <= g.size
  <2>1. PICK g \in retired \union {current, pending.art} : g.id = i
    BY DEF StorageInv, PresentInv, NoStrays, Referenced, Ids
  <2>2. pins[i] <= g.size
    BY <2>1 DEF AccountInv, ArtifactsCovered
  <2>3. CASE g \in gens
    BY <2>1, <2>2, <2>3
  <2>4. CASE g \notin gens
    <3>1. g = pending.art /\ pending.req.action = "delete"
      BY <2>4 DEF Kept
    <3>2. i # 0
      BY DEF StorageInv, PresentInv, NoStrays, Referenced, Ids
    <3>3. Deletes
      BY <2>1, <3>1, <3>2 DEF Deletes, Busy
    <3> QED BY <2>1, <3>1, <3>3 DEF StorageInv, PresentInv
  <2> QED BY <2>3, <2>4
<1>6. SumOf(pins, Present) <= SumOfSizes(gens)
  <2> HIDE DEF pins, gens
  <2> QED BY <1>1, <1>3, <1>4, <1>5, SizesCover
<1>7. SumOfSizes(gens) <= SumOfSizes(Kept) + Counted
  BY <1>2, ReservedSums, SizesWithOne DEF AccountInv
<1>8. SumOf(pins, Present) \in Nat
  <2> HIDE DEF pins
  <2> QED BY <1>1, <1>4, SumIsNat
<1>9. SumOfSizes(gens) \in Nat
  <2> HIDE DEF gens
  <2> QED BY <1>3, SizesNat
<1>10. disk.size \in Nat /\ disk.size <= Capacity
  BY DEF TypeOK, Disk, AccountInv, DiskCovered
<1>11. /\ Capacity \in Nat /\ Counted \in Nat /\ SumOfSizes(Kept) \in Nat
       /\ ReservedDisk = Capacity + SumOfSizes(Kept) + Counted
  BY ReservedSums DEF AccountInv
<1>12. SumOf(pins, Present) + disk.size <= ReservedDisk
  <2> HIDE DEF pins, gens
  <2> QED BY <1>6, <1>7, <1>8, <1>9, <1>10, <1>11
<1> QED BY <1>12 DEF AccountInv, ReservationCovers

(***************************************************************************)
(* What a step may do to the parts of the account.                         *)
(***************************************************************************)
Trims ==
  UNCHANGED <<size, target, current, pending>> /\ retired' \in SUBSET retired
AdmitsOne ==
  /\ ~Busy /\ UNCHANGED <<size, target, current, retired>> /\ disk' = disk
  /\ pending'.art.id = minted + 1 /\ pending'.art.size = disk.size
  /\ pending'.req.action # "delete" => pending'.art.size <= Free
SettlesOne ==
  /\ Busy /\ state = "Stopped" /\ UNCHANGED <<size, target>> /\ disk' = disk
  /\ pending' = NoPending
  /\ retired' \in SUBSET (retired \union {current, pending.art})
  /\ \/ current' \in {current, pending.art} /\ ~Deletes
     \/ current' = NoGeneration /\ retired' = {}
Drops ==
  /\ current' = NoGeneration /\ pending' = NoPending /\ retired' = {} /\ disk' = disk
  /\ \/ UNCHANGED <<size, target>>
     \/ op = "erased" /\ size' = 0 /\ target' = 0
Starts ==
  /\ state = "Absent" /\ UNCHANGED <<current, pending, retired>> /\ disk' = disk
  /\ size' \in Nat /\ size' <= Budget /\ target' = 0
Grows ==
  /\ ~Busy /\ UNCHANGED <<size, current, pending, retired>> /\ disk' = disk
  /\ target \in {0, target'} /\ size <= target' /\ target' <= Budget
  /\ disk.size <= target'
  /\ HasArtifacts => target' = size
Grown ==
  /\ op = "resized" /\ UNCHANGED <<current, pending, retired>> /\ disk' = disk
  /\ size' = target /\ target' = 0
RecordMoves == Trims \/ AdmitsOne \/ SettlesOne \/ Drops \/ Starts \/ Grows \/ Grown

DiskMoves ==
  /\ \/ disk'.size = disk.size
     \/ /\ UNCHANGED <<size, target, current, pending>>
        /\ disk'.size <= Capacity /\ ~Creates
  /\ (state' = "Absent" \/ op' = "erased") => disk'.size = 0

\* An artifact appears, or grows, only as the pending one and within its admitted size.
PinMoves ==
  \A i \in Present' :
    \/ i \in Present /\ store'[i].size <= store[i].size
    \/ Busy /\ i = pending.art.id /\ store'[i].size <= pending.art.size

LEMMA SamePins == ASSUME TypeOK, UNCHANGED store PROVE PinMoves
<1>1. Present' = Present
  BY DEF Present
<1>2. \A i \in Present : store'[i].size <= store[i].size
  BY DEF Present, TypeOK, Artifact
<1> QED BY <1>1, <1>2 DEF PinMoves

LEMMA EffectPins ==
  ASSUME TypeOK, AccountInv, Effect
  PROVE  PinMoves
<1>0. \A i \in Present : store[i].size \in Nat
  BY DEF Present, TypeOK, Artifact
<1>1. CASE \E ids : Removes(ids)
  BY <1>0, <1>1 DEF Removes, PinMoves
<1>2. CASE Captures
  <2>1. CASE store' = store
    BY <2>1, SamePins
  <2>2. CASE store' = [store EXCEPT ![pending.art.id] = Copy(disk, TRUE)]
    <3>1. Busy /\ disk.size <= pending.art.size
      BY <1>2 DEF Captures, AccountInv, DiskCovered, Creates
    <3>2. ASSUME NEW i \in Present', i # pending.art.id
          PROVE  i \in Present /\ store'[i].size <= store[i].size
      <4>1. i \in Slots /\ store'[i] = store[i]
        BY <2>2, <3>2 DEF Present, TypeOK
      <4>2. i \in Present
        BY <4>1, <3>2 DEF Present
      <4> QED BY <1>0, <4>1, <4>2
    <3>3. ASSUME NEW i \in Present', i = pending.art.id
          PROVE  store'[i].size = disk.size
      BY <2>2, <3>3 DEF Present, TypeOK, Copy
    <3> QED BY <3>1, <3>2, <3>3 DEF PinMoves
  <2> QED BY <1>2, <2>1, <2>2 DEF Captures
<1>3. CASE Rewinds
  BY <1>3, SamePins DEF Rewinds
<1> QED BY <1>1, <1>2, <1>3 DEF Effect

LEMMA EffectDisk ==
  ASSUME TypeOK, StorageInv, AccountInv, Effect
  PROVE  disk'.size = disk.size \/ (Restores /\ disk'.size <= Capacity)
<1>1. CASE disk' = disk
  BY <1>1
<1>2. CASE Restores /\ current.id \in Present /\
           disk' = [disk EXCEPT !.data = store[current.id].data, !.size = store[current.id].size]
  <2>1. disk'.size = store[current.id].size
    BY <1>2 DEF TypeOK, Disk
  <2>2. store[current.id].size <= current.size /\ current.size <= Capacity
    BY <1>2 DEF AccountInv, ArtifactsCovered, DiskCovered
  <2>3. store[current.id].size \in Nat /\ current.size \in Nat /\ Capacity \in Nat
    BY <1>2, MaxOfTwo DEF TypeOK, Artifact, Generation, Capacity, Present
  <2> QED BY <1>2, <2>1, <2>2, <2>3
<1> QED BY <1>1, <1>2 DEF Effect, Removes, Captures, Rewinds

AccountMoves == RecordMoves /\ DiskMoves /\ PinMoves

\* A step that leaves the record, the disk and the artifacts alone.
LEMMA Uninvolved ==
  ASSUME TypeOK, AccountInv, UNCHANGED <<size, target, current, pending, retired, disk, store>>,
         op' = "erased" => op = "erased", state' = "Absent" => state = "Absent"
  PROVE  AccountMoves
<1>1. RecordMoves
  BY DEF RecordMoves, Trims
<1>2. DiskMoves
  BY DEF DiskMoves, AccountInv, DiskCovered
<1> QED BY <1>1, <1>2, SamePins DEF AccountMoves

LEMMA AccountLifecycle ==
  ASSUME TypeOK, AccountInv, Lifecycle
  PROVE  AccountMoves
<1>1. CASE CreateVm
  <2>1. Starts
    BY <1>1, SizesAssumption DEF CreateVm, host, Starts
  <2>2. DiskMoves
    BY <1>1 DEF CreateVm, host, DiskMoves
  <2>3. PinMoves
    BY <1>1, SamePins DEF CreateVm, host
  <2> QED BY <2>1, <2>2, <2>3 DEF AccountMoves, RecordMoves
<1>2. CASE StartVm \/ StopVm \/ DestroyVm
  BY <1>2, Uninvolved DEF StartVm, StopVm, DestroyVm, BackupFields, host, row
<1>3. ASSUME NEW s \in Sizes, ResizeVm(s) PROVE AccountMoves
  <2>0. s \in Nat
    BY SizesAssumption
  <2>1. s <= Budget
    <3>1. ReservedDisk \in Nat
      BY ReservedSums DEF AccountInv
    <3>2. CASE s <= ReservedDisk
      BY <2>0, <3>1, <3>2, BoundsAssumption DEF AccountInv
    <3>3. CASE ~(s <= ReservedDisk)
      <4> DEFINE more == s - ReservedDisk
      <4>1. more \in Nat
        BY <2>0, <3>1, <3>3
      <4>2. more <= Max({0, more}) /\ Max({0, more}) \in Nat
        <5> HIDE DEF more
        <5> QED BY <4>1, MaxOfTwo
      <4>3. Max({0, more}) <= Budget - ReservedDisk
        BY <1>3 DEF ResizeVm, Free
      <4>4. more <= Budget - ReservedDisk
        <5> HIDE DEF more
        <5> QED BY <3>1, <4>1, <4>2, <4>3, BoundsAssumption
      <4> QED BY <2>0, <3>1, <4>4, BoundsAssumption
    <3> QED BY <3>2, <3>3
  <2>2. Grows
    BY <1>3, <2>1 DEF ResizeVm, Guarded, KeepsCapacity, BackupFields, host, Grows
  <2>3. DiskMoves
    BY <1>3 DEF ResizeVm, host, DiskMoves
  <2>4. PinMoves
    BY <1>3, SamePins DEF ResizeVm, host
  <2> QED BY <2>2, <2>3, <2>4 DEF AccountMoves, RecordMoves
<1> QED BY <1>1, <1>2, <1>3 DEF Lifecycle

LEMMA AccountHostStep ==
  ASSUME TypeOK, FenceInv, StorageInv, AccountInv, HostStep
  PROVE  AccountMoves
<1>0. size <= Capacity /\ target <= Capacity /\ disk.size \in Nat /\ Capacity \in Nat
  BY MaxOfTwo DEF TypeOK, Capacity, Disk
<1>01. op # "idle" /\ state # "Absent"
  BY DEF HostStep, CloneImage, BootVmm, BootEnds, StopEnds, GrowDisk, ResizeEnds, DestroyStops,
         LockBackups, RemoveBackups, EraseDisk, DeleteRow, FenceInv
<1>1. CASE CloneImage
  <2>1. RecordMoves
    BY <1>1 DEF CloneImage, row, RecordMoves, Trims
  <2>2. DiskMoves
    <3>1. ~Creates
      BY <1>1 DEF CloneImage, FenceInv, Creates
    <3>2. disk'.size = size
      BY <1>1 DEF CloneImage
    <3> QED BY <1>0, <1>01, <1>1, <3>1, <3>2 DEF CloneImage, row, DiskMoves
  <2>3. PinMoves
    BY <1>1, SamePins DEF CloneImage
  <2> QED BY <2>1, <2>2, <2>3 DEF AccountMoves
<1>2. CASE BootVmm \/ BootEnds \/ StopEnds \/ DestroyStops \/ LockBackups
  BY <1>01, <1>2, Uninvolved
     DEF BootVmm, BootEnds, StopEnds, DestroyStops, LockBackups, BackupFields, host, row
<1>3. CASE GrowDisk
  <2>1. RecordMoves
    BY <1>3 DEF GrowDisk, row, RecordMoves, Trims
  <2>2. DiskMoves
    <3>1. ~Creates
      BY <1>3 DEF GrowDisk, FenceInv, Creates
    <3>2. disk'.size \in {disk.size, target}
      BY <1>3 DEF GrowDisk, TypeOK, Disk
    <3> QED BY <1>0, <1>01, <1>3, <3>1, <3>2 DEF GrowDisk, row, DiskMoves
  <2>3. PinMoves
    BY <1>3, SamePins DEF GrowDisk
  <2> QED BY <2>1, <2>2, <2>3 DEF AccountMoves
<1>4. CASE ResizeEnds
  <2>1. RecordMoves
    BY <1>4 DEF ResizeEnds, BackupFields, host, RecordMoves, Grown
  <2>2. DiskMoves
    BY <1>01, <1>4 DEF ResizeEnds, host, DiskMoves
  <2>3. PinMoves
    BY <1>4, SamePins DEF ResizeEnds, host
  <2> QED BY <2>1, <2>2, <2>3 DEF AccountMoves
<1>5. CASE RemoveBackups
  <2>1. Effect
    BY <1>5, HostEffect
  <2>2. ASSUME NEW c, c.kind \in {"destroy", "spoil", "none"}, Apply(c)
        PROVE  disk' = disk
    BY <2>2 DEF Apply
  <2>3. disk' = disk
    <3>1. \A i : Destroy(i).kind = "destroy" /\ Spoil(i).kind = "spoil"
      BY DEF Destroy, Spoil
    <3>2. \A c \in Removals(Referenced) \union {NoCommand} : c.kind \in {"destroy", "spoil", "none"}
      BY <3>1 DEF Removals, NoCommand
    <3>3. CASE \E i \in Referenced \intersect Present : Apply(Destroy(i))
      BY <2>2, <3>1, <3>3
    <3>4. CASE \E c \in Removals(Referenced) \union {NoCommand} : Apply(c)
      BY <2>2, <3>2, <3>4
    <3> QED BY <1>5, <3>3, <3>4 DEF RemoveBackups
  <2>4. RecordMoves
    BY <1>5, <2>3 DEF RemoveBackups, RecordMoves, Trims, Drops
  <2>5. DiskMoves
    BY <1>01, <1>5, <2>3 DEF RemoveBackups, DiskMoves
  <2> QED BY <2>1, <2>4, <2>5, EffectPins DEF AccountMoves
<1>6. CASE EraseDisk
  <2>1. RecordMoves
    BY <1>6 DEF EraseDisk, row, RecordMoves, Trims
  <2>2. DiskMoves
    <3>1. ~Creates
      BY <1>6 DEF EraseDisk, FenceInv, Creates
    <3>2. /\ disk'.size = disk.size \/ disk'.size = 0
          /\ op' = "erased" => disk'.size = 0
      BY <1>6 DEF EraseDisk, NoDisk
    <3> QED BY <1>0, <1>01, <1>6, <3>1, <3>2 DEF EraseDisk, row, DiskMoves
  <2>3. PinMoves
    BY <1>6, SamePins DEF EraseDisk
  <2> QED BY <2>1, <2>2, <2>3 DEF AccountMoves
<1>7. CASE DeleteRow
  <2>1. RecordMoves
    BY <1>7 DEF DeleteRow, host, RecordMoves, Drops
  <2>2. DiskMoves
    BY <1>7 DEF DeleteRow, host, DiskMoves, AccountInv, DiskCovered
  <2>3. PinMoves
    BY <1>7, SamePins DEF DeleteRow, host
  <2> QED BY <2>1, <2>2, <2>3 DEF AccountMoves
<1> QED BY <1>1, <1>2, <1>3, <1>4, <1>5, <1>6, <1>7 DEF HostStep

LEMMA AccountReconcile ==
  ASSUME TypeOK, FenceInv, StorageInv, AccountInv, Reconcile
  PROVE  AccountMoves
<1>1. CASE ScanRecord \/ ReconcileSkip
  BY <1>1, Uninvolved DEF ScanRecord, ReconcileSkip, row, host
<1>2. CASE ReconcileVm
  <2>1. op' = "erased" => op = "erased"
    BY <1>2 DEF ReconcileVm, ResumeDeletion
  <2>2. state' = "Absent" => state = "Absent"
    BY <1>2 DEF ReconcileVm, ObservedState
  <2> QED BY <1>2, <2>1, <2>2, Uninvolved DEF ReconcileVm, BackupFields, host
<1>3. CASE ReconcileClaim
  BY <1>3, Uninvolved DEF ReconcileClaim, Claim, ClaimCleanup, row, host
<1> QED BY <1>1, <1>2, <1>3 DEF Reconcile

LEMMA AccountWorld ==
  ASSUME TypeOK, FenceInv, StorageInv, AccountInv,
         Issues \/ BackoffExpires \/ GuestWrites \/ GuestExits \/ Crash \/ OrphanEnds
  PROVE  AccountMoves
<1>1. CASE Issues \/ BackoffExpires \/ GuestExits
  BY <1>1, Uninvolved DEF Issues, Issue, BackoffExpires, GuestExits, row, host, process
<1>2. CASE GuestWrites
  <2>1. disk'.size = disk.size
    BY <1>2 DEF GuestWrites, TypeOK, Disk
  <2>2. RecordMoves
    BY <1>2 DEF GuestWrites, row, RecordMoves, Trims
  <2>3. DiskMoves
    BY <1>2, <2>1 DEF GuestWrites, row, process, DiskMoves, AccountInv, DiskCovered
  <2>4. PinMoves
    BY <1>2, SamePins DEF GuestWrites
  <2> QED BY <2>2, <2>3, <2>4 DEF AccountMoves
<1>3. CASE Crash \/ OrphanEnds
  <2>1. Effect
    BY <1>3, HostEffect
  <2>2. UNCHANGED <<size, target, current, pending, retired>>
    BY <1>3 DEF Crash, OrphanEnds, row
  <2>3. disk'.size = disk.size \/ (Restores /\ disk'.size <= Capacity)
    BY <2>1, EffectDisk
  <2>4. (state' = "Absent" \/ op' = "erased") => disk'.size = 0
    <3>1. (state' = "Absent" \/ op' = "erased") => state = "Absent" \/ op = "erased"
      BY <1>3 DEF Crash, OrphanEnds, row, process
    <3>2. (state = "Absent" \/ op = "erased") => ~Restores
      BY DEF FenceInv, Restores
    <3> QED BY <2>3, <3>1, <3>2 DEF AccountInv, DiskCovered
  <2>5. DiskMoves
    BY <2>2, <2>3, <2>4 DEF DiskMoves, Restores, Creates
  <2>6. RecordMoves
    BY <2>2 DEF RecordMoves, Trims
  <2> QED BY <2>1, <2>5, <2>6, EffectPins DEF AccountMoves
<1> QED BY <1>1, <1>2, <1>3

\* A storage command of a task, which leaves the record alone.
LEMMA AccountCommand ==
  ASSUME TypeOK, FenceInv, StorageInv, AccountInv, Effect,
         UNCHANGED <<state, size, target, current, pending, retired, op>>
  PROVE  AccountMoves
<1>1. disk'.size = disk.size \/ (Restores /\ disk'.size <= Capacity)
  BY EffectDisk
<1>2. (state = "Absent" \/ op = "erased") => ~Restores
  BY DEF FenceInv, Restores
<1>3. DiskMoves
  BY <1>1, <1>2 DEF DiskMoves, Restores, Creates, AccountInv, DiskCovered
<1>4. RecordMoves
  BY DEF RecordMoves, Trims
<1> QED BY <1>3, <1>4, EffectPins DEF AccountMoves

\* Steps of a task that only changes one artifact, the pending one.
LEMMA AccountFile ==
  ASSUME TypeOK, FenceInv, StorageInv, AccountInv, Busy,
         UNCHANGED <<state, size, target, current, pending, retired, op>>,
         disk'.size = disk.size \/ (disk'.size <= Capacity /\ ~Creates),
         \A i \in Slots : i # pending.art.id => store'[i] = store[i],
         pending.art.id \in Present' => store'[pending.art.id].size <= pending.art.size
  PROVE  AccountMoves
<1>1. RecordMoves
  BY DEF RecordMoves, Trims
<1>2. op # "erased" /\ state # "Absent"
  BY DEF FenceInv
<1>3. DiskMoves
  BY <1>2 DEF DiskMoves
<1>4. ASSUME NEW i \in Present', i # pending.art.id
      PROVE  i \in Present /\ store'[i].size <= store[i].size
  <2>1. i \in Slots /\ store'[i] = store[i]
    BY <1>4 DEF Present
  <2>2. i \in Present /\ store[i].size \in Nat
    BY <2>1, <1>4 DEF Present, TypeOK, Artifact
  <2> QED BY <2>1, <2>2
<1>5. PinMoves
  BY <1>4 DEF PinMoves
<1> QED BY <1>1, <1>3, <1>5 DEF AccountMoves

LEMMA AccountTask ==
  ASSUME TypeOK, FenceInv, StorageInv, AccountInv, NEW t \in Tasks, ClientClaim(t) \/ TaskStep(t)
  PROVE  AccountMoves
<1>0. /\ Admitted(t) => /\ work[t].seen.pending = pending /\ work[t].seen.current = current
                        /\ Busy /\ state = "Stopped" /\ disk.size = size /\ pending.art.size = size
      /\ size <= Capacity /\ Capacity \in Nat /\ size \in Nat
  <2>1. Admitted(t) => Busy /\ state = "Stopped"
    BY DEF Admitted, FenceInv, OnRequest, Storing
  <2>2. size <= Capacity /\ Capacity \in Nat /\ size \in Nat
    BY MaxOfTwo DEF TypeOK, Capacity
  <2> QED BY <2>1, <2>2 DEF StorageInv, SeenInv, CapacityInv
<1>1. CASE ClientClaim(t) \/ Inspect(t) \/ InspectFails(t) \/ AdmitRefused(t) \/ Release(t)
           \/ LockCleanup(t) \/ CleanupBlocked(t) \/ CleanedAll(t)
  BY <1>1, Uninvolved
     DEF ClientClaim, Claim, Inspect, InspectFails, AdmitRefused, Release, LockCleanup,
         CleanupBlocked, CleanedAll, OutsideWork, row, host, history
<1>2. CASE Admit(t)
  <2>1. CASE Busy
    BY <1>2, <2>1, Uninvolved DEF Admit, host
  <2>2. CASE ~Busy
    <3>1. Qualified(work[t].req, work[t]) /\ Admission(work[t].req, work[t])
      BY <1>2, <2>2 DEF Admit
    <3>2. work[t].size = disk.size
      BY <1>2 DEF Admit, StorageInv, SeenInv
    <3>3. pending'.req = work[t].req /\ pending'.art.size = disk.size
          /\ pending'.art.id = minted + 1
      BY <3>1, <3>2 DEF Admission
    <3>4. AdmitsOne
      BY <1>2, <2>2, <3>1, <3>2, <3>3 DEF Admit, AdmitsOne, Qualified, host
    <3>5. DiskMoves
      BY <1>2 DEF Admit, host, DiskMoves, AccountInv, DiskCovered
    <3>6. PinMoves
      BY <1>2, SamePins DEF Admit, host
    <3> QED BY <3>4, <3>5, <3>6 DEF AccountMoves, RecordMoves
  <2> QED BY <2>1, <2>2
<1>3. CASE TakeSnapshot(t) \/ RollBack(t) \/ RemoveNext(t) \/ WorkFails(t)
           \/ \E i \in Slots : DropNewer(t, i) \/ CleanOne(t, i)
  <2>1. Effect
    BY <1>3, TaskEffect
  <2>2. UNCHANGED <<state, size, target, current, pending, retired, op>>
    BY <1>3 DEF TakeSnapshot, RollBack, RemoveNext, WorkFails, DropNewer, CleanOne, OutsideWork, row
  <2> QED BY <2>1, <2>2, AccountCommand
<1>4. CASE CloneFile(t)
  <2>1. Admitted(t) /\ UNCHANGED <<state, size, target, current, pending, retired, op, disk>>
    BY <1>4 DEF CloneFile, Admitted, Storing, OutsideWork, row
  <2> DEFINE from == IF pending.req.action = "restore" THEN store[current.id] ELSE disk
  <2>2. store' = [store EXCEPT ![pending.art.id] = Copy(from, FALSE)]
    BY <1>0, <1>4, <2>1, CloneEffect
  <2>3. from.size <= pending.art.size
    <3>1. CASE pending.req.action = "restore"
      <4>1. Verified(current.id)
        BY <1>0, <1>4, <2>1, <3>1 DEF CloneFile
      <4>2. store[current.id].size <= current.size
        BY <4>1 DEF Verified, AccountInv, ArtifactsCovered
      <4>3. current.size = size
        BY <1>0, <2>1, <3>1 DEF StorageInv, ContentInv, CapacityInv, Restores
      <4> QED BY <1>0, <2>1, <3>1, <4>2, <4>3
    <3>2. CASE pending.req.action # "restore"
      BY <1>0, <2>1, <3>2
    <3> QED BY <3>1, <3>2
  <2>4. pending.art.id \in Present' => store'[pending.art.id].size = from.size
    <3> HIDE DEF from
    <3> QED BY <2>2 DEF Present, Copy, TypeOK
  <2>5. \A i \in Slots : i # pending.art.id => store'[i] = store[i]
    <3> HIDE DEF from
    <3> QED BY <2>2 DEF TypeOK
  <2>6. pending.art.id \in Present' => store'[pending.art.id].size <= pending.art.size
    <3> HIDE DEF from
    <3> QED BY <2>3, <2>4
  <2>7. /\ Busy /\ disk'.size = disk.size
        /\ UNCHANGED <<state, size, target, current, pending, retired, op>>
    BY <1>0, <2>1
  <2> QED BY <2>5, <2>6, <2>7, AccountFile
<1>5. CASE WriteManifest(t)
  <2>1. Admitted(t) /\ UNCHANGED <<state, size, target, current, pending, retired, op, disk>>
    BY <1>5 DEF WriteManifest, Admitted, Storing, OutsideWork, row
  <2>2. \A i \in Slots : /\ store'[i].size = store[i].size /\ store'[i].at = store[i].at
                         /\ i # pending.art.id => store'[i] = store[i]
    BY <1>0, <1>5, <2>1, FileStepStore
  <2>3. pending.art.id \in Present' => store'[pending.art.id].size <= pending.art.size
    <3>1. Present' = Present
      BY <2>2 DEF Present
    <3>2. Present \subseteq Slots
      BY DEF Present
    <3> QED BY <2>2, <3>1, <3>2 DEF AccountInv, ArtifactsCovered
  <2>4. /\ Busy /\ disk'.size = disk.size
        /\ UNCHANGED <<state, size, target, current, pending, retired, op>>
        /\ \A i \in Slots : i # pending.art.id => store'[i] = store[i]
    BY <1>0, <2>1, <2>2
  <2> QED BY <2>3, <2>4, AccountFile
<1>6. CASE ResumeFile(t)
  BY <1>6, Uninvolved DEF ResumeFile, OutsideWork, row
<1>7. CASE RenameStage(t)
  <2>1. Admitted(t) /\ UNCHANGED <<state, size, target, current, pending, retired, op>>
    BY <1>7 DEF RenameStage, Admitted, Storing, OutsideWork, row
  <2>2. Restores /\ pending.art.id \in Present
    BY <1>0, <1>7, <2>1 DEF RenameStage, StorageInv, HeldInv
  <2>3. disk'.size = store[pending.art.id].size
    BY <1>0, <1>7, <2>1 DEF RenameStage
  <2>4. store[pending.art.id].size <= pending.art.size /\ store[pending.art.id].size \in Nat
    BY <2>2 DEF AccountInv, ArtifactsCovered, TypeOK, Artifact, Present
  <2>5. disk'.size <= Capacity
    BY <1>0, <2>1, <2>3, <2>4
  <2>6. store' = [store EXCEPT ![pending.art.id].size = 0]
    BY <1>0, <1>7, <2>1 DEF RenameStage
  <2>7. \A i \in Slots : i # pending.art.id => store'[i] = store[i]
    BY <2>6 DEF TypeOK
  <2>8. store'[pending.art.id].size = 0
    BY <2>2, <2>6 DEF TypeOK, Artifact, Present
  <2> QED BY <1>0, <2>1, <2>2, <2>5, <2>7, <2>8, AccountFile DEF Restores, Creates
<1>8. CASE Finish(t)
  <2>1. UNCHANGED <<state, size, target, disk, store, op>> /\ state = "Stopped"
    BY <1>8 DEF Finish, host, FenceInv, OnRequest
  <2>2. CASE UNCHANGED <<current, retired, pending>>
    BY <2>1, <2>2, Uninvolved
  <2>3. CASE ~UNCHANGED <<current, retired, pending>>
    <3>1. /\ Busy /\ pending' = NoPending
          /\ \/ Creates /\ Abandoned(pending)
             \/ Creates /\ Publish(pending)
             \/ Restores /\ Restored(pending, work[t].gone)
             \/ Deletes /\ Deleted
      BY <1>8, <2>3, FinishCases
    <3>2. SettlesOne
      BY <2>1, <3>1
         DEF SettlesOne, Abandoned, Publish, Restored, Deleted, Creates, Restores, Deletes
    <3>3. DiskMoves
      BY <2>1 DEF DiskMoves, AccountInv, DiskCovered
    <3>4. PinMoves
      BY <2>1, SamePins
    <3> QED BY <3>2, <3>3, <3>4 DEF AccountMoves, RecordMoves
  <2> QED BY <2>2, <2>3
<1>9. CASE FinishCleanup(t)
  <2>1. /\ UNCHANGED <<state, size, target, current, pending, disk, store, op>>
        /\ retired' \in SUBSET retired
    BY <1>9 DEF FinishCleanup, host, history
  <2>2. DiskMoves
    BY <2>1 DEF DiskMoves, AccountInv, DiskCovered
  <2>3. RecordMoves
    BY <2>1 DEF RecordMoves, Trims
  <2> QED BY <2>1, <2>2, <2>3, SamePins DEF AccountMoves
<1> QED BY <1>1, <1>2, <1>3, <1>4, <1>5, <1>6, <1>7, <1>8, <1>9 DEF TaskStep

(***************************************************************************)
(* The account is kept by every step.                                      *)
(***************************************************************************)
LEMMA AccountStep ==
  ASSUME TypeOK, FenceInv, StorageInv, AccountInv, [Next]_vars
  PROVE  AccountMoves
<1>1. CASE UNCHANGED vars
  BY <1>1, Uninvolved DEF vars, row, host, process
<1>2. CASE Lifecycle
  BY <1>2, AccountLifecycle
<1>3. CASE HostStep
  BY <1>3, AccountHostStep
<1>4. CASE Reconcile
  BY <1>4, AccountReconcile
<1>5. CASE Issues \/ BackoffExpires \/ GuestWrites \/ GuestExits \/ Crash \/ OrphanEnds
  BY <1>5, AccountWorld
<1>6. ASSUME NEW t \in Tasks, ClientClaim(t) \/ TaskStep(t) PROVE AccountMoves
  BY <1>6, AccountTask
<1> QED BY <1>1, <1>2, <1>3, <1>4, <1>5, <1>6, Zenon DEF Next

LEMMA RetiredFinite ==
  ASSUME AccountInv, RecordMoves
  PROVE  IsFiniteSet(retired')
<1>1. IsFiniteSet(retired \union {current, pending.art})
  <2>1. IsFiniteSet(retired \union {current})
    BY FS_AddElement DEF AccountInv
  <2>2. IsFiniteSet((retired \union {current}) \union {pending.art})
    BY <2>1, FS_AddElement
  <2>3. (retired \union {current}) \union {pending.art} = retired \union {current, pending.art}
    OBVIOUS
  <2> QED BY <2>2, <2>3
<1>2. retired' \in SUBSET (retired \union {current, pending.art})
  BY DEF RecordMoves, Trims, AdmitsOne, SettlesOne, Drops, Starts, Grows, Grown
<1> QED BY <1>1, <1>2, FS_Subset

LEMMA ArtifactsStayCovered ==
  ASSUME TypeOK, TypeOK', StorageInv, AccountInv, RecordMoves, PinMoves
  PROVE  ArtifactsCovered'
<1> SUFFICES ASSUME NEW g \in (retired \union {current, pending.art})', g.id \in Present'
             PROVE  store'[g.id].size <= g.size
  BY DEF ArtifactsCovered
<1>1. /\ \/ g \in retired \union {current, pending.art}
         \/ g.id = 0
         \/ g.id = minted + 1
  BY DEF RecordMoves, Trims, AdmitsOne, SettlesOne, Drops, Starts, Grows, Grown,
         NoGeneration, NoPending
<1>2. \/ g.id \in Present /\ store'[g.id].size <= store[g.id].size
      \/ Busy /\ g.id = pending.art.id /\ store'[g.id].size <= pending.art.size
  BY DEF PinMoves
<1>3. g.id # 0 /\ g.id # minted + 1
  <2>1. \E h \in retired \union {current, pending.art} : h.id = g.id /\ g.id # 0
    BY <1>2 DEF StorageInv, PresentInv, NoStrays, Referenced, Ids, Busy
  <2>2. g.id <= minted /\ minted \in Nat
    BY <2>1 DEF StorageInv, RecordInv, TypeOK
  <2> QED BY <2>1, <2>2
<1>4. g \in retired \union {current, pending.art}
  BY <1>1, <1>3
<1>5. CASE g.id \in Present /\ store'[g.id].size <= store[g.id].size
  <2>1. store[g.id].size <= g.size
    BY <1>4, <1>5 DEF AccountInv, ArtifactsCovered
  <2>2. store[g.id].size \in Nat /\ g.size \in Nat
    BY <1>4, <1>5 DEF TypeOK, Present, Artifact, Generation, Pending
  <2>3. store'[g.id].size \in Nat
    BY <1>5 DEF TypeOK, Present, Artifact
  <2> QED BY <1>5, <2>1, <2>2, <2>3
<1>6. CASE Busy /\ g.id = pending.art.id /\ store'[g.id].size <= pending.art.size
  <2>1. g = pending.art
    BY <1>4, <1>6 DEF StorageInv, RecordInv
  <2> QED BY <1>6, <2>1
<1> QED BY <1>2, <1>5, <1>6

LEMMA DiskStaysCovered ==
  ASSUME TypeOK, TypeOK', FenceInv, StorageInv, StorageInv', AccountInv, RecordMoves, DiskMoves
  PROVE  DiskCovered'
<1> DEFINE D == disk.size
<1>0. /\ size <= Capacity /\ target <= Capacity /\ Capacity \in Nat /\ Capacity \in {size, target}
      /\ size \in Nat /\ target \in Nat /\ disk.size \in Nat /\ current.size \in Nat
      /\ disk.size <= Capacity /\ current.size <= Capacity
  BY MaxOfTwo DEF TypeOK, Capacity, Disk, Generation, AccountInv, DiskCovered
<1>1. /\ size' <= Capacity' /\ target' <= Capacity' /\ Capacity' \in Nat
      /\ size' \in Nat /\ target' \in Nat /\ disk'.size \in Nat /\ current'.size \in Nat
  BY MaxOfTwo DEF TypeOK, Capacity, Disk, Generation
<1>2. UNCHANGED <<size, target>> => Capacity' = Capacity
  BY DEF Capacity
<1>3. disk'.size <= Capacity'
  <2>1. CASE Trims \/ AdmitsOne \/ SettlesOne
    BY <1>0, <1>1, <1>2, <2>1 DEF Trims, AdmitsOne, SettlesOne, DiskMoves
  <2>2. CASE Drops
    BY <1>0, <1>1, <1>2, <2>2 DEF Drops, AccountInv, DiskCovered
  <2>3. CASE Starts
    BY <1>1, <2>3 DEF Starts, AccountInv, DiskCovered
  <2>4. CASE Grows
    BY <1>0, <1>1, <2>4 DEF Grows
  <2>5. CASE Grown
    BY <1>0, <1>1, <2>5 DEF Grown, StorageInv, CapacityInv
  <2> QED BY <2>1, <2>2, <2>3, <2>4, <2>5 DEF RecordMoves
<1>4. current'.id = 0 => current'.size = 0
  <2>1. current.id = 0 => current.size = 0
    BY DEF AccountInv, DiskCovered
  <2> QED BY <2>1 DEF RecordMoves, Trims, AdmitsOne, SettlesOne, Drops, Starts, Grows, Grown, Busy,
               NoGeneration
<1>5. current'.size <= Capacity'
  <2>1. CASE Trims \/ AdmitsOne
    BY <1>0, <1>2, <2>1 DEF Trims, AdmitsOne
  <2>2. CASE SettlesOne
    <3>1. pending.art.size = size
      BY <2>2 DEF SettlesOne, StorageInv, CapacityInv
    <3> QED BY <1>0, <1>1, <1>2, <2>2, <3>1 DEF SettlesOne, NoGeneration
  <2>3. CASE Drops
    BY <1>1, <2>3 DEF Drops, NoGeneration
  <2>4. CASE Starts
    BY <1>1, <2>4 DEF Starts, StorageInv, RecordInv, AccountInv, DiskCovered
  <2>5. CASE Grows
    BY <1>0, <1>1, <2>5 DEF Grows
  <2>6. CASE Grown
    <3>1. current.id # 0 => current.size = size /\ target \in {0, size}
      BY <2>6 DEF Grown, StorageInv, CapacityInv, RecordInv, Erasing
    <3>2. target # 0
      BY <2>6 DEF Grown, StorageInv, CapacityInv
    <3>3. current.id = 0 => current.size = 0
      BY DEF AccountInv, DiskCovered
    <3> QED BY <1>0, <1>1, <2>6, <3>1, <3>2, <3>3 DEF Grown
  <2> QED BY <2>1, <2>2, <2>3, <2>4, <2>5, <2>6 DEF RecordMoves
<1>6. Creates' => disk'.size <= pending'.art.size
  <2>1. CASE pending' = pending
    <3>1. Creates' = Creates
      BY <2>1 DEF Creates, Busy
    <3>2. CASE disk'.size = disk.size
      BY <2>1, <3>1, <3>2 DEF AccountInv, DiskCovered
    <3>3. CASE ~Creates
      BY <3>1, <3>3
    <3> QED BY <3>2, <3>3 DEF DiskMoves
  <2>2. CASE AdmitsOne
    BY <1>0, <2>2 DEF AdmitsOne
  <2>3. CASE pending' = NoPending
    BY <2>3 DEF Creates, Busy, NoPending, NoGeneration
  <2> QED BY <2>1, <2>2, <2>3 DEF RecordMoves, Trims, SettlesOne, Drops, Starts, Grows, Grown
<1> QED BY <1>3, <1>4, <1>5, <1>6 DEF DiskCovered, DiskMoves

\* With a part of what was reserved kept, no more is reserved.
LEMMA BudgetKept ==
  ASSUME TypeOK, TypeOK', IsFiniteSet(retired), IsFiniteSet(retired'), ReservedDisk <= Budget,
         Kept' \in SUBSET (Kept \union {NoGeneration}),
         Counted' <= Counted, Capacity' <= Capacity
  PROVE  ReservedDisk' <= Budget
<1>1. SumOfSizes(Kept') <= SumOfSizes(Kept)
  BY ReservedSums, SizesWithin
<1>2. /\ SumOfSizes(Kept) \in Nat /\ Capacity \in Nat /\ Counted \in Nat
      /\ ReservedDisk = Capacity + SumOfSizes(Kept) + Counted
  BY ReservedSums
<1>3. /\ SumOfSizes(Kept') \in Nat /\ Capacity' \in Nat /\ Counted' \in Nat
      /\ ReservedDisk' = Capacity' + SumOfSizes(Kept') + Counted'
  BY ReservedSumsNext
<1> QED BY <1>1, <1>2, <1>3, BoundsAssumption

\* Without artifacts and pending work only the disk's capacity is reserved.
LEMMA BudgetOfDisk ==
  ASSUME TypeOK, TypeOK', IsFiniteSet(retired), IsFiniteSet(retired'),
         retired = {}, current.size = 0, pending = NoPending,
         UNCHANGED <<current, pending, retired>>, Capacity' <= Budget
  PROVE  ReservedDisk' <= Budget
<1>1. SumOfSizes(Kept') <= SumOfSizes({}) + current.size
  <2>1. Kept' = {} \union {current} /\ current \in Generation
    BY DEF Kept, TypeOK
  <2>2. {} \in SUBSET Generation /\ IsFiniteSet({})
    BY FS_EmptySet
  <2> QED BY <2>1, <2>2, SizesWithOne
<1>2. SumOfSizes({}) = 0
  BY SumOfNone DEF SumOfSizes
<1>3. Counted' = 0
  BY DEF Counted, NoPending, NoRequest, NoGeneration
<1>4. /\ SumOfSizes(Kept') \in Nat /\ Capacity' \in Nat
      /\ ReservedDisk' = Capacity' + SumOfSizes(Kept') + Counted'
  BY ReservedSumsNext
<1> QED BY <1>1, <1>2, <1>3, <1>4, BoundsAssumption

LEMMA BudgetRespected ==
  ASSUME TypeOK, TypeOK', FenceInv, StorageInv, AccountInv, RecordMoves, IsFiniteSet(retired')
  PROVE  ReservedDisk' <= Budget
<1>0. IsFiniteSet(retired) /\ ReservedDisk <= Budget
  BY DEF AccountInv
<1>1. /\ SumOfSizes(Kept) \in Nat /\ Capacity \in Nat /\ Counted \in Nat
      /\ ReservedDisk = Capacity + SumOfSizes(Kept) + Counted
      /\ Kept \in SUBSET Generation /\ IsFiniteSet(Kept)
      /\ size <= Capacity /\ target <= Capacity
  BY <1>0, ReservedSums
<1>2. /\ SumOfSizes(Kept') \in Nat /\ Capacity' \in Nat /\ Counted' \in Nat
      /\ ReservedDisk' = Capacity' + SumOfSizes(Kept') + Counted'
      /\ Capacity' \in {size', target'} /\ IsFiniteSet(Kept') /\ Kept' \in SUBSET Generation
  BY ReservedSumsNext
<1>3. ~Busy => pending = NoPending /\ Counted = 0
  BY DEF StorageInv, RecordInv, Counted, NoPending, NoRequest, NoGeneration
<1>4. UNCHANGED <<size, target>> => Capacity' = Capacity
  BY DEF Capacity
<1>5. size \in Nat /\ target \in Nat /\ size' \in Nat /\ target' \in Nat
  BY DEF TypeOK
<1>6. CASE Trims
  <2>1. Kept' \in SUBSET (Kept \union {NoGeneration}) /\ Counted' = Counted
    BY <1>6 DEF Trims, Kept, Counted
  <2> QED BY <1>0, <1>1, <1>4, <1>6, <2>1, BudgetKept DEF Trims
<1>7. CASE AdmitsOne
  <2>1. Kept' = Kept /\ Capacity' = Capacity
    BY <1>4, <1>7 DEF AdmitsOne, Kept
  <2>2. Counted' <= Budget - ReservedDisk \/ Counted' = 0
    BY <1>7 DEF AdmitsOne, Counted, Free
  <2>3. Counted = 0
    BY <1>3, <1>7 DEF AdmitsOne
  <2>4. SumOfSizes(Kept') = SumOfSizes(Kept)
    BY <2>1
  <2> QED BY <1>0, <1>1, <1>2, <2>1, <2>2, <2>3, <2>4, BoundsAssumption
<1>8. CASE SettlesOne
  <2>1. Counted' = 0 /\ Capacity' = Capacity
    BY <1>4, <1>8 DEF SettlesOne, Counted, NoPending, NoRequest, NoGeneration
  <2>2. CASE current' = NoGeneration /\ retired' = {}
    <3>1. Kept' \in SUBSET (Kept \union {NoGeneration})
      BY <2>2 DEF Kept
    <3> QED BY <1>0, <1>1, <2>1, <3>1, BudgetKept
  <2>3. CASE current' \in {current, pending.art} /\ ~Deletes
    <3>1. Kept' \in SUBSET (Kept \union {pending.art})
      BY <1>8, <2>3 DEF SettlesOne, Kept
    <3>2. Counted = pending.art.size /\ pending.art \in Generation
      BY <1>8, <2>3 DEF SettlesOne, Deletes, Counted, TypeOK, Pending
    <3>3. SumOfSizes(Kept \union {pending.art}) <= SumOfSizes(Kept) + Counted
      BY <1>1, <3>2, SizesWithOne
    <3>4. Kept \union {pending.art} \in SUBSET Generation /\ IsFiniteSet(Kept \union {pending.art})
      BY <1>1, <3>2, FS_AddElement
    <3>5. SumOfSizes(Kept') <= SumOfSizes(Kept \union {pending.art})
      BY <3>1, <3>4, SizesOfPart
    <3>6. SumOfSizes(Kept \union {pending.art}) \in Nat
      BY <3>4, SizesNat
    <3> QED BY <1>0, <1>1, <1>2, <2>1, <3>3, <3>5, <3>6, BoundsAssumption
  <2> QED BY <1>8, <2>2, <2>3 DEF SettlesOne
<1>9. CASE Drops
  <2>1. Kept' \in SUBSET (Kept \union {NoGeneration})
    BY <1>9 DEF Drops, Kept
  <2>2. Counted' = 0
    BY <1>9 DEF Drops, Counted, NoPending, NoRequest, NoGeneration
  <2>3. Capacity' <= Capacity
    BY <1>1, <1>2, <1>4, <1>9 DEF Drops
  <2> QED BY <1>0, <1>1, <2>1, <2>2, <2>3, BudgetKept
<1>10. CASE Starts
  <2>1. retired = {} /\ current.size = 0 /\ pending = NoPending
    BY <1>3, <1>10 DEF Starts, StorageInv, RecordInv, AccountInv, DiskCovered, FenceInv
  <2>2. Capacity' <= Budget
    BY <1>2, <1>10, BoundsAssumption DEF Starts
  <2> QED BY <1>0, <1>10, <2>1, <2>2, BudgetOfDisk DEF Starts
<1>11. CASE Grows
  <2>1. CASE HasArtifacts
    <3>1. Capacity' <= Capacity
      BY <1>1, <1>2, <1>11, <2>1 DEF Grows
    <3>2. Kept' \in SUBSET (Kept \union {NoGeneration}) /\ Counted' = Counted
      BY <1>11 DEF Grows, Kept, Counted
    <3> QED BY <1>0, <1>1, <3>1, <3>2, BudgetKept
  <2>2. CASE ~HasArtifacts
    <3>1. retired = {} /\ current.size = 0 /\ pending = NoPending
      BY <1>3, <1>11, <2>2 DEF Grows, HasArtifacts, AccountInv, DiskCovered
    <3>2. Capacity' <= Budget
      BY <1>2, <1>5, <1>11, BoundsAssumption DEF Grows
    <3> QED BY <1>0, <1>11, <3>1, <3>2, BudgetOfDisk DEF Grows
  <2> QED BY <2>1, <2>2
<1>12. CASE Grown
  <2>1. Capacity' <= Capacity
    BY <1>1, <1>2, <1>5, <1>12 DEF Grown
  <2>2. Kept' \in SUBSET (Kept \union {NoGeneration}) /\ Counted' = Counted
    BY <1>12 DEF Grown, Kept, Counted
  <2> QED BY <1>0, <1>1, <2>1, <2>2, BudgetKept
<1> QED BY <1>6, <1>7, <1>8, <1>9, <1>10, <1>11, <1>12 DEF RecordMoves

LEMMA AccountInit == Init => AccountInv
<1> SUFFICES ASSUME Init PROVE AccountInv
  OBVIOUS
<1>1. TypeOK
  BY TypeInit
<1>2. IsFiniteSet(retired) /\ retired = {}
  BY FS_EmptySet DEF Init
<1>3. Capacity = 0
  BY MaxOfTwo DEF Init, Capacity
<1>4. DiskCovered
  BY <1>3 DEF Init, DiskCovered, NoDisk, NoGeneration, NoPending, Creates, Busy
<1>5. ArtifactsCovered
  BY DEF Init, ArtifactsCovered, Present, NoArtifact
<1>6. ReservedDisk <= Budget
  <2>1. Kept = {} \union {NoGeneration}
    BY DEF Init, Kept
  <2>2. {} \in SUBSET Generation /\ IsFiniteSet({})
    BY FS_EmptySet
  <2>3. SumOfSizes(Kept) <= SumOfSizes({}) /\ SumOfSizes({}) = 0
    BY <2>1, <2>2, SizesWithin, SumOfNone DEF SumOfSizes
  <2>4. Counted = 0
    BY DEF Init, Counted, NoPending, NoRequest, NoGeneration
  <2> QED BY <1>1, <1>2, <1>3, <2>3, <2>4, ReservedSums, BoundsAssumption
<1> QED BY <1>2, <1>4, <1>5, <1>6 DEF AccountInv

LEMMA AccountNext ==
  ASSUME TypeOK, FenceInv, StorageInv, AccountInv, [Next]_vars
  PROVE  AccountInv'
<1>1. TypeOK' /\ StorageInv'
  BY TypeNext, StorageNext
<1>2. RecordMoves /\ DiskMoves /\ PinMoves
  BY AccountStep DEF AccountMoves
<1>3. IsFiniteSet(retired')
  BY <1>2, RetiredFinite
<1>4. DiskCovered' /\ ArtifactsCovered' /\ ReservedDisk' <= Budget
  BY <1>1, <1>2, <1>3, DiskStaysCovered, ArtifactsStayCovered, BudgetRespected
<1> QED BY <1>3, <1>4 DEF AccountInv

(***************************************************************************)
(* What storage pins is reserved, and what is reserved fits the host: no   *)
(* interleaving of admissions, resizes, restores, failed work, crashes and *)
(* deletions overcommits the disk or frees space that is still in use.     *)
(***************************************************************************)
THEOREM ReservationsCover == Spec => []ReservationCovers
<1>1. Init => TypeOK /\ FenceInv /\ StorageInv /\ AccountInv
  BY TypeInit, FenceInit, StorageInit, AccountInit
<1>2. TypeOK /\ FenceInv /\ StorageInv /\ AccountInv /\ [Next]_vars
        => (TypeOK /\ FenceInv /\ StorageInv /\ AccountInv)'
  BY TypeNext, FenceNext, StorageNext, AccountNext
<1>3. TypeOK /\ FenceInv /\ StorageInv /\ AccountInv => ReservationCovers
  BY AccountCovers
<1> QED BY <1>1, <1>2, <1>3, PTL DEF Spec
=============================================================================
