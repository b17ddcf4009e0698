---------------------------- MODULE AgentBackup ----------------------------
(***************************************************************************)
(* Disk backups of one VM on an agent: the durable record, the host's      *)
(* storage, the VM process, the Runtime mutex, the worker claim and flock, *)
(* and the tasks that race for them (HTTP requests, the reconcile loop and *)
(* a storage child that outlives a crashed agent).                         *)
(*                                                                         *)
(* A step outside the Runtime mutex is one storage command; a step inside  *)
(* it needs op = "idle", and a lifecycle operation that makes several      *)
(* external calls holds the mutex (op # "idle") from its first to its last.*)
(***************************************************************************)
EXTENDS Integers, FiniteSets, FiniteSetsExt, Sums

CONSTANTS
  Clients,      \* HTTP handler tasks
  Reconciler,   \* the background loop's task
  Backend,      \* "zvol" (ZFS snapshots) or "reflink" (cloned files)
  Sizes,        \* root disk capacities an operator may ask for
  Budget,       \* disk_total of the host
  MaxRetired,   \* ttcore::backup::MAX_RETIRED
  MaxOps,       \* bound: idempotency keys clients use
  MaxIssued,    \* bound: distinct requests clients compose
  MaxMinted,    \* bound: fresh tokens (VM creations and admissions)
  MaxWrites,    \* bound: guest writes
  MaxCrashes,   \* bound: agent process crashes
  MaxFailures   \* bound: storage and engine calls that fail

ASSUME ReconcilerAssumption == Reconciler \notin Clients
ASSUME BackendAssumption == Backend \in {"zvol", "reflink"}
ASSUME SizesAssumption == Sizes \subseteq Nat \ {0} /\ Sizes # {}
ASSUME BoundsAssumption ==
  /\ Budget \in Nat /\ MaxRetired \in Nat /\ MaxOps \in Nat
  /\ MaxIssued \in Nat /\ MaxMinted \in Nat /\ MaxWrites \in Nat
  /\ MaxCrashes \in Nat /\ MaxFailures \in Nat

Tasks == Clients \union {Reconciler}
Actions == {"create", "restore", "delete"}

VARIABLES
  \* The VM's database row ("Absent" when there is none).
  state, size, target, revision, current, pending, retired, receipt, backoff,
  \* The host: active disk, backup artifacts, storage lock, VM process.
  disk, store, flock, orphan, vmm,
  \* The agent process: claim set, mutex holder, tasks, reconcile snapshot.
  running, op, pc, work, scan,
  \* Bounds and history: requests composed, requests with a receipt.
  issued, done, minted, writes, crashes, failures

row == <<state, size, target, revision, current, pending, retired, receipt, backoff>>
host == <<disk, store, flock, orphan, vmm>>
process == <<running, op, pc, work, scan>>
history == <<issued, done, minted, writes, crashes, failures>>
vars == <<row, host, process, history>>

(***************************************************************************)
(* Records and their null values.  Tokens are positive numbers: a revision,*)
(* an artifact id and an inode are each minted once.                       *)
(***************************************************************************)
Request == [op: Nat, rev: Nat, action: Actions \union {"none"}, gen: Nat]
NoRequest == [op |-> 0, rev |-> 0, action |-> "none", gen |-> 0]
Generation == [id: Nat, size: Nat, staging: BOOLEAN]
NoGeneration == [id |-> 0, size |-> 0, staging |-> FALSE]
Pending == [req: Request, art: Generation, ino: Nat]
NoPending == [req |-> NoRequest, art |-> NoGeneration, ino |-> 0]
Receipt == [req: Request, ok: BOOLEAN]
NoReceipt == [req |-> NoRequest, ok |-> FALSE]
Disk == [ino: Nat, data: Nat, size: Nat]
NoDisk == [ino |-> 0, data |-> 0, size |-> 0]
\* at: creation order (createtxg, told by the token clock), 0 for an id with nothing
\* on storage;
\* ready: a snapshot, or a file with its ready.json manifest;
\* size: the bytes it pins, 0 once a restore moved its file to the disk
Artifact == [data: Nat, size: Nat, at: Nat, ready: BOOLEAN]
NoArtifact == [data |-> 0, size |-> 0, at |-> 0, ready |-> FALSE]
Slots == 0..MaxMinted
Command == [kind: {"none", "snapshot", "destroy", "rollback", "spoil"}, id: Nat]
NoCommand == [kind |-> "none", id |-> 0]
NoSeen == [current |-> NoGeneration, retired |-> {}, pending |-> NoPending]
Work == [req: Request, ino: Nat, size: Nat,
         seen: [current: Generation, retired: SUBSET Generation, pending: Pending],
         todo: SUBSET Nat, gone: SUBSET Nat, ok: BOOLEAN]
NoWork == [req |-> NoRequest, ino |-> 0, size |-> 0, seen |-> NoSeen,
           todo |-> {}, gone |-> {}, ok |-> TRUE]
Scan == [phase: {"idle", "vm", "backup"}, req: Request, cleanup: BOOLEAN]
NoScan == [phase |-> "idle", req |-> NoRequest, cleanup |-> FALSE]

Init ==
  /\ state = "Absent" /\ size = 0 /\ target = 0 /\ revision = 0 /\ backoff = FALSE
  /\ current = NoGeneration /\ pending = NoPending /\ retired = {} /\ receipt = NoReceipt
  /\ disk = NoDisk /\ store = [i \in Slots |-> NoArtifact] /\ flock = "free" /\ orphan = NoCommand /\ vmm = FALSE
  /\ running = FALSE /\ op = "idle" /\ scan = NoScan
  /\ pc = [t \in Tasks |-> "idle"] /\ work = [t \in Tasks |-> NoWork]
  /\ issued = {} /\ done = {} /\ minted = 0 /\ writes = 0 /\ crashes = 0 /\ failures = 0

(***************************************************************************)
(* The record's own queries.                                               *)
(***************************************************************************)
Mutex == op = "idle"
Busy == pending.art.id # 0
HasArtifactsButPending == current.id # 0 \/ retired # {}
HasArtifacts == current.id # 0 \/ retired # {} \/ Busy
Ids(gens) == {g.id : g \in gens} \ {0}
Referenced == Ids(retired \union {current, pending.art})
SumOfSizes(gens) == SumOf([g \in gens |-> g.size], gens)

\* backup::State::reserved_mib and Vm::reserved_disk
ReservedBackupUnlessRetired ==
  current.size + (IF pending.req.action = "delete" THEN 0 ELSE pending.art.size)
ReservedBackup ==
  SumOfSizes(retired \union {current})
    + (IF pending.req.action = "delete" THEN 0 ELSE pending.art.size)
ReservedDisk == Max({size, target}) + ReservedBackup
Free == Budget - ReservedDisk

Present == {i \in Slots : store[i].at > 0}
Newer(i) == {j \in Present \ {i} : store[j].at >= store[i].at}

\* State::check returning Ok(false): go on with the operation
ProceedsIgnoringRevision(r) == receipt.req.op # r.op /\ (Busy => pending.req = r)
Proceeds(r) ==
  /\ receipt.req.op # r.op
  /\ IF Busy THEN pending.req = r ELSE r.rev = revision

\* Runtime::backup_guard, the fence around every lifecycle operation
GuardedByClaimOnly == ~running
Guarded == ~Busy /\ ~running

Fault == failures < MaxFailures /\ failures' = failures + 1
NoFault == UNCHANGED failures

(***************************************************************************)
(* Storage commands.  Apply is what one does to the host; destroying or    *)
(* snapshotting twice is harmless, a rollback refuses newer snapshots, and *)
(* "spoil" is a file removal interrupted after the file went.              *)
(***************************************************************************)
Snapshot(i) == [kind |-> "snapshot", id |-> i]
Destroy(i) == [kind |-> "destroy", id |-> i]
Rollback(i) == [kind |-> "rollback", id |-> i]
Spoil(i) == [kind |-> "spoil", id |-> i]

CopyBackwards(from, ready) ==
  [data |-> from.data, size |-> from.size, ready |-> ready, at |-> -1]
Copy(from, ready) ==
  [data |-> from.data, size |-> from.size, ready |-> ready, at |-> minted]

Apply(c) ==
  /\ \/ /\ c.kind = "snapshot" /\ c.id \notin Present
        /\ store' = [store EXCEPT ![c.id] = Copy(disk, TRUE)]
     \/ c.kind = "destroy" /\ store' = [store EXCEPT ![c.id] = NoArtifact]
     \/ c.kind = "spoil" /\ store' = [store EXCEPT ![c.id].ready = FALSE]
     \/ c.kind \in {"none", "rollback"} /\ store' = store
     \/ c.kind = "snapshot" /\ c.id \in Present /\ store' = store
  /\ disk' = IF c.kind = "rollback" /\ c.id \in Present /\ Newer(c.id) = {}
             THEN [disk EXCEPT !.data = store[c.id].data, !.size = store[c.id].size]
             ELSE disk

\* The mutating commands task t may have in flight: a crash leaves at most one.
Removals(ids) ==
  {IF Backend = "zvol" THEN Destroy(i) ELSE Spoil(i) : i \in ids \intersect Present}
Commands(t) ==
  LET w == work[t]
      src == w.seen.current.id
      act == w.seen.pending.req.action
  IN  CASE pc[t] = "cleaning" \/ (pc[t] = "working" /\ act = "delete") -> Removals(w.todo)
        [] pc[t] = "working" /\ Backend = "zvol" /\ act = "create" ->
             {Snapshot(w.seen.pending.art.id)}
        [] pc[t] = "working" /\ Backend = "zvol" /\ act = "restore" ->
             IF Newer(src) = {} THEN {Rollback(src)}
             ELSE Removals(Newer(src) \intersect Ids(w.seen.retired))
        [] OTHER -> {}

(***************************************************************************)
(* Requests.  A client composes one from a view of the VM and may send it  *)
(* any number of times, at any later moment: an issued request stays.      *)
(***************************************************************************)
Issue(o, a, g) ==
  LET r == [op |-> o, rev |-> revision, action |-> a, gen |-> g]
  IN  /\ state # "Absent" /\ r \notin issued
      /\ Cardinality(issued) < MaxIssued
      /\ \A p \in 1..(o - 1) : \E q \in issued : q.op = p
      /\ g \in IF a = "restore" THEN Ids(retired \union {current}) ELSE {0}
      /\ issued' = issued \union {r}
      /\ UNCHANGED <<row, host, process, done, minted, writes, crashes, failures>>

(***************************************************************************)
(* run_backup: claim, lock and inspect, admit, storage work, finish,       *)
(* release.  The wait loop is a claim that is not enabled yet.             *)
(***************************************************************************)
MayClaim(r) ==
  /\ Mutex /\ state = "Stopped" /\ target = 0 /\ ~vmm
  /\ Proceeds(r) /\ ~running
  /\ Busy \/ minted < MaxMinted

Claim(t, r) ==
  /\ pc[t] = "idle" /\ MayClaim(r)
  /\ running' = TRUE
  /\ pc' = [pc EXCEPT ![t] = "claimed"]
  /\ work' = [work EXCEPT ![t] = [NoWork EXCEPT !.req = r]]
  /\ UNCHANGED <<row, host, op, history>>

ClientClaim(t) == t \in Clients /\ UNCHANGED scan /\ \E r \in issued : Claim(t, r)

Inspect(t) ==
  /\ pc[t] = "claimed" /\ flock = "free" /\ disk.ino # 0
  /\ flock' = "task"
  /\ pc' = [pc EXCEPT ![t] = "inspected"]
  /\ work' = [work EXCEPT ![t].ino = disk.ino, ![t].size = disk.size]
  /\ UNCHANGED <<row, disk, store, orphan, vmm, running, op, scan, history>>

InspectFails(t) ==
  /\ pc[t] = "claimed"
  /\ IF flock = "free" /\ disk.ino # 0 THEN Fault ELSE NoFault
  /\ pc' = [pc EXCEPT ![t] = "release"]
  /\ UNCHANGED <<row, host, running, op, work, scan, issued, done, minted, writes, crashes>>

BacklogOpenToRestores(r) == r.action = "create" => Cardinality(retired) < MaxRetired
BacklogOpen(r) ==
  /\ r.action = "create" => Cardinality(retired) < MaxRetired
  /\ r.action = "restore" => \A g \in retired : ~g.staging
NamesAnyGeneration(r, w) == current.id # 0 /\ current.size = w.size
NamesPublished(r, w) == current.id # 0 /\ current.id = r.gen /\ current.size = w.size

Qualified(r, w) ==
  /\ state = "Stopped" /\ target = 0 /\ size = w.size
  /\ BacklogOpen(r)
  /\ r.action = "restore" => NamesPublished(r, w)
  /\ r.action # "delete" => Free >= w.size

Admission(r, w) ==
  /\ pending' = [req |-> r, ino |-> w.ino,
                 art |-> [id |-> minted + 1, size |-> w.size,
                          staging |-> r.action = "restore"]]
  /\ minted' = minted + 1 /\ revision' = minted + 1

Admit(t) ==
  LET w == work[t] IN
  /\ pc[t] = "inspected" /\ Mutex /\ Proceeds(w.req)
  /\ IF Busy THEN UNCHANGED <<pending, minted, revision>>
     ELSE Qualified(w.req, w) /\ Admission(w.req, w)
  /\ pc' = [pc EXCEPT ![t] = "working"]
  /\ work' = [work EXCEPT
       ![t].seen = [current |-> current, retired |-> retired, pending |-> pending'],
       ![t].todo = IF w.req.action = "delete" THEN Ids(retired \union {current}) ELSE {}]
  /\ UNCHANGED <<state, size, target, current, retired, receipt, backoff, host, running,
                 op, scan, issued, done, writes, crashes, failures>>

AdmitRefused(t) ==
  LET w == work[t] IN
  /\ pc[t] = "inspected" /\ Mutex
  /\ ~(Proceeds(w.req) /\ (Busy \/ Qualified(w.req, w)))
  /\ flock' = "free"
  /\ pc' = [pc EXCEPT ![t] = "release"]
  /\ UNCHANGED <<row, disk, store, orphan, vmm, running, op, work, scan, history>>

\* Storage work, outside the mutex and under the flock, on the vm that admission returned.
Settle(t, ok) ==
  /\ pc' = [pc EXCEPT ![t] = "done"]
  /\ flock' = "free"
  /\ work' = [work EXCEPT ![t].ok = ok]

Doing(t, act) == pc[t] = "working" /\ work[t].seen.pending.req.action = act
Verified(i) == i \in Present /\ store[i].ready
SameDisk(p) == disk.ino = p.ino /\ disk.size = p.art.size
OutsideWork == <<row, orphan, vmm, running, op, scan>>

TakeSnapshot(t) ==
  LET p == work[t].seen.pending IN
  /\ Doing(t, "create") /\ Backend = "zvol" /\ SameDisk(p)
  /\ Apply(Snapshot(p.art.id)) /\ Settle(t, TRUE)
  /\ UNCHANGED <<OutsideWork, history>>

\* prepare_restore destroys the retired snapshots that block a rollback
DropNewer(t, i) ==
  LET s == work[t].seen IN
  /\ Doing(t, "restore") /\ Backend = "zvol" /\ Verified(s.current.id)
  /\ i \in Newer(s.current.id) \intersect Ids(s.retired)
  /\ Apply(Destroy(i))
  /\ work' = [work EXCEPT ![t].gone = @ \union {i}]
  /\ UNCHANGED <<OutsideWork, flock, pc, history>>

RollBack(t) ==
  LET s == work[t].seen IN
  /\ Doing(t, "restore") /\ Backend = "zvol"
  /\ Verified(s.current.id) /\ Newer(s.current.id) = {} /\ SameDisk(s.pending)
  /\ Apply(Rollback(s.current.id)) /\ Settle(t, TRUE)
  /\ UNCHANGED <<OutsideWork, history>>

\* Clone a file into the operation's directory: the disk for a backup, the
\* published backup for a restore.  Without a manifest it is started over.
HasDirectory(a) == a \in Present
HasManifest(a) == a \in Present /\ store[a].ready

CloneFile(t) ==
  LET s == work[t].seen
      a == s.pending.art.id
      restoring == s.pending.req.action = "restore"
  IN  /\ pc[t] = "working" /\ s.pending.req.action # "delete" /\ Backend = "reflink"
      /\ restoring => Verified(s.current.id)
      /\ ~HasManifest(a) /\ SameDisk(s.pending)
      /\ store' = [store EXCEPT ![a] =
                     Copy(IF restoring THEN store[s.current.id] ELSE disk, FALSE)]
      /\ pc' = [pc EXCEPT ![t] = "copied"]
      /\ UNCHANGED <<disk, flock, work, OutsideWork, history>>

WriteManifest(t) ==
  LET p == work[t].seen.pending IN
  /\ pc[t] = "copied"
  /\ store' = [store EXCEPT ![p.art.id].ready = TRUE]
  /\ IF p.req.action = "create" THEN Settle(t, TRUE)
     ELSE pc' = [pc EXCEPT ![t] = "staged"] /\ UNCHANGED <<flock, work>>
  /\ UNCHANGED <<disk, OutsideWork, history>>

\* The manifest is there already: a retry finds its backup, its stage, or --
\* when the active disk is the staged file -- its finished rename.
ResumeFile(t) ==
  LET s == work[t].seen
      a == s.pending.art.id
  IN  /\ pc[t] = "working" /\ s.pending.req.action # "delete" /\ Backend = "reflink"
      /\ HasManifest(a)
      /\ \/ /\ IF s.pending.req.action = "create" THEN SameDisk(s.pending)
               ELSE Verified(s.current.id) /\ disk.ino = a
            /\ Settle(t, TRUE)
         \/ /\ s.pending.req.action = "restore" /\ Verified(s.current.id)
            /\ disk.ino # a /\ SameDisk(s.pending)
            /\ pc' = [pc EXCEPT ![t] = "staged"] /\ UNCHANGED <<flock, work>>
      /\ UNCHANGED <<disk, store, OutsideWork, history>>

RenameStage(t) ==
  LET a == work[t].seen.pending.art.id IN
  /\ pc[t] = "staged" /\ a \in Present
  /\ disk' = [ino |-> a, data |-> store[a].data, size |-> store[a].size]
  /\ store' = [store EXCEPT ![a].size = 0]
  /\ Settle(t, TRUE)
  /\ UNCHANGED <<OutsideWork, history>>

\* Delete removes the published backup first, then the retired ones.
RemoveNext(t) ==
  LET w == work[t] IN
  /\ Doing(t, "delete")
  /\ IF w.todo = {} THEN Settle(t, TRUE) /\ UNCHANGED <<disk, store>>
     ELSE \E i \in w.todo :
            /\ w.seen.current.id \in w.todo => i = w.seen.current.id
            /\ Apply(Destroy(i))
            /\ work' = [work EXCEPT ![t].todo = @ \ {i}]
            /\ UNCHANGED <<pc, flock>>
  /\ UNCHANGED <<OutsideWork, history>>

\* What makes a step refuse even when no call fails.
Refuses(t) ==
  LET s == work[t].seen IN
  \/ /\ pc[t] = "working" /\ ~SameDisk(s.pending)
     /\ \/ s.pending.req.action = "create"
        \/ s.pending.req.action = "restore" /\ disk.ino # s.pending.art.id
  \/ /\ Doing(t, "restore")
     /\ \/ ~Verified(s.current.id)
        \/ Backend = "zvol" /\ ~(Newer(s.current.id) \subseteq Ids(s.retired))

\* A failed call ends the work; its command may have taken effect all the same.
WorkFails(t) ==
  /\ pc[t] \in {"working", "copied", "staged"}
  /\ \/ Refuses(t) /\ NoFault /\ UNCHANGED <<disk, store>>
     \/ Fault /\ \E c \in Commands(t) \union {NoCommand} : Apply(c)
  /\ Settle(t, FALSE)
  /\ UNCHANGED <<OutsideWork, issued, done, minted, writes, crashes>>

\* backup_finish: the record moves on in one transaction.
Publish(p) ==
  /\ current' = p.art
  /\ retired' = IF current.id = 0 THEN retired ELSE retired \union {current}
Restored(p, gone) ==
  /\ current' = current
  /\ retired' = {g \in retired : g.id \notin gone}
                 \union (IF Backend = "reflink" THEN {p.art} ELSE {})
Deleted == current' = NoGeneration /\ retired' = {}
AbandonedForgotten(p) == current' = current /\ retired' = retired
Abandoned(p) == current' = current /\ retired' = retired \union {p.art}

Finish(t) ==
  LET w == work[t]
      settles == pending.req = w.req /\ (w.ok \/ w.req.action = "create")
  IN  /\ pc[t] = "done" /\ Mutex
      /\ IF settles
         THEN /\ \/ ~w.ok /\ Abandoned(pending)
                 \/ w.ok /\ w.req.action = "create" /\ Publish(pending)
                 \/ w.ok /\ w.req.action = "restore" /\ Restored(pending, w.gone)
                 \/ w.ok /\ w.req.action = "delete" /\ Deleted
              /\ pending' = NoPending
              /\ receipt' = [req |-> w.req, ok |-> w.ok]
              /\ backoff' = (backoff /\ retired' # {})
              /\ done' = done \union {w.req}
         ELSE UNCHANGED <<current, retired, pending, receipt, backoff, done>>
      /\ pc' = [pc EXCEPT ![t] = "release"]
      /\ UNCHANGED <<state, size, target, revision, host, running, op, work, scan,
                     issued, minted, writes, crashes, failures>>

Release(t) ==
  /\ pc[t] = "release" /\ Mutex
  /\ running' = FALSE
  /\ pc' = [pc EXCEPT ![t] = "idle"]
  /\ work' = [work EXCEPT ![t] = NoWork]
  /\ UNCHANGED <<row, host, op, scan, history>>

(***************************************************************************)
(* cleanup_backup: remove retired artifacts, from the record read at claim.*)
(***************************************************************************)
MayCleanWhenStopped == Mutex /\ state = "Stopped" /\ ~Busy /\ ~backoff /\ ~running
MayClean == Mutex /\ state # "Absent" /\ ~Busy /\ ~backoff /\ ~running

ClaimCleanup(t) ==
  /\ pc[t] = "idle" /\ MayClean
  /\ running' = TRUE
  /\ pc' = [pc EXCEPT ![t] = "cleanup"]
  /\ work' = [work EXCEPT ![t] = [NoWork EXCEPT
       !.seen = [current |-> current, retired |-> retired, pending |-> NoPending]]]
  /\ UNCHANGED <<row, host, op, history>>

LockCleanup(t) ==
  LET s == work[t].seen IN
  /\ pc[t] = "cleanup" /\ flock = "free" /\ (s.current.id # 0 => Verified(s.current.id))
  /\ flock' = "task"
  /\ pc' = [pc EXCEPT ![t] = "cleaning"]
  /\ work' = [work EXCEPT ![t].todo = Ids(s.retired)]
  /\ UNCHANGED <<OutsideWork, disk, store, history>>

CleanupBlocked(t) ==
  LET s == work[t].seen IN
  /\ pc[t] = "cleanup"
  /\ IF flock = "free" /\ (s.current.id # 0 => Verified(s.current.id)) THEN Fault ELSE NoFault
  /\ pc' = [pc EXCEPT ![t] = "cleaned"]
  /\ work' = [work EXCEPT ![t].ok = FALSE]
  /\ UNCHANGED <<OutsideWork, disk, store, flock, issued, done, minted, writes, crashes>>

CleanOne(t, i) ==
  /\ pc[t] = "cleaning" /\ i \in work[t].todo
  /\ \/ /\ Apply(Destroy(i)) /\ NoFault
        /\ work' = [work EXCEPT ![t].todo = @ \ {i}, ![t].gone = @ \union {i}]
     \/ /\ Fault /\ \E c \in Removals({i}) \union {NoCommand} : Apply(c)
        /\ work' = [work EXCEPT ![t].todo = @ \ {i}, ![t].ok = FALSE]
  /\ UNCHANGED <<OutsideWork, flock, pc, issued, done, minted, writes, crashes>>

CleanedAll(t) ==
  /\ pc[t] = "cleaning" /\ work[t].todo = {}
  /\ flock' = "free"
  /\ pc' = [pc EXCEPT ![t] = "cleaned"]
  /\ UNCHANGED <<OutsideWork, disk, store, work, history>>

\* backup_cleanup_finish and backup_release in one critical section
FinishCleanup(t) ==
  LET w == work[t] IN
  /\ pc[t] = "cleaned" /\ Mutex
  /\ IF current.id \in w.gone THEN UNCHANGED <<retired, backoff>>
     ELSE /\ retired' = {g \in retired : g.id \notin w.gone}
          /\ backoff' = ~w.ok
  /\ running' = FALSE
  /\ pc' = [pc EXCEPT ![t] = "idle"]
  /\ work' = [work EXCEPT ![t] = NoWork]
  /\ UNCHANGED <<state, size, target, revision, current, pending, receipt, host, op, scan,
                 history>>

BackoffExpires ==
  /\ backoff
  /\ backoff' = FALSE
  /\ UNCHANGED <<state, size, target, revision, current, pending, retired, receipt,
                 host, process, history>>

(***************************************************************************)
(* VM lifecycle: each operation holds the mutex over its external calls.   *)
(***************************************************************************)
BackupFields == <<revision, current, pending, retired, receipt, backoff>>
OutsideHost == <<running, pc, work, scan, issued, done, writes, crashes>>

CreateVm ==
  /\ Mutex /\ state = "Absent" /\ minted < MaxMinted
  /\ state' = "Creating" /\ size' \in {s \in Sizes : s <= Budget} /\ target' = 0
  /\ minted' = minted + 1 /\ revision' = minted + 1
  /\ op' = "create"
  /\ UNCHANGED <<current, pending, retired, receipt, backoff, host, OutsideHost, failures>>

CloneImage ==
  /\ op = "create"
  /\ disk' = [ino |-> minted, data |-> 0, size |-> size]
  /\ op' = "boot"
  /\ UNCHANGED <<row, store, flock, orphan, vmm, OutsideHost, minted, failures>>

StartVm ==
  /\ Mutex /\ Guarded /\ state = "Stopped" /\ target = 0
  /\ state' = "Creating" /\ op' = "boot"
  /\ UNCHANGED <<size, target, BackupFields, host, OutsideHost, minted, failures>>

BootVmm ==
  /\ op = "boot" /\ disk.ino # 0
  /\ vmm' = TRUE /\ op' = "booted"
  /\ UNCHANGED <<row, disk, store, flock, orphan, OutsideHost, minted, failures>>

BootEnds ==
  /\ op \in {"create", "boot", "booted"} /\ op' = "idle"
  /\ \/ op = "booted" /\ state' = "Running" /\ NoFault
     \/ op = "boot" /\ disk.ino = 0 /\ state' = "Failed" /\ NoFault
     \/ state' = "Failed" /\ Fault
  /\ UNCHANGED <<size, target, BackupFields, host, OutsideHost, minted>>

StopVm ==
  /\ Mutex /\ Guarded /\ state \in {"Running", "Failed"}
  /\ vmm' = FALSE /\ op' = "stop"
  /\ UNCHANGED <<row, disk, store, flock, orphan, OutsideHost, minted, failures>>

StopEnds ==
  /\ op = "stop" /\ state' = "Stopped" /\ op' = "idle"
  /\ UNCHANGED <<size, target, BackupFields, host, OutsideHost, minted, failures>>

ChangesCapacity(s) == TRUE
KeepsCapacity(s) == HasArtifacts => s = size

ResizeVm(s) ==
  /\ Mutex /\ Guarded /\ KeepsCapacity(s)
  /\ state = "Stopped" /\ ~vmm /\ target \in {0, s} /\ disk.ino # 0
  /\ s >= disk.size /\ s >= size
  /\ Max({0, s - ReservedDisk}) <= Free
  /\ target' = s /\ op' = "resize"
  /\ UNCHANGED <<state, size, BackupFields, host, OutsideHost, minted, failures>>

GrowDisk ==
  /\ op = "resize"
  /\ \/ disk' = [disk EXCEPT !.size = target] /\ op' = "resized" /\ NoFault
     \/ disk' \in {disk, [disk EXCEPT !.size = target]} /\ op' = "idle" /\ Fault
  /\ UNCHANGED <<row, store, flock, orphan, vmm, OutsideHost, minted>>

ResizeEnds ==
  /\ op = "resized" /\ size' = target /\ target' = 0 /\ op' = "idle"
  /\ UNCHANGED <<state, BackupFields, host, OutsideHost, minted, failures>>

DestroyVm ==
  /\ Mutex /\ state # "Absent" /\ ~running
  /\ state' = "Deleting" /\ op' = "destroy"
  /\ UNCHANGED <<size, target, BackupFields, host, OutsideHost, minted, failures>>

DestroyStops ==
  /\ op = "destroy"
  /\ \/ vmm' = FALSE /\ op' = "unbackup" /\ NoFault
     \/ vmm' = vmm /\ op' = "idle" /\ Fault
  /\ UNCHANGED <<row, disk, store, flock, orphan, OutsideHost, minted>>

LockBackups ==
  /\ op = "unbackup"
  /\ \/ ~HasArtifacts /\ op' = "erase" /\ UNCHANGED flock
     \/ HasArtifacts /\ flock = "free" /\ flock' = "host" /\ op' = "removing"
     \/ HasArtifacts /\ flock # "free" /\ op' = "idle" /\ UNCHANGED flock
  /\ UNCHANGED <<row, disk, store, orphan, vmm, OutsideHost, minted, failures>>

RemoveBackups ==
  /\ op = "removing"
  /\ \/ /\ \E i \in Referenced \intersect Present : Apply(Destroy(i))
        /\ NoFault /\ UNCHANGED <<current, pending, retired, flock, op>>
     \/ /\ Referenced \intersect Present = {}
        /\ current' = NoGeneration /\ pending' = NoPending /\ retired' = {}
        /\ flock' = "free" /\ op' = "erase" /\ NoFault /\ UNCHANGED <<disk, store>>
     \/ /\ Fault /\ \E c \in Removals(Referenced) \union {NoCommand} : Apply(c)
        /\ flock' = "free" /\ op' = "idle" /\ UNCHANGED <<current, pending, retired>>
  /\ UNCHANGED <<state, size, target, revision, receipt, backoff, orphan, vmm,
                 OutsideHost, minted>>

EraseDisk ==
  /\ op = "erase"
  /\ \/ disk' = NoDisk /\ op' = "erased" /\ NoFault
     \/ disk' \in {disk, NoDisk} /\ op' = "idle" /\ Fault
  /\ UNCHANGED <<row, store, flock, orphan, vmm, OutsideHost, minted>>

DeleteRow ==
  /\ op = "erased" /\ op' = "idle"
  /\ state' = "Absent" /\ size' = 0 /\ target' = 0 /\ revision' = 0 /\ backoff' = FALSE
  /\ current' = NoGeneration /\ pending' = NoPending /\ retired' = {} /\ receipt' = NoReceipt
  /\ UNCHANGED <<host, OutsideHost, minted, failures>>

(***************************************************************************)
(* The reconcile loop: read a snapshot outside the mutex, refresh the VM,  *)
(* then act on the backup fields of that -- by now possibly old -- snapshot.*)
(***************************************************************************)
ScanRecord ==
  /\ scan.phase = "idle" /\ pc[Reconciler] = "idle"
  /\ scan' = IF state = "Absent" THEN NoScan
             ELSE [phase |-> "vm", req |-> pending.req, cleanup |-> ~Busy /\ retired # {}]
  /\ UNCHANGED <<row, host, running, op, pc, work, history>>

ObservedState ==
  CASE vmm -> "Running"
    [] ~vmm /\ state \in {"Creating", "Failed"} -> "Failed"
    [] OTHER -> "Stopped"

LeaveDeleting == op' = op
ResumeDeletion == op' = IF running THEN op ELSE "destroy"

ReconcileVm ==
  /\ scan.phase = "vm" /\ Mutex
  /\ scan' = [scan EXCEPT !.phase = "backup"]
  /\ \/ state = "Absent" /\ UNCHANGED <<state, op>> /\ NoFault
     \/ state = "Deleting" /\ ResumeDeletion /\ UNCHANGED state /\ NoFault
     \/ state \notin {"Absent", "Deleting"} /\ state' = ObservedState /\ UNCHANGED op /\ NoFault
     \/ state \notin {"Absent", "Deleting"} /\ Fault /\ UNCHANGED <<state, op>>
  /\ UNCHANGED <<size, target, BackupFields, host, running, pc, work,
                 issued, done, minted, writes, crashes>>

ReconcileClaimsCleanupOnly ==
  /\ scan.phase = "backup" /\ scan' = NoScan
  /\ scan.cleanup /\ ClaimCleanup(Reconciler)
ReconcileClaim ==
  /\ scan.phase = "backup" /\ scan' = NoScan
  /\ \/ scan.req # NoRequest /\ Claim(Reconciler, scan.req)
     \/ scan.cleanup /\ ClaimCleanup(Reconciler)

ReconcileSkip ==
  /\ scan.phase = "backup" /\ Mutex /\ scan' = NoScan
  /\ ~(scan.req # NoRequest /\ MayClaim(scan.req)) /\ ~(scan.cleanup /\ MayClean)
  /\ UNCHANGED <<row, host, running, op, pc, work, history>>

(***************************************************************************)
(* The guest, a crash of the agent (its restart loses every task; the VM   *)
(* and at most one storage child live on), and that child's end.           *)
(***************************************************************************)
GuestWrites ==
  /\ vmm /\ writes < MaxWrites
  /\ writes' = writes + 1 /\ disk' = [disk EXCEPT !.data = writes + 1]
  /\ UNCHANGED <<row, store, flock, orphan, vmm, process, issued, done, minted, crashes, failures>>

GuestExits ==
  /\ vmm /\ vmm' = FALSE
  /\ UNCHANGED <<row, disk, store, flock, orphan, process, history>>

InFlight ==
  (UNION {Commands(t) : t \in Tasks}) \union (IF op = "removing" THEN Removals(Referenced) ELSE {})

Crash ==
  /\ crashes < MaxCrashes /\ crashes' = crashes + 1
  /\ running' = FALSE /\ op' = "idle" /\ scan' = NoScan
  /\ pc' = [t \in Tasks |-> "idle"] /\ work' = [t \in Tasks |-> NoWork]
  /\ \/ flock \in {"free", "orphan"} /\ UNCHANGED <<disk, store, flock, orphan>>
     \/ flock \in {"task", "host"} /\ \E c \in InFlight \union {NoCommand} :
          IF Backend = "zvol"
          THEN flock' = "orphan" /\ orphan' = c /\ UNCHANGED <<disk, store>>
          ELSE /\ flock' \in IF flock = "task" THEN {"free", "orphan"} ELSE {"free"}
               /\ Apply(c) /\ UNCHANGED orphan
  /\ UNCHANGED <<row, vmm, issued, done, minted, writes, failures>>

OrphanEnds ==
  /\ flock = "orphan" /\ flock' = "free" /\ orphan' = NoCommand
  /\ Apply(orphan) \/ UNCHANGED <<disk, store>>
  /\ UNCHANGED <<row, vmm, process, history>>

Lifecycle ==
  \/ CreateVm \/ StartVm \/ StopVm \/ DestroyVm \/ \E s \in Sizes : ResizeVm(s)
HostStep ==
  \/ CloneImage \/ BootVmm \/ BootEnds \/ StopEnds \/ GrowDisk \/ ResizeEnds
  \/ DestroyStops \/ LockBackups \/ RemoveBackups \/ EraseDisk \/ DeleteRow
TaskStep(t) ==
  \/ Inspect(t) \/ InspectFails(t) \/ Admit(t) \/ AdmitRefused(t)
  \/ TakeSnapshot(t) \/ (\E i \in Slots : DropNewer(t, i)) \/ RollBack(t)
  \/ CloneFile(t) \/ WriteManifest(t) \/ ResumeFile(t) \/ RenameStage(t)
  \/ RemoveNext(t) \/ WorkFails(t) \/ Finish(t) \/ Release(t)
  \/ LockCleanup(t) \/ CleanupBlocked(t) \/ (\E i \in Slots : CleanOne(t, i))
  \/ CleanedAll(t) \/ FinishCleanup(t)
Reconcile == ScanRecord \/ ReconcileVm \/ ReconcileClaim \/ ReconcileSkip
Issues ==
  \E o \in 1..MaxOps, a \in Actions, g \in Slots : Issue(o, a, g)

Next ==
  \/ Lifecycle \/ HostStep \/ Issues \/ Reconcile
  \/ \E t \in Tasks : ClientClaim(t) \/ TaskStep(t)
  \/ BackoffExpires \/ GuestWrites \/ GuestExits \/ Crash \/ OrphanEnds

Spec == Init /\ [][Next]_vars

\* Accepted work goes on without its caller (tokio::spawn), the loop ticks every
\* 15 s, tokio's mutex is first come first served (so a task waiting for it while
\* others come and go gets its turn: strong fairness), storage commands end, and
\* backoffs are clock times.
Fairness ==
  /\ WF_vars(HostStep) /\ SF_vars(Reconcile)
  /\ \A t \in Tasks : SF_vars(TaskStep(t))
  /\ WF_vars(OrphanEnds) /\ WF_vars(BackoffExpires)

FairSpec == Spec /\ Fairness

(***************************************************************************)
(* Properties.                                                             *)
(***************************************************************************)
\* Every variable holds a value of its kind.
TypeOK ==
  /\ state \in {"Absent", "Creating", "Running", "Stopped", "Failed", "Deleting"}
  /\ size \in Nat /\ target \in Nat /\ revision \in Nat /\ backoff \in BOOLEAN
  /\ current \in Generation /\ pending \in Pending /\ retired \in SUBSET Generation
  /\ receipt \in Receipt
  /\ disk \in Disk /\ store \in [Slots -> Artifact] /\ vmm \in BOOLEAN
  /\ flock \in {"free", "task", "host", "orphan"} /\ orphan \in Command
  /\ running \in BOOLEAN
  /\ op \in {"idle", "create", "boot", "booted", "stop", "resize", "resized", "destroy",
             "unbackup", "removing", "erase", "erased"}
  /\ pc \in [Tasks -> {"idle", "claimed", "inspected", "working", "copied", "staged", "done",
                       "release", "cleanup", "cleaning", "cleaned"}]
  /\ work \in [Tasks -> Work] /\ scan \in Scan
  /\ issued \in SUBSET Request /\ done \in SUBSET Request
  /\ minted \in Nat /\ writes \in Nat /\ crashes \in Nat /\ failures \in Nat

Storing(t) == pc[t] \in {"working", "copied", "staged"}
WritingOrphan == orphan.kind \in {"snapshot", "rollback"}

\* While a task or an orphaned child may snapshot or overwrite the active disk, the
\* VM process is down, the operation is still on record, and no second task of this
\* VM is past its claim (backup_running, backup_guard and the inherited flock).
StorageFence ==
  /\ (WritingOrphan \/ \E t \in Tasks : Storing(t)) =>
       ~vmm /\ Busy /\ state \in {"Stopped", "Deleting"}
  /\ WritingOrphan => \A t \in Tasks : ~Storing(t) /\ pc[t] # "cleaning"
  /\ \A t, u \in Tasks : pc[t] # "idle" /\ pc[u] # "idle" => t = u

\* The published backup is whole on storage until its deletion is requested, whatever
\* crashes, failed commands, cleanups and later operations happen.
PublishedIntact ==
  (current.id # 0 /\ pending.req.action # "delete" /\ state # "Deleting")
    => Verified(current.id)

\* Nothing is on storage that the record does not name: a crash, a failed create or a
\* deleted VM never leaves an artifact that no later cleanup would find.
NoStrays == Present \subseteq Referenced

\* What storage really pins never exceeds what the record reserves for the VM, and the
\* reservation never exceeds the host's disk budget.
ReservationCovers ==
  /\ SumOf([i \in Present |-> store[i].size], Present) + disk.size <= ReservedDisk
  /\ ReservedDisk <= Budget

\* An operation that has its receipt is never under way again: late retries of a
\* completed restore cannot rewind the disk, not even against a re-created VM.
NeverRepeated ==
  /\ Busy => pending.req \notin done
  /\ \A t \in Tasks : Storing(t) => work[t].seen.pending.req \notin done

\* Outside an unfinished resize the backup, the record and the disk agree on capacity.
SameCapacity ==
  (current.id # 0 /\ state # "Deleting" /\ target = 0)
    => current.size = size /\ disk.size = size

\* A rollback never meets a snapshot newer than its source that it may not destroy.
RollbackPossible ==
  Backend = "zvol" => \A t \in Tasks :
    Doing(t, "restore") => Newer(current.id) \subseteq Ids(work[t].seen.retired)

\* A restore is receipted as successful only when the stopped VM's disk holds exactly
\* the generation the request named, which is still the published one.
RestoreDelivers ==
  [][(receipt' # receipt /\ receipt'.ok /\ receipt'.req.action = "restore") =>
       /\ receipt'.req.gen = current'.id /\ Verified(current.id)'
       /\ disk'.data = store'[current'.id].data /\ ~vmm']_vars

\* A backup is published only when it is whole and equal to the stopped VM's disk.
CreateCaptures ==
  [][current'.id \notin {0, current.id} =>
       /\ Verified(current.id)' /\ ~vmm'
       /\ store'[current'.id].data = disk'.data /\ store'[current'.id].size = disk'.size]_vars

\* Every admitted operation settles once calls stop failing: nobody has to retry it.
PendingSettles == Busy ~> ~Busy

\* The backlog of retired artifacts is eventually emptied, if clients do not keep the worker
\* busy for ever: the loop skips a VM whose worker is running, and refused requests that
\* are sent again and again can make it skip every time.
RetiredCleaned ==
  <>[](\A c \in Clients : pc[c] = "idle")
    => (retired # {} ~> retired = {})

\* A deletion once recorded completes, even with an unfinished backup and an orphan.
DeletionCompletes == state = "Deleting" ~> state = "Absent"

(***************************************************************************)
(* Inductive invariants.                                                   *)
(***************************************************************************)
OnRequest(t) == pc[t] \in {"claimed", "inspected", "working", "copied", "staged", "done"}
Locking(t) == pc[t] \in {"inspected", "working", "copied", "staged", "cleaning"}

\* Why StorageFence holds: one task at a time, only while the mutex has no other owner;
\* a task on a request keeps the VM stopped, one past admission keeps it Busy; the flock
\* separates tasks, deletion and an orphan; Busy keeps out every operation but deletion,
\* which erases only what is no longer Busy.
FenceInv ==
  /\ \A t, u \in Tasks : pc[t] # "idle" /\ pc[u] # "idle" => t = u
  /\ \A t \in Tasks : pc[t] # "idle" => running
  /\ running => op = "idle"
  /\ (running \/ op # "idle") => state # "Absent"
  /\ \A t \in Tasks : OnRequest(t) => state = "Stopped" /\ ~vmm
  /\ \A t \in Tasks : (Storing(t) \/ pc[t] = "done") => Busy
  /\ \A t \in Tasks : Locking(t) => flock = "task"
  /\ \A t \in Tasks : pc[t] = "done" => flock # "orphan"
  /\ op = "removing" => flock = "host"
  /\ orphan.kind # "none" => flock = "orphan"
  /\ WritingOrphan => Busy /\ ~vmm /\ state \in {"Stopped", "Deleting"}
  /\ Busy => op \notin {"create", "boot", "booted", "stop", "resize", "resized", "erase", "erased"}
  /\ state = "Absent" => ~Busy

\* Why NeverRepeated holds: a receipted request carries a revision older than the VM's,
\* in this life of the VM and in every later one.
ReceiptInv ==
  /\ revision <= minted
  /\ \A r \in done : r.rev <= minted /\ (state # "Absent" => r.rev < revision)
  /\ Busy => pending.req.rev < revision
  /\ NeverRepeated
Creates == Busy /\ pending.req.action = "create"
Restores == Busy /\ pending.req.action = "restore"
Deletes == Busy /\ pending.req.action = "delete"
Admitted(t) == Storing(t) \/ pc[t] = "done"
CleansUp(t) == pc[t] \in {"cleanup", "cleaning", "cleaned"}
Succeeded(t) == pc[t] = "done" /\ work[t].ok
Erasing == op \in {"destroy", "unbackup", "removing", "erase", "erased"}

\* Whatever is asked for, scanned or under way is one of the three actions.
RequestInv ==
  /\ \A r \in issued : r.action \in Actions
  /\ Busy => pending.req.action \in Actions
  /\ scan.req # NoRequest => scan.req.action \in Actions
  /\ \A t \in Tasks : OnRequest(t) => work[t].req.action \in Actions

\* Ids are minted once, so that generations of the record never share an artifact; a VM
\* without a row, without its first disk, or about to lose it has none.
RecordInv ==
  /\ minted <= MaxMinted /\ disk.ino <= minted
  /\ current.id <= minted /\ pending.art.id <= minted
  /\ \A g \in retired : g.id \in 1..minted /\ g.id # current.id /\ g.id # pending.art.id
  /\ Busy => pending.art.id # current.id /\ pending.art.id # pending.ino
  /\ (state = "Absent" \/ op \in {"create", "erase", "erased"}) => current.id = 0 /\ retired = {}
  /\ Erasing => state = "Deleting"
  /\ state = "Deleting" => op = "idle" \/ Erasing
  /\ ~Busy => pending = NoPending

\* A task's copy of the record is the record, from its admission or its claim for cleanup
\* to its end, and what it is to remove or has removed is in it.
SeenInv ==
  \A t \in Tasks :
    /\ (Admitted(t) \/ CleansUp(t)) =>
         work[t].seen = [current |-> current, retired |-> retired, pending |-> pending]
    /\ Admitted(t) => work[t].req = pending.req
    /\ CleansUp(t) => ~Busy
    /\ pc[t] = "inspected" => work[t].ino = disk.ino /\ work[t].size = disk.size /\ disk.ino # 0
    /\ pc[t] \in {"claimed", "inspected"} => Busy \/ minted < MaxMinted
    /\ pc[t] \in {"claimed", "inspected", "cleanup"} => work[t].gone = {}
    /\ Admitted(t) =>
         /\ work[t].gone \subseteq Ids(retired)
         /\ Deletes => work[t].todo \subseteq Ids(retired \union {current})
         /\ Deletes /\ Succeeded(t) => work[t].todo = {}
    /\ pc[t] \in {"cleaning", "cleaned"} => work[t].gone \subseteq Ids(retired)
    /\ pc[t] = "cleaning" => work[t].todo \subseteq Ids(retired)
    /\ pc[t] = "cleaned" /\ flock = "orphan" => work[t].gone = {}
    /\ pc[t] \in {"copied", "staged"} => Backend = "reflink" /\ ~Deletes

\* What a storage child left by a crash may still do.
OrphanInv ==
  /\ orphan.kind # "none" => Backend = "zvol" /\ orphan.kind # "spoil"
  /\ orphan.kind = "snapshot" => Creates /\ orphan.id = pending.art.id
  /\ orphan.kind = "rollback" => Restores /\ orphan.id = current.id
  /\ orphan.kind = "destroy" =>
       /\ orphan.id \in Referenced
       /\ orphan.id \in Ids(retired) \/ Deletes \/ state = "Deleting"

\* What is on storage is named by the record; a pending deletion or rollback is no artifact.
PresentInv ==
  /\ NoStrays
  /\ Backend = "zvol" => \A i \in Present : store[i].ready
  /\ Deletes \/ (Restores /\ Backend = "zvol") => pending.art.id \notin Present

\* What a task has removed is gone, what it has copied is there.
HeldInv ==
  \A t \in Tasks :
    /\ (Admitted(t) \/ CleansUp(t)) => work[t].gone \intersect Present = {}
    /\ Admitted(t) /\ Deletes => Present \subseteq work[t].todo
    /\ pc[t] \in {"copied", "staged"} =>
         pending.art.id \in Present /\ disk.ino # pending.art.id
    /\ pc[t] = "staged" => Restores /\ Verified(pending.art.id)

\* The record, the disk and the artifacts agree on capacity as long as there is a backup
\* or one is pending, which also keeps the VM down.
CapacityInv ==
  /\ (current.id # 0 /\ state # "Deleting") =>
       /\ current.size = size /\ disk.size = size /\ target \in {0, size}
       /\ ~Deletes => Verified(current.id) /\ store[current.id].size = size
  /\ (Busy /\ state # "Deleting") =>
       target = 0 /\ size = disk.size /\ pending.art.size = size /\ disk.ino # 0
  /\ Busy => ~vmm
  /\ op \in {"resize", "resized"} => target # 0
  /\ op = "resized" => disk.size = target

\* What pending artifacts contain: the disk for a create, the published backup for a
\* restore, which a finished rename has moved to the disk.
ContentInv ==
  /\ (Creates /\ pending.art.id \in Present) =>
       store[pending.art.id].data = disk.data /\ store[pending.art.id].size = disk.size
  /\ Restores => current.id = pending.req.gen /\ current.id # 0
  /\ (Restores /\ state # "Deleting") =>
       /\ disk.ino = pending.art.id => disk.data = store[current.id].data
       /\ pending.art.id \in Present =>
            /\ store[pending.art.id].data = store[current.id].data
            /\ disk.ino # pending.art.id => store[pending.art.id].size = size

\* Storage work that succeeded and waits for the mutex has done what its receipt will say.
DoneInv ==
  \A t \in Tasks : Succeeded(t) =>
    /\ Creates => Verified(pending.art.id)
    /\ Restores => disk.data = store[current.id].data

\* Why the properties of storage hold.
StorageInv ==
  /\ RequestInv /\ RecordInv /\ SeenInv /\ OrphanInv
  /\ PresentInv /\ HeldInv /\ CapacityInv /\ ContentInv /\ DoneInv

\* Why ReservationCovers holds: the disk never outgrows what the record says of it, an
\* artifact pins at most the size of its generation, and what a step adds to the
\* reservation was admitted into the budget.
Capacity == Max({size, target})
DiskCovered ==
  /\ disk.size <= Capacity /\ current.size <= Capacity
  /\ current.id = 0 => current.size = 0
  /\ (state = "Absent" \/ op = "erased") => disk.size = 0
  /\ Creates => disk.size <= pending.art.size
ArtifactsCovered ==
  \A g \in retired \union {current, pending.art} :
    g.id \in Present => store[g.id].size <= g.size
AccountInv ==
  /\ IsFiniteSet(retired)
  /\ DiskCovered /\ ArtifactsCovered /\ ReservedDisk <= Budget
=============================================================================
