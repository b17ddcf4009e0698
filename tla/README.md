# TTstack: models, model checking and proofs

TLA+ modules, TLC configurations and TLAPS proofs for TTstack, a fleet manager
for development VMs: a **controller** (`crates/ctl`) keeps environments in a
SQLite database and drives one **agent** (`crates/agent`) per host, which owns
that host's VMs, disks, network rules and disk backups; `crates/core` holds what
they share. Paths below are relative to `src/`.

Contents: [inventory](#1-inventory), [plan](#2-plan),
[how the modules correspond to the code](#3-how-the-modules-correspond-to-the-code),
[runs](#4-runs-and-bounds), [fairness](#5-fairness), [proofs](#6-proofs),
[findings](#7-where-code-and-documents-disagree), [not modelled](#8-what-is-not-modelled).

## 1. Inventory

| Component | State | Operations | Interacts with |
|---|---|---|---|
| Agent VM runtime (`agent/src/runtime.rs`) | SQLite row per VM (state, sizes, ports, addresses), host configuration; one `tokio::Mutex<Runtime>` held for a whole mutation | create, start, stop, destroy, resize, reconcile, adopt, snapshot | engine, storage, network through commands, **inside** the mutex; handlers and the 15 s loop |
| Agent disk backups (`agent/src/backup.rs`, `core/src/backup.rs`) | `backup::State` in the VM's row: revision, current, pending, retired, last result, clean-up backoff; the in-memory set `backup_running` | claim, admit, finish, release, clean-up, guard | the workers below; every lifecycle operation (`backup_guard`) |
| Agent backup workers (`agent/src/handler.rs`) | a semaphore of two workers, spawned tasks | `run_backup`, `cleanup_backup`, `backup_request`, `reconcile_runtime` | claim and finish inside the mutex, storage work **outside** it |
| Agent start-up (`agent/src/main.rs`, `config.rs`) | `_meta`: bound port range, ingress, container runtime | open, bind, refuse | runtime |
| Storage backups (`core/src/storage/backup.rs`) | ZFS snapshots or artifact directories with a manifest, an inherited `flock` per VM | create, prepare_restore, restore, verify, remove | `zfs`, `cp --reflink`, the active disk |
| Storage files and volumes (`core/src/storage/*`) | images and root disks | list, clone, resize, remove | runtime |
| Engines (`core/src/engine/*`) | processes, PID files, jails, containers, devices of each VM | create, start, stop, destroy, state | runtime |
| Networking, ingress (`core/src/net*`, `agent/src/ssh_ingress.rs`) | taps, nftables/pf tables, namespaces, proxies | taps, forwards, denied addresses, isolation, publish | runtime |
| Capabilities (`core/src/capability.rs`) | none: a table and reports | probe, require | runtime, scheduler |
| Controller environments (`ctl/src/handler.rs`) | environments, their VMs as last seen, hosts; a per-environment operation lock with a revision | create, start, stop, delete, resize, detach/remove host, refresh, expiry | agents over HTTP; database |
| Controller backup forwarding (`ctl/src/backup.rs`) | a forwarding intent per VM | forward, settle, inspect | agent backup endpoints |
| Controller database (`ctl/src/db.rs`) | rows | transactions | all controller code |
| Scheduler (`ctl/src/scheduler.rs`) | none | place VMs on hosts | creation |
| Deployment (`cli/src/deploy.rs`) | binaries, key files, units and drop-ins of services on several hosts, one saved key | `tt deploy` locally or over SSH | systemd, the operator |
| Image recipes (`cli/src/image_builder.rs`) | staged and published images | `tt image create` | mirrors, the agent's catalog |
| Client, web page, wire types, authentication | none or static | one request at a time | controller |

**Hard behaviours.** Storage work of a backup runs outside the Runtime mutex,
between two critical sections, so every lifecycle operation may come between
them. An agent may die while a `zfs` child, or a `docker run`, works on; the restarted agent sees an
old record, a new process list and a disk that is still changing. Requests carry an
idempotency key and a revision because replies are lost and clients retry,
possibly after the VM was deleted and created again. Artifacts, network rules and files are removed
one at a time and each removal may fail. Taps and firewall rules go with a reboot or a
firewall reload while rows stay. Process ids outlive their process in files. The controller acts on observations that
were requested before, and arrive after, an operation; its own requests may be
dropped half-way, and timed-out agent calls may still take effect. Deployments and image recipes may be
cut off anywhere and are repeated; a script that a deployment runs over SSH may outlive it and meet its repetition.

**What makes each component correct.**

- *Agent disk backups*: while storage is written, the VM is down and cannot be started; one worker per VM;
  a published backup stays whole until its deletion is requested; a restore
  delivers exactly the generation it named; an operation with a receipt never
  runs again; every admitted operation settles; nothing is left on storage that
  the record has forgotten; the reservation covers what storage pins.
- *Agent VM runtime*: reservations never exceed the host's budgets; ports and addresses are unique; nothing
  is on the host without a row to find it by; a guest never runs before it is isolated; lost rules
  are noticed; a restart under another configuration never strands a VM.
- *Engines*: a VM executes once; what identifies it is always on disk; nobody else's process is
  signalled; an answer is true when it is given; a deletion that is repeated completes.
- *Controller*: an operation on an environment is exclusive; an observation older than
  an operation never overwrites its result; a deletion removes every VM it
  created or keeps the record of the ones it could not; a reservation stands
  until its outcome is known.
- *Scheduler and capabilities*: plans fit their hosts together, also when observations race them; the agent
  admits what the controller planned, and reserves the same.
- *Deployment*: guards of mounts are not dropped, keys in use not replaced, and a deployment that ends
  well leaves its fleet on one key and one version; the code keeps the first and the last with the exceptions of section 7.
- *Image recipes*: nothing half-made is ever in the catalog; no file goes under a mounted file system.

## 2. Plan

In the order of the plan, most important behaviour first; what is not marked is left to do.

1. `AgentBackup` (done): one VM's backups against its lifecycle, storage, crashes and
   retries, with `AgentBackup_proofs` (types, the fence and receipts) and
   `AgentBackupStorage_proofs` (what is on storage, and what a receipt promises).
2. `Artifact`, `ReflinkArtifact` (done, with the first section of `Parts_proofs`): the files inside one artifact directory, shown
   to implement the single artifact that `AgentBackup` works with.
3. `EnvLifecycle` (done, with `EnvLifecycle_proofs`): environments, operation locks, revisions, fleet snapshots that race
   operations, creation, deletion and expiry with hosts that are unreachable, resize intents.
4. `VmEngine`, `Engines` (done, with `Engines_proofs`): the contract of the engine trait, and the five engines shown to keep it.
5. `AgentHost` (done, with `AgentHost_proofs`): several VMs of one agent, their addresses, ports, capacity, disks, rules,
   reconciliation, restarts, firewall reloads and reboots.
6. `Capability`, `Fleet` (done, with `Fleet_proofs`): placement of whole environments and the agents' admission, judged by one set of rules;
   `Sums` (with `Sums_proofs`): the accounts of disk and memory, and the laws of such sums.
7. `Deploy`, `Images` (done, with the other sections of `Parts_proofs`): the two commands of the CLI that change hosts.
8. `MCParts` (done): the parts that share no state in one run.
9. `BackupContract`, `BackupForward`: what an agent promises the controller about backups, and the controller's
   forwarding over it: saved intents, lost answers, dropped request futures, settled headers.
10. The stages of a tap and of pf rules on FreeBSD; sizes of root disks over files and volumes.

Every safety property that a passing run checks is stated by a theorem (section 6). What items 9 and 10 will promise is still to be
modelled, checked and proved.

## 3. How the modules correspond to the code

### AgentBackup

One VM on one agent. The state, in the order of the module:

- the VM's **database row**: `state`, `size` (`disk`), `target` (`resize_target_mib`) and
  the fields of `backup::State`: `revision`, `current`, `pending`, `retired`,
  `receipt` (`last_result`), `backoff` (a clean-up backoff that has not expired). A row write is one SQLite transaction,
  so it is part of the step that makes it;
- the **host**: `disk` (inode or dataset, contents, capacity), `store` (artifact id
  to snapshot or directory), `flock` with its owner, `orphan` (the command of a
  storage child that outlived its agent), `vmm` (the engine's process);
- the **agent process**: `running` (the VM is in `backup_running`), `op` (which
  lifecycle operation holds the mutex and how far it is), `pc` and `work` of each
  task, `scan` (the loop's snapshot and where it stands);
- bounds and history: `issued`, `done` (requests that got a receipt), `minted`, `writes`, `crashes`, `failures`.

A task of `run_backup` goes `Claim` (backup_claim) - `Inspect` (lock, inspect the disk) - `Admit`
(backup_begin) - storage work - `Finish` (backup_finish) - `Release`
(backup_release). The wait loop of `run_backup` is a `Claim` that is not enabled
yet. Storage work is one step per storage command and runs on the copy of the
record that admission returned (`work.seen`): `TakeSnapshot`, `DropNewer`,
`RollBack` for volumes, `CloneFile`, `WriteManifest`, `ResumeFile`, `RenameStage`
for files, `RemoveNext` for deletion; `WorkFails` is any call's failure, whose
command may have taken effect. `cleanup_backup` is `ClaimCleanup`, `LockCleanup`,
`CleanOne`, `CleanedAll`, `FinishCleanup`. Lifecycle operations hold the mutex
from their first to their last step, because the runtime awaits engine and
storage calls with its guard held: `CreateVm` .. `BootEnds`, `StartVm`, `StopVm`,
`ResizeVm` .. `ResizeEnds`, `DestroyVm` .. `DeleteRow`. `ScanRecord`,
`ReconcileVm`, `ReconcileClaim` and `ReconcileSkip` are one turn of the loop for this VM.
`Crash` drops all tasks and the mutex; with volumes it leaves the lock to a child
(inherited descriptor) until `OrphanEnds`, with files the command may have been
done, done in part, or not at all.

Abstractions, each named where it matters:

- revisions, artifact ids and inodes come from one counter, `minted`; the code draws
  random ids and counts revisions per host, and only freshness and order matter. `Artifact.at` is a
  snapshot's creation order;
- a request is its key, revision, action and the generation it names; `Issue` lets
  a client compose one from any state of the VM it saw and `ClientClaim` lets it be
  sent any number of times later;
- Paused and Running are one state: backups require Stopped. Digests that tie an artifact
  to its image and disk identity are left out: nobody but the agent edits the storage;
- the pool of two workers, disabled or unsupported backups, and CPU or memory
  shortage are steps that are not taken (`AgentHost` has the capacity of several VMs);
- removing an artifact directory is one step; an interrupted one leaves a directory
  whose manifest is gone (`Spoil`). The files inside it belong to `ReflinkArtifact`, which
  also has the crash inside `atomic_write` that this module leaves out;
- a database write that fails is a crash before it: the code returns the error and the
  loop takes over as after a restart.

### Artifact and ReflinkArtifact

`Artifact` is what the backup protocol assumes of one artifact on storage: it
is started, completed, moved into the place of the disk, spoiled and dropped,
and only when the record asks for it. `ReflinkArtifact` is the code of
`core/src/storage/backup.rs` for files, one action per system call: the record's
view of the artifact (`record`: create or restore pending, published, retired,
gone), the directory with its owner, disk and `ready.json` files, the
temporary files of `atomic_write` (`temps`), whether the disk file and the VM's disk are
whole, and where the call stands (`pc`). A crash may come between any two calls; `CrashInWrite` says whether it may
also come between the creation of a temporary file and its `persist`. `CallFails` is a
failing system call, after which the code's error path runs and
`NamedTempFile` removes itself. `Attempt` is a repeat by the client or the loop.

Abstractions: file contents are "whole" or not; witnesses, digests and the
check of a source are left out (nobody else edits the storage); `FICLONE` has one
outcome; a crash is the process's, not a power loss. An artifact's life ends when
its record is gone, so its runs switch the deadlock check off.

### EnvLifecycle

One environment name on the controller, its VMs, its hosts and their agents. The state:

- **database** (`ctl/src/db.rs`): `env` (state, and `due`: `expires_at` has passed), `vms`
  (the row of each VM id, `NoRow` when there is none), `hosts` and `online`. Every
  transaction is one step;
- **controller process**: `op` is the holder of the environment's lock, with its step, the VM it waits for, the
  VMs left, the rows it read at the beginning (`saved`) and the hosts it found online
  (`up`); `answer` its HTTP reply; `reads` the fleet refreshes under way; `look` a backup
  inspection; `sweep` whether the expiry task has the name on its list. The code
  compares a refresh's revision with `CtlShared::revision`; the model keeps the result of that
  comparison, `current`, which every `fetch_add` (`Bump`) turns false;
- **agents**: `queue` holds requests an agent has accepted, in the order of its mutex, and `guest` its row of
  each VM. Reads (`Inventory`) take the agent's database as it is, whatever its runtime is doing;
- history: `used` (VM ids drawn), `orphans` (VMs whose tracking went with a detached host),
  `served` and `confirmed` (how many requests an agent has finished for a VM, now and at the last
  answer recorded), `fresh` (the row does not predate that answer). No guard reads them
  except that VM ids are drawn once, as UUIDs are.

Operations: `BeginCreate`, `Plan`, then `Send` .. `TakeCreated` per VM, a refresh and
`Conclude`; `BeginDelete` or `BeginExpire`, `Send` or `SkipHost`, `TakeDeleted`, `Conclude`;
`BeginStart`, `Reserve` or `BeginStop`, .. `TakeChanged`, refresh, `Conclude`;
`BeginResize`, refresh, `Ask`, .. `TakeResized`, refresh, `Conclude`. A refresh is
`StartRead`, per host `Fetch` or `FetchFails` and `Apply`, then `EndRead`, which updates
environment states. `Inspect` and `Retain` are `get_backup`. `Register`, `Remove` and `Detach` are the
host endpoints. An agent `Reject`s, `Acknowledge`s, turns down (`TurnDown`) or starts on (`Undertake`) a request, saving the
intermediate state, and `Complete`s it or `Fail`s; `Reconcile`, `ResumeDelete`, `Revives` and
`GuestEnds` are its loop. `Timeout` leaves the request with the agent, since `mutate`
spawns it; `SendFails` is a request that never arrived.

Abstractions:

- placement and capacity are a choice, which `Fleet` settles: `Plan` and `Ask` may refuse, `Home` names the host a VM
  id gets. The refresh a creation makes before it plans is one of the background `Loops`;
- `Ask` is the checks and the saving of the intent; nothing else may touch the rows in between but
  an inspection or a detachment. `Conclude` is the last state update, the verdict and the release of the lock;
- of `merge_vm_snapshot` the lifecycle and resize part; backup fields and the forwarding of backup requests are left out.
  Paused, a failed host's metadata, untracked VMs of other owners, ssh and ports are left out;
- a repeated creation request does not exist: the controller sends each VM id once;
- `Elsewhere` is all other environments: they move the revision;
- a guest that ends by itself counts among `MaxFailures`.

### VmEngine and Engines

`VmEngine` is the contract of the trait `VmEngine` (`core/src/engine/mod.rs`) as the runtime relies on it: a guest
appears only in a create or start call, a stop that answers ok leaves no execution, a destroy that answers ok
leaves nothing, a query never calls a live guest stopped. `Engines` is the code of the five engines for one VM,
one file operation, process or command per step. The state: `kind` (which engine), `proc` (what runs
under each process id: nothing, the VM's guest, somebody else), `mode`, `pidFile`, `held` (files, directories,
devices, containers), `op` (the call and its step), `reply`; and `late`, a launching command that outlived its
agent, since the unit has `KillMode=process`. The agent's calls are `Call`, serial as under the mutex;
`AgentCrash`, `HostReboot`, `GuestEnds`, `Pause`, `OtherStarts` and `OtherEnds` are the world.

Abstractions: steps that look and then act on one process (`terminate`) are one step, so the window between reading
a process's arguments and signalling it is left out; one stranger is like another; contents of files are not modelled, only which
are there; a launch that came late is excluded from what answers promise, because the code cannot know of it.

### AgentHost

The agent's `Runtime` with several VMs and the host it changes. Operations hold the mutation lock for their whole
length, so they are serial; a crash, a reboot and a guest that ends come between any two of their steps, a firewall reload only while
the agent is down (after a crash between any two). The state: `rows` (state, error, address, ports, whether
this version can read the row), `meta` (what the database binds), `agent` (phase of the start-up, port range,
runtime, `network_ready`), `op` (operation, VM, step, and the row it writes back), `held` and `live` per VM, the firewall (`nat`,
`forwards`, `denied`), and `exposed`, the guests whose rules a firewall reload took.

`Open`, `BindRuntime`, `BindNetwork` are `Runtime::new` to `configure_network`; `Create`, `Start`, `Stop`, `Destroy` and
`Reconcile` begin an operation with its admission and its first row write; `Seed` .. `Launch`, `Isolate` .. `Ingress`
(`restore_network`), `End`, `Stopped`, `Unload` .. `Conclude` (`destroy_vm`) and `Settle` are the steps; `StepFails`, `ForwardFails`, `CopyFails`,
`LaunchFails`, `EndFails`, `CleanupFails` what a failing call leaves; `QueryFails` and `Damage` an engine that does
not answer and a row this version cannot read.

Abstractions: each VM reserves one processor and one disk, and memory is like them; addresses are numbers counted from one,
as `allocate_ip` counts hosts of the network; the engine's part is one step
(`Engines` has it in detail); resizes and backups are in `AgentBackup`; a container has no address, tap or disk.
A tap missing under a live guest is refused by the code; `GuestsGuarded` shows that this never happens, so it is no step.

### Capability and Fleet

`Capability` translates `core/src/capability.rs` to operators: the design table, the legacy tags, reports, what a request
needs, and the two judges, `RequireHost` (controller) and `Enabled` (agent). `Fleet` is the controller's view of its hosts (`table`), its plans
(`vms`), the agents' own rows (`guest`), the requests on their way (`sent`) and the observations under way (`reads`).
`Reservation` is the scheduler's arithmetic, `Reserved` the agent's; `Candidates`, `Preferred`, `Schedules` are `place_vm` and
`schedule_env`; `Plan` commits a whole environment, `Send` and `Arrive` serve it VM by VM; `Observe` and `Apply` are a fleet
refresh with its revision check; `Register`, `Unregister`, `Detach` the host endpoints; `Timeout`, `Restart` and `CtlCrash` the faults.
`strays` is history: the requests that were under way when their host was detached, which `PlansFit` leaves out until their VMs are planned again.

Abstractions: numbers are small and `MaxDisk` stands for the largest `u32`; processors are treated as memory is and left
out; stops, starts and resizes, which keep a VM's disk, are `EnvLifecycle`'s; a registration is one step.

### Deploy

`tt deploy` on one host (`mode` local) or over SSH. A run `Begin`s, `SettleKey`s and `SaveKey`s, then takes for each service the steps of
`remote_setup_script`, or of `local_install_systemd` and `local_restart_service`: `InstallBin`, `WriteEnv`, `WriteGuards`, `WriteUnit`, `Reload`, then
`Restart1` (remote), or `Query` and what it found, `Restart1` or `Start` (local), and `CheckActive`. `runs` has one record per run, by the version it installs,
and `round` is the latest. `disk` is what is written, `loaded` what the service manager has read, `live` the
process and what it was started with. Files written in place go through an empty state (`half`); files that are staged and renamed
do not. What fails, and what else happens:

- `Interrupt` ends the run in front of the operator by a failed command or a kill. Over SSH the client's end, by its timeout of 900 s or with the
  run, is not the script's: the run may be left `alone` instead, and its script goes on with its service beside whatever the operator does next, another run included,
  to its own end (`CheckActive`) or to the first write that fails (`AloneEnds`);
- `ReadFails` is line 718: a local run takes a unit it cannot read for one without guards. The script's `awk` ends the script (`set -e`), which is an `Interrupt`;
- `Query` may have no answer, which line 754 takes for an inactive service; `Start` leaves an active one as it was;
- `Respawn`, `Rereads` and `Reboot` are the service manager and the host; the operator `Edit`s units and `Discard`s a torn key file, at the prompt only.

Four fields are history and guard nothing: `wanted` (the guards written by hand), `lost` (those that a step is known to lose: an unread
unit's, a drop-in's replaced by others, and all those of a service at which two scripts, or a script and an editor, meet), and of a run `unasked` and `beside` (the services that did not answer
its query, and those at which it met another script). `StartsGuarded` and `DeployedAlike` except what they name, and nothing else.

Abstractions: `sh` ends a script or runs it step by step, and its look at the service's state at the end changes nothing (`is-active && echo`); the enabling of a service is part of `Reload`.
A power loss that drops unsynced writes, OpenRC and FreeBSD's rc, two operators who deploy at once, and two scripts that share the name
of a staged file are left out.

### Images

`tt image create` as concurrent builders: `Create` inspects the target, `Fetch`, `Verify`, `Publish` are the cloud image, `Extract`
the jail's archive, `Pull` and `Tag` the container, `LookForKernel` .. `Persist1` the Firecracker image with its mounted
root file. `Fails1`, `Kill` and `Rotate` (the mirror moves on) come at any point; `remains` is what ended builders left.

### MCParts

The backup's files, the fleet, deployments and recipes share no state. `MCParts` puts them side by side in one run in
which one of them moves and the others rest in an initial state: the run is the sum of the four, not their product.

## 4. Runs and bounds

| Run | Question | Instance |
|---|---|---|
| `backup_volumes` | Can a restore always reach its source past the snapshots of failed operations, do receipts prevent a second execution, does a restore deliver what it names? | volumes, three requests of two keys, one failing call, one guest write |
| `backup_files` | Does the published backup survive everything, is nothing forgotten, do capacity and reservation stay right? | files, two sizes, budget 4, `MAX_RETIRED` 1, one crash |
| `backup_live` | Does every admitted operation settle, every retired artifact go, every deletion complete? Is the fence around storage work tight? | volumes, one crash, one failing call |
| `reflink_tag_wedge` | What if the crash is inside an atomic write? (violation) | one crash anywhere |
| `env_operations` | Is a confirmed answer kept, does expiry leave a reused name alone? | one host, two VM ids, two operations, a failure, a crash, another environment |
| `env_hosts` | Are VMs tracked and does deletion stand over hosts that go, are detached and return? | two hosts, one VM each, one creation, expiry, a failure, an inspection |
| `env_live` | Do deletions complete, does the shown state come to agree with the agents, is the target of a resize that has begun, or may yet begin, on record? | one VM, two sizes, two operations (start, resize), a failure, a crash |
| `env_inspect` | Can an inspection undo a confirmed answer? (violation) | one VM, two operations, an inspection |
| `engines` | Does a VM execute once, can it always be identified, is nobody else killed, do the engines keep the contract, do deletions complete? | all five engines, three process ids, two faults, two crashes or reboots |
| `host` | Are addresses unique, is nothing orphaned, are guests guarded and within capacity, do bindings hold, are lost rules noticed? | a guarded VM, a plain one, a container; one processor, two disks, two port ranges and runtimes; three requests, one fault, two crashes, reboots or, while the agent is down, reloads |
| `host_partial` | Does a partial clone stay with a failed VM? (violation) | as `host` |
| `parts` | Is nothing half-made published or swapped in, and does the directory behave as `Artifact`; do plans fit and agents admit them; are guards and keys kept and deployments alike; is the catalog whole? | two crashes anywhere; two hosts of different make, two environments, one fault; two services here and one elsewhere, three runs of which two begin, one break (a cut-off, an unread unit, a query without an answer, a respawn, a reread or a reboot), two mounts and two edits (remote: one each, and no agent from before); two builders, three builds, one kill |

The backup runs use one client and the reconciler: two tasks,
since the claim admits one at a time and a waiting task differs from a client that
sends its request later only in the moment it asks. Two operation keys suffice
for a retry against a later operation and three issued requests for two operations and
a retry with another revision; `MaxMinted` bounds how many creations and
admissions fit in a behaviour (three: a VM and two operations, or a VM, one operation and
the VM created again; four with volumes, where the snapshots of a third matter). Bounds only cut behaviours short.

Two VM ids allow a name to be used again while requests of its former VM are
still queued; two hosts allow one to answer while the other is away. Expiry and
registration are not counted by `MaxOps`. `env_operations` uses the symmetry of VM ids, which
no constant tells apart on one host; liveness runs use none.

Three process ids are the VM's, a stranger's and one that is free; two crashes allow a reboot after an agent's crash. Three
VMs on two disks and one processor reach every refusal of admission, and two crashes a reload of the firewall
between two lives of the agent. Two hosts, one with reports and one with tags, cover both judges. A request that
outlives the detachment of its host takes two faults, a lost answer and an outage; the run has one, and `FleetPlansFit` covers the rest. The first of a local deployment's
runs may be cut off while it saves its key and the next meet both keys. One break
reaches each of the six exceptions of `StartsGuarded` and `DeployedAlike`: without any one of them TLC finds a violation in this run. The mirror serves two releases, one of them new.

Three cases are out of these bounds and are covered by a proof alone. The runs of `RestoreDelivers` and `PendingSettles` store volumes, so a crash between
the rename of a restored file and its record (`core/src/storage/backup.rs:408`) is met only by `RestoresDeliver`, and that a repeat then settles it is not checked. Two operations do not let a refused resize follow one
of unknown outcome (`ctl/src/handler.rs:931`); `ResizesKept` does.

`CHECK_DEADLOCK` is on except in `parts` and `reflink_tag_wedge` (an artifact's life ends, the other parts rest) and in `host` and
`host_partial` (their requests are used up). Each property has a mutant of the code's definition that violates it.

## 5. Fairness

`AgentBackup`'s `FairSpec` assumes weak fairness of `HostStep` (a lifecycle operation goes on while it
holds the mutex; its calls have timeouts), of `OrphanEnds` (a storage child ends) and
of `BackoffExpires` (a clock time); strong fairness of each task's steps and of the loop,
since `tokio::sync::Mutex` is first come, first served and accepted work is
spawned, so it does not depend on its caller. Nothing is assumed of clients, of
the guest, or of crashes and failures, which are bounded in number ("once calls
stop failing"). `RetiredCleaned` is conditional: the loop does not wait for a busy
worker but skips the VM, so clients that keep sending requests can hold off
clean-up for ever; the property assumes they stop.

`ReflinkArtifact` assumes weak fairness of its steps together: a call goes on, and the loop
repeats what the record still wants.

`EnvLifecycle` assumes weak fairness of the lock holder's steps (handlers spawn
them and calls have timeouts), of the expiry task, of every refresh, of agents serving what they
accepted and of their loop. It further assumes strong fairness of a *current* refresh
reading and applying a host's answer: a refresh takes seconds, expiry comes once a minute. Without it
TLC shows that the retries of a failing deletion can discard every refresh for
ever, and a host that was once marked offline is never marked online again, so the deletion never succeeds;
the code's only guarantee is that timing. The starvation (`ctl/src/handler.rs:1280`) is thus
assumed away, and no property covers it. Faults, clients, clocks and `Revives` are not fair.

`Engines` assumes weak fairness of the steps of a call, which runs in a thread of the agent and whose commands have timeouts, and
of the repeated `destroy` of a VM whose deletion has begun, which the agent's loop makes every 15 seconds. Guests, strangers and
faults are not fair. The other modules have no liveness properties, because their
operations wait for an operator or a client.

## 6. Proofs

TLAPS proves, for every value of the constants that satisfies the assumptions of the
module, so for any number of clients, VMs, hosts, builders, crashes and failures:

| Module | Theorem | Statement |
|---|---|---|
| `AgentBackup_proofs` | `TypeCorrect` | `[]TypeOK` |
| | `FenceInvariant`, `FenceHolds` | `[]FenceInv`, and so `[]StorageFence` |
| | `ReceiptsFinal` | `[]NeverRepeated` |
| `AgentBackupStorage_proofs` | `StorageInvariant` | `[](TypeOK /\ FenceInv /\ StorageInv)` |
| | `NothingStranded`, `BackupStaysWhole` | `[]NoStrays`, `[]PublishedIntact` |
| | `CapacityAgrees`, `RollbackGoesThrough` | `[]SameCapacity`, `[]RollbackPossible` |
| | `CreatesCapture`, `RestoresDeliver` | `CreateCaptures`, `RestoreDelivers` |
| | `ReservationsCover` | with `[]AccountInv`, `[]ReservationCovers` |
| `Parts_proofs` | `DirectoryInvariant`, `PublishedIsWhole` | `[]DirectoryInv`, and so `[]PublishedWhole` |
| | `Implements` | every behaviour is one of `Artifact`: initial states, steps and stutters |
| | `GuardsHold`, `KeysAreKept` | `[]StartsGuarded`, `KeysKept` |
| | `DeploymentsAgree` | `[]DeployedAlike` |
| | `CatalogIsWhole`, `MountsAreKept` | `[]CatalogWhole`, `[]MountedKept` |
| `EnvLifecycle_proofs` | `TypeCorrect`, `TrackInvariant`, `Tracking` | `[]TypeOK`, `[](TypeOK /\ TrackInv)`, and so `[]VmsTracked` |
| | `HeldInvariant`, `DeletionsStand`, `ExpiriesAreDue` | `[]Held`, and so `DeletionStands`; `ExpiryRespectsLifetime` |
| | `ViewInvariant`, `AnswersKept`, `ResizesKept` | for a controller without inspections (`MaxInspections = 0`): `[]ViewInv`, and so `[]ConfirmedKept`, `[]ResizeRecorded` |
| `AgentHost_proofs` | `HostInvariant` | `[]HostInv` |
| | `AddressesAreUnique`, `NothingIsOrphaned`, `BindingsAreKept` | `[]AddressesUnique`, `[]NothingOrphaned`, `[]BindingsKept` |
| | `GuestsAreGuarded` | `[]GuestsGuarded` |
| | `LossIsNoticed`, `CapacityHolds` | `[]LossNoticed`, `[]NeverOvercommitted` |
| | `TypesAreKept` | `[]TypeOK` |
| `Fleet_proofs` | `FleetSound` | `[]FleetInv` |
| | `FleetPlansFit`, `FleetAdmissionAgrees` | `[]PlansFit`, `[]AdmissionAgrees` |
| `Sums_proofs` | `SumOfRest`, `SumOfMore`, `SumOfBoth`, `SumOfSupport`, `SumOfMatched` | laws of sums over finite sets |
| `Engines_proofs` | `EngineSafe`, `ExecutesOnce`, `AlwaysIdentifiable` | `[]EngineInv`, and so `[]OneExecution`, `[]Identifiable` |
| | `OthersSpared`, `TypesKept` | `OthersUntouched`, `[]TypeOK` |
| | `EnginesImplement` | every behaviour of the engines is one of `VmEngine` |

The inductive invariants (`FenceInv`, `ReceiptInv`, `StorageInv`, `AccountInv`, `DirectoryInv`, `TrackInv`, `Held`, `ViewInv`, `HostInv` with `GuardInv`, `LossInv` and `CapacityInv`,
`DeployInv` with `AlikeInv`, `ImagesInv`, `EngineInv`, `FleetInv`) and the type invariants that are proved are not checked in the runs again.

**The fence.** `StorageFence` is not inductive: that the VM is down while storage is written rests
on who may hold the mutex, the claim and the flock at each point. `FenceInv` says
so: at most one task is past its claim, only while `running`, and then no
lifecycle operation is under way; a task on a request keeps the VM stopped; one that
was admitted keeps the record busy; the lock belongs to a task, to deletion or to
an orphan; an orphan that writes implies a busy record, and a busy record keeps every
operation out but deletion, which erases only after nothing is pending. The proof takes one
step per action. `NeverRepeated` needs that a receipted request carries an older
revision than the VM's and that revisions never come back, also across deletion
and creation (`ReceiptInv`); its proof uses the fence, because a task's copy of the
record must still be the record.

**Storage.** None of the storage properties is inductive, and none can be proved without the others. That a published backup stays
whole rests on what every storage command in flight may touch, also one that a crash handed to an orphan; what a command may touch
rests on the copy of the record its task works from being the record; that copy stays right because nothing else may change the record
meanwhile (the fence). `StorageInv` has one part for each of these facts. `RecordInv`: ids are minted once, so that no two generations
share an artifact, and a VM without a row, without its first disk or about to lose it has none. `SeenInv`: a task's copy of the record is the record, from
its admission to its end, and what it has to remove or has removed is in it. `OrphanInv`: what a storage child left by a crash may
still do is what the record says is pending, or a removal it allows. `PresentInv`: nothing is on storage that the record does
not name. `HeldInv`: what a task has removed is gone, and what it has copied is there. `CapacityInv`: the published
backup is whole unless a deletion is pending, and record, disk and backup agree on capacity. `ContentInv`: a pending artifact holds the disk, or the published backup, or
has become the disk. `DoneInv`: storage work that succeeded and waits for the mutex has done what its receipt will say. The proof first shows that each command, whoever
runs it and however it ends, has one of four effects on the host (`Effect`: it removes retired artifacts, or any once deletion is recorded, takes the snapshot of a
pending create, or rolls back for a pending restore); each part is then kept by each effect, and by each action that changes the record. `RollbackPossible` follows: what is newer
than the published backup is on storage, so it is named by the record, and a pending rollback has no artifact of its own. The action properties
follow from `DoneInv` and `ContentInv`, because only `Finish` publishes a generation or writes a receipt.

**The reservation.** `ReservationCovers` compares two sums that change at different times: what artifacts pin and what the record
reserves. `AccountInv` relates them item by item: an artifact pins at most the size of its generation, the disk takes at most the larger of the
record's size and target, and the reservation fits the budget. Artifacts are matched to generations by their ids, which are minted once, so the
first sum is at most the second (`SumOfMatched`); a pending deletion, which reserves nothing, has no artifact. A step changes the record in seven
ways (`RecordMoves`: it trims the backlog, admits, settles or drops, starts a VM, grows one or ends its growth), and only an admission, a
creation or a resize reserves more, each by what it was found to have free; publishing moves what was reserved for the pending generation. An artifact appears
or grows only as the pending one, within its admitted size (`PinMoves`). The part about a disk whose VM is being deleted matters for an orphan that rolls it
back after the deletion was recorded: what it restores was no larger than the disk the record still reserves.

**The directory.** `DirectoryInv` says which files exist at each call and that a
manifest implies a whole disk, which is what lets a retry trust it.

**Tracking.** `VmsTracked` is not inductive: that a row goes only when nothing can bring its VM back rests on
what queues and the operation may hold. `TrackInv` says so: a creation is the first request an agent ever gets for its VM, so once a
deletion is answered none is queued behind it; only an agent's first request has begun, and then the
guest is in the state that request put it in; a caller that still waits is the
operation in hand, once, for its VM and kind, so an answer is about that VM; a VM the
operation has yet to create is unknown to its agent and already has its row; unused ids are
untouched; and an operation never writes back a row it did not read. The lock enters where a
detachment is refused while an operation runs on the rows it would take along. Types and
tracking are proved together, because a row's type after an answer needs that a
successful creation's answer carries a VM.

**Deletion and expiry.** An operation ends with a state computed from the rows, so a deletion could be undone by an operation that
began before it and ends after it. `Held` excludes that: a start or a stop does not hold an environment that is being
deleted, because each looks at the state when it takes the lock and a deletion needs the lock to begin. A creation or a resize writes
no state that a deletion has set, and a refresh leaves it alone (`Updated`). An expiry looks at the environment's own due time once it holds the lock.

**The view.** Neither `ConfirmedKept` nor `ResizeRecorded` is inductive. A row is replaced by what a refresh heard, by an operation's
answer, or by what an operation read when it began, and each of these may be older than the row; a resize may be in the agent's queue,
begun, or answered, and a row must know of it throughout. `ViewInv` says why no replacement loses anything. `RowInv` is the claim with the counts it needs:
a row has been told no more than its agent has served. `GuestInv` is about agents: an unfinished resize grows its VM, and a
request that a caller waits for has none for its VM behind it. `ReadInv`: what a refresh heard that is still current is at least
as new as the row, since every answer recorded moves the revision first; it knows no other resize than the row, and no two such refreshes
contradict each other. `AnswerInv`: once an answer is there its VM has nothing queued, so that the answer is the last word. `SavedInv`: the rows
that a start, stop or resize read and may write back are not older, and for a refused resize, which clears the intent, no other resize is left.
The steps of agents are not treated one by one: each `Evolves` the VMs, that is, serves no less, begins and ends requests in
order, and finishes a resize it had begun or takes up the one at the head (`Shifts`), and that keeps every part. The hypothesis `MaxInspections = 0` is a controller that
retains no inspected VM, and it cannot be dropped: `env_inspect` shows how one inspection breaks `ConfirmedKept`.

**The host.** `HostInv` joins the rows to the operation in hand: no operation is under way while the agent is down, the
operation's VM has the row it began with, what is on the host for a VM has a row that leads to it, addresses
of rows are distinct and the one an operation has chosen is nobody's. That the agent always has an address to
give, or refuses, is a pigeonhole argument over the finite set of VMs. The assumptions are that the set
of VMs is finite and that a runtime's name is not the name of a file. `GuardInv` says what a guest
has, and how far the operation in hand has brought its VM: from the tap on its isolation stands, before its ingress its address is denied, so that
a launch finds all of it. `LossInv` says that once the rows were opened, which marks all that a reload may have taken,
a row that shows a running VM without an error has all its rules, unless the operation in hand is its own; of that one it says how far the rules are
restored when it comes to save such a row. `CapacityInv` counts what
runs or may come to run: admission looks at all rows that are not stopped, but a deletion makes a stopped row count again without
admission, so the sum that stays within capacity leaves out rows that are being deleted and have no guest.

**Deployment.** `DeployInv` is an invariant of all runs at once, the latest and those left alone. A service's unit and its drop-in hold the wanted guards that are not lost between them, and so does the unit
the service manager has loaded (`GuardRule`): a run that empties the drop-in has read guards in the unit that cover it, and truncates the unit only when the drop-in holds what it
found (`MoveRule`). That argument needs a script to have the service to itself, which is `MeetRule`: where two are at work on one service and either is past its first
step, no guard is left to keep. `AloneRule` and `RunRule` say which runs are left alone (remote ones at a step of their script) and what a run at work has. For keys
`LocalInv` says that a local deployment has nothing else at work beside it, that a run at work in this host has one key, which is the saved one, and that services hold that or none. That a finished deployment
is alike on all its services is `AlikeInv`: each service of the plan that the run had to itself (`NoOther`) either has, in its files and in its process if there is one, the run's key and
version, or is still to be done; the one in hand has what its steps so far have written (`Amid`); where the service did not answer its query its process is not spoken of. A reboot, a respawn or a late command reads the same
files, an operator's edit touches guards only, and an older script that is still at work on a service when the run comes to it makes it one that it met. The assumptions: the values for
no key and a torn key file are not keys, services are finite in number, a plan is not empty and a local one deploys services of its own host, a run may take place. Any number of mounts may be guarded, in any edits.

**The fleet.** `PlansFit` adds what the controller has promised of a host to what its agent has given out unknown to it, so it depends on
every way the two can drift apart. `FleetInv` has the types (`FleetType`: a VM's plan is one that the host could take by the report it was judged by), the links (`FleetLinks`:
a VM is asked for and found only where it is planned, and that host is known) and the counts (`FleetFits`). The record of a host counts all that is promised of it. An observation
that is still current shows every guest the controller does not know, because a guest can only appear unnoticed from a request that outlived a
detachment; so applying it, which keeps the larger of two sums, forgets nothing. A new plan fits because the last VM it puts on a host was measured
against the record and all the others of the plan (`PlanFits`). `AdmissionAgrees` follows from the types by cases on the engine (`Agreement`): the needs of the request are those
of the spec, and both sides compute the same disk, given that the agent reported the image's size. The assumptions: environments share no VM and are not
empty, an agent reports an image's true size or none.

**Sums.** An account is a fold over a set of VMs. Its laws are proved by induction over the subsets of a finite set, which the library's
well-foundedness of strict inclusion gives (`SubsetInduction`): that the partial sums exist and agree, that any member may be taken out first, that larger summands
give larger sums, that sums of sums are sums, and that a sum is at most another into which it can be matched one to one.

**Recipes.** The invariant ties each builder's step to what it has fetched, verified and mounted; a catalog entry
is whole because publication is the last step, on the builder's own stage.

**Engines.** `EngineInv` says, of each engine, which steps its calls take and what it keeps on the host; that
where no name protects a guest, a create past its check has none beside it (`OnceInv`); that what identifies a guest is laid
out before its launch, is there while it executes, and outlives its device and its mounts (`AnchorInv`, `DeviceInv`); and what a stop or a
deletion has behind it at each step (`EndInv`), from which an `ok` is true. A launch that outlives its agent is the only way around this, so
the parts about it are conditional on none having come. For the refinement each step is shown to have the shape the contract allows: it works or answers for the call
under way, starts a guest only in create and start, and leaves something or nothing only where create and destroy may. The assumption: a process id is not the name
of a container or of nothing.

Model-checked only: the liveness properties (fairness and ENABLED are out of the
prover's reach), which are those of `backup_live`, `env_live`, `engines` and `parts` (of `Engines` `DestroyCompletes`). No module with a
theorem uses a RECURSIVE operator.

## 7. Where code and documents disagree

- `reflink_tag_wedge`: `atomic_write` leaves its temporary file when the
  agent dies before `persist`. In a new directory the owner file's leftover makes every repeat
  of the operation refuse the directory (`docs/disk-backup.md:195`: "the VM remains fenced until
  exact retry/recovery settles the operation"). A manifest's leftover survives the repeat that
  publishes the backup and makes its later removal refuse the directory: that is why
  `CleanRemoved` excepts leftovers. Nothing is corrupted, but the VM stays fenced, or its
  reservation stays, although the documents say that a repeat settles both.
- `env_inspect`: a backup inspection is recorded without the operation lock and without the
  revision check, as a whole VM: lifecycle state read before a confirmed start, stop or
  creation comes back, and the environment then shows a state nobody is in until the next refresh.
  For the same reason it can erase the record of an unfinished resize that it did not see.
- `host_partial`: `stop_vm` (`agent/src/runtime.rs:487`) refuses only creating and deleting VMs. Stopping one whose creation failed during the
  copy succeeds, since its engine has no process, and makes it an ordinary stopped VM without an error, which `start_vm` boots from the partial clone. `docs/guest-images.md:341`
  says that partial clones "remain attached to a failed VM record for explicit, retryable deletion".

The deployment disagrees with its documents in three places, which `StartsGuarded` and `DeployedAlike` state as their exceptions:

- `docs/deployment.md:199` says that guards in a generated unit "are migrated", as does the comment at `cli/src/deploy.rs:529`. A local run that fails to read the unit (`deploy.rs:718`, an I/O
  error or a unit that is not UTF-8) writes it anew without them and goes on to restart the service;
- `docs/audit.md` has "existing drop-ins remain intact". The drop-in a deployment wrote is replaced by the guards found in the unit
  (`deploy.rs:725`, and the `tee` of the script), so that a second hand edit with another guard loses the first. A drop-in of the operator's own, which the same page recommends, is not touched;
- a run that could not ask whether a service is active (`deploy.rs:754`) starts it instead of restarting it, finds it active and reports
  success, and the old binary runs on with the old key. After a lost connection the old script may still be at work beside the repetition (`deploy.rs:304`); the error's "inspect service state before
  retrying" is the operator's only guard against it.

## 8. What is not modelled

Planned and left to do (section 2): the controller's forwarding intents for backups and its settled headers. With them are open the hazards
at `agent/src/backup.rs:158` (`backup_settled` speaks of a request of which another copy may still wait),
`ctl/src/backup.rs:254` (the mutation runs in the request's own future) and `ctl/src/backup.rs:280` (an answer older than the inventory read next).

Known hazards at lines whose window the models close: `ctl/src/handler.rs:1004` (a start that timed out and is
still queued when the operation's own refresh reads the VM), `core/src/engine/mod.rs:165` (a process may end and its id be given away between the look at its arguments and
the signal), `core/src/engine/firecracker/sandbox.rs:63` and `core/src/net/freebsd.rs:91` (directories and taps made in stages),
`ctl/src/handler.rs:292` (a removal does not count as a change of the fleet, so a refresh that began before a host was removed and registered again is still applied, and a VM that a late request made there meanwhile is not counted until the next refresh),
`ctl/src/handler.rs:609` (a creation that the network, not the agent, holds back until after its VM was deleted: agents' queues keep the order of arrival),
`agent/src/runtime.rs:804` (recovery clears an error that says a stop was unfinished) and `runtime.rs:413` (ports are probed before they are bound).

Left out of modelled components: limits on the number of VMs; the scheduler's processors; stops, starts and resizes in `Fleet`; migrations and unreadable rows of the
controller's database; jail directories and staging files that a killed builder leaves (`remains` counts them, nothing removes
them); a mount that was killed by its timeout and is not noticed (`Images` has it, as the exception in `MountedKept`); rule texts, the order of chains and pf; the in-guest
bootstrap script; digests and identities of artifacts and drives.

Not modelled at all: argument parsing, the web page, authentication, wire formats and key validation, and the client
(`cli/src/main.rs`, `client.rs`), which makes one request at a time and keeps no state but its own configuration; the upgrade example, a one-off tool.
