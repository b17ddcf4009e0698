----------------------------- MODULE AgentHost -----------------------------
(* One agent's Runtime and the host it changes: the VM rows of its database, *)
(* the addresses and ports they reserve, disks, seeds, taps and firewall     *)
(* rules. Every operation holds the mutation lock for its whole length, so   *)
(* operations are serial; the agent may be killed between any two of their   *)
(* steps, the host may reboot, and the firewall may be reloaded while the    *)
(* agent is down. What an engine's call does inside is module Engines.       *)
EXTENDS Naturals, FiniteSets

CONSTANTS Vms,
          Containers,   \* those run by the container runtime: no disk, no tap
          Guarded,      \* those isolated, denied outgoing traffic and reached by SSH
          PortsOf,      \* how many host ports a VM maps
          Ranges,       \* the host port ranges an operator may configure
          Runtimes,     \* the container runtimes
          Cpus, Disks,  \* capacity; a VM reserves one of each
          MaxOps,       \* requests of the controller
          MaxFaults,    \* failed commands, pauses and unreadable rows
          MaxCrashes    \* agent crashes, firewall reloads and host reboots

None == "none"
Files == {"seed", "part", "disk", "tap", "isolation", "ingress", "run"}

ASSUME AgentHostAssumption ==
  /\ IsFiniteSet(Vms)
  /\ Runtimes \intersect (Files \union {None}) = {}
  /\ Containers \subseteq Vms /\ Guarded \subseteq Vms \ Containers
  /\ PortsOf \in [Vms -> Nat]
  /\ \A range \in Ranges : range \subseteq Nat
  /\ {Cpus, Disks, MaxOps, MaxFaults, MaxCrashes} \subseteq Nat

VARIABLES
  rows,      \* table vms
  meta,      \* table _meta: the bound port range and container runtime
  agent,     \* the process: phase, port range, runtime, network_ready
  op,        \* the operation under way
  held,      \* what the host holds for each VM
  live,      \* each VM's guest
  nat,       \* the firewall table and its chains exist
  forwards,  \* its port forwards
  denied,    \* its set of denied addresses
  exposed,   \* guests whose rules a firewall reload took
  ops, faults, crashes

vars == <<rows, meta, agent, op, held, live, nat, forwards, denied, exposed,
          ops, faults, crashes>>

NoRow == [state |-> "absent", error |-> None, ip |-> 0, ports |-> {}, readable |-> TRUE]
Idle == [call |-> None, vm |-> None, at |-> None, row |-> NoRow, was |-> None, failed |-> FALSE]
Down == [phase |-> "down", ports |-> {}, runtime |-> None, ready |-> FALSE]

AllPorts == UNION Ranges
Ips == 1..Cardinality(Vms \ Containers)
NoIp == 0    \* a container has no address
Known == {v \in Vms : rows[v].state /= "absent"}
Readable == \A v \in Vms : rows[v].readable
Up == agent.phase = "up"
Live(state) == state \in {"running", "paused"}
\* The errors reconciliation itself writes.
RecoveryOwned == {"network recovery pending", "network recovery failed", "cannot query engine"}
Errors == RecoveryOwned \union {None, "stop unfinished", "operation failed", "interrupted"}

Init ==
  /\ rows = [v \in Vms |-> NoRow] /\ meta = [ports |-> {}, runtime |-> None]
  /\ agent = Down /\ op = Idle
  /\ held = [v \in Vms |-> {}] /\ live = [v \in Vms |-> "stopped"]
  /\ nat = FALSE /\ forwards = {} /\ denied = {} /\ exposed = {}
  /\ ops = 0 /\ faults = 0 /\ crashes = 0

Rules == <<nat, forwards, denied>>
World == <<held, live, nat, forwards, denied, exposed>>
Database == <<rows, meta>>
Budget == <<ops, faults, crashes>>

-----------------------------------------------------------------------------
(* Start-up. A refusal ends the process, and the next attempt finds the same *)
(* database: it is a step that changes nothing.                              *)

\* Runtime::new: guests that may have lost their rules are marked.
Open ==
  /\ agent.phase = "down"
  /\ agent' = [Down EXCEPT !.phase = "open"]
  /\ rows' = [v \in Vms |->
       IF Live(rows[v].state) /\ rows[v].error = None /\ rows[v].readable /\ v \notin Containers
       THEN [rows[v] EXCEPT !.error = "network recovery pending"] ELSE rows[v]]
  /\ UNCHANGED <<meta, op, World, Budget>>

HasContainers == \E v \in Containers \intersect Known : rows[v].readable
Occupied == HasContainers \/ ~Readable

\* Mutant: the operator's choice always wins.
SelectedAnyway(requested) ==
  IF requested /= None THEN {requested}
  ELSE IF meta.runtime /= None THEN {meta.runtime} ELSE Runtimes \union {None}

\* bind_container_runtime; detection may find any runtime or none.
Selected(requested) ==
  IF meta.runtime = None /\ HasContainers THEN {}
  ELSE IF meta.runtime = None /\ requested /= None /\ ~Readable THEN {}
  ELSE IF None \notin {meta.runtime, requested} /\ meta.runtime /= requested /\ Occupied THEN {}
  ELSE IF requested /= None THEN {requested}
  ELSE IF meta.runtime /= None THEN {meta.runtime}
  ELSE IF Occupied THEN {None} ELSE Runtimes \union {None}

BindRuntime ==
  /\ agent.phase = "open"
  /\ \E requested \in Runtimes \union {None} : \E runtime \in Selected(requested) :
       /\ agent' = [agent EXCEPT !.phase = "bound", !.runtime = runtime]
       /\ meta' = [meta EXCEPT !.runtime = IF runtime = None THEN @ ELSE runtime]
  /\ UNCHANGED <<rows, op, World, Budget>>

\* configure_network: the range and ingress may change only without rows.
Configurable(range) == Known = {} \/ meta.ports = range

BindNetwork ==
  /\ agent.phase = "bound"
  /\ \E range \in Ranges :
       /\ Configurable(range)
       /\ agent' = [agent EXCEPT !.phase = "up", !.ports = range]
       /\ meta' = [meta EXCEPT !.ports = range]
  /\ UNCHANGED <<rows, op, World, Budget>>

-----------------------------------------------------------------------------
(* Admission *)

\* resources_for: a stopped VM holds its disk but no processor. A row that
\* cannot be read closes admission.
Running == {v \in Known : rows[v].state /= "stopped"}
CpuFits == Readable /\ Cardinality(Running) < Cpus
DiskFits == Readable /\ Cardinality(Known) < Disks

UsedIps == {rows[v].ip : v \in Known}

\* Mutant: a stopped VM does not hold its ports.
UsedPortsRunning == UNION {rows[v].ports : v \in Running}

UsedPorts == UNION {rows[v].ports : v \in Known}

\* Mutant: addresses are counted from the network's own.
FirstIpUnshifted == (CHOOSE i \in Ips \ UsedIps : \A j \in Ips \ UsedIps : i <= j) - 1

FirstIp == CHOOSE i \in Ips \ UsedIps : \A j \in Ips \ UsedIps : i <= j

\* allocate_ports: a free port of the range that can be bound just now.
Allocations(v) == {s \in SUBSET (agent.ports \ UsedPorts) : Cardinality(s) = PortsOf[v]}

Ready == Up /\ op = Idle
Request == ops < MaxOps /\ ops' = ops + 1

Save(v, row) == rows' = [rows EXCEPT ![v] = row]
Begin(call, v, step, row, was) ==
  op' = [call |-> call, vm |-> v, at |-> step, row |-> row, was |-> was, failed |-> FALSE]

Create(v) ==
  /\ Ready /\ Request /\ v \notin Known
  /\ CpuFits /\ DiskFits
  /\ v \in Containers => agent.runtime /= None
  /\ \E ports \in Allocations(v) :
       LET row == [state |-> "creating", error |-> None, ports |-> ports, readable |-> TRUE,
                   ip |-> IF v \in Containers THEN NoIp ELSE FirstIp]
       IN Save(v, row) /\ Begin("create", v, "seed", row, None)
  /\ UNCHANGED <<meta, agent, World, faults, crashes>>

\* Mutant: a stopped VM's processor is taken to be reserved still.
StartableReserved(v) == rows[v].state \in {"stopped", "paused"}

Startable(v) == rows[v].state = "paused" \/ (rows[v].state = "stopped" /\ CpuFits)

Start(v) ==
  /\ Ready /\ Request /\ rows[v].readable /\ Startable(v)
  /\ LET row == [rows[v] EXCEPT !.state = "creating"]
     IN /\ Save(v, row)
        /\ Begin("start", v, IF v \in Containers THEN "launch" ELSE "network", row, rows[v].state)
  /\ UNCHANGED <<meta, agent, World, faults, crashes>>

Stop(v) ==
  /\ Ready /\ Request /\ rows[v].readable
  /\ \/ rows[v].state \in {"running", "paused", "failed"}
     \/ rows[v].state = "stopped" /\ rows[v].error = "stop unfinished"
  /\ Begin("stop", v, "end", rows[v], rows[v].state)
  /\ UNCHANGED <<Database, agent, World, faults, crashes>>

Destroys(v) ==
  LET row == [rows[v] EXCEPT !.state = "deleting"]
  IN Save(v, row) /\ Begin("destroy", v, "end", row, rows[v].state)

Destroy(v) ==
  /\ Ready /\ Request /\ v \in Known /\ rows[v].readable
  /\ Destroys(v)
  /\ UNCHANGED <<meta, agent, World, faults, crashes>>

-----------------------------------------------------------------------------
(* Steps of an operation *)

At(step) == op.at = step
Go(step) == op' = [op EXCEPT !.at = step]
Finish == op' = Idle
V == op.vm
Gain(thing) == held' = [held EXCEPT ![V] = @ \union {thing}]
Lose(things) == held' = [held EXCEPT ![V] = @ \ things]
Fault == faults < MaxFaults /\ faults' = faults + 1

\* What a failed step leaves: a row that keeps its reservations.
FailedRow ==
  [op.row EXCEPT !.state = IF op.call = "reconcile" THEN @ ELSE "failed",
                 !.error = IF op.call = "reconcile" THEN "network recovery failed"
                           ELSE "operation failed"]

Abort ==
  /\ Save(V, FailedRow) /\ Finish
  /\ agent' = IF op.call = "reconcile" THEN [agent EXCEPT !.ready = FALSE] ELSE agent
  /\ UNCHANGED <<meta, ops, crashes>>

Fails(step) == At(step) /\ Fault /\ Abort
Proceeds(step, next) == At(step) /\ Go(next) /\ UNCHANGED <<Database, Budget>>

Seed ==
  /\ Proceeds("seed", IF V \in Containers THEN "launch" ELSE "network")
  /\ IF V \in Guarded THEN Gain("seed") ELSE UNCHANGED held
  /\ UNCHANGED <<agent, live, Rules, exposed>>

AfterNetwork == IF op.call = "create" THEN "clone" ELSE "isolate"

\* ensure_network: the bridge, and the table in one transaction that keeps its
\* forwards and denied addresses.
EnsureNetwork ==
  /\ Proceeds("network", AfterNetwork)
  /\ agent' = [agent EXCEPT !.ready = TRUE]
  /\ nat' = (nat \/ ~agent.ready)
  /\ UNCHANGED <<held, live, forwards, denied, exposed>>

\* clone_image makes the private target first, then copies into it; the disk is
\* then grown and the configuration drive written.
Clone ==
  /\ Proceeds("clone", "fill")
  /\ "part" \notin held[V] /\ Gain("part")
  /\ UNCHANGED <<agent, live, Rules, exposed>>

Fill ==
  /\ Proceeds("fill", "isolate") /\ Gain("disk")
  /\ UNCHANGED <<agent, live, Rules, exposed>>

(* restore_network *)

Isolate ==
  /\ Proceeds("isolate", "tap")
  /\ IF V \in Guarded THEN Gain("isolation") ELSE UNCHANGED held
  /\ UNCHANGED <<agent, live, Rules, exposed>>

\* A tap that is missing under a live guest is an error, which GuestsGuarded
\* shows is never met; any other is made.
Tap ==
  /\ Proceeds("tap", "unforward")
  /\ Gain("tap")
  /\ UNCHANGED <<agent, live, Rules, exposed>>

Mine == {f \in forwards : f[2] = op.row.ip}

Unforward ==
  /\ Proceeds("unforward", "forward")
  /\ forwards' = forwards \ Mine
  /\ UNCHANGED <<agent, held, live, nat, denied, exposed>>

Forward ==
  /\ nat
  /\ Proceeds("forward", "deny")
  /\ forwards' = forwards \union (op.row.ports \X {op.row.ip})
  /\ UNCHANGED <<agent, held, live, nat, denied, exposed>>

\* Some of the rules were added before the one that failed.
ForwardFails ==
  /\ Fails("forward")
  /\ \E ports \in SUBSET op.row.ports : forwards' = forwards \union (ports \X {op.row.ip})
  /\ UNCHANGED <<held, live, nat, denied, exposed>>

\* Mutant: the address is denied once, when the VM is created.
DeniedAtCreation == IF V \in Guarded /\ op.call = "create"
                    THEN denied \union {op.row.ip} ELSE denied

DeniedAfter == IF V \in Guarded THEN denied \union {op.row.ip} ELSE denied \ {op.row.ip}

Deny ==
  /\ nat
  /\ Proceeds("deny", "ingress")
  /\ denied' = DeniedAfter
  /\ UNCHANGED <<agent, held, live, nat, forwards, exposed>>

Ingress ==
  /\ Proceeds("ingress", IF op.call = "reconcile" THEN "settle" ELSE "launch")
  /\ IF V \in Guarded THEN Gain("ingress") ELSE UNCHANGED held
  /\ UNCHANGED <<agent, live, Rules, exposed>>

\* A step fails having done nothing; ForwardFails and the launch say what else
\* they may leave.
StepFails ==
  /\ \E step \in {"seed", "network", "clone", "isolate", "tap", "unforward", "deny", "ingress"} :
       Fails(step)
  /\ UNCHANGED World

CopyFails == Fails("fill") /\ UNCHANGED World

(* The engine *)

\* A container is known only to the runtime that made it.
Reachable(v) == v \in Containers => agent.runtime \in held[v]

\* Nothing to boot: no clone, or no container to start again.
Missing ==
  IF V \in Containers THEN op.call = "start" /\ ~Reachable(V) ELSE "part" \notin held[V]

NothingToLaunch == At("launch") /\ Missing /\ Abort /\ UNCHANGED <<faults, World>>

Launch ==
  /\ At("launch") /\ ~Missing
  /\ live' = [live EXCEPT ![V] = "running"]
  /\ IF V \in Containers THEN Gain(agent.runtime) ELSE Gain("run")
  /\ Save(V, [op.row EXCEPT !.state = "running", !.error = None]) /\ Finish
  /\ UNCHANGED <<meta, agent, Rules, exposed, Budget>>

\* Its files or its container stay, and the guest may be running after all.
LaunchFails ==
  /\ Fails("launch") /\ ~Missing
  /\ \/ UNCHANGED World
     \/ /\ IF V \in Containers THEN Gain(agent.runtime) ELSE Gain("run")
        /\ live' \in {live, [live EXCEPT ![V] = "running"]}
        /\ UNCHANGED <<Rules, exposed>>

End ==
  /\ Proceeds("end", IF op.call = "stop" THEN "stopped" ELSE "unload")
  /\ live' = IF Reachable(V) THEN [live EXCEPT ![V] = "stopped"] ELSE live
  /\ exposed' = exposed \ {V}
  /\ UNCHANGED <<agent, held, Rules>>

EndFails ==
  /\ At("end") /\ Fault /\ Finish
  /\ Save(V, [op.row EXCEPT !.error = IF op.call = "stop" THEN "stop unfinished" ELSE "operation failed"])
  /\ live' \in {live, [live EXCEPT ![V] = "stopped"]}
  /\ exposed' = {v \in exposed : live'[v] /= "stopped"}
  /\ UNCHANGED <<meta, agent, held, Rules, ops, crashes>>

Stopped ==
  /\ At("stopped") /\ Finish
  /\ Save(V, [op.row EXCEPT !.state = "stopped", !.error = None])
  /\ UNCHANGED <<meta, agent, World, Budget>>

(* destroy_vm: every cleanup is tried, and the row goes only when all worked. *)

After == [unload |-> "unpublish", unpublish |-> "release", release |-> "allow",
          allow |-> "untap", untap |-> "unisolate", unisolate |-> "remove", remove |-> "conclude"]

Cleans(step, things) ==
  /\ Proceeds(step, After[step]) /\ Lose(things)
  /\ UNCHANGED <<agent, live, Rules, exposed>>

Unload == Cleans("unload", {"run"} \union (IF V \in Containers THEN {agent.runtime} ELSE {}))
Unpublish == Cleans("unpublish", {"ingress"})
Untap == Cleans("untap", {"tap"})
Unisolate == Cleans("unisolate", {"isolation"})
RemoveDisk == Cleans("remove", {"part", "disk"})

Release ==
  /\ Proceeds("release", After["release"])
  /\ forwards' = forwards \ Mine
  /\ UNCHANGED <<agent, held, live, nat, denied, exposed>>

Allow ==
  /\ Proceeds("allow", After["allow"])
  /\ denied' = denied \ {op.row.ip}
  /\ UNCHANGED <<agent, held, live, nat, forwards, exposed>>

CleanupFails ==
  /\ op.at \in DOMAIN After /\ Fault
  /\ op' = [op EXCEPT !.at = After[op.at], !.failed = TRUE]
  /\ UNCHANGED <<Database, agent, World, ops, crashes>>

\* Mutant: the row goes although a cleanup failed.
DeletableAnyway == TRUE

Deletable == ~op.failed

Conclude ==
  /\ At("conclude") /\ Finish
  /\ IF Deletable THEN Save(V, NoRow) /\ Lose({"seed"})
     ELSE Save(V, [op.row EXCEPT !.error = "operation failed"]) /\ UNCHANGED held
  /\ UNCHANGED <<meta, agent, live, Rules, exposed, Budget>>

-----------------------------------------------------------------------------
(* reconcile_vm *)

Actual(v) == IF Reachable(v) THEN live[v] ELSE "stopped"

\* The row as the scan sees it after asking the engine.
Observed(v) ==
  LET row == rows[v]
      seen == IF row.error = "cannot query engine" THEN [row EXCEPT !.error = None] ELSE row
      state == IF row.state = "failed" /\ ~Live(Actual(v)) THEN "failed" ELSE Actual(v)
  IN IF row.state = "creating" /\ ~Live(Actual(v))
     THEN [seen EXCEPT !.state = "failed", !.error = "interrupted"]
     ELSE [seen EXCEPT !.state = state,
             !.error = IF Actual(v) = "stopped" /\ @ \in RecoveryOwned THEN None ELSE @]

\* Mutant: only guests newly found running are restored.
NeedsRecoveryNew(v) == Live(Actual(v)) /\ ~Live(rows[v].state)

NeedsRecovery(v) ==
  /\ Live(Actual(v))
  /\ ~Live(rows[v].state) \/ rows[v].error /= None \/ ~agent.ready

\* Recovery clears its own errors, and those of a creation that was only late.
Recovered(row, was) ==
  IF was = "failed" \/ row.error \in RecoveryOwned THEN [row EXCEPT !.error = None] ELSE row

Scans(v) == Ready /\ v \in Known /\ rows[v].readable

Reconcile(v) ==
  /\ Scans(v)
  /\ LET row == Observed(v) was == rows[v].state
     IN \/ /\ was = "deleting" /\ Destroys(v)
        \/ /\ was /= "deleting" /\ NeedsRecovery(v) /\ v \notin Containers
           /\ Begin("reconcile", v, "network", row, was) /\ UNCHANGED rows
        \/ /\ was /= "deleting" /\ NeedsRecovery(v) /\ v \in Containers
           /\ Save(v, Recovered(row, was)) /\ UNCHANGED op
        \/ /\ was /= "deleting" /\ ~NeedsRecovery(v)
           /\ Save(v, row) /\ UNCHANGED op
  /\ UNCHANGED <<meta, agent, World, Budget>>

Settle ==
  /\ At("settle") /\ Finish
  /\ Save(V, Recovered(op.row, op.was))
  /\ UNCHANGED <<meta, agent, World, Budget>>

QueryFails(v) ==
  /\ Scans(v) /\ rows[v].state /= "deleting" /\ Fault
  /\ rows[v].error \in RecoveryOwned \union {None}
  /\ Save(v, [rows[v] EXCEPT !.error = "cannot query engine"])
  /\ UNCHANGED <<meta, agent, op, World, ops, crashes>>

-----------------------------------------------------------------------------
(* What happens to the host and the agent *)

GuestEnds(v) ==
  /\ live[v] /= "stopped"
  /\ live' = [live EXCEPT ![v] = "stopped"] /\ exposed' = exposed \ {v}
  /\ UNCHANGED <<Database, agent, op, held, Rules, Budget>>

Pauses(v) ==
  /\ live[v] = "running" /\ Fault /\ op.vm /= v
  /\ live' = [live EXCEPT ![v] = "paused"]
  /\ UNCHANGED <<Database, agent, op, held, Rules, exposed, ops, crashes>>

\* A row that this version cannot read, whatever its VM holds.
Damage(v) ==
  /\ Ready /\ v \in Known /\ rows[v].readable /\ Fault
  /\ Save(v, [rows[v] EXCEPT !.readable = FALSE])
  /\ UNCHANGED <<meta, agent, op, World, ops, crashes>>

Crashes == crashes < MaxCrashes /\ crashes' = crashes + 1

Crash ==
  /\ agent.phase /= "down" /\ Crashes
  /\ agent' = Down /\ op' = Idle
  /\ UNCHANGED <<Database, World, ops, faults>>

InFirewall == {"isolation", "ingress"}
Flushed(things) == held' = [v \in Vms |-> held[v] \ things]
NoRules == nat' = FALSE /\ forwards' = {} /\ denied' = {}

Reload ==
  /\ agent.phase = "down" /\ nat /\ Crashes
  /\ Flushed(InFirewall) /\ NoRules
  /\ exposed' = {v \in Vms \ Containers : live[v] /= "stopped"}
  /\ UNCHANGED <<Database, agent, op, live, ops, faults>>

Reboot ==
  /\ Crashes
  /\ agent' = Down /\ op' = Idle
  /\ Flushed(InFirewall \union {"tap"}) /\ NoRules
  /\ live' = [v \in Vms |-> "stopped"] /\ exposed' = {}
  /\ UNCHANGED <<Database, ops, faults>>

-----------------------------------------------------------------------------

Starting == Open \/ BindRuntime \/ BindNetwork
Restoring == Isolate \/ Tap \/ Unforward \/ Forward \/ ForwardFails \/ Deny \/ Ingress
Creating == Seed \/ EnsureNetwork \/ Clone \/ Fill \/ CopyFails \/ NothingToLaunch \/ Launch \/ LaunchFails
Ending == End \/ EndFails \/ Stopped
Cleaning ==
  \/ Unload \/ Unpublish \/ Release \/ Allow \/ Untap \/ Unisolate \/ RemoveDisk
  \/ CleanupFails \/ Conclude
Works == Restoring \/ Creating \/ StepFails \/ Ending \/ Cleaning \/ Settle

Calls(v) == Create(v) \/ Start(v) \/ Stop(v) \/ Destroy(v)
Events(v) == QueryFails(v) \/ GuestEnds(v) \/ Pauses(v) \/ Damage(v)

Next ==
  \/ Starting \/ Works
  \/ \E v \in Vms : Calls(v) \/ Reconcile(v) \/ Events(v)
  \/ Crash \/ Reload \/ Reboot

Spec == Init /\ [][Next]_vars

-----------------------------------------------------------------------------
(* Properties *)

States == {"absent", "creating", "running", "paused", "stopped", "failed", "deleting"}
Things == Files \union Runtimes
Row == [state : States, error : Errors, ip : Ips \union {NoIp}, ports : SUBSET AllPorts,
        readable : BOOLEAN]

\* Types. The rows, the agent and the host hold only the values Runtime gives them.
TypeOK ==
  /\ rows \in [Vms -> Row]
  /\ meta.ports \subseteq AllPorts /\ meta.runtime \in Runtimes \union {None}
  /\ agent.phase \in {"down", "open", "bound", "up"}
  /\ agent.runtime \in Runtimes \union {None} /\ agent.ready \in BOOLEAN
  /\ op.vm \in Vms \union {None} /\ op.row \in Row
  /\ held \in [Vms -> SUBSET Things]
  /\ live \in [Vms -> {"running", "paused", "stopped"}]
  /\ forwards \subseteq AllPorts \X Ips /\ denied \subseteq Ips /\ exposed \subseteq Vms

\* No two rows share an address or a host port: those of a failed creation, of a
\* deletion not finished and of an unreadable row stay reserved (runtime.rs:947).
AddressesUnique ==
  \A v, w \in Known : v /= w =>
    /\ rows[v].ports \intersect rows[w].ports = {}
    /\ rows[v].ip = rows[w].ip => rows[v].ip = NoIp

\* Whatever the host holds for a VM has a row to find it by: a disk, a seed, a
\* tap, a container, a guest, a forward to its address, a denied address.
NothingOrphaned ==
  /\ \A v \in Vms \ Known : held[v] = {} /\ live[v] = "stopped"
  /\ forwards \subseteq UNION {rows[v].ports \X {rows[v].ip} : v \in Known}
  /\ denied \subseteq {rows[v].ip : v \in Known \intersect Guarded}

\* A guest runs on its own disk, with its tap; a guarded one is isolated and its
\* address denied, unless the firewall was reloaded under it.
GuestsGuarded ==
  \A v \in Vms \ Containers : live[v] /= "stopped" =>
    /\ {"part", "tap"} \subseteq held[v]
    /\ v \in Guarded \ exposed => "isolation" \in held[v] /\ rows[v].ip \in denied

\* Guests never execute beyond the host's capacity, however creations, starts,
\* failures, deletions and scans follow each other, and disks are never promised
\* twice (runtime.rs:524).
NeverOvercommitted ==
  /\ Cardinality({v \in Vms : live[v] /= "stopped"}) <= Cpus
  /\ Cardinality(Known) <= Disks

\* While rows remain, a serving agent uses the port range their ports come from
\* and the runtime their containers were made with (runtime.rs:108, 973).
BindingsKept ==
  Up => \A v \in Known :
    /\ rows[v].ports \subseteq agent.ports
    /\ held[v] \intersect Runtimes \subseteq {agent.runtime}

\* "Partially created clones remain attached to a failed VM record for explicit,
\* retryable deletion" (docs/guest-images.md:341).
PartialStaysFailed ==
  \A v \in Vms : held[v] \intersect {"part", "disk"} = {"part"} =>
    rows[v].state \in {"creating", "failed", "deleting"} /\ live[v] = "stopped"

Served(v) ==
  /\ rows[v].ports \X {rows[v].ip} \subseteq forwards
  /\ v \in Guarded => {"isolation", "ingress"} \subseteq held[v] /\ rows[v].ip \in denied
  /\ v \notin Guarded => rows[v].ip \notin denied

\* A guest whose rules are gone or partial is never taken for one that is served:
\* the next scan restores it, whatever was interrupted and in whatever order
\* scans and requests come (runtime.rs:787).
LossNoticed ==
  \A v \in Vms \ Containers :
    Up /\ live[v] /= "stopped" /\ rows[v].readable /\ op.vm /= v =>
      Served(v) \/ NeedsRecovery(v) \/ rows[v].state = "deleting"

=============================================================================
