------------------------------- MODULE Fleet -------------------------------
(* Placement on the fleet: what the controller knows of its hosts, the plans *)
(* it commits for whole environments, and the agents that admit them one VM  *)
(* at a time. Hosts are registered, observed, detached and come back;        *)
(* requests time out and arrive late; agents restart with other tools or     *)
(* images; the controller may die between any two requests of a plan. Stops, *)
(* starts and resizes are those of EnvLifecycle.                             *)
EXTENDS Capability, Sequences, Sums

CONSTANTS Hosts, Vms, Envs,
          Members,      \* the VMs of each environment, in the order of its plan
          Specs,        \* the requests to choose a VM's from
          Facts,        \* what each host's agent may find on its host
          Sizes,        \* the size of each image
          DiskOf, MemOf,   \* capacity of each host
          DefaultDisk,  \* of a QEMU VM
          ConfigDisk,   \* of a configuration drive
          MaxDisk,      \* the largest u32
          MaxHosts,     \* of a fleet
          MaxReads,     \* observations under way at a time
          MaxFaults     \* agent restarts, controller crashes, lost or late answers

\* An agent reports the true size of an image, or none.
Spec1Type == [engine: Engines, image: DOMAIN Sizes, disk: Nat, keys: BOOLEAN, config: BOOLEAN,
              ports: BOOLEAN, egress: BOOLEAN, isolated: BOOLEAN]
IsFact(x) ==
  /\ x.engines \subseteq Engines /\ x.storage \in Storages /\ x.tags \subseteq Tags
  /\ x.backups \in BOOLEAN /\ x.report \in {"none", "known", "unknown"}
  /\ DOMAIN x.images \subseteq DOMAIN Sizes
  /\ \A i \in DOMAIN x.images : x.images[i] \in {0, Sizes[i]}
ASSUME FleetAssumption ==
  /\ IsFiniteSet(Vms) /\ "none" \notin Hosts
  /\ Members \in [Envs -> Seq(Vms) \ {<<>>}]
  /\ \A d, e \in Envs : \A i \in DOMAIN Members[d], j \in DOMAIN Members[e] :
       Members[d][i] = Members[e][j] => d = e /\ i = j
  /\ Sizes \in [DOMAIN Sizes -> Nat \ {0}] /\ Specs \subseteq Spec1Type
  /\ \A h \in Hosts : \A x \in Facts[h] : IsFact(x)
  /\ DiskOf \in [Hosts -> Nat] /\ MemOf \in [Hosts -> Nat]
  /\ DefaultDisk \in Nat \ {0} /\ ConfigDisk \in Nat /\ MaxDisk \in Nat

VARIABLES
  host,     \* what each agent finds on its host
  guest,    \* the VM rows of the agents
  table,    \* the controller's hosts
  vms,      \* its VMs: where each is planned, and by which view of the host
  step,     \* its creations under way: the request each has come to
  doomed,   \* its environments to delete
  sent,     \* the requests agents have yet to serve, where and for what
  reads,    \* observations under way
  strays,   \* requests that were under way when their host was detached
  faults

fleetVars == <<host, guest, table, vms, step, doomed, sent, reads, strays, faults>>

NoHost == [is |-> "absent"]
NoVm == [host |-> "none"]
NoRead == [is |-> "none"]

Known == {h \in Hosts : table[h].is # "absent"}
Sent == {v \in Vms : sent[v].host # "none"}
Tracked == {v \in Vms : vms[v].host # "none"}
On(h) == {v \in Tracked : vms[v].host = h}
At(h) == {v \in Vms : guest[v].host = h}
VmsOf(e) == {Members[e][i] : i \in DOMAIN Members[e]}
Creating(e) == step[e] # 0
Busy(v) == \E e \in Envs : v \in VmsOf(e) /\ Creating(e)

FleetInit ==
  /\ host \in [Hosts -> UNION {Facts[h] : h \in Hosts}] /\ \A h \in Hosts : host[h] \in Facts[h]
  /\ guest = [v \in Vms |-> NoVm] /\ vms = [v \in Vms |-> NoVm]
  /\ table = [h \in Hosts |-> NoHost] /\ reads = [h \in Hosts |-> NoRead]
  /\ step = [e \in Envs |-> 0] /\ doomed = {} /\ sent = [v \in Vms |-> NoVm] /\ strays = {} /\ faults = 0

Fault == faults < MaxFaults /\ faults' = faults + 1

-----------------------------------------------------------------------------
(* Reservations *)

ConfigDrive(spec) == IF spec.engine = "firecracker" /\ (spec.config \/ Ssh(spec)) THEN ConfigDisk ELSE 0
Memory(spec) == IF spec.engine = "firecracker" THEN 2 ELSE 1
Fitting(disk) == {d \in {disk} : d <= MaxDisk}

\* Mutant: the configuration drive is left out of the plan.
ReservationBare(spec, view) == LET base == IF spec.image \in DOMAIN view.images THEN view.images[spec.image] ELSE 0
  IN IF spec.engine \in {"docker", "jail"} THEN {0} ELSE Fitting(IF spec.disk > 0 THEN spec.disk ELSE base)

\* disk_reservation: what a VM will take of a host with these images. An image
\* whose size the agent did not report has size 0.
Reservation(spec, view) ==
  LET base == IF spec.image \in DOMAIN view.images THEN view.images[spec.image] ELSE 0
      disk == IF spec.disk > 0 THEN spec.disk
              ELSE IF spec.engine = "qemu" THEN DefaultDisk ELSE base
  IN IF spec.engine \in {"docker", "jail"} THEN {0}
     ELSE IF disk = 0 \/ disk < base THEN {} ELSE Fitting(disk + ConfigDrive(spec))

Reserves(spec, view) == CHOOSE d \in Reservation(spec, view) : TRUE

\* The request the controller makes of a spec: a QEMU disk is always named.
Request(spec) == IF spec.engine = "qemu" /\ spec.disk = 0 THEN [spec EXCEPT !.disk = DefaultDisk] ELSE spec

\* What the agent itself reserves for a request, from the image it has.
Reserved(request) ==
  LET size == Sizes[request.image]
      disk == IF request.disk = 0 THEN size ELSE request.disk
  IN IF request.engine \in {"docker", "jail"} THEN {0}
     ELSE IF request.engine = "bhyve" THEN Fitting(size)
     ELSE IF request.disk # 0 /\ request.disk < size THEN {}
     ELSE IF request.engine = "qemu" THEN {request.disk} ELSE Fitting(disk + ConfigDrive(request))

DiskIn(rows) == SumOf([v \in Vms |-> IF rows[v].host = "none" THEN 0 ELSE rows[v].disk], Vms)
MemIn(rows) == SumOf([v \in Vms |-> IF rows[v].host = "none" THEN 0 ELSE Memory(rows[v].spec)], Vms)
Among(rows, S) == [v \in Vms |-> IF v \in S THEN rows[v] ELSE NoVm]
More(a, b) == IF a >= b THEN a ELSE b

-----------------------------------------------------------------------------
(* Hosts *)

Info(h) == [is |-> "up", view |-> host[h], rows |-> Among(guest, At(h)), current |-> TRUE]
Entry(state, view, disk, mem) == [is |-> state, view |-> view, disk |-> disk, mem |-> mem]

\* register_host: a repeated registration drops no reservation.
Register(h) ==
  /\ h \in Known \/ Cardinality(Known) < MaxHosts
  /\ LET disk == DiskIn(Info(h).rows) mem == MemIn(Info(h).rows)
     IN table' = [table EXCEPT ![h] =
          IF h \in Known THEN Entry("online", host[h], More(disk, @.disk), More(mem, @.mem))
          ELSE Entry("online", host[h], disk, mem)]
  /\ UNCHANGED <<host, guest, vms, step, doomed, sent, reads, strays, faults>>

\* remove_host
Unregister(h) ==
  /\ h \in Known /\ On(h) = {}
  /\ table' = [table EXCEPT ![h] = NoHost]
  /\ UNCHANGED <<host, guest, vms, step, doomed, sent, reads, strays, faults>>

\* Every plan and detachment makes the observations under way worthless.
Outdated == reads' = [h \in Hosts |-> IF reads[h].is = "none" THEN NoRead
                                      ELSE [reads[h] EXCEPT !.current = FALSE]]

\* detach_host forgets an offline host and what it held; requests on their way
\* to it may still be served.
Detach(h) ==
  /\ table[h].is = "offline" /\ \A v \in On(h) : ~Busy(v)
  /\ vms' = [v \in Vms |-> IF v \in On(h) THEN NoVm ELSE vms[v]]
  /\ table' = [table EXCEPT ![h] = NoHost]
  /\ strays' = strays \union (Sent \intersect On(h))
  /\ Outdated
  /\ UNCHANGED <<host, guest, step, doomed, sent, faults>>

\* refresh_hosts reads the revision and asks each host.
Observe(h) ==
  /\ h \in Known /\ reads[h].is = "none"
  /\ Cardinality({g \in Hosts : reads[g].is # "none"}) < MaxReads
  /\ \/ reads' = [reads EXCEPT ![h] = Info(h)] /\ UNCHANGED faults
     \/ reads' = [reads EXCEPT ![h] = [is |-> "down", current |-> TRUE]] /\ Fault
  /\ UNCHANGED <<host, guest, table, vms, step, doomed, sent, strays>>

\* apply_snapshot: VMs the host did not show keep their reservation, and those
\* the controller does not know are counted.
Observed(h, info) ==
  LET rows == [v \in Vms |-> IF v \in On(h) THEN vms[v] ELSE info.rows[v]]
  IN Entry("online", info.view, More(DiskIn(rows), DiskIn(info.rows)), More(MemIn(rows), MemIn(info.rows)))

Apply(h) ==
  /\ reads[h].is # "none"
  /\ reads' = [reads EXCEPT ![h] = NoRead]
  /\ table' = IF ~reads[h].current \/ h \notin Known THEN table
              ELSE IF reads[h].is = "down" THEN [table EXCEPT ![h].is = "offline"]
              ELSE [table EXCEPT ![h] = Observed(h, reads[h])]
  /\ UNCHANGED <<host, guest, vms, step, doomed, sent, strays, faults>>

-----------------------------------------------------------------------------
(* Placement *)

\* Plans accepted since the last observation count too.
UsedDisk(h) == More(table[h].disk, DiskIn(Among(vms, On(h))))
UsedMem(h) == More(table[h].mem, MemIn(Among(vms, On(h))))

\* Mutant: the VMs of one plan do not count against each other.
EarlierNone(specs, places, i, h) == {}

\* schedule_env: what the plan has put on the host before its i-th VM.
Earlier(specs, places, i, h) == {j \in 1..i-1 : places[j] = h}

FreeDisk(specs, places, i, h) ==
  DiskOf[h] - UsedDisk(h)
    - SumOf([j \in Earlier(specs, places, i, h) |-> Reserves(specs[j], table[h].view)], Earlier(specs, places, i, h))
FreeMem(specs, places, i, h) ==
  MemOf[h] - UsedMem(h)
    - SumOf([j \in Earlier(specs, places, i, h) |-> Memory(specs[j])], Earlier(specs, places, i, h))

\* place_vm: the hosts that can take the i-th VM.
Candidates(specs, places, i) ==
  LET spec == specs[i]
  IN {h \in Known :
       /\ table[h].is = "online"
       /\ RequireHost(table[h].view, spec.engine, Needs(spec))
       /\ \E disk \in Reservation(spec, table[h].view) : disk <= FreeDisk(specs, places, i, h)
       /\ Memory(spec) <= FreeMem(specs, places, i, h)
       /\ spec.engine # "docker" => spec.image \in DOMAIN table[h].view.images}

\* ZFS hosts first, then those with the least memory left; a tie may go any way.
Preferred(specs, places, i, g, h) ==
  LET rank(x) == IF specs[i].engine # "docker" /\ table[x].view.storage # "zvol" THEN 1 ELSE 0
  IN \/ rank(g) < rank(h)
     \/ rank(g) = rank(h) /\ FreeMem(specs, places, i, g) < FreeMem(specs, places, i, h)

Schedules(specs) ==
  {places \in [DOMAIN specs -> Known] :
     \A i \in DOMAIN specs :
       LET candidates == Candidates(specs, places, i)
       IN /\ places[i] \in candidates
          /\ \A g \in candidates : ~Preferred(specs, places, i, g, places[i])}

Unused(v) == v \notin Tracked \union Sent /\ guest[v].host = "none"

Planned(e, specs, places) ==
  LET index(v) == CHOOSE i \in DOMAIN Members[e] : Members[e][i] = v
      row(spec, h) == [host |-> h, spec |-> spec, view |-> table[h].view,
                       disk |-> Reserves(spec, table[h].view)]
  IN [v \in Vms |-> IF v \in VmsOf(e) THEN row(specs[index(v)], places[index(v)]) ELSE vms[v]]
Joining(rows, e, h) == Among(rows, {v \in VmsOf(e) : rows[v].host = h})

\* create_environment, from the check of the name to the commit of the plan.
Plan(e) ==
  /\ ~Creating(e) /\ e \notin doomed /\ \A v \in VmsOf(e) : Unused(v)
  /\ \E specs \in [DOMAIN Members[e] -> {spec \in Specs : Valid(spec)}] :
     \E places \in Schedules(specs) : vms' = Planned(e, specs, places)
  /\ table' = [h \in Hosts |->
       IF h \notin Known THEN NoHost
       ELSE [table[h] EXCEPT !.disk = UsedDisk(h) + DiskIn(Joining(vms', e, h)),
                             !.mem = UsedMem(h) + MemIn(Joining(vms', e, h))]]
  /\ step' = [step EXCEPT ![e] = 1]
  /\ strays' = strays \ VmsOf(e)
  /\ Outdated
  /\ UNCHANGED <<host, guest, doomed, sent, faults>>

-----------------------------------------------------------------------------
(* Provisioning and deletion *)

Turn(e) == Members[e][step[e]]
Next1(e) == step' = [step EXCEPT ![e] = IF @ = Len(Members[e]) THEN 0 ELSE @ + 1]

\* finish_creation: one request after the other.
Send(e) ==
  /\ Creating(e) /\ Turn(e) \notin Sent /\ guest[Turn(e)].host = "none"
  /\ LET v == Turn(e) IN sent' = [sent EXCEPT ![v] = [host |-> vms[v].host, spec |-> vms[v].spec]]
  /\ UNCHANGED <<host, guest, table, vms, step, doomed, reads, strays, faults>>

\* The agent's own admission, from its report and its image.
Admits(h, spec) ==
  /\ \A feature \in Needs(Request(spec)) : Enabled(host[h], feature, spec.engine)
  /\ spec.engine # "docker" => spec.image \in DOMAIN host[h].images
  /\ Reserved(Request(spec)) # {}
Room(h, spec) ==
  /\ \A disk \in Reserved(Request(spec)) : DiskIn(Among(guest, At(h))) + disk <= DiskOf[h]
  /\ MemIn(Among(guest, At(h))) + Memory(spec) <= MemOf[h]

\* An agent of another version judges by its own rules.
Decides(h, spec) == IF host[h].report = "known" THEN {Admits(h, spec) /\ Room(h, spec)}
                    ELSE {FALSE, Room(h, spec) /\ Reserved(Request(spec)) # {}}

\* The agent serves a request. Its answer ends the creation's turn, unless the
\* request timed out or the controller died: then nobody waits for it. The host
\* may be detached by then.
Arrive(v) ==
  /\ v \in Sent
  /\ LET h == sent[v].host spec == sent[v].spec
     IN \E admitted \in Decides(h, spec) :
          guest' = IF admitted
                   THEN [guest EXCEPT ![v] = [host |-> h, spec |-> spec,
                                              disk |-> CHOOSE d \in Reserved(Request(spec)) : TRUE]]
                   ELSE guest
  /\ sent' = [sent EXCEPT ![v] = NoVm]
  /\ LET waiting == {e \in Envs : Creating(e) /\ Turn(e) = v}
     IN IF waiting = {} THEN UNCHANGED step ELSE \E e \in waiting : Next1(e)
  /\ UNCHANGED <<host, table, vms, doomed, reads, strays, faults>>

Timeout(e) ==
  /\ Creating(e) /\ Turn(e) \in Sent /\ Fault /\ Next1(e)
  /\ UNCHANGED <<host, guest, table, vms, doomed, sent, reads, strays>>

\* delete_environment, also by expiry; the agent serves the requests of a VM in
\* their order.
Doom(e) ==
  /\ ~Creating(e) /\ e \notin doomed /\ VmsOf(e) \intersect Tracked # {}
  /\ doomed' = doomed \union {e}
  /\ UNCHANGED <<host, guest, table, vms, step, sent, reads, strays, faults>>

Erase(e, v) ==
  /\ e \in doomed /\ v \in VmsOf(e) \intersect Tracked /\ v \notin Sent /\ vms[v].host \in Known
  /\ guest' = [guest EXCEPT ![v] = NoVm]
  /\ \/ vms' = [vms EXCEPT ![v] = NoVm] /\ UNCHANGED faults
     \/ Fault /\ UNCHANGED vms
  /\ doomed' = {d \in doomed : \E w \in VmsOf(d) : vms'[w].host # "none"}
  /\ UNCHANGED <<host, table, step, sent, reads, strays>>

-----------------------------------------------------------------------------
(* Restarts *)

Restart(h) ==
  /\ Fault
  /\ \E facts \in Facts[h] \ {host[h]} : host' = [host EXCEPT ![h] = facts]
  /\ UNCHANGED <<guest, table, vms, step, doomed, sent, reads, strays>>

CtlCrash ==
  /\ Fault
  /\ step' = [e \in Envs |-> 0] /\ reads' = [h \in Hosts |-> NoRead]
  /\ UNCHANGED <<host, guest, table, vms, doomed, sent, strays>>

FleetNext ==
  \/ \E h \in Hosts : \/ Register(h) \/ Unregister(h) \/ Detach(h)
                      \/ Observe(h) \/ Apply(h) \/ Restart(h)
  \/ \E e \in Envs : \/ Plan(e) \/ Send(e) \/ Timeout(e) \/ Doom(e)
                     \/ \E v \in Vms : Erase(e, v)
  \/ \E v \in Vms : Arrive(v)
  \/ CtlCrash

FleetSpec == FleetInit /\ [][FleetNext]_fleetVars

-----------------------------------------------------------------------------
(* Properties *)

\* What the controller has promised of a host and what its agent has given out,
\* together, stay within the host: no committed plan can be refused for room
\* because of another plan, whatever observation, registration, timeout or
\* detachment comes between (scheduler.rs:179, handler.rs:449). Only a request
\* that was under way when its host was detached may take room unseen.
Promised(h) == [v \in Vms |-> IF v \in On(h) THEN vms[v]
                              ELSE IF v \in At(h) \ strays THEN guest[v] ELSE NoVm]
PlansFit == \A h \in Hosts : DiskIn(Promised(h)) <= DiskOf[h] /\ MemIn(Promised(h)) <= MemOf[h]

\* An agent that still finds what the controller judged it by admits the VM, and
\* reserves for it what the plan did: the two sides compute the same needs and
\* the same disk, defaults, configuration drives and the width of the numbers
\* included (scheduler.rs:19, runtime.rs:228).
AdmissionAgrees ==
  \A v \in Tracked :
    LET at == vms[v].host spec == vms[v].spec
    IN /\ guest[v].host = "none" /\ host[at] = vms[v].view /\ host[at].report = "known"
       /\ spec.engine \in {"docker", "jail"} \/ host[at].images[spec.image] # 0
       => Admits(at, spec) /\ Reserved(Request(spec)) = {vms[v].disk}

-----------------------------------------------------------------------------
(* The inductive invariant behind both *)

\* What is on record: a VM's plan is one its host could take, a host's entry or
\* observation what its agent did report.
Facing(spec, view) ==
  /\ Valid(spec) /\ RequireHost(view, spec.engine, Needs(spec))
  /\ spec.engine # "docker" => spec.image \in DOMAIN view.images
IsPlanned(x) ==
  /\ x.host \in Hosts /\ x.spec \in Specs /\ x.view \in Facts[x.host]
  /\ Facing(x.spec, x.view) /\ x.disk \in Reservation(x.spec, x.view)
IsEntry(x, h) == x \in [is : {"online", "offline"}, view : Facts[h], disk : Nat, mem : Nat]
GuestRows == [Vms -> {NoVm} \union [host : Hosts, spec : Specs, disk : Nat]]
IsRead(x, h) ==
  \/ x = NoRead \/ x \in [is : {"down"}, current : BOOLEAN]
  \/ x \in [is : {"up"}, view : Facts[h], rows : GuestRows, current : BOOLEAN]
FleetType ==
  /\ DOMAIN host = Hosts /\ \A h \in Hosts : host[h] \in Facts[h]
  /\ guest \in GuestRows
  /\ DOMAIN vms = Vms /\ \A v \in Vms : vms[v] = NoVm \/ IsPlanned(vms[v])
  /\ DOMAIN table = Hosts /\ \A h \in Hosts : table[h] = NoHost \/ IsEntry(table[h], h)
  /\ sent \in [Vms -> {NoVm} \union [host : Hosts, spec : Specs]]
  /\ DOMAIN reads = Hosts /\ \A h \in Hosts : IsRead(reads[h], h)
  /\ step \in [Envs -> Nat] /\ strays \subseteq Vms

\* A VM is planned for one host, which is known, and asked for and found there only.
FleetLinks ==
  /\ \A v \in Tracked : /\ vms[v].host \in Known /\ v \notin strays
                         /\ guest[v].host \in {"none", vms[v].host}
  /\ \A v \in Sent :
       /\ guest[v].host = "none"
       /\ v \notin strays => vms[v].host = sent[v].host /\ vms[v].spec = sent[v].spec
  /\ \A e \in Envs : Creating(e) =>
       e \notin doomed /\ step[e] \in DOMAIN Members[e] /\ VmsOf(e) \subseteq Tracked

\* Agents keep within their hosts; the record of a host counts all that is promised of it,
\* and so does an observation that is still current.
FleetFits ==
  /\ \A h \in Hosts : /\ DiskIn(Among(guest, At(h))) <= DiskOf[h]
                       /\ MemIn(Among(guest, At(h))) <= MemOf[h]
  /\ \A h \in Known : /\ DiskIn(Promised(h)) <= table[h].disk
                       /\ MemIn(Promised(h)) <= table[h].mem
  /\ \A h \in Hosts : reads[h].is = "up" /\ reads[h].current =>
       \A v \in At(h) \ (Tracked \union strays) : reads[h].rows[v] = guest[v]
  /\ PlansFit

FleetInv == FleetType /\ FleetLinks /\ FleetFits
=============================================================================
